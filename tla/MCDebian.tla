------------------------------ MODULE MCDebian ------------------------------
(* Instances of Debian for TLC.                                              *)
EXTENDS Debian, TLC

Filter_(kind, patterns, rules, age) ==
    [kind |-> kind, patterns |-> patterns, rules |-> rules, minAge |-> age]

AllowIt == Filter_("allow", {{"hello"}}, {}, 0)
DenyIt == Filter_("deny", {}, {[package |-> Packages, version |-> {"1"}]}, 0)
DenyOther == Filter_("deny", {{"world"}}, {[package |-> {"hello"}, version |-> {"2"}]}, 0)
Delay == Filter_("delay", {}, {}, 1)

\* No filter, each alone, each pair that decides in order, and abstention before each.
MCChains == {<<>>, <<DenyIt>>, <<Delay>>, <<AllowIt, DenyIt>>, <<DenyIt, AllowIt>>,
             <<DenyOther, Delay>>, <<AllowIt, Delay>>, <<Delay, AllowIt>>, <<DenyOther, AllowIt>>}

MCRef == [package |-> "hello", version |-> "1", age |-> Unknown]

Symmetry == Permutations(Requests) \cup Permutations(Bodies)
=============================================================================
