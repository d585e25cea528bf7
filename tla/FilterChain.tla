----------------------------- MODULE FilterChain -----------------------------
(***************************************************************************)
(* The ordered filter chain of a proxied namespace (package filter): which *)
(* downloads it allows, denies, or cannot decide without a publish time.   *)
(*                                                                         *)
(* A glob stands for the set of names it matches, so a field that a rule   *)
(* leaves empty is the set of all names.  A reason only reaches a log.     *)
(***************************************************************************)
EXTENDS Naturals, Sequences

CONSTANTS
    Packages,
    Versions,
    Unknown     \* the age of an artifact whose publish time is not known

ASSUME UnknownAssumption == Unknown \notin Nat

Kinds == {"allow", "deny", "delay"}

Rules == [package : SUBSET Packages, version : SUBSET Versions]

Filters == [kind : Kinds, patterns : SUBSET (SUBSET Packages), rules : SUBSET Rules, minAge : Nat]

Refs == [package : Packages, version : Versions, age : Nat \cup {Unknown}]

\* Compile: an allow or deny matches something and has no age, a delay only has an age.
Valid(f) ==
    \/ f.kind \in {"allow", "deny"} /\ (f.patterns # {} \/ f.rules # {}) /\ f.minAge = 0
    \/ f.kind = "delay" /\ f.patterns = {} /\ f.rules = {} /\ f.minAge > 0

MatchRule(rule, ref) == ref.package \in rule.package /\ ref.version \in rule.version

Matches(f, ref) ==
    \/ \E glob \in f.patterns : ref.package \in glob
    \/ \E rule \in f.rules : MatchRule(rule, ref)

\* What a filter says of an artifact it does not abstain on.
Verdict(f, ref) ==
    IF f.kind # "delay" THEN f.kind
    ELSE IF ref.age = Unknown THEN "metadata"
    ELSE IF ref.age >= f.minAge THEN "allow" ELSE "deny"

Abstains(f, ref) == f.kind # "delay" /\ ~Matches(f, ref)

LastDecides(chain, ref) ==
    LET deciders == {i \in DOMAIN chain : ~Abstains(chain[i], ref)}
    IN  IF deciders = {} THEN "allow"
        ELSE Verdict(chain[CHOOSE i \in deciders : \A j \in deciders : j <= i], ref)

\* DecideAt: the first filter that does not abstain decides; the default is to allow.
Decide(chain, ref) ==
    LET deciders == {i \in DOMAIN chain : ~Abstains(chain[i], ref)}
    IN  IF deciders = {} THEN "allow"
        ELSE Verdict(chain[CHOOSE i \in deciders : \A j \in deciders : i <= j], ref)
=============================================================================
