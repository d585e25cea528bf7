------------------------------- MODULE MCProxy -------------------------------
(* Instances of Proxy for TLC: a file with a plain name, and one whose name   *)
(* escaping changes, with its escaped form.                                   *)
EXTENDS Proxy, TLC

CONSTANTS r1, r2, plain, odd, escaped

MCFiles == {plain, odd, escaped}
MCEscape == plain :> plain @@ odd :> escaped @@ escaped :> None
MCWanted == r1 :> MCFiles \cup {Index} @@ r2 :> {Index}
MCPackages == {<<"pypi", {plain}>>, <<"npm", {plain}>>, <<"npm", {odd, escaped}>>}
=============================================================================
