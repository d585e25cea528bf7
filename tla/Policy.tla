------------------------------- MODULE Policy -------------------------------
(***************************************************************************)
(* The policy of a namespace: which AuthContext may read and which may     *)
(* write.  A role is the set of its SubjectMatchers (compilePolicy keeps a *)
(* list, but any matcher of it may allow).  A pattern stands for the set   *)
(* of values its anchored regex matches; a claim for its rendered value.   *)
(***************************************************************************)
CONSTANTS
    Unset,   \* an empty field of a matcher or of an AuthContext
    Broken   \* a pattern that does not compile

ASSUME PatternAssumption == Unset \notin {Broken, "oidc", "anonymous"}

Populated(m) ==
    \/ m.issuer # Unset \/ m.sub # Unset \/ m.email # Unset
    \/ DOMAIN m.claims # {} \/ m.kind # Unset

\* compileMatcher: a matcher without fields, a reserved or an unknown kind, an
\* empty claim key and a pattern that does not compile are refused.
Compiles(m) ==
    /\ Populated(m)
    /\ m.kind \in {Unset, "oidc", "anonymous"}
    /\ m.sub # Broken
    /\ \A key \in DOMAIN m.claims : key # Unset /\ m.claims[key] # Broken

ValidPolicy(p) == \A m \in p.readers \cup p.writers : Compiles(m)

\* The kind a compiled matcher asks for.
KindOf(m) == IF m.kind = Unset THEN "oidc" ELSE m.kind

\* compiledMatcher.matches: every populated field must match.
Matches(m, ac) ==
    /\ ac.kind = KindOf(m)
    /\ m.issuer # Unset => m.issuer = ac.issuer
    /\ m.sub # Unset => ac.id \in m.sub
    /\ m.email # Unset => m.email = ac.email
    /\ \A key \in DOMAIN m.claims :
          key \in DOMAIN ac.claims /\ ac.claims[key] \in m.claims[key]

Role(p, op) == IF op = "read" THEN p.readers ELSE p.writers

\* compiledPolicy.Authorize: reads consult the readers only, writes the writers.
Authorizes(p, ac, op) == \E m \in Role(p, op) : Matches(m, ac)
=============================================================================
