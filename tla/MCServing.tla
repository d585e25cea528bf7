----------------------------- MODULE MCServing -----------------------------
(***************************************************************************)
(* Two connections, two issuers of which the first has outages, and a      *)
(* policy in each of the shapes the admin API takes: by issuer and subject,*)
(* by email, for everyone of an issuer, and for anonymous subjects.        *)
(***************************************************************************)
EXTENDS Serving
CONSTANTS ci, other, alice

MCIssuers == <<ci, other>>
MCUnstable == {1}

NoClaims == [key \in {} |-> alice]

Claim(iss, verified, genuine) ==
    [iss |-> iss, sub |-> alice, email |-> alice, verified |-> verified,
     claims |-> NoClaims, genuine |-> genuine]

\* The second may write by its email; the others' is unverified, or forged.
MCTokens == {Claim(ci, FALSE, TRUE), Claim(ci, TRUE, FALSE), Claim(other, TRUE, TRUE)}

Matcher == [issuer |-> Unset, sub |-> Unset, email |-> Unset, claims |-> NoClaims, kind |-> Unset]

MCPolicy ==
    [readers |-> {[Matcher EXCEPT !.issuer = ci, !.sub = {alice}],
                  [Matcher EXCEPT !.kind = "anonymous"]},
     writers |-> {[Matcher EXCEPT !.email = alice]}]

MCPolicies == {MCPolicy}

\* Requests for packages and probes share the process and nothing else.
MCTraffic == {{"packages"}, {"probes"}}
=============================================================================
