---------------------------- MODULE DebianProofs ----------------------------
(* Proofs about Debian and the filter chain it asks, for any chain, any      *)
(* number of indexes, contents and downloads.                                *)
EXTENDS Debian, WellFoundedInduction, TLAPS

\* A filter decides as the first that does not abstain.
Decides(c, ref, i) ==
    /\ i \in DOMAIN c /\ ~Abstains(c[i], ref)
    /\ \A j \in DOMAIN c : ~Abstains(c[j], ref) => i <= j

LEMMA Least ==
    ASSUME NEW S, S \subseteq Nat, S # {}
    PROVE  \E i \in S : \A j \in S : i <= j
<1>1. PICK i \in S : \A j \in S : <<j, i>> \notin OpToRel(<, Nat)
  BY NatLessThanWellFounded, WFMin
<1>2. \A j \in S : ~(j < i)
  BY <1>1 DEF OpToRel
<1> QED BY <1>2

LEMMA FirstDecides ==
    ASSUME NEW c \in Seq(Filters), NEW ref,
           \E i \in DOMAIN c : ~Abstains(c[i], ref)
    PROVE  \E i : Decides(c, ref, i) /\ Decide(c, ref) = Verdict(c[i], ref)
<1> DEFINE deciders == {i \in DOMAIN c : ~Abstains(c[i], ref)}
           first == CHOOSE i \in deciders : \A j \in deciders : i <= j
<1>1. deciders \subseteq Nat /\ deciders # {}
  OBVIOUS
<1>2. \E i \in deciders : \A j \in deciders : i <= j
  BY <1>1, Least
<1>3. first \in deciders /\ \A j \in deciders : first <= j
  BY <1>2
<1>4. Decide(c, ref) = Verdict(c[first], ref)
  BY <1>1 DEF Decide
<1>5. Decides(c, ref, first)
  BY <1>3 DEF Decides
<1> QED BY <1>4, <1>5

\* Without an age a filter allows only if that is its kind.
LEMMA AllowedByAnAllow ==
    ASSUME NEW f, NEW ref, ref.age = Unknown, Verdict(f, ref) = "allow"
    PROVE  f.kind = "allow"
<1>1. CASE f.kind = "delay"
  BY <1>1 DEF Verdict
<1>2. CASE f.kind # "delay"
  BY <1>2 DEF Verdict
<1> QED BY <1>1, <1>2

LEMMA SeqMembers ==
    ASSUME NEW T, NEW S, S \subseteq T, NEW c \in Seq(S)
    PROVE  c \in Seq(T) /\ \A i \in DOMAIN c : c[i] \in S
OBVIOUS

\* What a chain allows without knowing an age, none of its filters stops: before a
\* deny that matches and before a delay there is an allow that matches.
LEMMA AllowedIsAdmitted ==
    ASSUME chain \in Chains, Decide(chain, Ref) = "allow"
    PROVE  Admitted
<1> DEFINE Good == {f \in Filters : Valid(f)}
<1>0. chain \in Seq(Good)
  BY ChainsAssumption
<1> HIDE DEF Good
<1>1. chain \in Seq(Filters)
  BY <1>0, SeqMembers DEF Good
<1> SUFFICES ASSUME NEW i \in DOMAIN chain, Stops(chain[i])
             PROVE  \E j \in 1..(i - 1) : chain[j].kind = "allow" /\ Matches(chain[j], Ref)
  BY DEF Admitted
<1>3. ~Abstains(chain[i], Ref)
  BY DEF Stops, Abstains
<1>4. PICK j : Decides(chain, Ref, j) /\ Decide(chain, Ref) = Verdict(chain[j], Ref)
  BY <1>1, <1>3, FirstDecides
<1>5. j \in DOMAIN chain /\ j <= i
  BY <1>3, <1>4 DEF Decides
<1>6. Verdict(chain[j], Ref) = "allow"
  BY <1>4
<1>7. chain[j].kind = "allow"
  BY <1>6, RefAssumption, AllowedByAnAllow
<1>8. Matches(chain[j], Ref)
  BY <1>4, <1>7 DEF Decides, Abstains
<1>9. j # i
  BY <1>7 DEF Stops
<1> QED BY <1>1, <1>5, <1>7, <1>8, <1>9
-----------------------------------------------------------------------------
\* What brings a download to its step: which path it asks for, and what the chain or
\* the store has said of it.
StepInv(r) ==
    /\ rpc[r] \in {"look", "open", "filter", "parents"} => want[r] = Pool
    /\ rpc[r] = "cached" => want[r] # Pool
    /\ rpc[r] = "tee" => got[r] # None
    /\ rpc[r] = "parents" => stored[Pool] # None
    /\ mode = "proxy" /\ want[r] = Pool =>
           /\ rpc[r] = "fetch" /\ ~head[r] => Admitted
           /\ got[r] # None => Admitted

AdmitInv ==
    /\ \A r \in Requests : StepInv(r)
    /\ mode = "proxy" /\ stored[Pool] # None => Admitted
    /\ records # {} => stored[Pool] # None

\* A download that is due stays on the steps that end in what is stored, unless the
\* store fails it.
DueInv(r) ==
    /\ mode # "proxy" => rpc[r] \notin {"negative", "filter", "fetch", "tee", "parents"}
    /\ rpc[r] \notin Answers => ~broken[r]
    /\ due[r] => stored[want[r]] # None
    /\ due[r] /\ ~broken[r] =>
           /\ rpc[r] # "unavailable"
           /\ want[r] = Pool => rpc[r] \in {"look", "open", "served", "failed"}
           /\ mode # "proxy" => rpc[r] \in {"look", "open", "cached", "served", "failed"}
-----------------------------------------------------------------------------
\* Every reachable state is well typed.
THEOREM TypeCorrect == Spec => []TypeOK
<1>1. Init => TypeOK
  BY PoolAssumption DEF Init, TypeOK, Paths, Steps, Answers
<1>2. TypeOK /\ [Next]_vars => TypeOK'
  <2> SUFFICES ASSUME TypeOK, [Next]_vars
               PROVE  TypeOK'
    OBVIOUS
  <2> USE DEF TypeOK, Steps, Answers, Goto, Paths, spaceVars, upstreamVars, requestVars
  <2>1. ASSUME NEW x \in Paths, Offer(x) \/ NegativeExpires(x)
        PROVE  TypeOK'
    BY <2>1 DEF Offer, NegativeExpires
  <2>2. ASSUME NEW x \in Indexes, Publish(x)
        PROVE  TypeOK'
    BY <2>2 DEF Publish
  <2>3. CASE Restart
    BY <2>3 DEF Restart
  <2>4. ASSUME NEW r \in Requests, Get(r)
        PROVE  TypeOK'
    <3>1. CASE Begin(r)
      BY <3>1 DEF Begin, FirstStep
    <3>2. CASE Look(r) \/ LookNegative(r) \/ Filter(r) \/ FetchFails(r) \/ Break(r)
      BY <3>2 DEF Look, LookNegative, Filter, FetchFails, Break
    <3>3. CASE Open(r) \/ ServeCached(r)
      BY <3>3 DEF Open, ServeCached, Serve
    <3>4. CASE Fetch(r)
      BY <3>4 DEF Fetch, Serve
    <3>5. CASE Tee(r)
      BY <3>5 DEF Tee, Filled
    <3>6. CASE RecordParents(r)
      BY <3>6 DEF RecordParents
    <3> QED BY <2>4, <3>1, <3>2, <3>3, <3>4, <3>5, <3>6 DEF Get
  <2>5. CASE UNCHANGED vars
    BY <2>5 DEF vars
  <2> QED BY <2>1, <2>2, <2>3, <2>4, <2>5 DEF Next
<1> QED BY <1>1, <1>2, PTL DEF Spec

LEMMA AdmitStep ==
    ASSUME TypeOK, AdmitInv, [Next]_vars
    PROVE  AdmitInv'
<1> USE PoolAssumption, NoneAssumption DEF TypeOK, AdmitInv, StepInv, Steps, Answers, Goto, Paths,
        spaceVars, upstreamVars, requestVars, Admitted
<1>1. ASSUME NEW x \in Paths, Offer(x) \/ NegativeExpires(x)
      PROVE  AdmitInv'
  BY <1>1 DEF Offer, NegativeExpires
<1>2. ASSUME NEW x \in Indexes, Publish(x)
      PROVE  AdmitInv'
  BY <1>2 DEF Publish
<1>3. CASE Restart
  BY <1>3 DEF Restart
<1>4. ASSUME NEW r \in Requests, Get(r)
      PROVE  AdmitInv'
  <2>1. CASE Begin(r)
    BY <2>1 DEF Begin, FirstStep
  <2>2. CASE Look(r) \/ LookNegative(r) \/ FetchFails(r) \/ Break(r)
    BY <2>2 DEF Look, LookNegative, FetchFails, Break
  <2>3. CASE Filter(r)
    BY <2>3, AllowedIsAdmitted DEF Filter
  <2>4. CASE Open(r) \/ ServeCached(r)
    BY <2>4 DEF Open, ServeCached, Serve
  <2>5. CASE Fetch(r)
    BY <2>5 DEF Fetch, Serve
  <2>6. CASE Tee(r)
    BY <2>6 DEF Tee, Filled
  <2>7. CASE RecordParents(r)
    BY <2>7 DEF RecordParents
  <2> QED BY <1>4, <2>1, <2>2, <2>3, <2>4, <2>5, <2>6, <2>7 DEF Get
<1>5. CASE UNCHANGED vars
  BY <1>5 DEF vars
<1> QED BY <1>1, <1>2, <1>3, <1>4, <1>5 DEF Next

LEMMA DueStep ==
    ASSUME TypeOK, AdmitInv, \A r \in Requests : DueInv(r), [Next]_vars
    PROVE  \A r \in Requests : DueInv(r)'
<1> USE PoolAssumption, NoneAssumption DEF TypeOK, DueInv, Steps, Answers, Goto, Paths,
        spaceVars, upstreamVars, requestVars
<1> SUFFICES ASSUME NEW q \in Requests
             PROVE  DueInv(q)'
  OBVIOUS
<1>1. ASSUME NEW x \in Paths, Offer(x) \/ NegativeExpires(x)
      PROVE  DueInv(q)'
  BY <1>1 DEF Offer, NegativeExpires
<1>2. ASSUME NEW x \in Indexes, Publish(x)
      PROVE  DueInv(q)'
  BY <1>2 DEF Publish
<1>3. CASE Restart
  BY <1>3 DEF Restart
<1>4. ASSUME NEW r \in Requests, Get(r)
      PROVE  DueInv(q)'
  <2>1. CASE Begin(r)
    <3>1. PICK x \in Paths : /\ want' = [want EXCEPT ![r] = x]
                             /\ due' = [due EXCEPT ![r] = stored[x] # None]
                             /\ rpc' = [rpc EXCEPT ![r] = FirstStep(x)]
      BY <2>1 DEF Begin
    <3>2. /\ stored' = stored /\ mode' = mode
          /\ broken' = [broken EXCEPT ![r] = FALSE]
      BY <2>1 DEF Begin
    <3>3. CASE q = r
      BY <3>1, <3>2, <3>3 DEF FirstStep
    <3>4. CASE q # r
      BY <3>1, <3>2, <3>4
    <3> QED BY <3>3, <3>4
  <2>2. CASE Look(r) \/ LookNegative(r) \/ Filter(r) \/ FetchFails(r) \/ Break(r)
    BY <2>2 DEF Look, LookNegative, Filter, FetchFails, Break, AdmitInv, StepInv
  <2>3. CASE Open(r) \/ ServeCached(r)
    BY <2>3 DEF Open, ServeCached, Serve, AdmitInv, StepInv
  <2>4. CASE Fetch(r)
    BY <2>4 DEF Fetch, Serve
  <2>5. CASE Tee(r)
    BY <2>5 DEF Tee, Filled, AdmitInv, StepInv
  <2>6. CASE RecordParents(r)
    BY <2>6 DEF RecordParents, AdmitInv, StepInv
  <2> QED BY <1>4, <2>1, <2>2, <2>3, <2>4, <2>5, <2>6 DEF Get
<1>5. CASE UNCHANGED vars
  BY <1>5 DEF vars
<1> QED BY <1>1, <1>2, <1>3, <1>4, <1>5 DEF Next

LEMMA Invariant == Spec => [](TypeOK /\ AdmitInv /\ \A r \in Requests : DueInv(r))
<1>1. Init => AdmitInv /\ \A r \in Requests : DueInv(r)
  BY PoolAssumption DEF Init, AdmitInv, StepInv, DueInv, Paths
<1>2. TypeOK /\ AdmitInv /\ (\A r \in Requests : DueInv(r)) /\ [Next]_vars
      => AdmitInv' /\ (\A r \in Requests : DueInv(r))'
  BY AdmitStep, DueStep
<1> QED BY <1>1, <1>2, TypeCorrect, PTL DEF Spec

\* No pool file that the chain does not admit is ever stored in a proxied namespace or
\* sent to a client (allow, streamAndCache, recordParents).
THEOREM NothingUnadmitted == Spec => []OnlyAdmittedIsStored
<1>1. AdmitInv => OnlyAdmittedIsStored
  BY DEF AdmitInv, StepInv, OnlyAdmittedIsStored
<1> QED BY <1>1, Invariant, PTL

\* A download of what was stored when it began, and that the store does not fail, is
\* never told that upstream is unavailable, whatever upstream does, nor that a pool file
\* or anything hosted is missing (serveArtifact, serveIndex, serveLocal).
THEOREM StoredIsAlwaysServed == Spec => []StoredIsServed
<1>1. (\A r \in Requests : DueInv(r)) => StoredIsServed
  BY DEF DueInv, StoredIsServed
<1> QED BY <1>1, Invariant, PTL
=============================================================================
