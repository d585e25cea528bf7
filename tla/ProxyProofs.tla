---------------------------- MODULE ProxyProofs ----------------------------
(* Proofs about Proxy, for any number of replicas, requests and files and    *)
(* for both surfaces.                                                        *)
EXTENDS Proxy, TLAPS

Working == {"remember", "resolve", "again", "filter", "stream", "tee", "parents"}

\* A flight is led by a request of its process.
FlightInv == \A p \in Processes : flight[p] # None => proc[flight[p]] = p

\* The file names that escaping leaves as they are.
PlainFiles == {f \in Files : Escape[f] = f}

\* An index of our own making lists of those only what is stored.
Backs(index) == index.own => index.files \cap PlainFiles \subseteq local

Sound(index) == index # None /\ Backs(index)

\* What the bucket and the memos hold; an index of our own making is never saved.
BucketInv ==
    /\ described \subseteq local
    /\ snapshot # None => ~snapshot.own
    /\ \A p \in Processes : memo[p] # None => Backs(memo[p])

\* The index and the file a request works with.
IndexInv(r) ==
    /\ rpc[r] = "save" => idx[r] # None /\ ~idx[r].own
    /\ rpc[r] \in Working => Sound(idx[r])
    /\ rpc[r] = "again" => want[r] \in idx[r].files
    /\ rpc[r] \in {"filter", "stream", "tee"} /\ idx[r].own => want[r] \notin PlainFiles
    /\ rpc[r] \in {"filter", "stream", "tee", "parents"} => want[r] \in Files
    /\ rpc[r] = "parents" => want[r] \in local

\* What a flight found in the store when it began does not go away, and who waits was
\* promised what its leader was.
OwedInv(r) ==
    /\ rpc[r] \in Loading /\ owed[r] => CouldFallBack
    /\ rpc[r] = "synthesize" /\ owed[r] /\ ~gone[r] /\ ~flaky[r] => Listable # {}
    /\ rpc[r] = "join" => (owed[r] <=> owed[flight[proc[r]]])

IInv ==
    /\ TypeOK
    /\ OneFlight /\ FlightInv
    /\ BucketInv
    /\ \A r \in Requests : IndexInv(r) /\ OwedInv(r)
    /\ NegativeIsLatest
-----------------------------------------------------------------------------
\* What is listed under a plain name is stored under it: no other name escapes to it.
LEMMA ListableIsBacked ==
    ASSUME TypeOK, BucketInv, NEW found \in SUBSET Listable
    PROVE  /\ Listable \subseteq Files
           /\ [files |-> found, own |-> TRUE] \in Indexes
           /\ Sound([files |-> found, own |-> TRUE])
<1> USE DEF TypeOK, BucketInv
<1>1. Listable \subseteq Files
  BY EscapeAssumption DEF Listable
<1>2. [files |-> found, own |-> TRUE] \in Indexes
  BY <1>1 DEF Indexes
<1>3. found \cap PlainFiles \subseteq local
  <2> SUFFICES ASSUME NEW f \in found, f \in Files, Escape[f] = f PROVE f \in local
    BY DEF PlainFiles
  <2>1. CASE flavour = "npm"
    <3>1. PICK g \in described : Escape[g] = f
      BY <2>1 DEF Listable
    <3>2. g = f
      BY <3>1, EscapeAssumption
    <3> QED
      BY <3>1, <3>2
  <2>2. CASE flavour # "npm"
    BY <2>2 DEF Listable
  <2> QED
    BY <2>1, <2>2
<1> QED
  BY <1>1, <1>2, <1>3, NoneAssumption DEF Sound, Backs

\* The steps of a request fall into three kinds: it goes on alone, it enters a flight,
\* or the flight it leads ends.
Acts(r) == Serve(r) \/ Stall(r) \/ Resume(r)

Moves(r) ==
    /\ rpc[r] # "join" /\ rpc'[r] # "join"
    /\ rpc'[r] \in Loading <=> rpc[r] \in Loading
    /\ \A q \in Requests \ {r} : rpc'[q] = rpc[q] /\ idx'[q] = idx[q]
    /\ UNCHANGED <<flight, proc, want, gone, flaky, owed>>

Delivers(r) ==
    /\ rpc[r] \in Loading
    /\ \E step \in {"remember", "missing", "unavailable"}, index \in Indexes \cup {None} :
          Deliver(r, step, index) /\ (step = "remember" => Sound(index))
    /\ UNCHANGED <<proc, want>>

LEMMA Kinds ==
    ASSUME TypeOK, BucketInv, NEW r \in Requests, IndexInv(r), Acts(r)
    PROVE  Moves(r) \/ Enter(r) \/ Delivers(r)
<1> USE DEF TypeOK, Moves, Goto, Reach, MissingFile, Steps, Loading, Asking, Answers, bucketVars, upstreamVars
<1>1. CASE LookLocal(r) BY <1>1 DEF LookLocal
<1>2. CASE LookNegative(r) BY <1>2 DEF LookNegative
<1>3. CASE LookMemo(r) BY <1>3 DEF LookMemo
<1>4. CASE LookNegativeIndex(r) BY <1>4 DEF LookNegativeIndex
<1>5. CASE Enter(r) BY <1>5
<1>6. CASE Recheck(r)
  <2>1. CASE memo[proc[r]] # None
    BY <1>6, <2>1 DEF Recheck, Delivers, BucketInv, Sound, Backs
  <2>2. CASE memo[proc[r]] = None
    BY <1>6, <2>2 DEF Recheck
  <2> QED
    BY <2>1, <2>2
<1>7. CASE ServeFresh(r)
  <2>1. CASE snapshot # None /\ Deliver(r, "remember", snapshot)
    BY <1>7, <2>1 DEF ServeFresh, Delivers, BucketInv, Sound, Backs
  <2>2. CASE Goto(r, "fetch") /\ UNCHANGED <<idx, flight, gone, flaky, owed>>
    BY <1>7, <2>2 DEF ServeFresh
  <2> QED
    BY <1>7, <2>1, <2>2 DEF ServeFresh
<1>8. CASE Fetch(r)
  <2>1. CASE upstream # {}
    BY <1>8, <2>1 DEF Fetch
  <2>2. CASE upstream = {}
    BY <1>8, <2>2 DEF Fetch, Delivers
  <2> QED
    BY <2>1, <2>2
<1>9. CASE FetchFails(r) BY <1>9 DEF FetchFails
<1>10. CASE Save(r)
  BY <1>10 DEF Save, Delivers, IndexInv, Sound, Backs
<1>11. CASE FallBack(r)
  <2>1. CASE CanFallBack(r)
    BY <1>11, <2>1 DEF FallBack, CanFallBack, Delivers, BucketInv, Sound, Backs
  <2>2. CASE ~CanFallBack(r)
    BY <1>11, <2>2 DEF FallBack
  <2> QED
    BY <2>1, <2>2
<1>12. CASE Synthesize(r)
  <2>1. CASE Deliver(r, "unavailable", None)
    BY <1>12, <2>1 DEF Synthesize, Delivers
  <2>2. ASSUME NEW found \in SUBSET Listable, Deliver(r, "remember", [files |-> found, own |-> TRUE])
        PROVE  Delivers(r)
    BY <1>12, <2>2, ListableIsBacked DEF Synthesize, Delivers
  <2> QED
    BY <1>12, <2>1, <2>2 DEF Synthesize
<1>13. CASE Remember(r) BY <1>13 DEF Remember
<1>14. CASE Resolve(r) BY <1>14 DEF Resolve
<1>15. CASE LookAgain(r) BY <1>15 DEF LookAgain
<1>16. CASE Filter(r) BY <1>16 DEF Filter
<1>17. CASE Stream(r) BY <1>17 DEF Stream
<1>18. CASE Break(r) BY <1>18 DEF Break
<1>19. CASE Tee(r) BY <1>19 DEF Tee
<1>20. CASE RecordParents(r) BY <1>20 DEF RecordParents
<1>21. CASE Stall(r) BY <1>21 DEF Stall
<1>22. CASE Resume(r) BY <1>22 DEF Resume
<1> QED
  BY <1>1, <1>2, <1>3, <1>4, <1>5, <1>6, <1>7, <1>8, <1>9, <1>10, <1>11, <1>12, <1>13, <1>14, <1>15, <1>16,
     <1>17, <1>18, <1>19, <1>20, <1>21, <1>22 DEF Acts, Serve, LookUp

\* The steps of the environment leave every request where it is.
Environment ==
    \/ \E f \in Files : Release(f) \/ Withdraw(f)
    \/ Toggle \/ SnapshotAges
    \/ \E p \in Processes : MemoExpires(p) \/ NegativeExpires(p)
    \/ \E r \in Requests : Leave(r) \/ StoreFalters(r)

LEMMA EnvironmentLeavesRequests ==
    ASSUME Environment
    PROVE  /\ UNCHANGED <<flavour, snapshot, local, described, lastFetch>>
           /\ UNCHANGED <<flight, rpc, proc, want, idx, owed>>
  BY DEF Environment, Release, Withdraw, Toggle, SnapshotAges, MemoExpires, NegativeExpires, Leave, StoreFalters,
         bucketVars, upstreamVars

\* A process has one flight at a time, and its leader is one of its requests.
LEMMA FlightStep ==
    ASSUME IInv, Next
    PROVE  OneFlight' /\ FlightInv'
<1>1. TypeOK /\ OneFlight /\ FlightInv
  BY DEF IInv
<1> USE <1>1, NoneAssumption
<1>2. CASE Environment
  BY <1>2, EnvironmentLeavesRequests DEF OneFlight, FlightInv
<1>3. ASSUME NEW r \in Requests, Begin(r) PROVE OneFlight' /\ FlightInv'
  <2>1. /\ flight' = flight
        /\ \A q \in Requests \ {r} : rpc'[q] = rpc[q] /\ proc'[q] = proc[q]
        /\ rpc'[r] \notin Loading \cup {"join"}
        /\ rpc[r] \notin Loading \cup {"join"}
    BY <1>3 DEF Begin, TypeOK, Goto, Loading, Asking, Answers
  <2>2. \A p \in Processes : flight[p] # r
    BY <2>1 DEF OneFlight, FlightInv
  <2>3. proc'[r] \in Processes
    BY <1>3 DEF Begin, TypeOK
  <2> QED
    BY <2>1, <2>2, <2>3 DEF OneFlight, FlightInv, TypeOK
<1>4. ASSUME NEW r \in Requests, Acts(r) PROVE OneFlight' /\ FlightInv'
  <2>0. BucketInv /\ IndexInv(r)
    BY DEF IInv
  <2>1. CASE Moves(r)
    BY <2>1 DEF Moves, Goto, OneFlight, FlightInv, TypeOK
  <2>2. CASE Enter(r)
    BY <2>2 DEF Enter, FlightTaken, Goto, OneFlight, FlightInv, TypeOK, Loading, Asking
  <2>3. CASE Delivers(r)
    BY <2>3 DEF Delivers, Deliver, Party, OneFlight, FlightInv, TypeOK, Loading, Asking
  <2> QED
    BY <1>4, <2>0, <2>1, <2>2, <2>3, Kinds
<1> QED
  BY <1>2, <1>3, <1>4 DEF Next, Environment, Acts

\* Nothing that is stored is ever taken away.
LEMMA StoreGrows ==
    ASSUME IInv, Next
    PROVE  /\ flavour' = flavour
           /\ local \subseteq local'
           /\ Listable # {} => Listable' # {}
           /\ snapshot # None => snapshot' # None
<1>1. TypeOK
  BY DEF IInv
<1> USE DEF Listable
<1>2. CASE Environment
  BY <1>2, EnvironmentLeavesRequests
<1>3. ASSUME NEW r \in Requests, Begin(r)
      PROVE  UNCHANGED <<flavour, local, described, snapshot>>
  BY <1>3 DEF Begin, bucketVars, upstreamVars
<1>4. ASSUME NEW r \in Requests, Acts(r)
      PROVE  /\ flavour' = flavour
             /\ local \subseteq local'
             /\ Listable # {} => Listable' # {}
             /\ snapshot # None => snapshot' # None
  <2>1. CASE Save(r)
    <3>1. idx[r] # None
      BY <2>1 DEF Save, IInv, IndexInv
    <3> QED
      BY <2>1, <3>1 DEF Save, upstreamVars
  <2>2. CASE Tee(r)
    <3>1. UNCHANGED <<flavour, described, snapshot>> /\ local \subseteq local'
      BY <2>2 DEF Tee, upstreamVars
    <3> QED
      BY <3>1
  <2>3. CASE RecordParents(r)
    <3>1. UNCHANGED <<flavour, local, snapshot>>
      BY <2>3 DEF RecordParents, upstreamVars
    <3>2. CASE described' = described
      BY <3>1, <3>2
    <3>3. CASE described' # described
      <4>1. flavour = "npm" /\ want[r] \in described' /\ Escape[want[r]] # None
        BY <2>3, <3>3 DEF RecordParents
      <4>2. Escape[want[r]] \in Listable'
        BY <3>1, <4>1
      <4> QED
        BY <3>1, <4>2
    <3> QED
      BY <3>2, <3>3
  <2>4. CASE ~(Save(r) \/ Tee(r) \/ RecordParents(r))
    <3>1. UNCHANGED <<flavour, local, described, snapshot>>
      BY <1>4, <2>4 DEF Acts, Serve, LookUp, Stall, Resume, LookLocal, LookNegative, LookMemo, LookNegativeIndex,
         Enter, Recheck, ServeFresh, Fetch, FetchFails, FallBack, Synthesize, Remember, Resolve, LookAgain, Filter,
         Stream, Break, bucketVars, upstreamVars
    <3> QED
      BY <3>1
  <2> QED
    BY <2>1, <2>2, <2>3, <2>4
<1> QED
  BY <1>2, <1>3, <1>4 DEF Next, Environment, Acts

\* Only indexes that upstream answered with are saved, and only sound ones remembered.
LEMMA BucketStep ==
    ASSUME IInv, Next
    PROVE  BucketInv'
<1>1. TypeOK /\ BucketInv
  BY DEF IInv
<1>2. CASE Environment
  <2>1. \A p \in Processes : memo'[p] # None => memo'[p] = memo[p]
    BY <1>1, <1>2 DEF Environment, Release, Withdraw, Toggle, SnapshotAges, MemoExpires, NegativeExpires, Leave,
       StoreFalters, TypeOK
  <2> QED
    BY <1>1, <1>2, <2>1, EnvironmentLeavesRequests DEF BucketInv, Backs
<1>3. ASSUME NEW r \in Requests, Begin(r) PROVE BucketInv'
  BY <1>1, <1>3 DEF Begin, BucketInv, Backs, bucketVars
<1>4. ASSUME NEW r \in Requests, Acts(r) PROVE BucketInv'
  <2>0. IndexInv(r) /\ local \subseteq local'
    BY <1>4, StoreGrows DEF IInv, Next
  <2>1. CASE Save(r)
    BY <1>1, <2>0, <2>1 DEF Save, BucketInv, IndexInv, Backs
  <2>2. CASE Tee(r)
    BY <1>1, <2>0, <2>2 DEF Tee, BucketInv, Backs
  <2>3. CASE RecordParents(r)
    BY <1>1, <2>0, <2>3 DEF RecordParents, BucketInv, IndexInv, Backs
  <2>4. CASE Remember(r)
    BY <1>1, <2>0, <2>4 DEF Remember, BucketInv, IndexInv, Sound, Backs, Working, TypeOK, bucketVars
  <2>5. CASE ~(Save(r) \/ Tee(r) \/ RecordParents(r) \/ Remember(r))
    <3>1. UNCHANGED <<snapshot, local, described, memo>>
      BY <1>4, <2>5 DEF Acts, Serve, LookUp, Stall, Resume, LookLocal, LookNegative, LookMemo, LookNegativeIndex,
         Enter, Recheck, ServeFresh, Fetch, FetchFails, FallBack, Synthesize, Resolve, LookAgain, Filter, Stream,
         Break, bucketVars
    <3> QED
      BY <1>1, <3>1 DEF BucketInv, Backs
  <2> QED
    BY <2>1, <2>2, <2>3, <2>4, <2>5
<1> QED
  BY <1>2, <1>3, <1>4 DEF Next, Environment, Acts

\* A request keeps a sound index as long as it works with it.
LEMMA IndexStep ==
    ASSUME IInv, Next
    PROVE  \A q \in Requests : IndexInv(q)'
<1>1. TypeOK /\ BucketInv /\ OneFlight /\ \A q \in Requests : IndexInv(q)
  BY DEF IInv
<1>2. local \subseteq local'
  BY StoreGrows
<1>3. ASSUME NEW q \in Requests, UNCHANGED <<rpc[q], idx[q], want[q]>> PROVE IndexInv(q)'
  BY <1>1, <1>2, <1>3 DEF IndexInv, Sound, Backs
<1>4. CASE Environment
  BY <1>3, <1>4, EnvironmentLeavesRequests
<1>5. ASSUME NEW r \in Requests, Begin(r) PROVE \A q \in Requests : IndexInv(q)'
  <2>1. IndexInv(r)'
    BY <1>1, <1>5 DEF Begin, Goto, TypeOK, IndexInv, Working
  <2>2. \A q \in Requests \ {r} : UNCHANGED <<rpc[q], idx[q], want[q]>>
    BY <1>1, <1>5 DEF Begin, Goto, TypeOK
  <2> QED
    BY <1>3, <2>1, <2>2
<1>6. ASSUME NEW r \in Requests, Acts(r) PROVE \A q \in Requests : IndexInv(q)'
  <2>1. CASE Moves(r)
    <3>1. \A q \in Requests \ {r} : UNCHANGED <<rpc[q], idx[q], want[q]>>
      BY <2>1 DEF Moves
    <3>2. IndexInv(r)'
      <4> USE <1>1, <1>2, <2>1, NoneAssumption DEF TypeOK, IndexInv, Sound, Backs, Working, Goto, Reach, Moves, Answers,
             Loading, Asking
      <4>1. CASE LookLocal(r) BY <4>1 DEF LookLocal
      <4>2. CASE LookNegative(r) BY <4>2 DEF LookNegative
      <4>3. CASE LookMemo(r) BY <4>3 DEF LookMemo, BucketInv
      <4>4. CASE LookNegativeIndex(r) BY <4>4 DEF LookNegativeIndex
      <4>5. CASE Recheck(r) \/ ServeFresh(r) \/ FallBack(r) \/ FetchFails(r) \/ Stall(r) \/ Resume(r)
        <5>1. rpc'[r] \notin Working \cup {"save"}
          BY <4>5 DEF Recheck, ServeFresh, FallBack, FetchFails, Stall, Resume, Deliver, Party
        <5> QED
          BY <5>1
      <4>6. CASE Fetch(r)
        <5>1. CASE upstream # {}
          <6>1. [files |-> upstream, own |-> FALSE] \in Indexes
            BY DEF Indexes, Sources
          <6>2. idx'[r] = [files |-> upstream, own |-> FALSE] /\ rpc'[r] = "save"
            BY <4>6, <5>1 DEF Fetch
          <6>3. idx'[r] # None
            BY <6>1, <6>2
          <6>4. idx'[r].own = FALSE
            BY <6>2
          <6> QED
            BY <6>2, <6>3, <6>4
        <5>2. CASE upstream = {}
          BY <4>6, <5>2 DEF Fetch, Deliver, Party
        <5> QED
          BY <5>1, <5>2
      <4>7. CASE Save(r) BY <4>7 DEF Save, Deliver, Party
      <4>8. CASE Synthesize(r) BY <4>8 DEF Synthesize, Deliver, Party
      <4>9. CASE Remember(r) BY <4>9 DEF Remember
      <4>10. CASE Resolve(r)
        <5>1. want'[r] = want[r] /\ idx[r] # None /\ Backs(idx[r])
          BY <4>10 DEF Resolve
        <5>2. CASE rpc'[r] \in Answers
          BY <5>2
        <5>3. CASE rpc'[r] \notin Answers
          <6>1. /\ want[r] # Index /\ HasSource(r) /\ idx' = idx
                /\ rpc'[r] = IF flavour = "npm" THEN "again" ELSE "filter"
            BY <4>10, <5>3 DEF Resolve, MissingFile
          <6>2. want[r] \in Files
            BY <6>1
          <6>3. CASE flavour = "npm"
            BY <5>1, <6>1, <6>2, <6>3 DEF HasSource
          <6>4. CASE flavour # "npm"
            BY <5>1, <6>1, <6>2, <6>4 DEF HasSource
          <6> QED
            BY <6>3, <6>4
        <5> QED
          BY <5>2, <5>3
      <4>11. CASE LookAgain(r)
        <5>1. /\ idx[r] # None /\ want[r] \in idx[r].files /\ Backs(idx[r])
              /\ want'[r] = want[r]
          BY <4>11 DEF LookAgain
        <5>2. want[r] \in Files
          <6>1. idx[r] \in Indexes
            BY <5>1
          <6> QED
            BY <5>1, <6>1 DEF Indexes
        <5>3. CASE want[r] \in local
          BY <4>11, <5>3 DEF LookAgain
        <5>4. CASE want[r] \notin local
          <6>1. rpc'[r] = "filter" /\ idx' = idx
            BY <4>11, <5>4 DEF LookAgain
          <6> QED
            BY <5>1, <5>2, <5>4, <6>1
        <5> QED
          BY <5>3, <5>4
      <4>12. CASE Filter(r) BY <4>12 DEF Filter
      <4>13. CASE Stream(r) BY <4>13 DEF Stream, MissingFile
      <4>14. CASE Break(r) BY <4>14 DEF Break
      <4>15. CASE Tee(r) BY <4>15 DEF Tee
      <4>16. CASE RecordParents(r) BY <4>16 DEF RecordParents
      <4>17. CASE Enter(r) BY <4>17 DEF Enter
      <4> QED
        BY <1>6, <4>1, <4>2, <4>3, <4>4, <4>5, <4>6, <4>7, <4>8, <4>9, <4>10, <4>11, <4>12, <4>13, <4>14, <4>15,
           <4>16, <4>17 DEF Acts, Serve, LookUp
    <3> QED
      BY <1>3, <3>1, <3>2
  <2>2. CASE Enter(r)
    <3>1. \A q \in Requests \ {r} : UNCHANGED <<rpc[q], idx[q], want[q]>>
      BY <1>1, <2>2 DEF Enter, Goto, TypeOK
    <3>2. IndexInv(r)'
      BY <1>1, <2>2 DEF Enter, Goto, TypeOK, IndexInv, Working
    <3> QED
      BY <1>3, <3>1, <3>2
  <2>3. CASE Delivers(r)
    <3>1. PICK step \in {"remember", "missing", "unavailable"}, index \in Indexes \cup {None} :
              Deliver(r, step, index) /\ (step = "remember" => Sound(index))
      BY <2>3 DEF Delivers
    <3>2. ASSUME NEW q \in Party(r) PROVE IndexInv(q)'
      <4>1. q \in Requests /\ rpc'[q] = step /\ idx'[q] = index
        BY <3>1, <3>2 DEF Deliver, Party
      <4> QED
        BY <1>2, <3>1, <4>1 DEF IndexInv, Working, Sound, Backs
    <3>3. ASSUME NEW q \in Requests \ Party(r) PROVE UNCHANGED <<rpc[q], idx[q], want[q]>>
      BY <2>3, <3>1 DEF Deliver, Delivers
    <3> QED
      BY <1>3, <3>2, <3>3
  <2> QED
    BY <1>1, <1>6, <2>1, <2>2, <2>3, Kinds
<1> QED
  BY <1>4, <1>5, <1>6 DEF Next, Environment, Acts

\* The end of a flight keeps the types.
LEMMA DeliverTypes ==
    ASSUME TypeOK, NEW r \in Requests, NEW step \in Steps, NEW index \in Indexes \cup {None},
           Deliver(r, step, index)
    PROVE  /\ rpc' \in [Requests -> Steps]
           /\ idx' \in [Requests -> Indexes \cup {None}]
           /\ flight' \in [Processes -> Requests \cup {None}]
           /\ gone' \in [Requests -> BOOLEAN] /\ flaky' \in [Requests -> BOOLEAN]
           /\ owed' \in [Requests -> BOOLEAN]
<1>1. rpc' \in [Requests -> Steps] /\ idx' \in [Requests -> Indexes \cup {None}]
  BY DEF TypeOK, Deliver
<1>2. /\ flight' \in [Processes -> Requests \cup {None}]
      /\ gone' \in [Requests -> BOOLEAN] /\ flaky' \in [Requests -> BOOLEAN]
  BY DEF TypeOK, Deliver
<1>3. owed' \in [Requests -> BOOLEAN]
  BY Zenon DEF TypeOK, Deliver
<1> QED
  BY <1>1, <1>2, <1>3

LEMMA TypeStep ==
    ASSUME IInv, Next
    PROVE  TypeOK'
<1>1. TypeOK
  BY DEF IInv
<1> USE DEF bucketVars, upstreamVars
<1>2. CASE Environment
  <2> USE <1>1 DEF TypeOK
  <2>1. ASSUME NEW f \in Files, Release(f) \/ Withdraw(f) PROVE TypeOK'
    BY <2>1 DEF Release, Withdraw
  <2>2. CASE Toggle
    BY <2>2 DEF Toggle
  <2>3. CASE SnapshotAges
    BY <2>3 DEF SnapshotAges
  <2>4. ASSUME NEW p \in Processes, MemoExpires(p) PROVE TypeOK'
    BY <2>4 DEF MemoExpires
  <2>5. ASSUME NEW p \in Processes, NegativeExpires(p) PROVE TypeOK'
    BY <2>5 DEF NegativeExpires
  <2>6. ASSUME NEW r \in Requests, Leave(r) \/ StoreFalters(r) PROVE TypeOK'
    BY <2>6 DEF Leave, StoreFalters
  <2> QED
    BY <1>2, <2>1, <2>2, <2>3, <2>4, <2>5, <2>6 DEF Environment
<1>3. ASSUME NEW r \in Requests, Begin(r) PROVE TypeOK'
  BY <1>1, <1>3 DEF TypeOK, Begin, Goto, Steps
<1>4. ASSUME NEW r \in Requests, Acts(r) PROVE TypeOK'
  <2>0. IndexInv(r)
    BY DEF IInv
  <2>1. "remember" \in Steps /\ "missing" \in Steps /\ "unavailable" \in Steps
    BY DEF Steps, Answers
  <2> USE <1>1
  <2>2. CASE LookLocal(r) BY <2>2 DEF TypeOK, LookLocal, Goto, Steps, Answers
  <2>3. CASE LookNegative(r) BY <2>3 DEF TypeOK, LookNegative, Goto, Steps, Answers
  <2>4. CASE LookMemo(r) BY <2>4 DEF TypeOK, LookMemo, Goto, Steps
  <2>5. CASE LookNegativeIndex(r) BY <2>5 DEF TypeOK, LookNegativeIndex, Goto, Steps, Answers
  <2>6. CASE Enter(r)
    <3>1. CouldFallBack \in BOOLEAN
      BY DEF CouldFallBack
    <3>2. CASE ~FlightTaken(r)
      <4>1. owed' = [owed EXCEPT ![r] = CouldFallBack]
        BY <2>6, <3>2 DEF Enter
      <4>2. owed' \in [Requests -> BOOLEAN]
        BY <3>1, <4>1, Zenon DEF TypeOK
      <4> QED
        BY <2>6, <3>2, <4>2 DEF TypeOK, Enter, Goto, Steps, Loading, Asking
    <3>3. CASE FlightTaken(r)
      <4>1. owed' = [owed EXCEPT ![r] = owed[flight[proc[r]]]]
        BY <2>6, <3>3 DEF Enter
      <4>2. flight[proc[r]] \in Requests
        BY <3>3 DEF FlightTaken, TypeOK
      <4>3. owed[flight[proc[r]]] \in BOOLEAN
        BY <4>2 DEF TypeOK
      <4>4. owed' \in [Requests -> BOOLEAN]
        BY <4>1, <4>3, Zenon DEF TypeOK
      <4> QED
        BY <2>6, <3>3, <4>4 DEF TypeOK, Enter, Goto, Steps
    <3> QED
      BY <3>2, <3>3
  <2>7. CASE Recheck(r)
    <3>1. CASE Deliver(r, "remember", memo[proc[r]])
      <4>1. memo[proc[r]] \in Indexes \cup {None}
        BY DEF TypeOK
      <4> QED
        BY <2>1, <2>7, <3>1, <4>1, DeliverTypes DEF TypeOK, Recheck
    <3>2. CASE ~Deliver(r, "remember", memo[proc[r]])
      BY <2>7, <3>2 DEF TypeOK, Recheck, Goto, Steps, Loading, Asking
    <3> QED
      BY <3>1, <3>2
  <2>8. CASE ServeFresh(r)
    <3>1. CASE Deliver(r, "remember", snapshot)
      <4>1. snapshot \in Indexes \cup {None}
        BY DEF TypeOK
      <4> QED
        BY <2>1, <2>8, <3>1, <4>1, DeliverTypes DEF TypeOK, ServeFresh
    <3>2. CASE ~Deliver(r, "remember", snapshot)
      BY <2>8, <3>2 DEF TypeOK, ServeFresh, Goto, Steps, Loading, Asking
    <3> QED
      BY <3>1, <3>2
  <2>9. CASE Fetch(r)
    <3>1. CASE upstream # {}
      <4>1. [files |-> upstream, own |-> FALSE] \in Indexes
        BY DEF TypeOK, Indexes, Sources
      <4> QED
        BY <2>9, <3>1, <4>1 DEF TypeOK, Fetch, Goto, Steps, Loading, Asking
    <3>2. CASE upstream = {}
      <4>1. Deliver(r, "missing", None)
        BY <2>9, <3>2 DEF Fetch
      <4>2. negIndex' \subseteq Processes /\ lastFetch' \in [Processes -> {"none", "ok", "404"}]
        BY <2>9, <3>2 DEF TypeOK, Fetch
      <4> QED
        BY <2>1, <2>9, <3>2, <4>1, <4>2, DeliverTypes DEF TypeOK, Fetch
    <3> QED
      BY <3>1, <3>2
  <2>10. CASE FetchFails(r) BY <2>10 DEF TypeOK, FetchFails, Goto, Steps, Loading, Asking
  <2>11. CASE Save(r)
    <3>1. idx[r] \in Indexes \cup {None}
      BY DEF TypeOK
    <3>2. Deliver(r, "remember", idx[r])
      BY <2>11 DEF Save
    <3>3. snapshot' \in Indexes \cup {None} /\ young' \in BOOLEAN
      BY <2>11, <3>1 DEF TypeOK, Save
    <3>4. negIndex' \subseteq Processes /\ lastFetch' \in [Processes -> {"none", "ok", "404"}]
      BY <2>11 DEF TypeOK, Save
    <3> QED
      BY <2>1, <2>11, <3>1, <3>2, <3>3, <3>4, DeliverTypes DEF TypeOK, Save
  <2>12. CASE FallBack(r)
    <3>1. CASE Deliver(r, "remember", snapshot)
      <4>1. snapshot \in Indexes \cup {None}
        BY DEF TypeOK
      <4> QED
        BY <2>1, <2>12, <3>1, <4>1, DeliverTypes DEF TypeOK, FallBack
    <3>2. CASE ~Deliver(r, "remember", snapshot)
      BY <2>12, <3>2 DEF TypeOK, FallBack, Goto, Steps, Loading, Asking
    <3> QED
      BY <3>1, <3>2
  <2>13. CASE Synthesize(r)
    <3>1. BucketInv
      BY DEF IInv
    <3>2. \A found \in SUBSET Listable : [files |-> found, own |-> TRUE] \in Indexes
      BY <3>1, ListableIsBacked
    <3>3. \E step \in Steps, index \in Indexes \cup {None} : Deliver(r, step, index)
      BY <2>1, <2>13, <3>2 DEF Synthesize
    <3> QED
      BY <2>13, <3>3, DeliverTypes DEF TypeOK, Synthesize
  <2>14. CASE Remember(r) BY <2>14 DEF TypeOK, Remember, Goto, Steps
  <2>15. CASE Resolve(r) BY <2>15 DEF TypeOK, Resolve, MissingFile, Reach, Goto, Steps, Answers
  <2>16. CASE LookAgain(r) BY <2>16 DEF TypeOK, LookAgain, Reach, Goto, Steps, Answers
  <2>17. CASE Filter(r) BY <2>17 DEF TypeOK, Filter, Reach, Goto, Steps, Answers
  <2>18. CASE Stream(r) BY <2>0, <2>18 DEF TypeOK, IndexInv, Stream, MissingFile, Reach, Goto, Steps, Answers
  <2>19. CASE Break(r) BY <2>19 DEF TypeOK, Break, Reach, Goto, Steps, Answers
  <2>20. CASE Tee(r) BY <2>0, <2>20 DEF TypeOK, IndexInv, Tee, Reach, Goto, Steps, Answers
  <2>21. CASE RecordParents(r)
    BY <2>0, <2>21 DEF TypeOK, IndexInv, RecordParents, Reach, Goto, Steps, Answers
  <2>22. CASE Stall(r) BY <2>22 DEF TypeOK, Stall, Goto, Steps, Loading, Asking
  <2>23. CASE Resume(r) BY <2>23 DEF TypeOK, Resume, Goto, Steps, Loading, Asking
  <2> QED
    BY <1>4, <2>2, <2>3, <2>4, <2>5, <2>6, <2>7, <2>8, <2>9, <2>10, <2>11, <2>12, <2>13, <2>14, <2>15, <2>16, <2>17,
       <2>18, <2>19, <2>20, <2>21, <2>22, <2>23 DEF Acts, Serve, LookUp
<1> QED
  BY <1>2, <1>3, <1>4 DEF Next, Environment, Acts

\* What a flight was promised is there until it ends.
LEMMA OwedStep ==
    ASSUME IInv, Next
    PROVE  \A q \in Requests : OwedInv(q)'
<1>1. TypeOK /\ BucketInv /\ OneFlight /\ FlightInv /\ \A q \in Requests : IndexInv(q) /\ OwedInv(q)
  BY DEF IInv
<1>2. (CouldFallBack => CouldFallBack') /\ (Listable # {} => Listable' # {})
  BY StoreGrows DEF CouldFallBack
<1>3. ASSUME NEW q \in Requests, UNCHANGED <<rpc[q], owed[q], gone[q], flaky[q]>>,
             rpc[q] = "join" => owed'[flight'[proc'[q]]] = owed[flight[proc[q]]]
      PROVE  OwedInv(q)'
  BY <1>1, <1>2, <1>3 DEF OwedInv
<1>4. ASSUME NEW q \in Requests, rpc[q] = "join"
      PROVE  /\ proc[q] \in Processes /\ flight[proc[q]] \in Requests
             /\ rpc[flight[proc[q]]] \in Loading /\ proc[flight[proc[q]]] = proc[q]
  BY <1>1, <1>4 DEF TypeOK, OneFlight, FlightInv
<1>5. CASE Environment
  <2>1. \A q \in Requests : (gone[q] => gone'[q]) /\ (flaky[q] => flaky'[q])
    BY <1>1, <1>5 DEF TypeOK, Environment, Release, Withdraw, Toggle, SnapshotAges, MemoExpires, NegativeExpires,
       Leave, StoreFalters
  <2> QED
    BY <1>1, <1>2, <1>5, <2>1, EnvironmentLeavesRequests DEF OwedInv
<1>6. ASSUME NEW r \in Requests, Begin(r) PROVE \A q \in Requests : OwedInv(q)'
  <2>1. OwedInv(r)'
    BY <1>1, <1>6 DEF TypeOK, Begin, Goto, OwedInv, Loading, Asking
  <2>2. ASSUME NEW q \in Requests \ {r}
        PROVE UNCHANGED <<rpc[q], owed[q], gone[q], flaky[q], proc[q]>> /\ UNCHANGED <<flight, owed>>
    BY <1>1, <1>6 DEF TypeOK, Begin, Goto
  <2> QED
    BY <1>3, <2>1, <2>2
<1>7. ASSUME NEW r \in Requests, Acts(r) PROVE \A q \in Requests : OwedInv(q)'
  <2>1. CASE Moves(r)
    <3>1. ASSUME NEW q \in Requests \ {r}
          PROVE  UNCHANGED <<rpc[q], owed[q], gone[q], flaky[q], proc[q]>> /\ UNCHANGED <<flight, owed>>
      BY <2>1 DEF Moves
    <3>2. rpc'[r] = "synthesize" => FallBack(r) /\ (~CanFallBack(r) \/ flaky[r])
      BY <1>1, <1>7, <2>1 DEF TypeOK, Moves, Loading, Asking, Acts, Serve, LookUp, Stall, Resume, LookLocal,
         LookNegative, LookMemo, LookNegativeIndex, Enter, Recheck, ServeFresh, Fetch, FetchFails, Save, FallBack,
         Synthesize, Remember, Resolve, LookAgain, Filter, Stream, Break, Tee, RecordParents, Goto, Reach,
         MissingFile, Deliver, Party
    <3>4. OwedInv(r)'
      <4>1. UNCHANGED <<owed[r], gone[r], flaky[r]>> /\ rpc'[r] # "join" /\ (rpc'[r] \in Loading <=> rpc[r] \in Loading)
        BY <2>1 DEF Moves
      <4>2. rpc[r] \in Loading /\ owed[r] => CouldFallBack
        BY <1>1 DEF OwedInv
      <4>3. rpc'[r] \in Loading /\ owed'[r] => CouldFallBack'
        BY <1>2, <4>1, <4>2
      <4>4. ASSUME rpc'[r] = "synthesize", owed[r], ~gone[r], ~flaky[r] PROVE Listable' # {}
        <5>1. snapshot = None /\ rpc[r] \in Loading
          BY <3>2, <4>4 DEF FallBack, CanFallBack, Loading, Asking
        <5> QED
          BY <1>2, <4>2, <4>4, <5>1 DEF CouldFallBack
      <4> QED
        BY <4>1, <4>3, <4>4 DEF OwedInv
    <3> QED
      BY <1>3, <3>1, <3>4
  <2>2. CASE Enter(r)
    <3>1. rpc[r] = "enter" /\ UNCHANGED <<gone, flaky, proc>>
      BY <2>2 DEF Enter
    <3>2. CASE ~FlightTaken(r)
      <4>1. /\ rpc' = [rpc EXCEPT ![r] = "recheck"]
            /\ flight' = [flight EXCEPT ![proc[r]] = r]
            /\ owed' = [owed EXCEPT ![r] = CouldFallBack]
        BY <2>2, <3>2 DEF Enter, Goto
      <4>2. OwedInv(r)'
        BY <1>1, <1>2, <4>1 DEF TypeOK, OwedInv, Loading, Asking
      <4>3. ASSUME NEW q \in Requests \ {r} PROVE OwedInv(q)'
        <5>1. UNCHANGED <<rpc[q], owed[q], gone[q], flaky[q]>>
          BY <1>1, <3>1, <4>1 DEF TypeOK
        <5>2. rpc[q] = "join" => proc[q] # proc[r] /\ flight[proc[q]] # r
          BY <1>4, <3>1, <3>2, <4>3, NoneAssumption DEF FlightTaken, Loading, Asking
        <5>3. rpc[q] = "join" => owed'[flight'[proc'[q]]] = owed[flight[proc[q]]]
          BY <1>1, <1>4, <3>1, <4>1, <5>2 DEF TypeOK
        <5> QED
          BY <1>3, <5>1, <5>3
      <4> QED
        BY <4>2, <4>3
    <3>3. CASE FlightTaken(r)
      <4>1. /\ rpc' = [rpc EXCEPT ![r] = "join"]
            /\ flight' = flight
            /\ owed' = [owed EXCEPT ![r] = owed[flight[proc[r]]]]
        BY <2>2, <3>3 DEF Enter, Goto
      <4>2. flight[proc[r]] \in Requests \ {r}
        BY <1>1, <3>1, <3>3 DEF TypeOK, FlightTaken, OneFlight, Loading, Asking
      <4>3. OwedInv(r)'
        BY <1>1, <3>1, <4>1, <4>2 DEF TypeOK, OwedInv, Loading, Asking
      <4>4. ASSUME NEW q \in Requests \ {r} PROVE OwedInv(q)'
        <5>1. UNCHANGED <<rpc[q], owed[q], gone[q], flaky[q]>>
          BY <1>1, <3>1, <4>1 DEF TypeOK
        <5>2. rpc[q] = "join" => flight[proc[q]] # r
          BY <1>4, <3>1 DEF Loading, Asking
        <5>3. rpc[q] = "join" => owed'[flight'[proc'[q]]] = owed[flight[proc[q]]]
          BY <1>1, <1>4, <3>1, <4>1, <5>2 DEF TypeOK
        <5> QED
          BY <1>3, <5>1, <5>3
      <4> QED
        BY <4>3, <4>4
    <3> QED
      BY <3>2, <3>3
  <2>3. CASE Delivers(r)
    <3>1. PICK step \in {"remember", "missing", "unavailable"}, index \in Indexes \cup {None} : Deliver(r, step, index)
      BY <2>3 DEF Delivers
    <3>2. proc' = proc /\ rpc[r] \in Loading
      BY <2>3 DEF Delivers
    <3>3. ASSUME NEW q \in Party(r) PROVE OwedInv(q)'
      <4>1. q \in Requests /\ rpc'[q] = step
        BY <3>1, <3>3 DEF Deliver, Party
      <4> QED
        BY <4>1 DEF OwedInv, Loading, Asking
    <3>4. ASSUME NEW q \in Requests \ Party(r) PROVE OwedInv(q)'
      <4>1. q # r /\ (rpc[q] = "join" => proc[q] # proc[r])
        BY <3>4 DEF Party
      <4>2. rpc'[q] = rpc[q] /\ gone'[q] = gone[q] /\ flaky'[q] = flaky[q] /\ owed'[q] = owed[q]
        BY <1>1, <3>1, <3>4, <4>1 DEF Deliver, TypeOK
      <4>3. rpc[q] = "join" => /\ flight'[proc'[q]] = flight[proc[q]]
                              /\ flight[proc[q]] \in Requests \ Party(r)
        BY <1>1, <1>4, <3>1, <3>2, <4>1 DEF Deliver, TypeOK, Party, Loading, Asking
      <4>4. rpc[q] = "join" => owed'[flight'[proc'[q]]] = owed[flight[proc[q]]]
        BY <1>1, <3>1, <4>3 DEF Deliver, TypeOK
      <4> QED
        BY <1>3, <4>2, <4>4
    <3> QED
      BY <3>3, <3>4
  <2> QED
    BY <1>1, <1>7, <2>1, <2>2, <2>3, Kinds
<1> QED
  BY <1>5, <1>6, <1>7 DEF Next, Environment, Acts

\* A negative entry is made by a 404 and dropped by the next success.
LEMMA NegativeStep ==
    ASSUME IInv, Next
    PROVE  NegativeIsLatest'
<1>1. TypeOK /\ NegativeIsLatest
  BY DEF IInv
<1>2. CASE Environment
  <2>1. negIndex' \subseteq negIndex
    BY <1>2 DEF Environment, Release, Withdraw, Toggle, SnapshotAges, MemoExpires, NegativeExpires, Leave,
       StoreFalters
  <2> QED
    BY <1>1, <1>2, <2>1, EnvironmentLeavesRequests DEF NegativeIsLatest
<1>3. ASSUME NEW r \in Requests, Begin(r) PROVE NegativeIsLatest'
  BY <1>1, <1>3 DEF Begin, NegativeIsLatest
<1>4. ASSUME NEW r \in Requests, Acts(r) PROVE NegativeIsLatest'
  <2>1. CASE Fetch(r)
    BY <1>1, <2>1 DEF Fetch, NegativeIsLatest, TypeOK
  <2>2. CASE Save(r)
    BY <1>1, <2>2 DEF Save, NegativeIsLatest, TypeOK
  <2>3. CASE ~(Fetch(r) \/ Save(r))
    BY <1>1, <1>4, <2>3 DEF NegativeIsLatest, Acts, Serve, LookUp, Stall, Resume, LookLocal, LookNegative, LookMemo,
       LookNegativeIndex, Enter, Recheck, ServeFresh, FetchFails, FallBack, Synthesize, Remember, Resolve,
       LookAgain, Filter, Stream, Break, Tee, RecordParents
  <2> QED
    BY <2>1, <2>2, <2>3
<1> QED
  BY <1>2, <1>3, <1>4 DEF Next, Environment, Acts

LEMMA Invariance == Spec => []IInv
<1>1. Init => IInv
  <2> SUFFICES ASSUME Init PROVE IInv
    OBVIOUS
  <2>1. TypeOK
    BY PackagesAssumption DEF Init, TypeOK, Steps
  <2>2. OneFlight /\ FlightInv
    BY NoneAssumption DEF Init, OneFlight, FlightInv, Loading, Asking
  <2>3. BucketInv /\ NegativeIsLatest
    BY DEF Init, BucketInv, NegativeIsLatest
  <2>4. \A r \in Requests : IndexInv(r) /\ OwedInv(r)
    BY DEF Init, IndexInv, OwedInv, Working, Loading, Asking
  <2> QED
    BY <2>1, <2>2, <2>3, <2>4 DEF IInv
<1>2. IInv /\ [Next]_vars => IInv'
  <2> SUFFICES ASSUME IInv, [Next]_vars PROVE IInv'
    OBVIOUS
  <2>1. CASE UNCHANGED vars
    <3>1. TypeOK'
      BY <2>1 DEF vars, IInv, TypeOK
    <3>2. OneFlight' /\ FlightInv' /\ BucketInv' /\ NegativeIsLatest'
      BY <2>1 DEF vars, IInv, OneFlight, FlightInv, BucketInv, Backs, NegativeIsLatest
    <3>3. \A r \in Requests : IndexInv(r)' /\ OwedInv(r)'
      BY <2>1 DEF vars, IInv, IndexInv, Sound, Backs, OwedInv, CouldFallBack, Listable
    <3> QED
      BY <3>1, <3>2, <3>3 DEF IInv
  <2>2. CASE Next
    BY <2>2, TypeStep, FlightStep, BucketStep, IndexStep, OwedStep, NegativeStep DEF IInv
  <2> QED
    BY <2>1, <2>2
<1> QED
  BY <1>1, <1>2, PTL DEF Spec
-----------------------------------------------------------------------------
\* The variables hold what the proxy engines, the negative cache and the flights hold.
THEOREM TypeCorrect == Spec => []TypeOK
<1>1. IInv => TypeOK
  BY DEF IInv
<1> QED
  BY <1>1, Invariance, PTL

\* Group.Do: one load of an index at a time in each process.
THEOREM OneFlightAtATime == Spec => []OneFlight
<1>1. IInv => OneFlight
  BY DEF IInv
<1> QED
  BY <1>1, Invariance, PTL

\* neg.Mark and neg.Delete are in step with the loads: a 404 is remembered only while
\* it is how the last of them ended.
THEOREM NegativeEntriesAreLatest == Spec => []NegativeIsLatest
<1>1. IInv => NegativeIsLatest
  BY DEF IInv
<1> QED
  BY <1>1, Invariance, PTL

\* download and tarball never fetch through an entry of a synthesized index.
THEOREM NoFetchFromSelf == Spec => []NeverFetchesFromSelf
<1>1. IInv => NeverFetchesFromSelf
  BY DEF IInv, IndexInv, PlainFiles, NeverFetchesFromSelf
<1> QED
  BY <1>1, Invariance, PTL

\* fallbackIndex and fallbackPackument give up only where there was nothing to fall
\* back to when the flight began.
THEOREM FallsBack == Spec => FallsBackToStore
<1>1. IInv /\ [Next]_vars =>
        [\A r, q \in Requests :
           /\ rpc[r] = "synthesize" /\ rpc'[r] = "unavailable"
           /\ ~gone[r] /\ ~flaky[r] /\ q \in Party(r)
           => ~owed[q]]_vars
  <2> SUFFICES ASSUME IInv, Next, NEW r \in Requests, NEW q \in Requests, rpc[r] = "synthesize",
                      rpc'[r] = "unavailable", ~gone[r], ~flaky[r], q \in Party(r)
               PROVE  ~owed[q]
    OBVIOUS
  <2>1. TypeOK /\ BucketInv /\ OneFlight /\ \A s \in Requests : IndexInv(s) /\ OwedInv(s)
    BY DEF IInv
  <2>2. ~Environment /\ ~\E s \in Requests : Begin(s)
    BY <2>1, EnvironmentLeavesRequests DEF Begin, Goto, TypeOK, Answers
  <2>3. PICK s \in Requests : Acts(s)
    BY <2>2 DEF Next, Environment, Acts
  <2>4. s = r
    <3>1. CASE Moves(s)
      BY <3>1 DEF Moves
    <3>2. CASE Enter(s)
      BY <2>1, <3>2 DEF Enter, Goto, TypeOK
    <3>3. CASE Delivers(s)
      BY <3>3 DEF Delivers, Deliver, Party
    <3> QED
      BY <2>1, <2>3, <3>1, <3>2, <3>3, Kinds
  <2>5. Synthesize(r)
    BY <2>1, <2>3, <2>4 DEF Acts, Serve, LookUp, Stall, Resume, LookLocal, LookNegative, LookMemo, LookNegativeIndex,
       Enter, Recheck, ServeFresh, Fetch, FetchFails, Save, FallBack, Remember, Resolve, LookAgain, Filter, Stream,
       Break, Tee, RecordParents, Asking
  <2>6. Listable = {}
    <3>1. CASE Listable # {}
      <4>1. Deliver(r, "remember", [files |-> Listable, own |-> TRUE])
        BY <2>5, <3>1 DEF Synthesize
      <4> QED
        BY <4>1 DEF Deliver, Party
    <3> QED
      BY <3>1
  <2>7. ~owed[r]
    BY <2>1, <2>6 DEF OwedInv
  <2>8. CASE q = r
    BY <2>7, <2>8
  <2>9. CASE q # r
    <3>1. rpc[q] = "join" /\ proc[q] = proc[r] /\ flight[proc[r]] = r
      BY <2>1, <2>9 DEF Party, OneFlight, Loading, Asking
    <3> QED
      BY <2>1, <2>7, <3>1 DEF OwedInv
  <2> QED
    BY <2>8, <2>9
<1> QED
  BY <1>1, Invariance, PTL DEF Spec, FallsBackToStore
=============================================================================
