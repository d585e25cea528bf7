-------------------------- MODULE TeeStreamProofs --------------------------
(* Proofs about TeeStream, for any number of requests, any length of the     *)
(* file and either framing.                                                  *)
EXTENDS TeeStream, TLAPS

Copying == {"idle", "read", "tee", "client"}

\* The handler and the pipe: what is taken was sent, up to the chunk in hand, and
\* the way the pipe is closed tells how the copy ended.
HandlerInv(r) ==
    /\ hpc[r] \in Copying => ended[r] = "open" /\ ~copyErr[r]
    /\ hpc[r] \in {"tee", "client"} => taken[r] = sent[r] + 1
    /\ hpc[r] \in {"idle", "read"} \/ ended[r] = "eof" => taken[r] = sent[r]
    /\ hpc[r] \notin Copying => (ended[r] = "eof" <=> ~copyErr[r])
    /\ copyErr[r] => ended[r] = "error" \/ gone[r]
    /\ ended[r] = "eof" => framed = FALSE \/ taken[r] = Length
    /\ pipe[r] = "open" <=> hpc[r] \in Copying \cup {"close"}
    /\ pipe[r] = "eof" => ~copyErr[r]

\* The fill: it has what the handler has passed on, comes to its commit only behind
\* a clean end of the pipe, and is without an error only if blob and sidecar are there.
FillInv(r) ==
    /\ hpc[r] = "idle" => fpc[r] = "idle"
    /\ fpc[r] \in {"idle", "probe", "copy"} =>
           taken[r] = IF hpc[r] = "tee" THEN filled[r] + 1 ELSE filled[r]
    /\ fpc[r] = "probe" => hpc[r] # "client"
    /\ fpc[r] \in {"commit", "sidecar"} => pipe[r] = "eof" /\ filled[r] = taken[r]
    /\ hpc[r] \in {"record", "done"} => fpc[r] = "done"
    /\ hpc[r] = "record" => ~fillErr[r]
    /\ shut[r] <=> fpc[r] = "done"
    /\ fpc[r] = "sidecar" => blob # None
    /\ fpc[r] \in {"shut", "done"} /\ ~fillErr[r] => blob # None /\ sidecar

IInv ==
    /\ TypeOK
    /\ \A r \in Requests : HandlerInv(r) /\ FillInv(r)
    /\ StoredWasDelivered
    /\ ParentsAreBacked
-----------------------------------------------------------------------------
\* What a request may change of the state: its own part of it.
Elsewhere(r) ==
    \A q \in Requests \ {r} :
        /\ UNCHANGED <<hpc[q], fpc[q], taken[q], ended[q], sent[q], gone[q]>>
        /\ UNCHANGED <<copyErr[q], pipe[q], shut[q], filled[q], fillErr[q]>>

\* The files only ever come to be there.
Grows ==
    /\ framed' = framed
    /\ blob # None => blob' = blob
    /\ sidecar => sidecar'

\* Nothing the invariants say of another request is disturbed.
LEMMA OthersKeepTheirs ==
    ASSUME IInv, NEW r \in Requests, Elsewhere(r), Grows,
           HandlerInv(r)', FillInv(r)'
    PROVE  \A q \in Requests : HandlerInv(q)' /\ FillInv(q)'
<1> SUFFICES ASSUME NEW q \in Requests, q # r PROVE HandlerInv(q)' /\ FillInv(q)'
  OBVIOUS
<1>1. HandlerInv(q) /\ FillInv(q)
  BY DEF IInv
<1>2. HandlerInv(q)'
  BY <1>1 DEF Elsewhere, Grows, HandlerInv
<1>3. FillInv(q)'
  BY <1>1 DEF Elsewhere, Grows, FillInv
<1> QED
  BY <1>2, <1>3

\* A step of the handler keeps the invariant.
LEMMA HandlerStep ==
    ASSUME IInv, NEW r \in Requests, Start(r) \/ Leave(r) \/ Copy(r) \/ Handle(r)
    PROVE  IInv'
<1> USE LengthAssumption DEF fileVars, handlerVars, fillVars
<1>1. TypeOK /\ HandlerInv(r) /\ FillInv(r)
  BY DEF IInv
<1>2. Elsewhere(r) /\ Grows /\ UNCHANGED <<blob, sidecar>>
  BY <1>1 DEF TypeOK, Elsewhere, Grows, Start, Leave, Copy, ReadChunk, ReadEnd, ReadFails, SendChunk,
             SendFails, Handle, Transfer, Swallow, ClosePipe, Collect, MayRecord, Record
<1>3. TypeOK' /\ HandlerInv(r)' /\ FillInv(r)'
  <2> USE <1>1 DEF TypeOK, HandlerSteps, FillSteps, HandlerInv, FillInv, Copying
  <2>1. CASE Start(r) BY <2>1 DEF Start
  <2>2. CASE Leave(r) BY <2>2 DEF Leave
  <2>3. CASE ReadChunk(r) BY <2>3 DEF ReadChunk
  <2>4. CASE ReadEnd(r) BY <2>4 DEF ReadEnd
  <2>5. CASE ReadFails(r) BY <2>5 DEF ReadFails
  <2>6. CASE SendChunk(r) BY <2>6 DEF SendChunk
  <2>7. CASE SendFails(r) BY <2>7 DEF SendFails
  <2>8. CASE Transfer(r) BY <2>8 DEF Transfer
  <2>9. CASE Swallow(r) BY <2>9 DEF Swallow
  <2>10. CASE ClosePipe(r) BY <2>10 DEF ClosePipe
  <2>11. CASE Collect(r) BY <2>11 DEF Collect, MayRecord
  <2>12. CASE Record(r) BY <2>12 DEF Record
  <2> QED
    BY <2>1, <2>2, <2>3, <2>4, <2>5, <2>6, <2>7, <2>8, <2>9, <2>10, <2>11, <2>12 DEF Copy, Handle
<1>4. \A q \in Requests : HandlerInv(q)' /\ FillInv(q)'
  BY <1>2, <1>3, OthersKeepTheirs
<1>5. StoredWasDelivered'
  <2> SUFFICES ASSUME blob # None PROVE StoredWasDelivered'
    BY <1>2 DEF StoredWasDelivered
  <2>1. PICK q \in Requests : ~copyErr[q] /\ ended[q] = "eof" /\ sent[q] = blob
    BY DEF IInv, StoredWasDelivered
  <2>2. HandlerInv(q)
    BY DEF IInv
  <2>3. hpc[q] \notin Copying
    BY <2>1, <2>2 DEF HandlerInv
  <2>4. UNCHANGED <<copyErr[q], ended[q], sent[q]>>
    BY <1>1, <2>3, <1>2 DEF TypeOK, Elsewhere, Copying, Start, Leave, Copy, ReadChunk, ReadEnd, ReadFails,
         SendChunk, SendFails, Handle, Transfer, Swallow, ClosePipe, Collect, MayRecord, Record
  <2> QED
    BY <1>2, <2>1, <2>4 DEF StoredWasDelivered
<1>6. ParentsAreBacked'
  <2>1. CASE Record(r)
    BY <2>1, <1>1, <1>2 DEF Record, FillInv, ParentsAreBacked
  <2>2. CASE ~Record(r)
    <3>1. parents' = parents
      BY <2>2 DEF Start, Leave, Copy, ReadChunk, ReadEnd, ReadFails, SendChunk, SendFails, Handle,
                  Transfer, Swallow, ClosePipe, Collect
    <3> QED
      BY <3>1, <1>2 DEF IInv, ParentsAreBacked
  <2> QED
    BY <2>1, <2>2
<1> QED
  BY <1>3, <1>4, <1>5, <1>6 DEF IInv

\* A step of the fill keeps the invariant.
LEMMA FillStep ==
    ASSUME IInv, NEW r \in Requests, Fill(r)
    PROVE  IInv'
<1> USE LengthAssumption, NoneAssumption DEF fileVars, handlerVars, fillVars
<1>1. TypeOK /\ HandlerInv(r) /\ FillInv(r)
  BY DEF IInv
<1>2. Elsewhere(r) /\ Grows /\ UNCHANGED <<parents, hpc, taken, ended, sent, gone, copyErr>>
  BY <1>1 DEF TypeOK, Elsewhere, Grows, Fill, Probe, WriteFails, Drain, Commit, WriteSidecar, ShutPipe, FailFill
<1>3. TypeOK' /\ HandlerInv(r)' /\ FillInv(r)'
  <2> USE <1>1 DEF TypeOK, HandlerSteps, FillSteps, HandlerInv, FillInv, Copying, FailFill
  <2>1. CASE Probe(r) BY <2>1 DEF Probe
  <2>2. CASE WriteFails(r) BY <2>2 DEF WriteFails
  <2>3. CASE Drain(r)
    <3>1. TypeOK'
      BY <2>3 DEF Drain
    <3>2. HandlerInv(r)'
      BY <2>3 DEF Drain
    <3>3. CASE pipe[r] = "eof"
      <4>1. hpc[r] \notin Copying \cup {"close"} /\ filled[r] = taken[r]
        BY <2>3, <3>3 DEF Drain
      <4> QED
        BY <2>3, <3>1, <3>2, <3>3, <4>1 DEF Drain
    <3>4. CASE pipe[r] = "error"
      BY <2>3, <3>1, <3>2, <3>4 DEF Drain
    <3> QED
      BY <2>3, <3>3, <3>4 DEF Drain
  <2>4. CASE Commit(r)
    <3>1. filled[r] \in 0..Length /\ filled[r] # None
      OBVIOUS
    <3>2. TypeOK'
      BY <2>4, <3>1 DEF Commit
    <3>3. HandlerInv(r)'
      BY <2>4 DEF Commit
    <3>4. FillInv(r)'
      BY <2>4, <3>1, <3>2 DEF Commit
    <3> QED
      BY <3>2, <3>3, <3>4
  <2>5. CASE WriteSidecar(r) BY <2>5 DEF WriteSidecar
  <2>6. CASE ShutPipe(r) BY <2>6 DEF ShutPipe
  <2> QED
    BY <2>1, <2>2, <2>3, <2>4, <2>5, <2>6 DEF Fill
<1>4. \A q \in Requests : HandlerInv(q)' /\ FillInv(q)'
  BY <1>2, <1>3, OthersKeepTheirs
<1>5. StoredWasDelivered'
  <2>1. CASE blob' = blob
    BY <2>1, <1>2 DEF IInv, StoredWasDelivered
  <2>2. CASE blob' # blob
    <3>1. fpc[r] = "commit" /\ blob' = filled[r]
      BY <2>2 DEF Fill, Probe, WriteFails, Drain, Commit, WriteSidecar, ShutPipe, FailFill
    <3>2. pipe[r] = "eof" /\ filled[r] = taken[r]
      BY <1>1, <3>1 DEF FillInv
    <3>3. ~copyErr[r] /\ ended[r] = "eof" /\ sent[r] = taken[r]
      BY <1>1, <3>2 DEF HandlerInv
    <3> QED
      BY <1>2, <3>1, <3>2, <3>3 DEF StoredWasDelivered
  <2> QED
    BY <2>1, <2>2
<1>6. ParentsAreBacked'
  BY <1>2 DEF IInv, ParentsAreBacked, Grows
<1> QED
  BY <1>3, <1>4, <1>5, <1>6 DEF IInv

LEMMA Invariance == Spec => []IInv
<1>1. Init => IInv
  <2> SUFFICES ASSUME Init PROVE IInv
    OBVIOUS
  <2>1. TypeOK
    <3>1. 0 \in 0..Length
      BY LengthAssumption
    <3>2. /\ taken \in [Requests -> 0..Length] /\ sent \in [Requests -> 0..Length]
          /\ filled \in [Requests -> 0..Length]
      BY <3>1 DEF Init
    <3>3. /\ gone \in [Requests -> BOOLEAN] /\ copyErr \in [Requests -> BOOLEAN]
          /\ shut \in [Requests -> BOOLEAN] /\ fillErr \in [Requests -> BOOLEAN]
          /\ sidecar \in BOOLEAN /\ parents \in BOOLEAN
      BY Zenon DEF Init
    <3>4. /\ hpc \in [Requests -> HandlerSteps] /\ fpc \in [Requests -> FillSteps]
          /\ ended \in [Requests -> {"open", "eof", "error"}] /\ pipe \in [Requests -> {"open", "eof", "error"}]
      BY DEF Init, HandlerSteps, FillSteps
    <3>5. framed \in Framings /\ blob \in (0..Length) \cup {None}
      BY DEF Init
    <3> QED
      BY <3>2, <3>3, <3>4, <3>5 DEF TypeOK
  <2>2. ASSUME NEW r \in Requests PROVE HandlerInv(r) /\ FillInv(r)
    BY DEF Init, HandlerInv, FillInv, Copying
  <2>3. StoredWasDelivered /\ ParentsAreBacked
    BY DEF Init, StoredWasDelivered, ParentsAreBacked
  <2> QED
    BY <2>1, <2>2, <2>3 DEF IInv
<1>2. IInv /\ [Next]_vars => IInv'
  <2> SUFFICES ASSUME IInv, [Next]_vars PROVE IInv'
    OBVIOUS
  <2>1. CASE UNCHANGED vars
    BY <2>1 DEF vars, IInv, TypeOK, HandlerInv, FillInv, StoredWasDelivered, ParentsAreBacked
  <2>2. CASE Next
    BY <2>2, HandlerStep, FillStep DEF Next
  <2> QED
    BY <2>1, <2>2
<1> QED
  BY <1>1, <1>2, PTL DEF Spec
-----------------------------------------------------------------------------
\* The variables hold what TeeStreamToStore and writeFile can hold; no count
\* exceeds the length of the file.
THEOREM TypeCorrect == Spec => []TypeOK
<1>1. IInv => TypeOK
  BY DEF IInv
<1> QED
  BY <1>1, Invariance, PTL

\* Only what a client was sent to its end is stored: writeFile commits behind a
\* clean end of the pipe, which TeeStreamToStore makes only after a whole copy.
THEOREM StoredIsDelivered == Spec => []StoredWasDelivered
<1>1. IInv => StoredWasDelivered
  BY DEF IInv
<1> QED
  BY <1>1, Invariance, PTL

\* An interrupted stream leaves no partial file, where upstream delimits its body.
THEOREM NoPartialFills == Spec => []NoPartialFill
<1>1. IInv => NoPartialFill
  <2> SUFFICES ASSUME IInv, framed, blob # None PROVE blob = Length
    BY DEF NoPartialFill
  <2>1. PICK r \in Requests : ~copyErr[r] /\ ended[r] = "eof" /\ sent[r] = blob
    BY DEF IInv, StoredWasDelivered
  <2>2. HandlerInv(r)
    BY DEF IInv
  <2>3. taken[r] = sent[r] /\ taken[r] = Length
    BY <2>1, <2>2 DEF HandlerInv
  <2> QED
    BY <2>1, <2>3
<1> QED
  BY <1>1, Invariance, PTL

\* A failure of the store never truncates a client: storeTee keeps it from io.Copy.
THEOREM StoreFailuresStayInside == Spec => []StoreNeverTruncates
<1>1. IInv => StoreNeverTruncates
  BY DEF IInv, HandlerInv, StoreNeverTruncates
<1> QED
  BY <1>1, Invariance, PTL

\* streamAndCache records package and version only for a file that is stored with
\* its sidecar.
THEOREM ParentsBacked == Spec => []ParentsAreBacked
<1>1. IInv => ParentsAreBacked
  BY DEF IInv
<1> QED
  BY <1>1, Invariance, PTL
-----------------------------------------------------------------------------
(* What DisconnectsEnd rests on beside fairness: no waiting in a circle, and *)
(* no end of steps.                                                          *)

HandlerBusy(r) == hpc[r] \in {"read", "client", "close", "record"}

FillBusy(r) == fpc[r] \in {"probe", "commit", "sidecar", "shut"}

\* What the other goroutine has done lets one that waits go on: the pipe has a reader, or
\* is shut; its write side is closed; the result of the fill is there.
WaitIsOver(r) ==
    \/ hpc[r] = "tee" /\ ((fpc[r] = "copy" /\ ~shut[r]) \/ shut[r])
    \/ hpc[r] = "wait" /\ ((fpc[r] = "copy" /\ pipe[r] # "open") \/ fpc[r] = "done")

NeverBothWait ==
    \A r \in Requests :
        \/ hpc[r] = "idle" \/ (hpc[r] = "done" /\ fpc[r] = "done")
        \/ HandlerBusy(r) \/ FillBusy(r) \/ WaitIsOver(r)

\* The fill is started with the copy.
Started(r) == fpc[r] = "idle" => hpc[r] = "idle"

\* Whoever waits has what it waits for, or the other is at work.
LEMMA OneGoesOn ==
    ASSUME IInv, NEW r \in Requests, Started(r)
    PROVE  \/ hpc[r] = "idle" \/ (hpc[r] = "done" /\ fpc[r] = "done")
           \/ HandlerBusy(r) \/ FillBusy(r) \/ WaitIsOver(r)
<1>1. HandlerInv(r) /\ FillInv(r) /\ hpc[r] \in HandlerSteps /\ fpc[r] \in FillSteps
  BY DEF IInv, TypeOK
<1>2. CASE hpc[r] = "tee"
  BY <1>1, <1>2 DEF FillInv, Started, FillSteps, FillBusy, WaitIsOver
<1>3. CASE hpc[r] = "wait"
  <2>1. pipe[r] # "open"
    BY <1>1, <1>3 DEF HandlerInv, Copying
  <2> QED
    BY <1>1, <1>3, <2>1 DEF Started, FillSteps, FillBusy, WaitIsOver
<1>4. CASE hpc[r] \notin {"tee", "wait"}
  BY <1>1, <1>4 DEF FillInv, HandlerSteps, HandlerBusy
<1> QED
  BY <1>2, <1>3, <1>4

\* The handler and the fill of a request never wait for each other: whatever the two, the
\* store and the client did, one of them is at work, or has what it waits for, or both
\* are done (the pipe between TeeStreamToStore and AddFile, and its result channel).
THEOREM NeverBothWaiting == Spec => []NeverBothWait
<1>1. Init => \A r \in Requests : Started(r)
  BY DEF Init, Started
<1>2. TypeOK /\ (\A r \in Requests : Started(r)) /\ [Next]_vars => (\A r \in Requests : Started(r))'
  <2> SUFFICES ASSUME TypeOK, NEW r \in Requests, Started(r), [Next]_vars PROVE Started(r)'
    OBVIOUS
  <2>1. CASE UNCHANGED vars
    BY <2>1 DEF vars, Started
  <2>2. ASSUME NEW q \in Requests, Start(q) PROVE Started(r)'
    BY <2>2 DEF TypeOK, Start, Started
  <2>3. ASSUME NEW q \in Requests, Leave(q) \/ Copy(q) \/ Handle(q) PROVE Started(r)'
    <3>1. UNCHANGED fpc /\ (hpc[r] = "idle" => hpc'[r] = "idle")
          /\ (hpc[r] # "idle" /\ fpc[r] = "idle" => FALSE)
      BY <2>3 DEF TypeOK, Leave, Copy, ReadChunk, ReadEnd, ReadFails, SendChunk, SendFails, Started,
         Handle, Transfer, Swallow, ClosePipe, Collect, Record, fillVars, handlerVars
    <3> QED
      BY <3>1 DEF Started
  <2>4. ASSUME NEW q \in Requests, Fill(q) PROVE Started(r)'
    BY <2>4 DEF TypeOK, Fill, Probe, WriteFails, Drain, Commit, WriteSidecar, ShutPipe, FailFill,
       handlerVars, Started
  <2> QED
    BY <2>1, <2>2, <2>3, <2>4 DEF Next
<1>3. IInv /\ (\A r \in Requests : Started(r)) => NeverBothWait
  BY OneGoesOn, Zenon DEF NeverBothWait
<1>4. IInv => TypeOK
  BY DEF IInv
<1> QED
  BY <1>1, <1>2, <1>3, <1>4, Invariance, PTL DEF Spec

\* The most steps the two goroutines of a request have still before them.
HandlerLeft(r) ==
    3 * (Length - taken[r]) +
    [idle |-> 7, read |-> 4, tee |-> 6, client |-> 5, close |-> 3, wait |-> 2, record |-> 1,
     done |-> 0][hpc[r]]

FillLeft(r) ==
    [idle |-> 6, probe |-> 5, copy |-> 4, commit |-> 3, sidecar |-> 2, shut |-> 1, done |-> 0][fpc[r]]

StepsLeft(r) == HandlerLeft(r) + FillLeft(r)

\* Each step of a request brings its end nearer, and no step of another takes it away.
EndsNearer ==
    \A r \in Requests :
        /\ StepsLeft(r) \in Nat
        /\ hpc'[r] # hpc[r] \/ fpc'[r] # fpc[r] => StepsLeft(r)' < StepsLeft(r)
        /\ hpc'[r] = hpc[r] /\ fpc'[r] = fpc[r] => StepsLeft(r)' = StepsLeft(r)

\* Every step of the handler and of the fill is one of these moves, and each shortens what
\* is left.
LEMMA StepShortens ==
    ASSUME IInv, NEW q \in Requests, Start(q) \/ Copy(q) \/ Handle(q) \/ Fill(q)
    PROVE  StepsLeft(q)' < StepsLeft(q) /\ (hpc'[q] # hpc[q] \/ fpc'[q] # fpc[q])
<1> DEFINE Moves(from, to) == hpc[q] = from /\ hpc'[q] = to
<1>1. \/ Moves("idle", "read") /\ taken'[q] = taken[q] /\ fpc[q] = "idle" /\ fpc'[q] = "probe"
      \/ Moves("read", "tee") /\ taken'[q] = taken[q] + 1 /\ fpc'[q] = fpc[q]
      \/ /\ taken'[q] = taken[q] /\ fpc'[q] = fpc[q]
         /\ \/ Moves("read", "close") \/ Moves("tee", "client") \/ Moves("client", "read")
            \/ Moves("client", "close") \/ Moves("close", "wait") \/ Moves("wait", "record")
            \/ Moves("wait", "done") \/ Moves("record", "done")
      \/ /\ hpc'[q] = hpc[q] /\ taken'[q] = taken[q]
         /\ \/ fpc[q] = "probe" /\ fpc'[q] \in {"copy", "shut"}
            \/ fpc[q] = "copy" /\ fpc'[q] \in {"commit", "shut"}
            \/ fpc[q] = "commit" /\ fpc'[q] \in {"sidecar", "shut"}
            \/ fpc[q] = "sidecar" /\ fpc'[q] = "shut"
            \/ fpc[q] = "shut" /\ fpc'[q] = "done"
  <2> USE DEF IInv, TypeOK, handlerVars, fillVars, Moves
  <2>1. CASE Start(q)
    BY <2>1 DEF Start, FillInv
  <2>2. CASE Copy(q)
    BY <2>2 DEF Copy, ReadChunk, ReadEnd, ReadFails, SendChunk, SendFails
  <2>3. CASE Handle(q)
    BY <2>3 DEF Handle, Transfer, Swallow, ClosePipe, Collect, Record
  <2>4. CASE Fill(q)
    BY <2>4 DEF Fill, Probe, WriteFails, Drain, Commit, WriteSidecar, ShutPipe, FailFill
  <2> QED
    BY <2>1, <2>2, <2>3, <2>4
<1>2. Length \in Int /\ taken[q] \in Int /\ hpc[q] \in HandlerSteps /\ fpc[q] \in FillSteps
  BY LengthAssumption DEF IInv, TypeOK
<1> QED
  BY ONLY <1>1, <1>2 DEF StepsLeft, HandlerLeft, FillLeft, HandlerSteps, FillSteps

\* For a file of any length the transfer of a request takes a bounded number of steps,
\* whatever fails in it: with NeverBothWaiting, it ends if its goroutines run and the
\* calls they are in return.
THEOREM TransfersAreBounded == Spec => [][EndsNearer]_vars
<1>1. IInv /\ [Next]_vars => [EndsNearer]_vars
  <2> SUFFICES ASSUME IInv, TypeOK, NEW q \in Requests,
                      Start(q) \/ Leave(q) \/ Copy(q) \/ Handle(q) \/ Fill(q)
               PROVE  EndsNearer
    BY DEF Next, IInv
  <2> USE LengthAssumption DEF TypeOK, HandlerSteps, FillSteps
  <2>1. \A r \in Requests : StepsLeft(r) \in Nat
    BY DEF StepsLeft, HandlerLeft, FillLeft
  <2>2. ASSUME NEW r \in Requests, r # q
        PROVE  hpc'[r] = hpc[r] /\ fpc'[r] = fpc[r] /\ taken'[r] = taken[r]
    BY <2>2 DEF Start, Leave, Copy, ReadChunk, ReadEnd, ReadFails, SendChunk, SendFails,
       Handle, Transfer, Swallow, ClosePipe, Collect, Record, Fill, Probe, WriteFails, Drain,
       Commit, WriteSidecar, ShutPipe, FailFill, fillVars, handlerVars
  <2>3. ASSUME NEW r \in Requests, r # q
        PROVE  StepsLeft(r)' = StepsLeft(r)
    BY <2>2, <2>3 DEF StepsLeft, HandlerLeft, FillLeft
  <2>4. CASE Leave(q)
    <3>1. UNCHANGED <<hpc, fpc, taken>>
      BY <2>4 DEF Leave, handlerVars, fillVars
    <3> QED
      BY <2>1, <3>1 DEF EndsNearer, StepsLeft, HandlerLeft, FillLeft
  <2>5. ASSUME Start(q) \/ Copy(q) \/ Handle(q) \/ Fill(q)
        PROVE  StepsLeft(q)' < StepsLeft(q) /\ (hpc'[q] # hpc[q] \/ fpc'[q] # fpc[q])
    BY <2>5, StepShortens
  <2>6. CASE ~Leave(q)
    BY <2>1, <2>2, <2>3, <2>5, <2>6 DEF EndsNearer
  <2> QED
    BY <2>4, <2>6
<1> QED
  BY <1>1, Invariance, PTL DEF Spec
=============================================================================
