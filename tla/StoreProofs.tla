---------------------------- MODULE StoreProofs ----------------------------
(* What the store keeps: theorems about the files of BlobFile, for any       *)
(* number of uploads, downloads, evictors and contents, and about the        *)
(* annotated containers of Generic, for any number of PUTs, GETs and notes.  *)
EXTENDS BlobFile, Generic, TLAPS

\* Every variable of BlobFile keeps its type, whatever the mode and the actors.
THEOREM TypeCorrect == Spec => []TypeOK
<1>1. Init => TypeOK
  BY DEF Init, TypeOK, Running, Outcomes, Reading, Answers
<1>2. TypeOK /\ [Next]_vars => TypeOK'
  <2> SUFFICES ASSUME TypeOK, [Next]_vars PROVE TypeOK'
    OBVIOUS
  <2> USE DEF TypeOK, Running, Outcomes, Reading, Answers, fileVars, writerVars, readerVars
  <2>1. ASSUME NEW w \in Writers, Begin(w) PROVE TypeOK'
    BY <2>1 DEF Begin
  <2>2. ASSUME NEW w \in Writers,
               Probe(w) \/ Verify(w) \/ Abort(w) \/ CommitRefused(w) \/ CommitFails(w)
        PROVE  TypeOK'
    BY <2>2 DEF Probe, Verify, Abort, CommitRefused, CommitFails
  <2>3. ASSUME NEW w \in Writers, Commit(w) \/ CommitUnanswered(w) PROVE TypeOK'
    BY <2>3 DEF Commit, CommitUnanswered
  <2>4. ASSUME NEW w \in Writers, WriteSidecar(w) \/ SidecarFails(w) PROVE TypeOK'
    BY <2>4 DEF WriteSidecar, SidecarFails
  <2>5. ASSUME NEW r \in Readers, Request(r) PROVE TypeOK'
    BY <2>5 DEF Request
  <2>6. ASSUME NEW r \in Readers, ReadSidecar(r) PROVE TypeOK'
    BY <2>6 DEF ReadSidecar, UsableSidecar, AfterMeta
  <2>7. ASSUME NEW r \in Readers, FallBack(r) \/ ReadFails(r) PROVE TypeOK'
    BY <2>7 DEF FallBack, ReadFails
  <2>8. ASSUME NEW r \in Readers, Stat(r) \/ Hash(r) \/ Open(r) PROVE TypeOK'
    BY <2>8 DEF Stat, Hash, Open, AfterMeta
  <2>9. ASSUME NEW e \in Evictors, Evict(e) PROVE TypeOK'
    BY <2>9 DEF Evict, DeleteBlob, DeleteSidecar, DeleteFails
  <2>10. CASE Rot
    BY <2>10 DEF Rot
  <2>11. CASE UNCHANGED vars
    BY <2>11 DEF vars
  <2> QED
    BY <2>1, <2>2, <2>3, <2>4, <2>5, <2>6, <2>7, <2>8, <2>9, <2>10, <2>11
       DEF Next, Write, Read
<1> QED
  BY <1>1, <1>2, PTL DEF Spec

-----------------------------------------------------------------------------
(* Files that are created once (overwrite = FALSE): only such files have the *)
(* properties below, which are therefore stated as implications.             *)

\* The mode of a key never changes.
LEMMA ModeKept ==
  ASSUME [Next]_vars
  PROVE  overwrite' = overwrite
BY DEF Next, Write, Read, Evict, Begin, Probe, Verify, Abort, Commit, CommitUnanswered,
       CommitRefused, CommitFails, WriteSidecar, SidecarFails, Request, ReadSidecar, FallBack,
       Stat, Hash, Open, ReadFails, Rot, DeleteBlob, DeleteSidecar, DeleteFails, vars, fileVars

\* No eviction is under way on such a file.
NoEviction == ~overwrite => evicting = {}

LEMMA NoEvictionStep ==
  ASSUME NoEviction, [Next]_vars
  PROVE  NoEviction'
<1>1. overwrite' = overwrite
  BY ModeKept
<1>2. ASSUME NEW e \in Evictors, Evict(e) PROVE NoEviction'
  BY <1>1, <1>2 DEF NoEviction, Evict, DeleteBlob, DeleteSidecar, DeleteFails
<1>3. ASSUME evicting' = evicting PROVE NoEviction'
  BY <1>1, <1>3 DEF NoEviction
<1> QED
  BY <1>2, <1>3 DEF Next, Write, Read, Begin, Probe, Verify, Abort, Commit, CommitUnanswered,
       CommitRefused, CommitFails, WriteSidecar, SidecarFails, Request, ReadSidecar, FallBack,
       Stat, Hash, Open, ReadFails, Rot, vars

\* CreateOnceInv is preserved by every step of such a file.
LEMMA CreateOnceStep ==
  ASSUME TypeOK, CreateOnceInv, NoEviction, [Next]_vars
  PROVE  CreateOnceInv'
<1>0. SUFFICES ASSUME ~overwrite PROVE CreateOnceInv'
  BY ModeKept DEF CreateOnceInv
<1> USE <1>0 DEF TypeOK, CreateOnceInv, NoTornSidecar, SingleWinner, OwnsBlob, KnowsBlob,
            Running, Outcomes, Reading, Answers, fileVars, writerVars, readerVars
<1> USE AbsentAssumption, PartialAssumption, CorruptAssumption
<1>1. ASSUME NEW w \in Writers, Begin(w) PROVE CreateOnceInv'
  BY <1>1 DEF Begin
<1>2. ASSUME NEW w \in Writers,
             Probe(w) \/ Verify(w) \/ Abort(w) \/ CommitRefused(w) \/ CommitFails(w)
      PROVE  CreateOnceInv'
  BY <1>2 DEF Probe, Verify, Abort, CommitRefused, CommitFails
<1>3. ASSUME NEW w \in Writers, Commit(w) \/ CommitUnanswered(w) PROVE CreateOnceInv'
  BY <1>3 DEF Commit, CommitUnanswered, CanCommit
<1>4. ASSUME NEW w \in Writers, WriteSidecar(w) \/ SidecarFails(w) PROVE CreateOnceInv'
  BY <1>4 DEF WriteSidecar, SidecarFails
<1>5. ASSUME NEW r \in Readers, Request(r) PROVE CreateOnceInv'
  BY <1>5 DEF Request
<1>6. ASSUME NEW r \in Readers, ReadSidecar(r) PROVE CreateOnceInv'
  BY <1>6 DEF ReadSidecar, UsableSidecar, AfterMeta
<1>7. ASSUME NEW r \in Readers, FallBack(r) \/ ReadFails(r) PROVE CreateOnceInv'
  BY <1>7 DEF FallBack, ReadFails
<1>8. ASSUME NEW r \in Readers, Stat(r) \/ Hash(r) \/ Open(r) PROVE CreateOnceInv'
  BY <1>8 DEF Stat, Hash, Open, AfterMeta
<1>9. CASE Rot
  BY <1>9 DEF Rot
<1>10. CASE UNCHANGED vars
  BY <1>10 DEF vars
<1>11. ASSUME NEW e \in Evictors PROVE ~Evict(e)
  BY DEF NoEviction, Evict, DeleteBlob, DeleteSidecar, DeleteFails
<1> QED
  BY <1>1, <1>2, <1>3, <1>4, <1>5, <1>6, <1>7, <1>8, <1>9, <1>10, <1>11 DEF Next, Write, Read

LEMMA CreateOnceInvariant == Spec => [](TypeOK /\ NoEviction /\ CreateOnceInv)
<1>1. Init => NoEviction /\ CreateOnceInv
  BY PartialAssumption
     DEF Init, NoEviction, CreateOnceInv, NoTornSidecar, SingleWinner, OwnsBlob, KnowsBlob
<1>2. TypeOK /\ NoEviction /\ CreateOnceInv /\ [Next]_vars => NoEviction' /\ CreateOnceInv'
  BY CreateOnceStep, NoEvictionStep
<1> QED
  BY <1>1, <1>2, TypeCorrect, PTL DEF Spec

\* A created file's sidecar never describes another blob than its own, however
\* many creators race, fail or crash between writeFile's two writes.
THEOREM SidecarNeverTorn == Spec => []NoTornSidecar
<1>1. CreateOnceInv => NoTornSidecar
  BY DEF CreateOnceInv, NoTornSidecar
<1> QED
  BY <1>1, CreateOnceInvariant, PTL

\* At most one of any number of concurrent creators gets past writeFile's commit.
THEOREM OneWinner == Spec => []SingleWinner
<1>1. CreateOnceInv => SingleWinner
  BY DEF CreateOnceInv, SingleWinner
<1> QED
  BY <1>1, CreateOnceInvariant, PTL

\* Every answered download of a created file has one body's tag, length and bytes.
THEOREM DownloadsCoherent == Spec => []CoherentDownload
<1>1. TypeOK /\ CreateOnceInv => CoherentDownload
  BY DEF TypeOK, CreateOnceInv, KnowsBlob, Coherent, CoherentDownload
<1> QED
  BY <1>1, CreateOnceInvariant, PTL

\* The bytes of a created file never change.
THEOREM BytesImmutable == Spec => BlobImmutable
<1>1. [Next]_vars => [~overwrite /\ blob # Absent => blob' = blob]_vars
  BY DEF Next, Write, Read, Evict, DeleteBlob, DeleteSidecar, DeleteFails, Begin, Probe, Verify, Abort, Commit, CommitUnanswered,
         CanCommit, CommitRefused, CommitFails, WriteSidecar, SidecarFails, Request,
         ReadSidecar, FallBack, Stat, Hash, Open, ReadFails, Rot, vars, fileVars
<1> QED
  BY <1>1, PTL DEF Spec, BlobImmutable
-----------------------------------------------------------------------------
(* A created file implements the write-once register.                       *)

\* What a step that moves only upload w or download r does to the mapped state.
LEMMA ReplyMoves ==
  ASSUME NEW w \in Writers, TypeOK, NEW pc, wpc' = [wpc EXCEPT ![w] = pc]
  PROVE  reply' = [reply EXCEPT ![w] = reply'[w]]
BY DEF TypeOK, reply

LEMMA AnswerMoves ==
  ASSUME NEW r \in Readers, TypeOK, TypeOK',
         \A q \in Readers \ {r} : /\ rpc'[q] = rpc[q] /\ head'[q] = head[q]
                                  /\ digest'[q] = digest[q] /\ size'[q] = size[q]
                                  /\ bytes'[q] = bytes[q]
  PROVE  answer' = [answer EXCEPT ![r] = answer'[r]]
<1>1. \A q \in Readers \ {r} : answer'[q] = answer[q]
  BY DEF answer, Coherent
<1>2. answer = [q \in Readers |-> answer[q]] /\ answer' = [q \in Readers |-> answer'[q]]
  BY DEF answer
<1> QED
  BY <1>1, <1>2

LEMMA AnswerKept ==
  ASSUME readerVars' = readerVars
  PROVE  answer' = answer
BY DEF answer, Coherent, readerVars

LEMMA ReplyKept ==
  ASSUME wpc' = wpc
  PROVE  reply' = reply
BY DEF reply

\* Every step of an upload is a step of the register, or invisible to it.
LEMMA WriterSteps ==
  ASSUME ~overwrite, TypeOK, CreateOnceInv, NEW w \in Writers, Write(w)
  PROVE  [WO!WONext]_(WO!woVars)
<1> USE DEF WO!woVars, fileVars, writerVars, TypeOK
<1>0. readerVars' = readerVars
  BY DEF Write, Begin, Probe, Verify, Abort, Commit, CommitUnanswered, CommitRefused,
         CommitFails, WriteSidecar, SidecarFails
<1>1. answer' = answer
  BY <1>0, AnswerKept
<1>2. \E pc \in Running \cup Outcomes : wpc' = [wpc EXCEPT ![w] = pc]
  BY DEF Write, Begin, Probe, Verify, Abort, Commit, CommitUnanswered, CommitRefused,
         CommitFails, WriteSidecar, SidecarFails, Running, Outcomes
<1>3. reply' = [reply EXCEPT ![w] = reply'[w]]
  BY <1>2, ReplyMoves
<1>4. WO!Ask(w) \/ WO!Take(w) \/ WO!Created(w) \/ WO!Conflict(w) \/ WO!Fail(w)
      \/ UNCHANGED WO!woVars
  <2>1. CASE Begin(w)
    <3>1. WO!Ask(w)
      BY <1>1, <1>3, <2>1 DEF Begin, WO!Ask, reply, Running, Outcomes
    <3> QED
      BY <3>1
  <2>2. CASE (Probe(w) \/ Verify(w)) /\ wpc'[w] \in Running
    <3>1. reply'[w] = reply[w] /\ blob' = blob /\ body' = body
      BY <2>2 DEF Probe, Verify, reply, Running
    <3>2. reply' = reply
      BY <1>3, <3>1 DEF reply
    <3> QED
      BY <1>1, <3>1, <3>2
  <2>3. CASE (Probe(w) \/ Verify(w)) /\ wpc'[w] \notin Running
    BY <1>1, <1>3, <2>3 DEF Probe, Verify, WO!Conflict, WO!Fail, reply, Running
  <2>7. CASE Abort(w) \/ CommitFails(w)
    BY <1>1, <1>3, <2>7 DEF Abort, CommitFails, WO!Fail, reply
  <2>4. CASE Commit(w) \/ CommitUnanswered(w)
    BY <1>1, <1>3, <2>4 DEF Commit, CommitUnanswered, CanCommit, WO!Take, reply
  <2>5. CASE CommitRefused(w)
    BY <1>1, <1>3, <2>5 DEF CommitRefused, WO!Conflict, reply
  <2>6. CASE WriteSidecar(w) \/ SidecarFails(w)
    BY <1>1, <1>3, <2>6 DEF WriteSidecar, SidecarFails, WO!Created, WO!Fail, reply
  <2> QED
    BY <2>1, <2>2, <2>3, <2>4, <2>5, <2>6, <2>7 DEF Write
<1> QED
  BY <1>4 DEF WO!WONext

\* A reader whose own answer stays leaves all answers as they are.
LEMMA OwnAnswerKept ==
  ASSUME answer \in [Readers -> Bodies \cup {Partial, Absent, "torn", "missing", "error", "waiting"}],
         NEW r \in Readers, answer' = [answer EXCEPT ![r] = answer'[r]], answer'[r] = answer[r]
  PROVE  answer' = answer
OBVIOUS

\* Every step of a download is a step of the register, or invisible to it.
LEMMA ReaderSteps ==
  ASSUME ~overwrite, ~overwrite', TypeOK, TypeOK', CreateOnceInv, CreateOnceInv', NEW r \in Readers, Read(r)
  PROVE  [WO!WONext]_(WO!woVars)
<1> USE DEF WO!woVars, fileVars, writerVars, TypeOK
<1>1. blob' = blob /\ body' = body /\ wpc' = wpc
  BY DEF Read, Request, ReadSidecar, FallBack, Stat, Hash, Open, ReadFails
<1>2. reply' = reply
  BY <1>1, ReplyKept
<1>3. answer' = [answer EXCEPT ![r] = answer'[r]]
  <2>1. \A q \in Readers \ {r} : /\ rpc'[q] = rpc[q] /\ head'[q] = head[q]
                                 /\ digest'[q] = digest[q] /\ size'[q] = size[q]
                                 /\ bytes'[q] = bytes[q]
    BY DEF Read, Request, ReadSidecar, FallBack, Stat, Hash, Open, ReadFails
  <2> QED
    BY <2>1, AnswerMoves
<1>4. answer \in [Readers -> Bodies \cup {Partial, Absent, "torn", "missing", "error", "waiting"}]
  BY DEF answer, Coherent
<1>5. CASE Request(r)
  <2>1. answer'[r] = "waiting"
    BY <1>5 DEF Request, answer, Reading
  <2>2. CASE answer[r] = "waiting"
    <3>1. answer' = answer
      BY <1>3, <1>4, <2>1, <2>2, OwnAnswerKept
    <3> QED
      BY <1>1, <1>2, <3>1
  <2>3. CASE answer[r] # "waiting"
    <3>1. WO!Forget(r)
      BY <1>1, <1>2, <1>3, <2>1, <2>3 DEF WO!Forget
    <3> QED
      BY <3>1 DEF WO!WONext
  <2> QED
    BY <2>2, <2>3
<1>6. CASE rpc[r] \in Reading
  <2>1. answer[r] = "waiting"
    BY <1>6 DEF answer, Reading
  <2>2. answer'[r] = "waiting" \/ answer'[r] \in {"error", IF blob = Absent THEN "missing" ELSE blob}
    <3>1. rpc'[r] = "served" => answer'[r] = blob /\ blob # Absent
      BY <1>1 DEF answer, Coherent, CreateOnceInv, KnowsBlob
    <3>2. rpc'[r] = "missing" => answer'[r] = "missing" /\ blob = Absent
      BY <1>6 DEF Read, Request, ReadSidecar, FallBack, Stat, Hash, Open, ReadFails, AfterMeta,
                  answer, Reading
    <3>3. rpc'[r] = "error" => answer'[r] = "error"
      BY DEF answer, Coherent
    <3>4. rpc'[r] \notin {"served", "missing", "error"} => answer'[r] = "waiting"
      BY DEF answer, Coherent
    <3> QED
      BY <3>1, <3>2, <3>3, <3>4
  <2>3. CASE answer'[r] = "waiting"
    <3>1. answer' = answer
      BY <1>3, <1>4, <2>1, <2>3, OwnAnswerKept
    <3> QED
      BY <1>1, <1>2, <3>1
  <2>4. CASE answer'[r] \in {"error", IF blob = Absent THEN "missing" ELSE blob}
    <3>1. WO!Get(r)
      BY <1>1, <1>2, <1>3, <2>1, <2>4 DEF WO!Get
    <3> QED
      BY <3>1 DEF WO!WONext
  <2> QED
    BY <2>2, <2>3, <2>4
<1> QED
  BY <1>5, <1>6 DEF Read, Request, ReadSidecar, FallBack, Stat, Hash, Open, ReadFails, Reading

\* The bucket calls of a created file implement the write-once register: every
\* behaviour of its uploads and downloads is one of WriteOnce.
THEOREM FileImplementsWriteOnce == Spec => ImplementsWriteOnce
<1>1. Init => overwrite \/ WO!WOInit
  BY DEF Init, WO!WOInit, reply, answer
<1>2. TypeOK /\ TypeOK' /\ CreateOnceInv /\ CreateOnceInv' /\ NoEviction /\ [Next]_vars
        => [overwrite \/ WO!WONext]_(WO!woVars)
  <2> SUFFICES ASSUME TypeOK, TypeOK', CreateOnceInv, CreateOnceInv', NoEviction, [Next]_vars,
                      ~overwrite
               PROVE  [WO!WONext]_(WO!woVars)
    OBVIOUS
  <2>1. CASE Rot \/ UNCHANGED vars
    <3>1. wpc' = wpc /\ readerVars' = readerVars /\ blob' = blob /\ body' = body
      BY <2>1 DEF Rot, vars, readerVars, writerVars
    <3> QED
      BY <3>1, ReplyKept, AnswerKept DEF WO!woVars
  <2>2. ~overwrite'
    BY ModeKept
  <2>3. ASSUME NEW e \in Evictors PROVE ~Evict(e)
    BY DEF NoEviction, Evict, DeleteBlob, DeleteSidecar, DeleteFails
  <2> QED
    BY <2>1, <2>2, <2>3, WriterSteps, ReaderSteps DEF Next
<1> QED
  BY <1>1, <1>2, TypeCorrect, CreateOnceInvariant, PTL DEF Spec, ImplementsWriteOnce
-----------------------------------------------------------------------------
(* Every file, overwritable or not.                                         *)

\* Who is about to commit has verified its body.
VerifiedInv == \A w \in Writers : wpc[w] = "commit" => declared[w] \in {Absent, body[w]}

\* A blob is only ever the whole body of an upload whose declared digests matched,
\* in either mode of writeFile.
THEOREM CommitsVerified == Spec => CommitsOnlyVerified
<1> USE DEF VerifiedInv, TypeOK, fileVars, writerVars, readerVars
<1>1. Init => VerifiedInv
  BY DEF Init
<1>2. TypeOK /\ VerifiedInv /\ [Next]_vars => VerifiedInv'
  BY DEF Next, Write, Read, Evict, Begin, Probe, Verify, Abort, Commit, CommitUnanswered,
         CanCommit, CommitRefused, CommitFails, WriteSidecar, SidecarFails, Request,
         ReadSidecar, FallBack, Stat, Hash, Open, ReadFails, Rot, vars,
         DeleteBlob, DeleteSidecar, DeleteFails, Running
<1>3. TypeOK /\ VerifiedInv /\ [Next]_vars
        => [blob' \notin {blob, Absent} =>
              \E w \in Writers : /\ wpc[w] \in Running
                                 /\ blob' = body[w]
                                 /\ declared[w] \in {Absent, body[w]}]_vars
  BY DEF Next, Write, Read, Evict, Begin, Probe, Verify, Abort, Commit, CommitUnanswered,
         CanCommit, CommitRefused, CommitFails, WriteSidecar, SidecarFails, Request,
         ReadSidecar, FallBack, Stat, Hash, Open, ReadFails, Rot, vars,
         DeleteBlob, DeleteSidecar, DeleteFails, Running
<1> QED
  BY <1>1, <1>2, <1>3, TypeCorrect, PTL DEF Spec, CommitsOnlyVerified

\* While an upload is alone nothing else runs, so what it has written is there.
SoloInv ==
  \A w \in alone :
    /\ evicting = {}
    /\ \A v \in Writers \ {w} : wpc[v] \notin Running
    /\ wpc[w] \in {"sidecar", "ok"} => blob = body[w]
    /\ wpc[w] = "ok" => sidecar \in {body[w], Corrupt}

LEMMA SoloStep ==
  ASSUME TypeOK, SoloInv, [Next]_vars
  PROVE  SoloInv'
<1> USE DEF TypeOK, SoloInv, Running, fileVars, writerVars, readerVars
<1>1. ASSUME NEW v \in Writers, Begin(v) PROVE SoloInv'
  <2>1. alone' = {} \/ (alone' = {v} /\ evicting = {} /\ \A u \in Writers : wpc[u] \notin Running)
    BY <1>1 DEF Begin
  <2>2. wpc'[v] \in {"stream", "probe"} /\ \A u \in Writers \ {v} : wpc'[u] = wpc[u]
    BY <1>1 DEF Begin
  <2>3. evicting' = evicting
    BY <1>1 DEF Begin
  <2> QED
    BY <2>1, <2>2, <2>3
<1>2. ASSUME NEW v \in Writers,
             Probe(v) \/ Verify(v) \/ Abort(v) \/ CommitRefused(v) \/ CommitFails(v)
      PROVE  SoloInv'
  BY <1>2 DEF Probe, Verify, Abort, CommitRefused, CommitFails
<1>3. ASSUME NEW v \in Writers, Commit(v) \/ CommitUnanswered(v) PROVE SoloInv'
  BY <1>3 DEF Commit, CommitUnanswered, CanCommit
<1>4. ASSUME NEW v \in Writers, WriteSidecar(v) \/ SidecarFails(v) PROVE SoloInv'
  BY <1>4 DEF WriteSidecar, SidecarFails
<1>5. ASSUME NEW r \in Readers, Read(r) PROVE SoloInv'
  BY <1>5 DEF Read, Request, ReadSidecar, FallBack, Stat, Hash, Open, ReadFails
<1>6. ASSUME NEW e \in Evictors, Evict(e) PROVE SoloInv'
  BY <1>6 DEF Evict, DeleteBlob, DeleteSidecar, DeleteFails
<1>7. CASE Rot
  BY <1>7 DEF Rot
<1>8. CASE UNCHANGED vars
  BY <1>8 DEF vars
<1> QED
  BY <1>1, <1>2, <1>3, <1>4, <1>5, <1>6, <1>7, <1>8 DEF Next, Write

\* An answered upload that nothing has overlapped or followed owns both objects of
\* the file, whatever failed uploads and interrupted evictions left before it.
THEOREM SoloUploadsSettle == Spec => []SoloUploadSettles
<1>1. Init => SoloInv
  BY DEF Init, SoloInv
<1>2. TypeOK /\ SoloInv /\ [Next]_vars => SoloInv'
  BY SoloStep
<1>3. SoloInv => SoloUploadSettles
  BY DEF SoloInv, SoloUploadSettles
<1> QED
  BY <1>1, <1>2, <1>3, TypeCorrect, PTL DEF Spec
-----------------------------------------------------------------------------
(* Generic.                                                                  *)

\* What a PUT is about fits where it is: only files are uploaded, only containers
\* written, and one that has not begun brings nothing.
StepInv(p) ==
    /\ ppc[p] = "idle" => kind[p] = "package" /\ notes[p] = Bare
    /\ kind[p] = "file" => notes[p] = Bare
    /\ ppc[p] = "parent" => kind[p] # "package"
    /\ ppc[p] \in {"version", "upload", "conflict"} => kind[p] = "file"
    /\ ppc[p] \in {"add", "read", "write", "updated"} => kind[p] \in Containers

\* The actions of one PUT and one GET, by name.
LEMMA GenericSteps ==
    ASSUME [GenericNext]_genericVars
    PROVE  \/ \E p \in Puts : Put(p)
           \/ \E g \in Gets : Get(g)
           \/ UNCHANGED genericVars
BY DEF GenericNext

\* A record that is added is what was there, or new.
LEMMA AddedTyped ==
    ASSUME GenericTypeOK, NEW c \in Containers, NEW p \in Puts, NEW n \in Notes \cup {Bare}
    PROVE  /\ Added(c, p, n) \in [Containers -> {None} \cup Envelopes]
           /\ \A d \in Containers : record[d] # None => Added(c, p, n)[d] = record[d]
           /\ \A d \in Containers \ {c} : Added(c, p, n)[d] = record[d]
           /\ record[c] = None => Added(c, p, n)[c] = [created |-> p, notes |-> n]
           /\ Added(c, p, n)[c] # None
<1>1. [created |-> p, notes |-> n] \in Envelopes
  BY DEF Envelopes
<1>2. [created |-> p, notes |-> n] # None
  BY NoneAssumption DEF Envelopes
<1> QED
  BY <1>1, <1>2 DEF GenericTypeOK, Added

\* Every step of a PUT keeps the types and stays where its kind belongs.
LEMMA PutTyped ==
    ASSUME GenericTypeOK, \A q \in Puts : StepInv(q), NEW p \in Puts, Put(p)
    PROVE  GenericTypeOK' /\ \A q \in Puts : StepInv(q)'
<1> USE DEF GenericTypeOK, StepInv, PutSteps, Success, Refusals, PutAt, Answer, getVars
<1>1. CASE BeginPut(p)
  BY <1>1 DEF BeginPut, Containers
<1>2. CASE AddParent(p)
  <2>1. record' \in [Containers -> {None} \cup Envelopes]
    BY <1>2, AddedTyped DEF AddParent, Containers
  <2>2. \A q \in Puts : StepInv(q)'
    BY <1>2 DEF AddParent, Containers
  <2>3. ppc' \in [Puts -> PutSteps \cup Success \cup Refusals]
    BY <1>2 DEF AddParent
  <2> QED
    BY <1>2, <2>1, <2>2, <2>3 DEF AddParent
<1>3. CASE Add(p)
  <2>1. record' \in [Containers -> {None} \cup Envelopes]
    BY <1>3, AddedTyped DEF Add
  <2>2. \A q \in Puts : StepInv(q)'
    BY <1>3 DEF Add, Containers
  <2>3. ppc' \in [Puts -> PutSteps \cup Success \cup Refusals]
    BY <1>3 DEF Add
  <2> QED
    BY <1>3, <2>1, <2>2, <2>3 DEF Add
<1>4. CASE ReadRecord(p)
  BY <1>4 DEF ReadRecord
<1>5. CASE WriteRecord(p)
  <2>1. record' \in [Containers -> {None} \cup Envelopes]
    BY <1>5 DEF WriteRecord, Envelopes
  <2>2. \A q \in Puts : StepInv(q)'
    BY <1>5 DEF WriteRecord, Containers
  <2>3. ppc' \in [Puts -> PutSteps \cup Success \cup Refusals]
    BY <1>5 DEF WriteRecord
  <2> QED
    BY <1>5, <2>1, <2>2, <2>3 DEF WriteRecord
<1>6. CASE Upload(p)
  BY <1>6 DEF Upload, Containers
<1>7. CASE PutFails(p)
  BY <1>7 DEF PutFails
<1> QED
  BY <1>1, <1>2, <1>3, <1>4, <1>5, <1>6, <1>7 DEF Put

\* Every step of a GET keeps the types, and no step of one touches a PUT.
LEMMA GetTyped ==
    ASSUME GenericTypeOK, NEW g \in Gets, Get(g)
    PROVE  GenericTypeOK' /\ UNCHANGED <<allowOverwrite, record, file, putVars>>
<1> USE DEF GenericTypeOK, GetSteps, GetAnswers, Goto, putVars
<1>1. CASE Ask(g)
  <2>1. due' \in [Gets -> SUBSET {"file", "notes"}]
    BY <1>1 DEF Ask
  <2>2. target' \in [Gets -> Containers] /\ gpc' \in [Gets -> GetSteps \cup GetAnswers \cup {"idle"}]
    BY <1>1 DEF Ask
  <2> QED
    BY <1>1, <2>1, <2>2 DEF Ask
<1>2. CASE LookFor(g)
  BY <1>2 DEF LookFor
<1>3. CASE List(g)
  BY <1>3 DEF List
<1>4. CASE ShowRecord(g)
  BY <1>4, NoneAssumption DEF ShowRecord, Envelopes
<1>5. CASE GetFails(g)
  BY <1>5 DEF GetFails
<1> QED
  BY <1>1, <1>2, <1>3, <1>4, <1>5 DEF Get

LEMMA GenericTyped == GenericSpec => [](GenericTypeOK /\ \A p \in Puts : StepInv(p))
<1>1. GenericInit => GenericTypeOK /\ \A p \in Puts : StepInv(p)
  BY DEF GenericInit, GenericTypeOK, StepInv, Containers, PutSteps
<1>2. GenericTypeOK /\ (\A p \in Puts : StepInv(p)) /\ [GenericNext]_genericVars
      => GenericTypeOK' /\ (\A p \in Puts : StepInv(p))'
  <2> SUFFICES ASSUME GenericTypeOK, \A p \in Puts : StepInv(p), [GenericNext]_genericVars
               PROVE  GenericTypeOK' /\ \A p \in Puts : StepInv(p)'
    OBVIOUS
  <2>1. ASSUME NEW g \in Gets, Get(g)
        PROVE  GenericTypeOK' /\ \A p \in Puts : StepInv(p)'
    BY <2>1, GetTyped DEF StepInv, putVars
  <2>2. CASE UNCHANGED genericVars
    BY <2>2 DEF genericVars, GenericTypeOK, StepInv
  <2> QED
    BY <2>1, <2>2, PutTyped, GenericSteps
<1> QED
  BY <1>1, <1>2, PTL DEF GenericSpec

\* Every reachable state of the containers, the file, the PUTs and the GETs is well typed.
THEOREM GenericTypeCorrect == GenericSpec => []GenericTypeOK
BY GenericTyped, PTL

\* A record keeps its creation time, and annotations once it has some; the file, once
\* it is there, is there for good.
RecordsStand ==
    \A c \in Containers : record[c] # None =>
        /\ record'[c] # None /\ record'[c].created = record[c].created
        /\ record[c].notes # Bare => record'[c].notes # Bare

FileStands == file # None => file' # None

\* A PUT that is to write has annotations and found a record, whose creation time is
\* the one it has read.
WriterInv(p) ==
    /\ ppc[p] \in {"read", "write"} => notes[p] # Bare /\ record[kind[p]] # None
    /\ ppc[p] = "write" => /\ read[p] # None
                           /\ read[p].created = record[kind[p]].created
    /\ kind[p] = "file" /\ ppc[p] = "created" => file # None

\* What a GET owes is there, and on each of its later steps it has found it.
DueInv(g) ==
    /\ "file" \in due[g] => file # None
    /\ "notes" \in due[g] => record[target[g]] # None /\ record[target[g]].notes # Bare
    /\ due[g] # {} => gpc[g] # "missing"
    /\ "file" \in due[g] /\ gpc[g] \in {"record", "ok"} => listed[g]
    /\ "notes" \in due[g] /\ gpc[g] = "ok" => shown[g] # Bare

GenericInv ==
    /\ GenericTypeOK
    /\ \A p \in Puts : StepInv(p) /\ WriterInv(p)
    /\ CreatedOnce /\ AnnotationsStand

\* No step of a PUT forgets what a record was created as, or that it was annotated.
LEMMA PutStands ==
    ASSUME GenericInv, NEW p \in Puts, Put(p)
    PROVE  RecordsStand /\ FileStands
<1> USE DEF GenericInv, GenericTypeOK, RecordsStand, FileStands, Containers
<1>1. CASE BeginPut(p) \/ ReadRecord(p) \/ PutFails(p)
  BY <1>1 DEF BeginPut, ReadRecord, PutFails
<1>2. CASE AddParent(p) \/ Add(p)
  <2>1. PICK c \in Containers, n \in Notes \cup {Bare} : record' = Added(c, p, n)
    <3>1. CASE AddParent(p) /\ ppc[p] = "parent"
      <4>1. record' = Added("package", p, Bare)
        BY <3>1 DEF AddParent
      <4> QED
        BY <4>1
    <3>2. CASE AddParent(p) /\ ppc[p] # "parent"
      <4>1. record' = Added("version", p, Bare)
        BY <3>2 DEF AddParent
      <4> QED
        BY <4>1
    <3>3. CASE Add(p)
      <4>1. kind[p] \in Containers /\ notes[p] \in Notes \cup {Bare} /\ record' = Added(kind[p], p, notes[p])
        BY <3>3 DEF Add, StepInv
      <4> QED
        BY <4>1
    <3> QED
      BY <1>2, <3>1, <3>2, <3>3
  <2>2. \A d \in Containers : record[d] # None => record'[d] = record[d]
    BY <2>1 DEF Added
  <2>3. file' = file
    BY <1>2 DEF AddParent, Add
  <2> QED
    BY <2>2, <2>3
<1>3. CASE WriteRecord(p)
  <2>1. kind[p] \in Containers /\ read[p] # None /\ notes[p] # Bare
        /\ read[p].created = record[kind[p]].created
    BY <1>3 DEF WriteRecord, StepInv, WriterInv
  <2>2. record' = [record EXCEPT ![kind[p]] = [created |-> read[p].created, notes |-> notes[p]]]
    BY <1>3, <2>1 DEF WriteRecord
  <2>3. [created |-> read[p].created, notes |-> notes[p]] # None
    <3>1. [created |-> read[p].created, notes |-> notes[p]] \in Envelopes
      BY <2>1 DEF Envelopes
    <3> QED
      BY <3>1, NoneAssumption
  <2> QED
    BY <1>3, <2>1, <2>2, <2>3 DEF WriteRecord
<1>4. CASE Upload(p)
  BY <1>4, NoneAssumption DEF Upload
<1> QED
  BY <1>1, <1>2, <1>3, <1>4 DEF Put

\* The request that was answered 201 made the record, and nothing since has made another.
LEMMA PutInv ==
    ASSUME GenericInv, NEW p \in Puts, Put(p)
    PROVE  GenericInv'
<1>1. GenericTypeOK' /\ \A q \in Puts : StepInv(q)'
  BY PutTyped DEF GenericInv
<1>2. RecordsStand /\ FileStands
  BY PutStands
<1>3. \A q \in Puts \ {p} : /\ ppc'[q] = ppc[q] /\ kind'[q] = kind[q]
                            /\ notes'[q] = notes[q] /\ read'[q] = read[q]
  BY DEF GenericInv, GenericTypeOK, Put, BeginPut, AddParent, Add, ReadRecord, WriteRecord,
         Upload, PutFails, PutAt, Answer
<1>4. /\ ppc[p] # "idle" => kind'[p] = kind[p] /\ notes'[p] = notes[p]
      /\ ppc[p] \notin Success
      /\ ppc[p] = "idle" => kind[p] = "package" /\ notes[p] = Bare /\ ppc'[p] \in {"add", "parent"}
  BY DEF GenericInv, StepInv, GenericTypeOK, Put, BeginPut, AddParent, Add, ReadRecord,
         WriteRecord, Upload, PutFails, PutAt, PutSteps, Success
<1>5. \A q \in Puts \ {p} : WriterInv(q)'
  BY <1>2, <1>3 DEF GenericInv, GenericTypeOK, WriterInv, StepInv, RecordsStand, FileStands
<1>6. WriterInv(p)'
  <2> USE DEF GenericInv, GenericTypeOK, StepInv, WriterInv, PutAt, Answer, PutSteps, Success
  <2>1. CASE BeginPut(p)
    BY <1>4, <2>1 DEF BeginPut
  <2>2. CASE AddParent(p)
    BY <2>2 DEF AddParent
  <2>3. CASE Add(p)
    <3>1. kind[p] \in Containers /\ record'[kind[p]] # None
      BY <2>3, NoneAssumption DEF Add, Added, Envelopes
    <3> QED
      BY <2>3, <3>1 DEF Add, Containers
  <2>4. CASE ReadRecord(p)
    BY <2>4 DEF ReadRecord, Containers
  <2>5. CASE WriteRecord(p)
    BY <2>5 DEF WriteRecord, Containers
  <2>6. CASE Upload(p)
    BY <2>6, NoneAssumption DEF Upload
  <2>7. CASE PutFails(p)
    BY <2>7 DEF PutFails
  <2> QED
    BY <2>1, <2>2, <2>3, <2>4, <2>5, <2>6, <2>7 DEF Put
<1>7. CreatedOnce'
  <2> SUFFICES ASSUME NEW q \in Puts, kind'[q] \in Containers, ppc'[q] = "created"
               PROVE  record'[kind'[q]] # None /\ record'[kind'[q]].created = q
    BY DEF CreatedOnce
  <2>1. CASE q # p
    BY <1>2, <1>3, <2>1 DEF GenericInv, CreatedOnce, RecordsStand
  <2>2. CASE q = p
    <3>1. Add(p) /\ record[kind[p]] = None
      BY <1>4, <2>2 DEF GenericInv, GenericTypeOK, StepInv, Put, BeginPut, AddParent, Add,
         ReadRecord, WriteRecord, Upload, PutFails, PutAt, Answer, PutSteps, Success, Containers
    <3>2. kind[p] \in Containers /\ kind' = kind
      BY <3>1 DEF GenericInv, StepInv, Add
    <3>3. record'[kind[p]] = [created |-> p, notes |-> notes[p]] /\ record'[kind[p]] # None
      BY <3>1, <3>2, NoneAssumption DEF GenericInv, GenericTypeOK, Add, Added, Envelopes
    <3> QED
      BY <2>2, <3>2, <3>3
  <2> QED
    BY <2>1, <2>2
\* A record that p creates or replaces has the annotations p brings.
<1>8. ASSUME WriteRecord(p) \/ (Add(p) /\ record[kind[p]] = None)
      PROVE  /\ kind'[p] = kind[p] /\ notes'[p] = notes[p]
             /\ kind[p] \in Containers /\ record'[kind[p]] # None
             /\ record'[kind[p]].notes = notes[p]
             /\ WriteRecord(p) => notes[p] # Bare
  <2>1. kind[p] \in Containers /\ kind' = kind /\ notes' = notes
        /\ (WriteRecord(p) => notes[p] # Bare)
    BY <1>8 DEF GenericInv, StepInv, WriterInv, WriteRecord, Add
  <2>2. PICK e : /\ record'[kind[p]] = [created |-> e, notes |-> notes[p]]
                /\ e \in Puts
    BY <1>8, <2>1 DEF GenericInv, GenericTypeOK, WriteRecord, Add, Added, Envelopes
  <2>3. record'[kind[p]] \in Envelopes
    BY <2>1, <2>2 DEF GenericInv, GenericTypeOK, Envelopes
  <2> QED
    BY <2>1, <2>2, <2>3, NoneAssumption
<1>9. AnnotationsStand'
  <2> SUFFICES ASSUME NEW c \in Containers, NEW q \in Puts,
                      kind'[q] = c, notes'[q] # Bare, ppc'[q] \in Success
               PROVE  record'[c] # None
                      /\ \E a \in Puts : /\ kind'[a] = c /\ notes'[a] # Bare
                                         /\ record'[c].notes = notes'[a]
    BY DEF AnnotationsStand, Annotators
  <2>1. CASE q # p
    <3>1. PICK a \in Puts : /\ record[c] # None /\ kind[a] = c /\ notes[a] # Bare
                            /\ record[c].notes = notes[a]
      BY <1>3, <2>1 DEF GenericInv, AnnotationsStand, Annotators
    <3>2. kind'[a] = c /\ notes'[a] # Bare /\ notes'[a] = notes[a]
      BY <1>3, <1>4, <3>1
    <3>3. CASE WriteRecord(p) /\ kind[p] = c
      BY <1>8, <3>3
    <3>4. CASE ~WriteRecord(p) \/ kind[p] # c
      <4>1. record'[c] = record[c]
        BY <3>1, <3>4 DEF GenericInv, GenericTypeOK, StepInv, Put, BeginPut, AddParent, Add,
           ReadRecord, WriteRecord, Upload, PutFails, Added
      <4> QED
        BY <3>1, <3>2, <4>1
    <3> QED
      BY <3>3, <3>4
  <2>2. CASE q = p
    <3>1. WriteRecord(p) \/ (Add(p) /\ record[kind[p]] = None)
      BY <1>3, <1>4, <2>2 DEF GenericInv, GenericTypeOK, StepInv, Put, BeginPut, AddParent, Add,
         ReadRecord, WriteRecord, Upload, PutFails, PutAt, Answer, PutSteps, Success, Containers
    <3> QED
      BY <1>8, <2>2, <3>1 DEF WriteRecord, Add
  <2> QED
    BY <2>1, <2>2
<1> QED
  BY <1>1, <1>5, <1>6, <1>7, <1>9 DEF GenericInv

\* What a GET is owed outlasts every PUT, and each of its own steps finds it.
LEMMA DueStep ==
    ASSUME GenericInv, NEW g \in Gets, DueInv(g),
           \/ \E p \in Puts : Put(p)
           \/ \E h \in Gets : Get(h)
           \/ UNCHANGED genericVars
    PROVE  DueInv(g)'
<1>1. ASSUME NEW p \in Puts, Put(p) PROVE DueInv(g)'
  <2>1. UNCHANGED getVars
    BY <1>1 DEF Put, BeginPut, AddParent, Add, ReadRecord, WriteRecord, Upload, PutFails
  <2>2. RecordsStand /\ FileStands
    BY <1>1, PutStands
  <2> QED
    BY <2>1, <2>2 DEF GenericInv, GenericTypeOK, DueInv, getVars, RecordsStand, FileStands
<1>2. ASSUME NEW h \in Gets \ {g}, Get(h) PROVE DueInv(g)'
  <2>1. /\ gpc'[g] = gpc[g] /\ target'[g] = target[g] /\ listed'[g] = listed[g]
        /\ shown'[g] = shown[g] /\ due'[g] = due[g] /\ UNCHANGED <<record, file>>
    BY <1>2 DEF GenericInv, GenericTypeOK, Get, Ask, LookFor, List, ShowRecord, GetFails, Goto
  <2> QED
    BY <2>1 DEF DueInv
<1>3. CASE Ask(g)
  <2>1. PICK c \in Containers :
          /\ target' = [target EXCEPT ![g] = c]
          /\ due' = [due EXCEPT ![g] =
                (IF \E p \in Puts : kind[p] = "file" /\ ppc[p] = "created" THEN {"file"} ELSE {})
                \cup (IF \E p \in Annotators(c) : ppc[p] \in Success THEN {"notes"} ELSE {})]
    BY <1>3 DEF Ask
  <2>2. target'[g] = c /\ gpc'[g] = "exists" /\ UNCHANGED <<record, file>>
    BY <1>3, <2>1 DEF GenericInv, GenericTypeOK, Ask, Goto
  <2>3. "file" \in due'[g] => file # None
    BY <2>1 DEF GenericInv, GenericTypeOK, WriterInv
  <2>4. "notes" \in due'[g] => record[c] # None /\ record[c].notes # Bare
    <3> SUFFICES ASSUME "notes" \in due'[g]
                 PROVE  record[c] # None /\ record[c].notes # Bare
      OBVIOUS
    <3>1. PICK p \in Annotators(c) : ppc[p] \in Success
      BY <2>1 DEF GenericInv, GenericTypeOK
    <3> QED
      BY <3>1 DEF GenericInv, AnnotationsStand, Annotators
  <2> QED
    BY <2>2, <2>3, <2>4 DEF DueInv
<1>4. CASE LookFor(g)
  BY <1>4 DEF GenericInv, GenericTypeOK, LookFor, Goto, DueInv, Exists
<1>5. CASE List(g)
  BY <1>5 DEF GenericInv, GenericTypeOK, List, Goto, DueInv
<1>6. CASE ShowRecord(g)
  BY <1>6 DEF GenericInv, GenericTypeOK, ShowRecord, Goto, DueInv
<1>7. CASE GetFails(g)
  BY <1>7 DEF GenericInv, GenericTypeOK, GetFails, Goto, DueInv
<1>8. CASE UNCHANGED genericVars
  BY <1>8 DEF genericVars, DueInv
<1> QED
  BY <1>1, <1>2, <1>3, <1>4, <1>5, <1>6, <1>7, <1>8 DEF Get

\* The invariants of the PUTs and of the GETs hold together in every reachable state.
LEMMA GenericHolds == GenericSpec => [](GenericInv /\ \A g \in Gets : DueInv(g))
<1>1. GenericInit => GenericInv /\ \A g \in Gets : DueInv(g)
  <2> SUFFICES ASSUME GenericInit PROVE GenericInv /\ \A g \in Gets : DueInv(g)
    OBVIOUS
  <2>1. GenericTypeOK
    BY DEF GenericInit, GenericTypeOK, Containers, PutSteps
  <2>2. \A p \in Puts : StepInv(p) /\ WriterInv(p)
    BY DEF GenericInit, StepInv, WriterInv
  <2>3. CreatedOnce /\ AnnotationsStand /\ \A g \in Gets : DueInv(g)
    BY DEF GenericInit, CreatedOnce, AnnotationsStand, DueInv, Success
  <2> QED
    BY <2>1, <2>2, <2>3 DEF GenericInv
<1>2. GenericInv /\ (\A g \in Gets : DueInv(g)) /\ [GenericNext]_genericVars
      => GenericInv' /\ (\A g \in Gets : DueInv(g))'
  <2> SUFFICES ASSUME GenericInv, \A g \in Gets : DueInv(g), [GenericNext]_genericVars
               PROVE  GenericInv' /\ \A g \in Gets : DueInv(g)'
    OBVIOUS
  <2>1. ASSUME NEW g \in Gets, Get(g)
        PROVE  GenericTypeOK' /\ UNCHANGED <<allowOverwrite, record, file, putVars>>
    BY <2>1, GetTyped DEF GenericInv
  <2>2. ASSUME UNCHANGED genericVars
        PROVE  GenericTypeOK' /\ UNCHANGED <<allowOverwrite, record, file, putVars>>
    <3> GenericTypeOK
      BY DEF GenericInv
    <3>1. GenericTypeOK'
      BY <2>2 DEF genericVars, GenericTypeOK
    <3>2. UNCHANGED <<allowOverwrite, record, file, putVars>>
      BY <2>2 DEF genericVars, putVars
    <3> QED
      BY <3>1, <3>2
  <2>3. ASSUME GenericTypeOK', UNCHANGED <<allowOverwrite, record, file, putVars>>
        PROVE  GenericInv'
    BY <2>3 DEF GenericInv, putVars, StepInv, WriterInv, CreatedOnce, AnnotationsStand, Annotators
  <2>4. GenericInv'
    <3>1. CASE \E p \in Puts : Put(p)
      BY <3>1, PutInv
    <3>2. CASE \E g \in Gets : Get(g)
      BY <2>1, <2>3, <3>2
    <3>3. CASE UNCHANGED genericVars
      BY <2>2, <2>3, <3>3
    <3> QED
      BY <3>1, <3>2, <3>3, GenericSteps
  <2>5. \A g \in Gets : DueInv(g)'
    BY DueStep, GenericSteps
  <2> QED
    BY <2>4, <2>5
<1> QED
  BY <1>1, <1>2, PTL DEF GenericSpec

\* "201 on create and 200 on update ... CreatedAt preserved": a container's creation
\* time is the PUT that was answered 201, whatever number of creates, auto-creating
\* uploads and read-modify-writes of annotations (upsertAnnotations) raced it.
THEOREM CreatedOnceForAll == GenericSpec => []CreatedOnce
BY GenericHolds, PTL DEF GenericInv

\* Acknowledged annotations give way only to another PUT's annotations: a create under
\* IfNotExist (writeMeta) cannot wipe them, nor an upsert write what it read too early.
THEOREM AnnotationsAlwaysStand == GenericSpec => []AnnotationsStand
BY GenericHolds, PTL DEF GenericInv

\* A GET that begins after an upload or an annotating PUT was answered finds the
\* container, lists the upload and shows annotations, although it is several reads
\* (Exists, List, the record) with other requests between them.
THEOREM ReadsAlwaysFresh == GenericSpec => []ReadsAreFresh
<1>1. (\A g \in Gets : DueInv(g)) => ReadsAreFresh
  BY DEF DueInv, ReadsAreFresh
<1> QED
  BY <1>1, GenericHolds, PTL

\* As a step property: whoever writes (writeMeta under IfNotExist, upsertAnnotations,
\* AddFile), a record that is there keeps its creation time, annotations it has are never
\* emptied, and a file never goes away.
THEOREM RecordsOnlyGrow == GenericSpec => [][RecordsStand /\ FileStands]_genericVars
<1>1. GenericInv /\ [GenericNext]_genericVars => [RecordsStand /\ FileStands]_genericVars
  <2> SUFFICES ASSUME GenericInv, [GenericNext]_genericVars, ~UNCHANGED genericVars
               PROVE  RecordsStand /\ FileStands
    OBVIOUS
  <2>1. ASSUME NEW g \in Gets, Get(g) PROVE RecordsStand /\ FileStands
    <3>1. UNCHANGED <<allowOverwrite, record, file, putVars>>
      BY <2>1, GetTyped DEF GenericInv
    <3> QED
      BY <3>1 DEF RecordsStand, FileStands
  <2> QED
    BY <2>1, PutStands, GenericSteps
<1> QED
  BY <1>1, GenericHolds, PTL DEF GenericSpec
=============================================================================
