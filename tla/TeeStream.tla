------------------------------ MODULE TeeStream ------------------------------
(***************************************************************************)
(* Cold fills of one proxied file (surface.TeeStreamToStore, composed by   *)
(* the streamAndCache of every proxy surface).  Each request runs two      *)
(* goroutines: the handler copies the upstream body to the client and      *)
(* tees every chunk into a synchronous pipe, and the fill reads the pipe   *)
(* into a create-once write of the store.  Either side may fail or go      *)
(* away at any point, and requests for the same file race.                 *)
(***************************************************************************)
EXTENDS Integers

CONSTANTS
    Requests,
    Length,     \* the number of chunks of the whole file
    Framings,   \* whether upstream delimits its body: BOOLEAN or a part of it
    None

ASSUME LengthAssumption == Length \in Nat \ {0}
ASSUME FramingsAssumption == Framings \subseteq BOOLEAN
ASSUME NoneAssumption == None \notin Nat

VARIABLES
    framed,   \* the body has a Content-Length or chunked coding, so that an early
              \* end is an error and not the end of the body
    blob,     \* the chunks of the stored file, or None
    sidecar,  \* whether its sidecar is written
    parents,  \* whether package and version records are written
    hpc,      \* where the handler of each request is
    fpc,      \* where its fill is
    taken,    \* the chunks it has read from upstream
    ended,    \* what upstream's body came to: "open", "eof" or "error"
    sent,     \* the chunks its client was sent
    gone,     \* its client has left; the request's context is cancelled
    copyErr,  \* the copy to the client failed
    pipe,     \* the write side of its pipe: "open", "eof" or "error"
    shut,     \* whether the read side is closed
    filled,   \* the chunks its fill has written
    fillErr   \* the fill failed

fileVars == <<blob, sidecar, parents>>
handlerVars == <<hpc, taken, ended, sent, copyErr>>
fillVars == <<fpc, filled, fillErr>>
vars == <<framed, blob, sidecar, parents, hpc, fpc, taken, ended, sent, gone, copyErr,
          pipe, shut, filled, fillErr>>

HandlerSteps == {"idle", "read", "tee", "client", "close", "wait", "record", "done"}
FillSteps == {"idle", "probe", "copy", "commit", "sidecar", "shut", "done"}

TypeOK ==
    /\ framed \in Framings
    /\ blob \in (0..Length) \cup {None}
    /\ sidecar \in BOOLEAN /\ parents \in BOOLEAN
    /\ hpc \in [Requests -> HandlerSteps]
    /\ fpc \in [Requests -> FillSteps]
    /\ taken \in [Requests -> 0..Length]
    /\ ended \in [Requests -> {"open", "eof", "error"}]
    /\ sent \in [Requests -> 0..Length]
    /\ gone \in [Requests -> BOOLEAN]
    /\ copyErr \in [Requests -> BOOLEAN]
    /\ pipe \in [Requests -> {"open", "eof", "error"}]
    /\ shut \in [Requests -> BOOLEAN]
    /\ filled \in [Requests -> 0..Length]
    /\ fillErr \in [Requests -> BOOLEAN]

Init ==
    /\ framed \in Framings
    /\ blob = None /\ sidecar = FALSE /\ parents = FALSE
    /\ hpc = [r \in Requests |-> "idle"]
    /\ fpc = [r \in Requests |-> "idle"]
    /\ taken = [r \in Requests |-> 0]
    /\ ended = [r \in Requests |-> "open"]
    /\ sent = [r \in Requests |-> 0]
    /\ gone = [r \in Requests |-> FALSE]
    /\ copyErr = [r \in Requests |-> FALSE]
    /\ pipe = [r \in Requests |-> "open"]
    /\ shut = [r \in Requests |-> FALSE]
    /\ filled = [r \in Requests |-> 0]
    /\ fillErr = [r \in Requests |-> FALSE]
-----------------------------------------------------------------------------
(* The handler: io.Copy of a TeeReader to the client, close, wait, record.  *)

\* The file was not there when the surface looked, and upstream answered 200.
Start(r) ==
    /\ hpc[r] = "idle" /\ blob = None
    /\ hpc' = [hpc EXCEPT ![r] = "read"]
    /\ fpc' = [fpc EXCEPT ![r] = "probe"]
    /\ UNCHANGED <<framed, fileVars, taken, ended, sent, gone, copyErr, pipe, shut, filled, fillErr>>

\* The client disconnects, or the process is told to shut down.
Leave(r) ==
    /\ hpc[r] \notin {"idle", "done"} /\ ~gone[r]
    /\ gone' = [gone EXCEPT ![r] = TRUE]
    /\ UNCHANGED <<framed, fileVars, handlerVars, fillVars, pipe, shut>>

ReadChunk(r) ==
    /\ hpc[r] = "read" /\ taken[r] < Length
    /\ taken' = [taken EXCEPT ![r] = @ + 1]
    /\ hpc' = [hpc EXCEPT ![r] = "tee"]
    /\ UNCHANGED <<framed, fileVars, ended, sent, gone, copyErr, fillVars, pipe, shut>>

\* The body ends: after its last chunk or, where nothing delimits it, wherever
\* upstream closes the connection.
ReadEnd(r) ==
    /\ hpc[r] = "read" /\ (taken[r] = Length \/ ~framed)
    /\ ended' = [ended EXCEPT ![r] = "eof"]
    /\ hpc' = [hpc EXCEPT ![r] = "close"]
    /\ UNCHANGED <<framed, fileVars, taken, sent, gone, copyErr, fillVars, pipe, shut>>

\* The read fails: a framed body cut short, a broken connection, a cancelled context.
ReadFails(r) ==
    /\ hpc[r] = "read"
    /\ ended' = [ended EXCEPT ![r] = "error"]
    /\ copyErr' = [copyErr EXCEPT ![r] = TRUE]
    /\ hpc' = [hpc EXCEPT ![r] = "close"]
    /\ UNCHANGED <<framed, fileVars, taken, sent, gone, fillVars, pipe, shut>>

\* The write into the pipe returns once the fill has read the chunk.
Transfer(r) ==
    /\ hpc[r] = "tee" /\ fpc[r] = "copy" /\ ~shut[r]
    /\ filled' = [filled EXCEPT ![r] = taken[r]]
    /\ hpc' = [hpc EXCEPT ![r] = "client"]
    /\ UNCHANGED <<framed, fileVars, taken, ended, sent, gone, copyErr, fpc, fillErr, pipe, shut>>

SwallowNothing(r) ==
    /\ hpc[r] = "tee" /\ shut[r]
    /\ copyErr' = [copyErr EXCEPT ![r] = TRUE]
    /\ hpc' = [hpc EXCEPT ![r] = "close"]
    /\ UNCHANGED <<framed, fileVars, taken, ended, sent, gone, fillVars, pipe, shut>>

\* Once the fill has stopped, the write fails at once; storeTee swallows the error.
Swallow(r) ==
    /\ hpc[r] = "tee" /\ shut[r]
    /\ hpc' = [hpc EXCEPT ![r] = "client"]
    /\ UNCHANGED <<framed, fileVars, taken, ended, sent, gone, copyErr, fillVars, pipe, shut>>

\* The chunk goes to the client; a write after the client left may still succeed.
SendChunk(r) ==
    /\ hpc[r] = "client"
    /\ sent' = [sent EXCEPT ![r] = @ + 1]
    /\ hpc' = [hpc EXCEPT ![r] = "read"]
    /\ UNCHANGED <<framed, fileVars, taken, ended, gone, copyErr, fillVars, pipe, shut>>

SendFails(r) ==
    /\ hpc[r] = "client" /\ gone[r]
    /\ copyErr' = [copyErr EXCEPT ![r] = TRUE]
    /\ hpc' = [hpc EXCEPT ![r] = "close"]
    /\ UNCHANGED <<framed, fileVars, taken, ended, sent, gone, fillVars, pipe, shut>>

ClosesCleanly(r) ==
    /\ hpc[r] = "close"
    /\ pipe' = [pipe EXCEPT ![r] = "eof"]
    /\ hpc' = [hpc EXCEPT ![r] = "wait"]
    /\ UNCHANGED <<framed, fileVars, taken, ended, sent, gone, copyErr, fillVars, shut>>

\* Close of the write side, with the error of the copy if there was one.
ClosePipe(r) ==
    /\ hpc[r] = "close"
    /\ pipe' = [pipe EXCEPT ![r] = IF copyErr[r] THEN "error" ELSE "eof"]
    /\ hpc' = [hpc EXCEPT ![r] = "wait"]
    /\ UNCHANGED <<framed, fileVars, taken, ended, sent, gone, copyErr, fillVars, shut>>

IgnoresErrors(r) == TRUE

\* streamAndCache records the parents only when copy and fill both succeeded.
MayRecord(r) == ~copyErr[r] /\ ~fillErr[r]

\* The result of the fill arrives.
Collect(r) ==
    /\ hpc[r] = "wait" /\ fpc[r] = "done"
    /\ hpc' = [hpc EXCEPT ![r] = IF MayRecord(r) THEN "record" ELSE "done"]
    /\ UNCHANGED <<framed, fileVars, taken, ended, sent, gone, copyErr, fillVars, pipe, shut>>

\* recordParents, best effort.
Record(r) ==
    /\ hpc[r] = "record"
    /\ parents' \in {parents, TRUE}
    /\ hpc' = [hpc EXCEPT ![r] = "done"]
    /\ UNCHANGED <<framed, blob, sidecar, taken, ended, sent, gone, copyErr, fillVars, pipe, shut>>
-----------------------------------------------------------------------------
(* The fill: Version.AddFile on the read side of the pipe (Store.writeFile). *)

FailFill(r) ==
    /\ fillErr' = [fillErr EXCEPT ![r] = TRUE]
    /\ fpc' = [fpc EXCEPT ![r] = "shut"]

\* The store has the file, or the probe, the authorization or the writer fails.
Probe(r) ==
    /\ fpc[r] = "probe"
    /\ \/ FailFill(r)
       \/ /\ blob = None
          /\ fpc' = [fpc EXCEPT ![r] = "copy"]
          /\ UNCHANGED fillErr
    /\ UNCHANGED <<framed, fileVars, handlerVars, gone, filled, pipe, shut>>

\* The backend refuses a write, or the context is cancelled: the write is aborted.
WriteFails(r) ==
    /\ fpc[r] = "copy"
    /\ FailFill(r)
    /\ UNCHANGED <<framed, fileVars, handlerVars, gone, filled, pipe, shut>>

\* The read side comes to what the write side was closed with: the end of the body,
\* or an error that aborts the write.
Drain(r) ==
    /\ fpc[r] = "copy" /\ pipe[r] # "open"
    /\ \/ /\ pipe[r] = "error"
          /\ FailFill(r)
       \/ /\ pipe[r] = "eof"
          /\ fpc' = [fpc EXCEPT ![r] = "commit"]
          /\ UNCHANGED fillErr
    /\ UNCHANGED <<framed, fileVars, handlerVars, gone, filled, pipe, shut>>

\* The commit, which creates the blob unless there is one; it may fail, and it may
\* take effect without an answer.
Commit(r) ==
    /\ fpc[r] = "commit"
    /\ \/ /\ blob = None
          /\ blob' = filled[r]
          /\ \/ fpc' = [fpc EXCEPT ![r] = "sidecar"] /\ UNCHANGED fillErr
             \/ FailFill(r)
       \/ FailFill(r) /\ UNCHANGED blob
    /\ UNCHANGED <<framed, sidecar, parents, handlerVars, gone, filled, pipe, shut>>

WriteSidecar(r) ==
    /\ fpc[r] = "sidecar"
    /\ \/ sidecar' = TRUE /\ fpc' = [fpc EXCEPT ![r] = "shut"] /\ UNCHANGED fillErr
       \/ FailFill(r) /\ UNCHANGED sidecar
    /\ UNCHANGED <<framed, blob, parents, handlerVars, gone, filled, pipe, shut>>

LeaveOpen(r) ==
    /\ fpc[r] = "shut"
    /\ fpc' = [fpc EXCEPT ![r] = "done"]
    /\ UNCHANGED <<framed, fileVars, handlerVars, gone, filled, fillErr, pipe, shut>>

\* pr.CloseWithError, then the result is sent.
ShutPipe(r) ==
    /\ fpc[r] = "shut"
    /\ shut' = [shut EXCEPT ![r] = TRUE]
    /\ fpc' = [fpc EXCEPT ![r] = "done"]
    /\ UNCHANGED <<framed, fileVars, handlerVars, gone, filled, fillErr, pipe>>
-----------------------------------------------------------------------------
\* The steps that need neither upstream nor client.
Handle(r) == Transfer(r) \/ Swallow(r) \/ ClosePipe(r) \/ Collect(r) \/ Record(r)

Fill(r) == Probe(r) \/ WriteFails(r) \/ Drain(r) \/ Commit(r) \/ WriteSidecar(r) \/ ShutPipe(r)

Copy(r) == ReadChunk(r) \/ ReadEnd(r) \/ ReadFails(r) \/ SendChunk(r) \/ SendFails(r)

Next == \E r \in Requests : Start(r) \/ Leave(r) \/ Copy(r) \/ Handle(r) \/ Fill(r)

Spec == Init /\ [][Next]_vars

\* The goroutines run.  Upstream and client are only relied on once the context is
\* cancelled, when reads of the body and writes to the connection return; there is
\* no other bound on a transfer.  The store answers, and fails only now and then.
Fairness ==
    \A r \in Requests :
        /\ WF_vars(Handle(r))
        /\ WF_vars(Probe(r) \/ Drain(r) \/ Commit(r) \/ WriteSidecar(r) \/ ShutPipe(r))
        /\ WF_vars(gone[r] /\ Copy(r))

FairSpec == Spec /\ Fairness
-----------------------------------------------------------------------------
\* An interrupted stream "does not leave a partial cached file" (docs/pypi.md): what
\* is stored is the whole file, whoever filled it and whatever failed, if upstream's
\* framing tells the end of the body from a broken connection.
NoPartialFill == framed => blob \in {None, Length}

\* Only what a client was sent to its end is stored: a fill commits after the copy it
\* is fed by has ended without an error.
StoredWasDelivered ==
    blob # None => \E r \in Requests : ~copyErr[r] /\ ended[r] = "eof" /\ sent[r] = blob

\* "A Store-write failure never truncates the client": a response is cut short only
\* by its upstream or its client, and otherwise the client gets all upstream sent.
StoreNeverTruncates ==
    \A r \in Requests :
        /\ copyErr[r] => ended[r] = "error" \/ gone[r]
        /\ ended[r] = "eof" => sent[r] = taken[r]

\* Records are written only for a file that is stored with its sidecar.
ParentsAreBacked == parents => blob # None /\ sidecar

\* Neither goroutine is left behind: a request whose client leaves comes to its end,
\* whichever of the two waits for the other in the pipe.
DisconnectsEnd == \A r \in Requests : gone[r] ~> (hpc[r] = "done" /\ fpc[r] = "done")
=============================================================================
