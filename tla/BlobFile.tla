------------------------------ MODULE BlobFile ------------------------------
(***************************************************************************)
(* One file of a blobstore.Store: the blob object, its .meta sidecar, the  *)
(* requests that write it (Store.writeFile, shared by AddFile and          *)
(* AddCache), the downloads that read it (surface.RedirectOrStreamFile     *)
(* over file.Meta and file.Read, on a backend that signs no URLs), and the *)
(* evictions of a cache entry (file.Delete).                               *)
(*                                                                         *)
(* Every bucket call is one step, so requests interleave between calls.    *)
(* A content stands for its bytes, its length and its SHA-256 digest at    *)
(* once: two contents that differ have different digests.                  *)
(***************************************************************************)
CONSTANTS
    Bodies,          \* the complete contents uploads carry
    Writers,         \* requests that upload the file
    Readers,         \* requests that download it
    Evictors,        \* callers of CacheFile.Delete
    Modes,           \* the values CreateConfig.AllowOverwrite takes
    Absent,          \* no object under the key; also "no declared digest"
    Partial,         \* the part of a body that had arrived when its stream broke
    Corrupt          \* a sidecar that decodeMeta rejects

ASSUME AbsentAssumption == Absent \notin Bodies
ASSUME PartialAssumption == Partial \notin Bodies /\ Partial # Absent
ASSUME CorruptAssumption == Corrupt \notin Bodies /\ Corrupt \notin {Absent, Partial}
ASSUME ModeAssumption == Modes \subseteq BOOLEAN

VARIABLES
    overwrite, \* CreateConfig.AllowOverwrite, the same for every upload of a key
    blob,      \* the content under the blob key, or Absent
    sidecar,   \* the content whose digest and size the .meta records
    wpc,       \* where each upload is: the next bucket call, or its outcome
    body,      \* the content each upload carries
    declared,  \* the digest each upload declares (WithExpectedDigests), or Absent
    rpc,       \* where each download is
    head,      \* whether the download is a HEAD request
    digest,    \* the digest the download has for its ETag
    size,      \* the size it has for its Content-Length
    bytes,     \* the bytes it streamed to the client
    evicting,  \* evictors that have deleted the blob and not yet the sidecar
    alone      \* history: the upload that nothing has overlapped or followed, if any

fileVars == <<overwrite, blob, sidecar>>
writerVars == <<wpc, body, declared>>
readerVars == <<rpc, head, digest, size, bytes>>
vars == <<overwrite, blob, sidecar, wpc, body, declared, rpc, head, digest, size, bytes, evicting, alone>>

Running == {"probe", "stream", "commit", "sidecar"}
Outcomes == {"ok", "exists", "mismatch", "failed"}
Reading == {"meta", "stat", "hash", "open"}
Answers == {"served", "missing", "error"}

TypeOK ==
    /\ overwrite \in Modes
    /\ blob \in Bodies \cup {Partial, Absent}
    /\ sidecar \in Bodies \cup {Partial, Absent, Corrupt}
    /\ wpc \in [Writers -> Running \cup Outcomes \cup {"idle"}]
    /\ body \in [Writers -> Bodies]
    /\ declared \in [Writers -> Bodies \cup {Absent}]
    /\ rpc \in [Readers -> Reading \cup Answers \cup {"idle"}]
    /\ head \in [Readers -> BOOLEAN]
    /\ digest \in [Readers -> Bodies \cup {Partial, Absent}]
    /\ size \in [Readers -> Bodies \cup {Partial, Absent}]
    /\ bytes \in [Readers -> Bodies \cup {Partial, Absent}]
    /\ evicting \subseteq Evictors
    /\ alone \subseteq Writers

Init ==
    /\ overwrite \in Modes
    /\ blob = Absent
    /\ sidecar = Absent
    /\ wpc = [w \in Writers |-> "idle"]
    /\ body \in [Writers -> Bodies]
    /\ declared = [w \in Writers |-> Absent]
    /\ rpc = [r \in Readers |-> "idle"]
    /\ head = [r \in Readers |-> FALSE]
    /\ digest = [r \in Readers |-> Absent]
    /\ size = [r \in Readers |-> Absent]
    /\ bytes = [r \in Readers |-> Absent]
    /\ evicting = {}
    /\ alone = {}
-----------------------------------------------------------------------------
(* Uploads: Store.writeFile.                                               *)

\* A request (or a retry of an answered one) enters writeFile.
Begin(w) ==
    /\ wpc[w] \notin Running
    /\ \E b \in Bodies : body' = [body EXCEPT ![w] = b]
    /\ \E d \in Bodies \cup {Absent} : declared' = [declared EXCEPT ![w] = d]
    /\ wpc' = [wpc EXCEPT ![w] = IF overwrite THEN "stream" ELSE "probe"]
    /\ alone' = IF evicting = {} /\ \A v \in Writers : wpc[v] \notin Running THEN {w} ELSE {}
    /\ UNCHANGED <<fileVars, readerVars, evicting>>

\* The early reject of a create that finds the blob.
Probe(w) ==
    /\ wpc[w] = "probe"
    /\ wpc' = [wpc EXCEPT ![w] = IF blob = Absent THEN "stream" ELSE "exists"]
    /\ UNCHANGED <<fileVars, body, declared, readerVars, evicting, alone>>

\* The body ends; every declared digest is compared before Close commits.
Verify(w) ==
    /\ wpc[w] = "stream"
    /\ wpc' = [wpc EXCEPT ![w] =
                  IF declared[w] \in {Absent, body[w]} THEN "commit" ELSE "mismatch"]
    /\ UNCHANGED <<fileVars, body, declared, readerVars, evicting, alone>>

AbortKeepsPrefix(w) ==
    /\ wpc[w] = "stream"
    /\ wpc' = [wpc EXCEPT ![w] = "failed"]
    /\ blob' = Partial
    /\ UNCHANGED <<overwrite, sidecar, body, declared, readerVars, evicting, alone>>

\* The probe or the writer fails to open, or the body ends early: the writer's
\* context is cancelled before Close, so nothing is committed.
Abort(w) ==
    /\ wpc[w] \in {"probe", "stream"}
    /\ wpc' = [wpc EXCEPT ![w] = "failed"]
    /\ UNCHANGED <<fileVars, body, declared, readerVars, evicting, alone>>

CanCommitUnguarded(w) == wpc[w] = "commit"

\* With IfNotExist the backend commits only onto an absent key.
CanCommit(w) ==
    /\ wpc[w] = "commit"
    /\ overwrite \/ blob = Absent

\* Close commits the streamed bytes.
Commit(w) ==
    /\ CanCommit(w)
    /\ blob' = body[w]
    /\ wpc' = [wpc EXCEPT ![w] = "sidecar"]
    /\ UNCHANGED <<overwrite, sidecar, body, declared, readerVars, evicting, alone>>

\* The backend commits, and the request dies or loses the answer.
CommitUnanswered(w) ==
    /\ CanCommit(w)
    /\ blob' = body[w]
    /\ wpc' = [wpc EXCEPT ![w] = "failed"]
    /\ UNCHANGED <<overwrite, sidecar, body, declared, readerVars, evicting, alone>>

\* FailedPrecondition: mapCreateErr turns it into ErrAlreadyExists.
CommitRefused(w) ==
    /\ wpc[w] = "commit"
    /\ ~overwrite
    /\ blob # Absent
    /\ wpc' = [wpc EXCEPT ![w] = "exists"]
    /\ UNCHANGED <<fileVars, body, declared, readerVars, evicting, alone>>

\* Close fails and nothing is committed.
CommitFails(w) ==
    /\ wpc[w] = "commit"
    /\ wpc' = [wpc EXCEPT ![w] = "failed"]
    /\ UNCHANGED <<fileVars, body, declared, readerVars, evicting, alone>>

WriteSidecarOnce(w) ==
    /\ wpc[w] = "sidecar"
    /\ sidecar' = IF sidecar = Absent THEN body[w] ELSE sidecar
    /\ wpc' = [wpc EXCEPT ![w] = "ok"]
    /\ UNCHANGED <<overwrite, blob, body, declared, readerVars, evicting, alone>>

\* writeMeta, unconditional.
WriteSidecar(w) ==
    /\ wpc[w] = "sidecar"
    /\ sidecar' = body[w]
    /\ wpc' = [wpc EXCEPT ![w] = "ok"]
    /\ UNCHANGED <<overwrite, blob, body, declared, readerVars, evicting, alone>>

\* writeMeta fails, or the process dies before it: the blob stays, and the
\* sidecar may have landed before the answer was lost.
SidecarFails(w) ==
    /\ wpc[w] = "sidecar"
    /\ sidecar' \in {sidecar, body[w]}
    /\ wpc' = [wpc EXCEPT ![w] = "failed"]
    /\ UNCHANGED <<overwrite, blob, body, declared, readerVars, evicting, alone>>
-----------------------------------------------------------------------------
(* Downloads: RedirectOrStreamFile, file.Meta, recomputeMeta, file.Read.    *)

Request(r) ==
    /\ rpc[r] \notin Reading
    /\ rpc' = [rpc EXCEPT ![r] = "meta"]
    /\ head' \in {[head EXCEPT ![r] = h] : h \in BOOLEAN}
    /\ digest' = [digest EXCEPT ![r] = Absent]
    /\ size' = [size EXCEPT ![r] = Absent]
    /\ bytes' = [bytes EXCEPT ![r] = Absent]
    /\ UNCHANGED <<fileVars, writerVars, evicting, alone>>

\* What follows Meta: a HEAD is answered from it, a GET opens the blob.
AfterMeta(r) == IF head[r] THEN "served" ELSE "open"

TrustsSidecar(r) == sidecar # Absent

UsableSidecar(r) == sidecar \notin {Absent, Corrupt}

\* A readable, decodable sidecar is the Meta.
ReadSidecar(r) ==
    /\ rpc[r] = "meta"
    /\ UsableSidecar(r)
    /\ digest' = [digest EXCEPT ![r] = sidecar]
    /\ size' = [size EXCEPT ![r] = sidecar]
    /\ rpc' = [rpc EXCEPT ![r] = AfterMeta(r)]
    /\ UNCHANGED <<fileVars, writerVars, head, bytes, evicting, alone>>

\* No sidecar, or a corrupted one: recomputeMeta.
FallBack(r) ==
    /\ rpc[r] = "meta"
    /\ ~UsableSidecar(r)
    /\ rpc' = [rpc EXCEPT ![r] = "stat"]
    /\ UNCHANGED <<fileVars, writerVars, head, digest, size, bytes, evicting, alone>>

\* recomputeMeta takes the size from the blob's attributes.
Stat(r) ==
    /\ rpc[r] = "stat"
    /\ size' = [size EXCEPT ![r] = blob]
    /\ rpc' = [rpc EXCEPT ![r] = IF blob = Absent THEN "missing" ELSE "hash"]
    /\ UNCHANGED <<fileVars, writerVars, head, digest, bytes, evicting, alone>>

\* recomputeMeta takes the digest from a second read of the blob.
Hash(r) ==
    /\ rpc[r] = "hash"
    /\ digest' = [digest EXCEPT ![r] = blob]
    /\ rpc' = [rpc EXCEPT ![r] = IF blob = Absent THEN "missing" ELSE AfterMeta(r)]
    /\ UNCHANGED <<fileVars, writerVars, head, size, bytes, evicting, alone>>

\* file.Read opens the object as it is now; the reader keeps that generation.
Open(r) ==
    /\ rpc[r] = "open"
    /\ bytes' = [bytes EXCEPT ![r] = blob]
    /\ rpc' = [rpc EXCEPT ![r] = IF blob = Absent THEN "missing" ELSE "served"]
    /\ UNCHANGED <<fileVars, writerVars, head, digest, size, evicting, alone>>

\* A bucket call of the download fails: a 500.
ReadFails(r) ==
    /\ rpc[r] \in Reading
    /\ rpc' = [rpc EXCEPT ![r] = "error"]
    /\ UNCHANGED <<fileVars, writerVars, head, digest, size, bytes, evicting, alone>>
-----------------------------------------------------------------------------
(* Evictions of a cache entry, the only kind of file that has a Delete and *)
(* one that AddCache always overwrites: file.Delete removes the blob, then *)
(* the sidecar, and stops at the first error.                              *)

DeleteBlob(e) ==
    /\ overwrite
    /\ e \notin evicting
    /\ blob' = Absent
    /\ evicting' = evicting \cup {e}
    /\ alone' = {}
    /\ UNCHANGED <<overwrite, sidecar, writerVars, readerVars>>

DeleteSidecar(e) ==
    /\ e \in evicting
    /\ sidecar' = Absent
    /\ evicting' = evicting \ {e}
    /\ UNCHANGED <<overwrite, blob, writerVars, readerVars, alone>>

\* The second deletion fails and Delete returns the error.
DeleteFails(e) ==
    /\ e \in evicting
    /\ evicting' = evicting \ {e}
    /\ UNCHANGED <<fileVars, writerVars, readerVars, alone>>

\* The stored sidecar is damaged outside the program.
Rot ==
    /\ sidecar # Absent
    /\ sidecar' = Corrupt
    /\ UNCHANGED <<overwrite, blob, writerVars, readerVars, evicting, alone>>
-----------------------------------------------------------------------------
Write(w) ==
    \/ Begin(w) \/ Probe(w) \/ Verify(w) \/ Abort(w)
    \/ Commit(w) \/ CommitUnanswered(w) \/ CommitRefused(w) \/ CommitFails(w)
    \/ WriteSidecar(w) \/ SidecarFails(w)

Read(r) ==
    \/ Request(r) \/ ReadSidecar(r) \/ FallBack(r) \/ Stat(r) \/ Hash(r)
    \/ Open(r) \/ ReadFails(r)

Evict(e) == DeleteBlob(e) \/ DeleteSidecar(e) \/ DeleteFails(e)

Next ==
    \/ \E w \in Writers : Write(w)
    \/ \E r \in Readers : Read(r)
    \/ \E e \in Evictors : Evict(e)
    \/ Rot

Spec == Init /\ [][Next]_vars
-----------------------------------------------------------------------------
(***************************************************************************)
(* Properties of a file that is created once (overwrite = FALSE).          *)
(***************************************************************************)

\* The bytes published under a name never change, whoever uploads again: the
\* IfNotExist commit of writeFile, not its probe, decides between creators.
BlobImmutable == [][~overwrite /\ blob # Absent => blob' = blob]_vars

\* A sidecar is never torn from its blob: whatever creators race, fail or crash
\* between writeFile's commit and its writeMeta, a sidecar that decodes
\* describes the blob under the key.
NoTornSidecar == ~overwrite /\ sidecar \notin {Absent, Corrupt} => sidecar = blob

\* Of all concurrent creators at most one gets past the commit of writeFile,
\* and one told of a conflict was told so because the file is there.
SingleWinner == ~overwrite =>
    /\ \A v, w \in Writers : wpc[v] \in {"sidecar", "ok"} /\ wpc[w] \in {"sidecar", "ok"} => v = w
    /\ \A w \in Writers : wpc[w] = "exists" => blob # Absent

Coherent(r) == digest[r] = size[r] /\ (head[r] \/ bytes[r] = digest[r])

\* Every download RedirectOrStreamFile answers is coherent: ETag, length and
\* bytes come from separate bucket calls, and are of the same whole body.
CoherentDownload ==
    \A r \in Readers : ~overwrite /\ rpc[r] = "served" => Coherent(r) /\ digest[r] \in Bodies

\* The inductive strengthening of the three: whoever got past the commit is the
\* owner of the blob, and a download that knows a digest or a size knows the blob's.
OwnsBlob(w) == wpc[w] \in {"sidecar", "ok"} => blob = body[w]

KnowsBlob(r) ==
    /\ rpc[r] \in {"hash", "open"} => size[r] = blob /\ blob # Absent
    /\ rpc[r] = "open" => digest[r] = blob
    /\ rpc[r] = "served" => /\ blob # Absent
                            /\ digest[r] = blob /\ size[r] = blob
                            /\ head[r] \/ bytes[r] = blob

CreateOnceInv == ~overwrite =>
    /\ blob # Partial
    /\ NoTornSidecar
    /\ SingleWinner
    /\ \A w \in Writers : OwnsBlob(w)
    /\ \A r \in Readers : KnowsBlob(r)

\* What a file that is created once promises (WriteOnce) is what the bucket calls
\* of writeFile and RedirectOrStreamFile deliver.
reply == [w \in Writers |->
    IF wpc[w] \in {"probe", "stream", "commit"} THEN "pending"
    ELSE IF wpc[w] = "sidecar" THEN "taken"
    ELSE IF wpc[w] = "mismatch" THEN "failed" ELSE wpc[w]]

\* A download that is not coherent is given an answer WriteOnce never gives.
answer == [r \in Readers |->
    IF rpc[r] \in {"missing", "error"} THEN rpc[r]
    ELSE IF rpc[r] # "served" THEN "waiting"
    ELSE IF Coherent(r) THEN digest[r] ELSE "torn"]

WO == INSTANCE WriteOnce WITH
        value <- blob, offer <- body,
        Missing <- "missing", Failed <- "error", Waiting <- "waiting"

ImplementsWriteOnce ==
    /\ overwrite \/ WO!WOInit
    /\ [][overwrite \/ WO!WONext]_(WO!woVars)
-----------------------------------------------------------------------------
(***************************************************************************)
(* Properties of every file, overwritable ones (snapshots, cache entries,  *)
(* package.json) included.                                                 *)
(***************************************************************************)

\* A blob only ever becomes the whole body of an upload whose declared digests
\* matched: a broken stream or a mismatch aborts the writer, never commits.
CommitsOnlyVerified ==
    [][blob' \notin {blob, Absent} =>
         \E w \in Writers : /\ wpc[w] \in Running
                            /\ blob' = body[w]
                            /\ declared[w] \in {Absent, body[w]}]_vars

\* An upload that was told "created" and that no other upload or eviction has
\* overlapped or followed owns the file: blob and sidecar are its own, whatever
\* earlier uploads left behind when they failed between the two writes.
SoloUploadSettles ==
    \A w \in alone : wpc[w] = "ok" => blob = body[w] /\ sidecar \in {body[w], Corrupt}
=============================================================================
