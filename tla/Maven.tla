-------------------------------- MODULE Maven --------------------------------
(***************************************************************************)
(* One version of an artifact in a Maven namespace, hosted or proxied: an  *)
(* artifact file and one of its checksum companions, uploads of both       *)
(* (hosted), and downloads; proxied, the downloads of the metadata         *)
(* documents of the artifact and of its snapshots too, with the negative   *)
(* cache of one process and an upstream that changes and may fail.         *)
(*                                                                         *)
(* What a checksum companion holds is the body whose digest it states.  A  *)
(* file is read or written in one step (module BlobFile), a tee stores the *)
(* whole file or nothing (module TeeStream, bodies that upstream           *)
(* delimits).  In a hosted namespace metadata files are files like the     *)
(* artifact, without a version record above them, and are left out.        *)
(***************************************************************************)
CONSTANTS
    Modes,          \* "hosted", "proxy"
    Overwritables,  \* whether uploads overwrite: snapshots do, and all under AllowOverwrite
    Bodies,         \* contents of the artifact
    Docs,           \* metadata documents: of the artifact, of its snapshots, their checksums
    Uploads,
    Requests,
    None

Files == {"artifact", "checksum"}

ASSUME ModesAssumption == Modes \subseteq {"hosted", "proxy"}
ASSUME OverwritablesAssumption == Overwritables \subseteq BOOLEAN
ASSUME DocsAssumption == Docs \cap Files = {}
ASSUME NoneAssumption == None \notin Bodies

VARIABLES
    mode,          \* the namespace's
    overwritable,
    stored,        \* the content of each stored file, or None
    records,       \* which of the package and version records exist
    original,      \* upstream's artifact
    offered,       \* the files and documents upstream has
    negative,      \* the 404s the process remembers: of a file each, and of the documents
                   \* behind the one entry that all of them share
    upc,           \* where each upload is
    file,          \* the file it carries
    body,          \* its content
    rpc,           \* where each download is
    want,          \* the file or document it asks for
    head,          \* whether it is a HEAD
    got,           \* the content it works with or was sent, or None
    due            \* history: its file was stored when it began

spaceVars == <<mode, overwritable>>
upstreamVars == <<original, offered>>
uploadVars == <<upc, file, body>>
requestVars == <<rpc, want, head, got, due>>
vars == <<mode, overwritable, stored, records, original, offered, negative, upc, file,
          body, rpc, want, head, got, due>>

Records == {"package", "version"}
UploadSteps == {"idle", "verify", "parents", "write"}
Refusals == {"conflict", "mismatch", "error"}
Answers == {"served", "missing", "failed", "unavailable"}
Steps == {"look", "open", "negative", "target", "compute", "filter", "head", "stream", "tee",
          "parents", "fetch", "envelope", "keep", "metadata", "live"}

TypeOK ==
    /\ mode \in Modes /\ overwritable \in Overwritables
    /\ stored \in [Files -> Bodies \cup {None}]
    /\ records \subseteq Records
    /\ original \in Bodies
    /\ offered \subseteq Files \cup Docs
    /\ negative \subseteq Files \cup Docs
    /\ upc \in [Uploads -> UploadSteps \cup Refusals \cup {"created"}]
    /\ file \in [Uploads -> Files]
    /\ body \in [Uploads -> Bodies \cup {None}]
    /\ rpc \in [Requests -> Steps \cup Answers \cup {"idle"}]
    /\ want \in [Requests -> Files \cup Docs]
    /\ head \in [Requests -> BOOLEAN]
    /\ got \in [Requests -> Bodies \cup {None}]
    /\ due \in [Requests -> BOOLEAN]

Init ==
    /\ mode \in Modes /\ overwritable \in Overwritables
    /\ stored = [f \in Files |-> None]
    /\ records = {}
    /\ original \in Bodies
    /\ offered \in {{}, Files \cup Docs}
    /\ negative = {}
    /\ upc = [u \in Uploads |-> "idle"]
    /\ file = [u \in Uploads |-> "artifact"]
    /\ body = [u \in Uploads |-> None]
    /\ rpc = [r \in Requests |-> "idle"]
    /\ want = [r \in Requests |-> "artifact"]
    /\ head = [r \in Requests |-> FALSE]
    /\ got = [r \in Requests |-> None]
    /\ due = [r \in Requests |-> FALSE]
-----------------------------------------------------------------------------
(* Upstream and the clock.                                                  *)

\* Upstream gets a file or document, or loses one.
Offer(x) ==
    /\ mode = "proxy"
    /\ offered' \in {offered \cup {x}, offered \ {x}} \ {offered}
    /\ UNCHANGED <<spaceVars, stored, records, original, negative, uploadVars, requestVars>>

\* A snapshot is deployed again; a release never is.
Redeploy ==
    /\ mode = "proxy" /\ overwritable
    /\ original' \in Bodies \ {original}
    /\ UNCHANGED <<spaceVars, stored, records, offered, negative, uploadVars, requestVars>>

\* An entry is believed until its TTL has passed.
NegativeExpires(keys) ==
    /\ negative \cap keys # {}
    /\ negative' = negative \ keys
    /\ UNCHANGED <<spaceVars, stored, records, upstreamVars, uploadVars, requestVars>>
-----------------------------------------------------------------------------
(* Uploads: handler.upload.                                                 *)

UploadAt(u, step) == upc' = [upc EXCEPT ![u] = step]

\* A proxy namespace refuses uploads; a checksum is verified first.
Upload(u) ==
    /\ mode = "hosted" /\ upc[u] = "idle"
    /\ \E f \in Files, b \in Bodies : /\ file' = [file EXCEPT ![u] = f]
                                    /\ body' = [body EXCEPT ![u] = b]
                                    /\ UploadAt(u, IF f = "checksum" THEN "verify" ELSE "parents")
    /\ UNCHANGED <<spaceVars, stored, records, upstreamVars, negative, requestVars>>

ChecksumUnverified(u) ==
    /\ upc[u] = "verify"
    /\ UploadAt(u, IF stored["artifact"] = None THEN "conflict" ELSE "parents")
    /\ UNCHANGED <<spaceVars, stored, records, upstreamVars, negative, file, body, requestVars>>

\* verifyChecksumUpload: against the stored target, which must be there.
VerifyChecksum(u) ==
    /\ upc[u] = "verify"
    /\ UploadAt(u, IF stored["artifact"] = None THEN "conflict"
                   ELSE IF stored["artifact"] = body[u] THEN "parents" ELSE "mismatch")
    /\ UNCHANGED <<spaceVars, stored, records, upstreamVars, negative, file, body, requestVars>>

ParentsUnchecked(u) ==
    /\ upc[u] = "parents"
    /\ records' \in {records, records \cup {"package"}, Records}
    /\ UploadAt(u, "write")
    /\ UNCHANGED <<spaceVars, stored, upstreamVars, negative, file, body, requestVars>>

\* ensureParents: the package record, then the version's.
EnsureParents(u) ==
    /\ upc[u] = "parents"
    /\ \/ records' = Records /\ UploadAt(u, "write")
       \/ records' \in {records, records \cup {"package"}, Records} /\ UploadAt(u, "error")
    /\ UNCHANGED <<spaceVars, stored, upstreamVars, negative, file, body, requestVars>>

\* handler.allowOverwrite, and the create-once write of a release.
MayWrite(f) == overwritable \/ stored[f] = None

\* AddFile: it may fail, and it may take effect without an answer.
WriteFile(u) ==
    /\ upc[u] = "write"
    /\ \/ /\ MayWrite(file[u])
          /\ stored' = [stored EXCEPT ![file[u]] = body[u]]
          /\ \E answer \in {"created", "error"} : UploadAt(u, answer)
       \/ ~MayWrite(file[u]) /\ UploadAt(u, "conflict") /\ UNCHANGED stored
       \/ UploadAt(u, "error") /\ UNCHANGED stored
    /\ UNCHANGED <<spaceVars, records, upstreamVars, negative, file, body, requestVars>>

VerifyFails(u) ==
    /\ upc[u] = "verify"
    /\ UploadAt(u, "error")
    /\ UNCHANGED <<spaceVars, stored, records, upstreamVars, negative, file, body, requestVars>>
-----------------------------------------------------------------------------
(* Downloads.                                                               *)

Goto(r, step) == rpc' = [rpc EXCEPT ![r] = step]

\* fileNegKey has the file in it; metadataNegKey has only group and artifact.
Remembered(x) == IF x \in Docs THEN negative \cap Docs # {} ELSE x \in negative

Serve(r, content) ==
    /\ Goto(r, "served")
    /\ got' = [got EXCEPT ![r] = IF head[r] THEN None ELSE content]

\* parsePath: a document is metadata of the artifact or of a snapshot, or a checksum
\* of one; the other paths name an artifact file or its checksum.
Paths == IF mode = "proxy" THEN Files \cup Docs ELSE Files

\* proxyEngine.serve dispatches by the kind of the path.
FirstStep(w) == IF w \in Docs THEN "metadata" ELSE IF mode = "proxy" THEN "look" ELSE "open"

\* handler.download.
Begin(r) ==
    /\ rpc[r] \in Answers \cup {"idle"}
    /\ \E w \in Paths : /\ want' = [want EXCEPT ![r] = w]
                       /\ due' = [due EXCEPT ![r] = w \in Files /\ stored[w] # None]
                       /\ Goto(r, FirstStep(w))
    /\ \E h \in BOOLEAN : head' = [head EXCEPT ![r] = h]
    /\ got' = [got EXCEPT ![r] = None]
    /\ UNCHANGED <<spaceVars, stored, records, upstreamVars, negative, uploadVars>>

\* RedirectOrStreamFile.
Open(r) ==
    /\ rpc[r] = "open"
    /\ \/ stored[want[r]] # None /\ Serve(r, stored[want[r]])
       \/ stored[want[r]] = None /\ Goto(r, "missing") /\ UNCHANGED got
    /\ UNCHANGED <<spaceVars, stored, records, upstreamVars, negative, uploadVars, want, head, due>>

NegativeFirst(r) ==
    /\ rpc[r] = "look"
    /\ Goto(r, IF Remembered(want[r]) THEN "missing" ELSE IF stored[want[r]] # None THEN "open" ELSE "negative")
    /\ UNCHANGED <<spaceVars, stored, records, upstreamVars, negative, uploadVars, want, head, got, due>>

\* serveArtifact: the store first,
Look(r) ==
    /\ rpc[r] = "look"
    /\ Goto(r, IF stored[want[r]] # None THEN "open" ELSE "negative")
    /\ UNCHANGED <<spaceVars, stored, records, upstreamVars, negative, uploadVars, want, head, got, due>>

\* then the negative cache, then each kind of file in its own way.
LookNegative(r) ==
    /\ rpc[r] = "negative"
    /\ Goto(r, IF Remembered(want[r]) THEN "missing"
               ELSE IF want[r] = "checksum" THEN "target"
               ELSE IF head[r] THEN "head" ELSE "filter")
    /\ UNCHANGED <<spaceVars, stored, records, upstreamVars, negative, uploadVars, want, head, got, due>>

\* allow: a delay filter that finds no publish time denies, with a 404.
Filter(r) ==
    /\ rpc[r] = "filter"
    /\ \E step \in {"missing", "stream"} : Goto(r, step)
    /\ UNCHANGED <<spaceVars, stored, records, upstreamVars, negative, uploadVars, want, head, got, due>>

\* That upstream lacks a file or document is remembered.
NotFound(r) ==
    /\ want[r] \notin offered
    /\ negative' = negative \cup {want[r]}
    /\ Goto(r, "missing") /\ UNCHANGED got

\* headArtifact.
Head(r) ==
    /\ rpc[r] = "head"
    /\ \/ NotFound(r)
       \/ want[r] \in offered /\ Serve(r, None) /\ UNCHANGED negative
    /\ UNCHANGED <<spaceVars, stored, records, upstreamVars, uploadVars, want, head, due>>

Stream(r) ==
    /\ rpc[r] = "stream"
    /\ \/ NotFound(r)
       \/ /\ want[r] \in offered
          /\ Goto(r, "tee") /\ got' = [got EXCEPT ![r] = original] /\ UNCHANGED negative
    /\ UNCHANGED <<spaceVars, stored, records, upstreamVars, uploadVars, want, head, due>>

\* A file that is in the store already stays as it is.
Kept(f, content) == [stored EXCEPT ![f] = IF @ = None THEN content ELSE @]

\* streamAndCache: cut short; whole, and stored or not; parents after a clean fill.
Tee(r) ==
    /\ rpc[r] = "tee"
    /\ \/ Goto(r, "failed") /\ got' = [got EXCEPT ![r] = None] /\ UNCHANGED stored
       \/ stored' \in {stored, Kept(want[r], got[r])} /\ Goto(r, "served") /\ UNCHANGED got
       \/ stored[want[r]] = None /\ stored' = Kept(want[r], got[r]) /\ Goto(r, "parents") /\ UNCHANGED got
    /\ UNCHANGED <<spaceVars, records, upstreamVars, negative, uploadVars, want, head, due>>

\* recordParents, best effort.
RecordParents(r) ==
    /\ rpc[r] \in {"parents", "envelope"}
    /\ records' \in {records, records \cup {"package"}, Records}
    /\ Goto(r, IF rpc[r] = "parents" THEN "served" ELSE "keep")
    /\ UNCHANGED <<spaceVars, stored, upstreamVars, negative, uploadVars, want, head, got, due>>

\* serveChecksum: made from the stored artifact if there is one, else upstream's.
LookTarget(r) ==
    /\ rpc[r] = "target"
    /\ Goto(r, IF stored["artifact"] # None THEN "compute" ELSE IF head[r] THEN "head" ELSE "fetch")
    /\ UNCHANGED <<spaceVars, stored, records, upstreamVars, negative, uploadVars, want, head, got, due>>

\* computeChecksum.
Compute(r) ==
    /\ rpc[r] = "compute"
    /\ got' = [got EXCEPT ![r] = stored["artifact"]]
    /\ Goto(r, "keep")
    /\ UNCHANGED <<spaceVars, stored, records, upstreamVars, negative, uploadVars, want, head, due>>

FetchChecksum(r) ==
    /\ rpc[r] = "fetch"
    /\ \/ NotFound(r)
       \/ /\ want[r] \in offered
          /\ Goto(r, "envelope") /\ got' = [got EXCEPT ![r] = original] /\ UNCHANGED negative
    /\ UNCHANGED <<spaceVars, stored, records, upstreamVars, uploadVars, want, head, due>>

\* The checksum is stored, best effort, and served whether or not it was.
KeepChecksum(r) ==
    /\ rpc[r] = "keep"
    /\ stored' \in {stored, Kept("checksum", got[r])}
    /\ Serve(r, got[r])
    /\ UNCHANGED <<spaceVars, records, upstreamVars, negative, uploadVars, want, head, due>>

\* serveMetadata: the negative cache, then upstream.
LookMetadata(r) ==
    /\ rpc[r] = "metadata"
    /\ Goto(r, IF Remembered(want[r]) THEN "missing" ELSE "live")
    /\ UNCHANGED <<spaceVars, stored, records, upstreamVars, negative, uploadVars, want, head, got, due>>

FetchMetadata(r) ==
    /\ rpc[r] = "live"
    /\ \/ NotFound(r)
       \/ want[r] \in offered /\ Serve(r, None) /\ UNCHANGED negative
    /\ UNCHANGED <<spaceVars, stored, records, upstreamVars, uploadVars, want, head, due>>

\* A call to the store fails, or upstream does not answer or is no use.
Break(r) ==
    /\ rpc[r] \in {"open", "look", "target", "compute", "head", "stream", "fetch", "live"}
    /\ Goto(r, IF rpc[r] = "live" THEN "unavailable" ELSE "failed")
    /\ UNCHANGED <<spaceVars, stored, records, upstreamVars, negative, uploadVars, want, head, got, due>>
-----------------------------------------------------------------------------
Put(u) == Upload(u) \/ VerifyChecksum(u) \/ EnsureParents(u) \/ WriteFile(u) \/ VerifyFails(u)

Get(r) ==
    \/ Begin(r) \/ Open(r) \/ Look(r) \/ LookNegative(r) \/ Filter(r) \/ Head(r) \/ Stream(r) \/ Tee(r)
    \/ RecordParents(r) \/ LookTarget(r) \/ Compute(r) \/ FetchChecksum(r) \/ KeepChecksum(r)
    \/ LookMetadata(r) \/ FetchMetadata(r) \/ Break(r)

Next ==
    \/ \E x \in Files \cup Docs : Offer(x)
    \/ Redeploy
    \/ \E f \in Files : NegativeExpires({f})
    \/ NegativeExpires(Docs)
    \/ \E u \in Uploads : Put(u)
    \/ \E r \in Requests : Get(r)

Spec == Init /\ [][Next]_vars
-----------------------------------------------------------------------------
\* Releases verify: a checksum that is served is that of the artifact that is served,
\* whichever of them was uploaded, fetched or computed, whichever was there first, and
\* whatever another request stores meanwhile.
ChecksumsFit ==
    ~overwritable =>
        \A q, r \in Requests :
            /\ rpc[q] = "served" /\ want[q] = "artifact" /\ got[q] # None
            /\ rpc[r] = "served" /\ want[r] = "checksum" /\ got[r] # None
            => got[q] = got[r]

\* What is stored is served, without upstream and whatever the negative cache says.
StoredIsServed == \A r \in Requests : due[r] => rpc[r] \notin {"missing", "unavailable"}

\* A file of a hosted namespace is never without its package and version records.
FilesAreListed == mode = "hosted" => \A f \in Files : stored[f] # None => records = Records
=============================================================================
