---------------------------- MODULE ProjectPage ----------------------------
(***************************************************************************)
(* The simple page of one hosted PyPI project: the records and objects an  *)
(* upload writes one after another, the page a request builds from them    *)
(* listing by listing (buildProjectPage), and the process-local cache of   *)
(* built pages with its generation number (projectCache).                  *)
(*                                                                         *)
(* A page is a set of links.  A link names a file and tells whether its    *)
(* sidecar was found, that is whether it carries the upload's metadata     *)
(* (requires-python); a file without one is listed by its digest alone.    *)
(***************************************************************************)
EXTENDS Integers

CONSTANTS
    Processes,      \* data-plane replicas, each with its own projectCache
    Uploads,        \* upload requests for the project
    Requests,       \* requests for its page
    Files,          \* the filenames uploads carry
    Versions,       \* the project's versions
    VersionOf,      \* the version each file belongs to
    Nothing,        \* no cached page
    MaxGeneration   \* bound on the generation number, for TLC

ASSUME VersionOfAssumption == VersionOf \in [Files -> Versions]
ASSUME GenerationAssumption == MaxGeneration \in Nat

Links == [file : Files, described : BOOLEAN]
Pages == SUBSET Links

ASSUME NothingAssumption == \A pg \in Pages : pg # Nothing

VARIABLES
    package,     \* whether the package record exists
    versions,    \* the versions whose directory exists
    blobs,       \* the files whose blob is committed
    sidecars,    \* the files whose sidecar is written
    cached,      \* each process's entry for the project
    generation,  \* each process's generation number
    upc,         \* where each upload is
    file,        \* the file it carries
    host,        \* the process that serves it
    rpc,         \* where each page request is
    server,      \* the process that serves it
    started,     \* the generation it read before it began to load
    unlisted,    \* the versions it has still to list
    unread,      \* the listed files whose Meta it has still to read
    page,        \* the links it has so far
    acked,       \* history: the files each process has answered 201 for
    due          \* history: those of its process when a request began

objectVars == <<package, versions, blobs, sidecars>>
cacheVars == <<cached, generation>>
uploadVars == <<upc, file, host>>
requestVars == <<rpc, server, started, unlisted, unread, page>>
historyVars == <<acked, due>>
vars == <<package, versions, blobs, sidecars, cached, generation, upc, file, host,
          rpc, server, started, unlisted, unread, page, acked, due>>

UploadSteps == {"idle", "package", "version", "file", "sidecar", "invalidate", "answer"}
RequestSteps == {"idle", "get", "versions", "files", "store", "served"}

TypeOK ==
    /\ package \in BOOLEAN
    /\ versions \subseteq Versions
    /\ blobs \subseteq Files /\ sidecars \subseteq Files
    /\ cached \in [Processes -> {Nothing} \cup Pages]
    /\ generation \in [Processes -> Nat]
    /\ upc \in [Uploads -> UploadSteps]
    /\ file \in [Uploads -> Files]
    /\ host \in [Uploads -> Processes]
    /\ rpc \in [Requests -> RequestSteps]
    /\ server \in [Requests -> Processes]
    /\ started \in [Requests -> Nat]
    /\ unlisted \in [Requests -> SUBSET Versions]
    /\ unread \in [Requests -> SUBSET Files]
    /\ page \in [Requests -> Pages]
    /\ acked \in [Processes -> SUBSET Files]
    /\ due \in [Requests -> SUBSET Files]

Init ==
    /\ package = FALSE
    /\ versions = {} /\ blobs = {} /\ sidecars = {}
    /\ cached = [p \in Processes |-> Nothing]
    /\ generation = [p \in Processes |-> 0]
    /\ upc = [u \in Uploads |-> "idle"]
    /\ file \in [Uploads -> Files]
    /\ host \in [Uploads -> Processes]
    /\ rpc = [r \in Requests |-> "idle"]
    /\ server \in [Requests -> Processes]
    /\ started = [r \in Requests |-> 0]
    /\ unlisted = [r \in Requests |-> {}]
    /\ unread = [r \in Requests |-> {}]
    /\ page = [r \in Requests |-> {}]
    /\ acked = [p \in Processes |-> {}]
    /\ due = [r \in Requests |-> {}]
-----------------------------------------------------------------------------
(* Uploads: handler.upload.                                                 *)

Upload(u) ==
    /\ upc[u] = "idle"
    /\ \E f \in Files : file' = [file EXCEPT ![u] = f]
    /\ \E p \in Processes : host' = [host EXCEPT ![u] = p]
    /\ upc' = [upc EXCEPT ![u] = "package"]
    /\ UNCHANGED <<objectVars, cacheVars, requestVars, historyVars>>

\* AddPackage; a package that exists already is no error.
AddPackage(u) ==
    /\ upc[u] = "package"
    /\ package' = TRUE
    /\ upc' = [upc EXCEPT ![u] = "version"]
    /\ UNCHANGED <<versions, blobs, sidecars, cacheVars, file, host, requestVars, historyVars>>

\* AddVersion; likewise.
AddVersion(u) ==
    /\ upc[u] = "version"
    /\ versions' = versions \cup {VersionOf[file[u]]}
    /\ upc' = [upc EXCEPT ![u] = "file"]
    /\ UNCHANGED <<package, blobs, sidecars, cacheVars, file, host, requestVars, historyVars>>

\* AddFile commits the blob, once; a later creator is answered 409.
CommitBlob(u) ==
    /\ upc[u] = "file"
    /\ blobs' = blobs \cup {file[u]}
    /\ upc' = [upc EXCEPT ![u] = IF file[u] \in blobs THEN "idle" ELSE "sidecar"]
    /\ UNCHANGED <<package, versions, sidecars, cacheVars, file, host, requestVars, historyVars>>

\* AddFile writes the sidecar.
WriteSidecar(u) ==
    /\ upc[u] = "sidecar"
    /\ sidecars' = sidecars \cup {file[u]}
    /\ upc' = [upc EXCEPT ![u] = "invalidate"]
    /\ UNCHANGED <<package, versions, blobs, cacheVars, file, host, requestVars, historyVars>>

\* A call of the upload fails, or the request dies: what is written stays, the
\* cache is not invalidated, and a blob without sidecar cannot be uploaded again.
UploadFails(u) ==
    /\ upc[u] \in {"package", "version", "file", "sidecar"}
    /\ upc' = [upc EXCEPT ![u] = "idle"]
    /\ UNCHANGED <<objectVars, cacheVars, file, host, requestVars, historyVars>>

InvalidateKeepsGeneration(u) ==
    /\ upc[u] = "invalidate"
    /\ cached' = [cached EXCEPT ![host[u]] = Nothing]
    /\ upc' = [upc EXCEPT ![u] = "answer"]
    /\ UNCHANGED <<objectVars, generation, file, host, requestVars, historyVars>>

\* projectCache.invalidate, in the process that serves the upload.
Invalidate(u) ==
    /\ upc[u] = "invalidate"
    /\ generation[host[u]] < MaxGeneration
    /\ generation' = [generation EXCEPT ![host[u]] = @ + 1]
    /\ cached' = [cached EXCEPT ![host[u]] = Nothing]
    /\ upc' = [upc EXCEPT ![u] = "answer"]
    /\ UNCHANGED <<objectVars, file, host, requestVars, historyVars>>

\* 201.
Answer(u) ==
    /\ upc[u] = "answer"
    /\ acked' = [acked EXCEPT ![host[u]] = @ \cup {file[u]}]
    /\ upc' = [upc EXCEPT ![u] = "idle"]
    /\ UNCHANGED <<objectVars, cacheVars, file, host, requestVars, due>>
-----------------------------------------------------------------------------
(* Page requests: handler.projectIndex, projectCache.get, buildProjectPage. *)

\* A package without a record or anything beneath it is a 404.
Begin(r) ==
    /\ rpc[r] \in {"idle", "served"}
    /\ package
    /\ \E p \in Processes : /\ server' = [server EXCEPT ![r] = p]
                            /\ due' = [due EXCEPT ![r] = acked[p]]
    /\ page' = [page EXCEPT ![r] = {}]
    /\ rpc' = [rpc EXCEPT ![r] = "get"]
    /\ UNCHANGED <<objectVars, cacheVars, uploadVars, started, unlisted, unread, acked>>

\* A live entry is served as it is.
Hit(r) ==
    /\ rpc[r] = "get"
    /\ cached[server[r]] # Nothing
    /\ page' = [page EXCEPT ![r] = cached[server[r]]]
    /\ rpc' = [rpc EXCEPT ![r] = "served"]
    /\ UNCHANGED <<objectVars, cacheVars, uploadVars, server, started, unlisted, unread, historyVars>>

\* On a miss the generation is read, under the lock, before the load begins.
Miss(r) ==
    /\ rpc[r] = "get"
    /\ cached[server[r]] = Nothing
    /\ started' = [started EXCEPT ![r] = generation[server[r]]]
    /\ rpc' = [rpc EXCEPT ![r] = "versions"]
    /\ UNCHANGED <<objectVars, cacheVars, uploadVars, server, unlisted, unread, page, historyVars>>

ListVersions(r) ==
    /\ rpc[r] = "versions"
    /\ unlisted' = [unlisted EXCEPT ![r] = versions]
    /\ rpc' = [rpc EXCEPT ![r] = "files"]
    /\ UNCHANGED <<objectVars, cacheVars, uploadVars, server, started, unread, page, historyVars>>

\* The files of the next version: those whose blob is there.
ListFiles(r, v) ==
    /\ rpc[r] = "files"
    /\ unread[r] = {}
    /\ v \in unlisted[r]
    /\ unlisted' = [unlisted EXCEPT ![r] = @ \ {v}]
    /\ unread' = [unread EXCEPT ![r] = {f \in blobs : VersionOf[f] = v}]
    /\ UNCHANGED <<objectVars, cacheVars, uploadVars, rpc, server, started, page, historyVars>>

\* file.Meta of the next file: its sidecar, or the digest of its blob.
ReadMeta(r, f) ==
    /\ rpc[r] = "files"
    /\ f \in unread[r]
    /\ unread' = [unread EXCEPT ![r] = @ \ {f}]
    /\ page' = [page EXCEPT ![r] = @ \cup {[file |-> f, described |-> f \in sidecars]}]
    /\ UNCHANGED <<objectVars, cacheVars, uploadVars, rpc, server, started, unlisted, historyVars>>

\* No upload has invalidated since the load began.
LoadIsCurrent(r) == started[r] = generation[server[r]]

\* The page is kept, unless an upload invalidated while it was built, and served.
Store(r) ==
    /\ rpc[r] = "files"
    /\ unlisted[r] = {} /\ unread[r] = {}
    /\ cached' = IF LoadIsCurrent(r) THEN [cached EXCEPT ![server[r]] = page[r]] ELSE cached
    /\ rpc' = [rpc EXCEPT ![r] = "served"]
    /\ started' = [started EXCEPT ![r] = 0]
    /\ UNCHANGED <<objectVars, generation, uploadVars, server, unlisted, unread, page, historyVars>>

\* A listing or a Meta fails: the request fails and nothing is kept.
LoadFails(r) ==
    /\ rpc[r] \in {"versions", "files"}
    /\ rpc' = [rpc EXCEPT ![r] = "idle"]
    /\ started' = [started EXCEPT ![r] = 0]
    /\ unlisted' = [unlisted EXCEPT ![r] = {}]
    /\ unread' = [unread EXCEPT ![r] = {}]
    /\ page' = [page EXCEPT ![r] = {}]
    /\ UNCHANGED <<objectVars, cacheVars, uploadVars, server, historyVars>>

NeverExpires(p) == FALSE /\ UNCHANGED vars

\* The TTL of an entry passes.
Expire(p) ==
    /\ cached[p] # Nothing
    /\ cached' = [cached EXCEPT ![p] = Nothing]
    /\ UNCHANGED <<objectVars, generation, uploadVars, requestVars, historyVars>>
-----------------------------------------------------------------------------
Publish(u) ==
    \/ Upload(u) \/ AddPackage(u) \/ AddVersion(u) \/ CommitBlob(u) \/ WriteSidecar(u)
    \/ UploadFails(u) \/ Invalidate(u) \/ Answer(u)

\* The steps by which a page request that has begun goes on.
Proceed(r) ==
    \/ Hit(r) \/ Miss(r) \/ ListVersions(r)
    \/ \E v \in Versions : ListFiles(r, v)
    \/ \E f \in Files : ReadMeta(r, f)
    \/ Store(r)

Next ==
    \/ \E u \in Uploads : Publish(u)
    \/ \E r \in Requests : Begin(r) \/ Proceed(r) \/ LoadFails(r)
    \/ \E p \in Processes : Expire(p)

Spec == Init /\ [][Next]_vars

\* Requests that have begun go on (each runs in a goroutine of its own and waits
\* for no other), and the clock passes the expiry of an entry.
Fairness ==
    /\ \A r \in Requests : WF_vars(Proceed(r))
    /\ \A p \in Processes : WF_vars(Expire(p))

FairSpec == Spec /\ Fairness
-----------------------------------------------------------------------------
Described(f) == [file |-> f, described |-> TRUE]
Lists(pg, f) == \E d \in BOOLEAN : [file |-> f, described |-> d] \in pg

\* Read your uploads: a page that a process starts to serve after it has answered
\* an upload lists the file, with its metadata, whatever loads were under way and
\* whatever was cached when the upload invalidated (projectCache.generation).
UploadsAreListed ==
    \A r \in Requests : rpc[r] = "served" => \A f \in due[r] : Described(f) \in page[r]

\* The cache never holds a page that lacks a file its process has answered for.
CacheIsCurrent ==
    \A p \in Processes : cached[p] # Nothing => \A f \in acked[p] : Described(f) \in cached[p]

\* What makes both inductive.  What a process has announced: the files it has
\* invalidated for, answered or not.
Announced(p) == acked[p] \cup {file[u] : u \in {w \in Uploads : upc[w] = "answer" /\ host[w] = p}}

Settled(f) == f \in blobs /\ f \in sidecars /\ VersionOf[f] \in versions

\* The load of r has f on its page, or has still to come across it.
WillList(r, f) ==
    \/ rpc[r] = "versions"
    \/ VersionOf[f] \in unlisted[r]
    \/ f \in unread[r]
    \/ Described(f) \in page[r]

Loading(r) == rpc[r] \in {"versions", "files"}

UploadInv(u) ==
    /\ upc[u] \in {"file", "sidecar", "invalidate", "answer"} => VersionOf[file[u]] \in versions
    /\ upc[u] \in {"sidecar", "invalidate", "answer"} => file[u] \in blobs
    /\ upc[u] \in {"invalidate", "answer"} => file[u] \in sidecars

PageInv ==
    /\ \A u \in Uploads : UploadInv(u)
    /\ \A p \in Processes, f \in Files : f \in acked[p] => Settled(f)
    /\ \A p \in Processes : cached[p] # Nothing => \A f \in Announced(p) : Described(f) \in cached[p]
    /\ \A r \in Requests :
          /\ due[r] \subseteq acked[server[r]]
          /\ Loading(r) => started[r] <= generation[server[r]]
          /\ Loading(r) => \A f \in due[r] : WillList(r, f)
          /\ Loading(r) /\ LoadIsCurrent(r) => \A f \in Announced(server[r]) : WillList(r, f)
    /\ UploadsAreListed

\* On every replica, an entry that lacks a committed file goes away for good: the
\* TTL bounds how long other replicas serve an older page (docs/architecture.md).
ReplicasCatchUp ==
    \A p \in Processes, f \in Files :
        f \in blobs ~> [](cached[p] = Nothing \/ Lists(cached[p], f))
=============================================================================
