# open-artifact: TLA+ models, checks and proofs

open-artifact is a registry of packages (PyPI, npm, Maven, Debian, generic files)
that keeps everything in one object-store bucket. There is no database and there
are no transactions: a request is a sequence of bucket calls, requests of any
number of processes interleave between those calls, and a process can stop after
any of them. This directory models those sequences, checks them with TLC, and
proves the main invariants with TLAPS for every number of processes, requests,
files and versions.

    tlc -config MCBlobFile.cfg MCBlobFile                # one of the runs below
    tlapm StoreProofs.tla                                # one of the proof modules

PROJECT.json lists, for every definition, the source lines it stands for; the
runs with their properties; for every property a mutant of the code that violates
it; the hazards of the code, each with the properties that watch it; and the theorems.


## 1. The system

### Parts and how they interact

    admin API --Put/Delete--> namespace catalog --.meta--+
                                   | change hook          |
    client -> auth -> registry/policy cache <--load-------+
                 |                                        |
                 v                                        v
           surface handler ----> blobstore.Store ----> bucket
                 |  hosted: package, version, file writes; listings
                 |  proxy:  memo, negcache, singleflight, filter chain
                 v
           upstream (HTTP client) ==TeeStreamToStore==> client and store

| Part | State | Operations | Hard behaviour | What makes it correct |
|---|---|---|---|---|
| blobstore files (`core/blobstore/store.go`) | blob and `.meta` sidecar of each file | `writeFile` (AddFile, AddCache), `Meta`, `Read`, `Delete` | two objects, one conditional write; broken bodies; lost answers; deletion in two calls | one creator wins, blob and sidecar agree, only whole verified bodies are committed |
| records, tags, listings | `.meta` envelopes of packages and versions, tag objects | AddPackage, AddVersion, Annotate, SetTag, Versions, Files, Exists | read-modify-write, listings that are not snapshots | acknowledged data stays and is found |
| URL and stat memo (`blobstore/cache.go`) | LRU of signed URLs and attributes, one of each in a Store | `getOrCompute` | none today: a Store serves one request | none |
| namespace catalog (`namespace/store.go`) | `.meta` of each namespace | Put, Delete, Get | check-then-delete, lost answers | a deleted namespace holds nothing |
| registry and policy cache (`authz.go`, `registry.go`) | entry and flight of each process | `policyCache.get`, `invalidate` | TTL, shared loads, invalidation in the middle of a load | bounded staleness, no return to an older policy |
| policy matching (`policy.go`) | none | `compilePolicy`, `Authorize`, `matches` | kinds, emails, anchored patterns, two roles | grants exactly what it says |
| admin API (`pkg/admin`) | none | PUT, GET, DELETE | retries | as the catalog |
| surface helpers (`surface/http.go`) | pipe between two goroutines | `RedirectOrStreamFile`, `TeeStreamToStore` | disconnects, store failures, cancellation | no partial fill, no truncated client, no goroutine left |
| PyPI hosted | page cache with a generation | upload, simple page, download | four objects per upload, page built by listings | an answered upload is listed |
| npm hosted | package.json, tags | publish, dist-tags, packument, tarball | five or more writes per publish, reads of one page spread over time | what is listed installs, tags resolve |
| PyPI and npm proxies | memo, negcache, flight, snapshot | index and file requests | stale negative entries, shared flights, outages | falls back to the store, never fetches from itself |
| Maven | files and checksum companions, metadata | PUT, GET, proxied | file and checksum are independent | checksums fit |
| Debian | cached indexes, pool files | GET, proxied and hosted | outages, filters without publish times | stored files survive, filters hold |
| generic | containers with annotations, files | PUT, GET | auto-created parents race with annotated creates | acknowledged annotations stand |
| filter chain (`proxy/filter`) | none | `Compile`, `DecideAt` | order, abstention, unknown age | the first decider decides, fails closed |
| HTTP client (`proxy/httpclient`) | none | Get, Stream | failures, framing | a failure is never taken for a 404 |
| auth chain, OIDC (`auth/...`) | a verifier of each issuer and the mutex it is made under | `chain.Authenticate`, `getVerifier`, `Verify` | discovery shared by concurrent requests, issuer outage, cancellation | a failure is never an admission, nor remembered; nobody waits for ever |
| serving, observability (`serving`, `command/serve.go`, `observability`) | listener, connections, process context, last successful ping | `Serve`, `Shutdown`, `probe` | draining against a deadline, cancellation, late pings | the bucket outlives the requests, a signal ends the process, readiness is recent |
| commands, configuration, logging, metrics, bucket, echo, version | none at run time | wiring | none | none |

### Hazards

PROJECT.json lists the 40 places where this code is hard to test. They fall into
seven groups: two objects that must agree (blob and sidecar, artifact and checksum,
document and tarball); pages put together from several reads; caches and negative
entries that outlive what they were told; flights and pipes in which one party may
vanish; multi-write operations that stop in the middle; outages during which
what is stored must still be served; and a process that stops or loses its identity
providers with requests in flight. Each hazard names the properties that watch
it. Where the code does not do what one would hope, or nothing is checked, a note says so.


## 2. The modules

A module's comments name the functions it stands for. Generic and Serving share a proof
module with BlobFile and Namespace, so they prefix what every module defines (GenericInit,
GenericNext, GenericSpec, GenericTypeOK, ServingInit...). One action is one bucket
call, one upstream call or one critical section, together with everything the
handler does up to the next one. Errors of calls, lost answers, and a process that
stops are actions of their own (`...Fails`, `...Unanswered`, `Break`, `Restart`).

**BlobFile** (`store.go` writeFile, Meta, Read, Delete; `surface/http.go`
RedirectOrStreamFile; `meta.go`). `blob`, `sidecar`: the two objects of one file.
`wpc[w]`: the next bucket call of upload `w` (Probe = Exists, Verify/Abort = the
copy and the digest check, Commit/CommitRefused/CommitUnanswered = the conditional
Close, WriteSidecar). `rpc[r]`, `digest`, `size`, `bytes`: a download through
ReadSidecar or FallBack/Stat/Hash (recomputeMeta), then Open. DeleteBlob,
DeleteSidecar: the two calls of Delete. Rot damages a sidecar. `overwrite`,
chosen once from `Modes`, is the mode of the key.

**WriteOnce** is the abstract specification: a register written at most once with
racing writers. `BlobFile!ImplementsWriteOnce` maps BlobFile to it (value is blob,
the writers' replies and readers' answers are read off the program counters); a
download that mixes contents would map to an answer WriteOnce never gives.

**Namespace** (`namespace/store.go`, `authz.go`, `registry.go`). `log`: all
versions of `.meta`, so that the age of a deciding policy can be told; `entry[p]`:
the policy cache of process `p`; Hit/Miss, then Lead/Join/Check/Load/Store/Deliver:
policyCache.get, its singleflight and the second look of the leader; Notify: the change hook;
List/Remove: the two halves of Delete; Restart empties a cache; Tick is the clock.

**ProjectPage** (`surface/pypi/handler.go`). An upload is AddPackage, AddVersion,
CommitBlob, WriteSidecar, Invalidate, Answer, and may fail at each of them. A page
is ListVersions, ListFiles per version, ReadMeta per file, Store if `generation`
has not moved (projectCache.get); Expire is the TTL.

**NpmPackage** (`surface/npm/handler.go`). A publish is PutTarball (the create-once
gate), AddPackage, AddVersion, PutDocument, SetTag for each tag in order, Answer. A
reader lists versions, reads each package.json, reads tags, picks an entry and
downloads it: Derive, then Scan (findTarball). A dist-tag request probes and sets.
`Escape` is what url.PathEscape makes of a file name: the stored document spells the name
escaped (`docs`), and a packument escapes that spelling again, so the name a client asks for
is the escaped one (`page`).

**TeeStream** (`surface/http.go` TeeStreamToStore; streamAndCache of the surfaces).
Two goroutines for each request: the handler (ReadChunk, Transfer into the pipe,
SendChunk, ClosePipe, Collect, Record) and the fill (Probe, Drain, Commit,
WriteSidecar, ShutPipe). The pipe has no buffer, so Transfer is a joint step. The
context is cancelled when the client leaves.

**Proxy** (`surface/pypi/proxy.go`, `surface/npm/proxy.go`, `negcache`,
`singleflight`). One package, both surfaces (`flavour`). An index request goes
LookMemo, LookNegativeIndex, Enter (leads or joins the flight), Recheck, ServeFresh
(npm), Fetch, Save or FallBack or Synthesize, Deliver to the whole Party, Remember;
a file request LookLocal, LookNegative, the index as above, Resolve, LookAgain
(npm), Filter, Stream, Tee, RecordParents. Stall and Resume are the body of an answer
that stops coming; StoreFalters lets the store fail the reads of the fallback. An npm index
synthesized from stored documents lists their escaped names (`Listable`).

**FilterChain** (`proxy/filter`). Compile's conditions and DecideAt as operators; a
glob is the set of names it matches. **Debian** EXTENDS it.

**Debian** (`surface/debian`). Indexes (always refreshed when proxied, any cached
copy if that fails) and one pool file (stored first, then negative cache, filter,
upstream, tee), hosted and proxied, with restarts.

**Maven** (`surface/maven`). One version's artifact and one checksum companion:
uploads (VerifyChecksum, EnsureParents, WriteFile) and, proxied, Look,
LookNegative, Filter, Stream, Tee for the artifact, LookTarget/Compute or
FetchChecksum/KeepChecksum for the checksum, LookMetadata/FetchMetadata for documents.

**Generic** (`surface/generic`, Store.upsertAnnotations). PUTs of two containers and
a file in it (AddParent, Add, ReadRecord, WriteRecord, Upload) and the GETs that
combine Exists, a listing and the record.

**Policy** (`namespace/policy.go`) has no state: what compilePolicy refuses (Compiles),
what a compiled matcher accepts (Matches) and which role an operation consults
(Authorizes). A pattern is the set of values it matches.

**Serving** (`serving/serving.go`, `command/serve.go` and `root.go`, `auth`,
`observability.go`) EXTENDS Policy. `main`, `server`, `signalled`, `overdue`: where
command.serve and the http.Server are. Signal cancels the process context and, through
BaseContext, every request's; then Shutdown, Drained or WindowExpires, Return,
CloseBucket (the deferred cleanup), Exit and StartAgain. A request for a package is
Receive (the unverified issuer picks the authenticator), Lock, Discovered or
DiscoveryFails (getVerifier, the call under the mutex), Verified, or AwaitKeys and then
KeysArrive, KeysFail or KeysAbandoned (go-oidc fetches an issuer's keys once for all who wait,
whoever of them is cancelled: `keyFetch`, "doomed" when an outage has met it), Authorize or
Forbid, then a surface in one step (Finish, or CallCut when its context
is cancelled). A probe is Probe, PingReaches, PingAnswered or PingFails; `fresh` is
what is left of the cached success, `down` how long the bucket has been out of reach.
`disturbed` is history: an outage or a cancellation met the request while it waited, or an
outage the fetch it has joined.

### How they compose

Each level takes from the one below what that one is shown to promise:

* BlobFile implements WriteOnce. The models of the surfaces therefore write a
  create-once file in one step: it is there or not, and never changes.
  ProjectPage keeps blob and sidecar apart, since its page shows the difference.
* TeeStream stores a whole file or nothing when upstream delimits the body
  (NoPartialFill), and records parents only behind it (ParentsAreBacked). Proxy,
  Maven and Debian therefore take a tee as one step with two outcomes.
* FilterChain is used as it is by Debian. Proxy and Maven take either verdict: their
  properties hold whatever the chain says.
* Namespace stands before all of them: a surface's request exists once the policy
  has decided it. It follows which version of the policy decides; Serving, which uses
  Policy as it is, follows what one version says of whom.
* Serving's authorized request stands for any request of any surface: it may succeed,
  fail or be cut at each of its calls, and the surfaces' models have these failures.
* Requests for packages and probes share the process's lifecycle and no other state,
  so an instance of Serving takes traffic of one kind or the other.


## 3. The runs

| Run | Module, instance | Distinct states | What it shows |
|---|---|---|---|
| blob_file | BlobFile: 2 uploads, 2 contents, 1 download, 1 eviction, create-once and overwritable | 326,946 | with failures, lost answers and a damaged sidecar: NoTornSidecar, CoherentDownload and the refinement ImplementsWriteOnce of create-once files; CommitsOnlyVerified; SoloUploadSettles: leftovers of failed uploads and deletions do not survive an upload nothing overlapped |
| policy_cache | Namespace: 1 process with the hook, 2 requests, 1 admin, TTL 1, Latency 1, 3 ticks, 3 versions | 3,683,574 | BoundedStaleness, NeverRegresses, QuietHookInvalidates |
| project_page | ProjectPage: 2 replicas, 1 upload at a time of either of 2 files, 1 page request, generation up to 2, liveness | 128,424 | UploadsAreListed, ReplicasCatchUp |
| npm_package | NpmPackage: 2 publishes, 1 dist-tag request, 1 client, 2 versions, 2 file names of which escaping changes 1, 2 tags | 3,538,676 | Backed, InstallsWhatIsListed, PublishesAreListed, OwnTagsResolve |
| republish | the same without the dist-tag request, one property | violated | finding 2 |
| tee_stream | TeeStream: 2 requests for one file of 3 chunks, framed and not, liveness | 238,672 | NoPartialFill, StoredWasDelivered, StoreNeverTruncates, ParentsAreBacked, DisconnectsEnd |
| proxy | Proxy: 1 process, a request for anything and one for the index, 1 file, PyPI, npm, and npm with a name that escaping changes, liveness | 1,167,684 | NegativeIsLatest, NeverFetchesFromSelf, FallsBackToStore, EveryoneIsAnswered |
| maven | Maven: both modes, release and overwritable, 2 contents, 1 document, 2 uploads, 2 downloads | 2,805,248 | ChecksumsFit, StoredIsServed, FilesAreListed |
| debian | Debian: both modes, 9 chains, 1 index, 1 pool file, 2 contents, 2 downloads | 1,606,708 | StoredIsServed, OnlyAdmittedIsStored |
| generic | Generic: 3 PUTs, 1 GET, 2 annotations, with and without overwriting | 611,174 | CreatedOnce, AnnotationsStand, ReadsAreFresh |
| serving | Serving: 2 requests, 2 issuers of which 1 has outages, 3 tokens, 1 policy, authentication on and off, TTL 1, Timeout 1, liveness | 390,039 | OnlyEntitledAct, OutagesAreForgotten, ReadyIsRecent, BucketOutlivesRequests, ShutdownEnds, LocksAreReleased |
| drain | the same, one property | violated | finding 1 |

blob_file, generic and serving check their module's type invariant too; of every module it
is proved (TypeCorrect, GenericTypeCorrect, ServingTypeCorrect). Processes, requests and
contents are model values; symmetry is
used where a run has no liveness property.

### Bounds, and why they are enough

The proofs hold without any of these bounds; they matter for what is only checked.

* *Requests.* The code's races are between two requests that touch the same key; the
  second participant of a flight is the first joiner, and a third behaves as the
  second. generic has three PUTs because it takes a create, an
  annotation and an auto-creating upload at once to lose an annotation. Every
  download, page request, admin call and policy lookup may start again with other inputs
  once it has ended, and so may the uploads of BlobFile and ProjectPage: two of each make
  arbitrarily long histories. The publishes, uploads and PUTs of NpmPackage, Maven and
  Generic and the transfers of TeeStream happen once each; they are proved for
  any number of them.
* *Contents.* Two: a property can only tell equal from different.
* *Time.* MaxTime 3 with TTL 1 and Latency 1 is the shortest clock on which an entry
  can be loaded late, outlive a change and expire. MaxVersion 3 has a grant, its
  withdrawal and a further change. In the other modules expiry may happen at any time.
* *MaxGeneration 2.* A load can find the generation unmoved, moved once, and moved
  twice by uploads of one process.
* *Length 3.* A first, a middle and a last chunk, so a fill can fail behind, at and
  ahead of the handler.
* *Processes.* Where replicas share only the bucket and the property is about the cache of
  one process, one is enough: in policy_cache other processes only read what admins write,
  and in proxy their part (a newer or an aged snapshot, changes of upstream between two loads)
  is taken by the second request and by time. ReplicasCatchUp is about two replicas, and
  project_page has two. The proofs hold for any number.
* *Names.* One that escaping leaves as it is and one that it changes, with the name the
  second becomes; in the proxy run the surfaces meet them one at a time. There one request may
  want anything and the other the index, for the races are about the index and its flight;
  two fills of one file race in tee_stream.
* *Derivable = {}* in the proxy run makes npm take its longer path, the second look into
  the store; the early look is the one PyPI takes in the same run.
* *Nine chains* are the empty chain, each decider alone, each ordered pair in which
  order decides, and abstention in front of each.

* *Serving.* Two requests make a holder and a waiter of a mutex, or a probe that succeeds
  beside one that fails; two issuers tell one's outage from the other's. TTL 1 and
  Timeout 1 let a ping answer on time, late or never and its success be believed or
  not; ReadyIsRecent would fail by the third tick (`Horizon`). The tokens are one that verifies
  with an unverified email, one that is forged and one that verifies with its email; the
  policy has matchers by issuer and subject, by email and for anonymous subjects.

CHECK_DEADLOCK is off only in tee_stream, whose requests end and do not restart.
Everywhere else a state without a successor would be reported.

### Fairness, and why the code justifies it

* ProjectPage: weak fairness of each request's steps (a goroutine that waits for no
  other) and of the expiry of an entry (the clock). Nothing is assumed of uploads,
  nor that a load fails or succeeds.
* TeeStream: weak fairness of the handler's own steps and of the fill's steps (the
  bucket answers). The client's and upstream's part of the copy is fair only once
  the client has gone: cancelling the request's context makes those calls return.
  Before that a transfer may stall for ever, as it can in the code.
* Proxy: weak fairness of each request's look-up of the index (LookUp(r)). Its steps wait
  for the process, for the store, which is assumed to answer or fail, or for upstream. Of an
  upstream call the client bounds the dial, the handshake and the wait for headers
  (`httpclient/client.go:32-40`), and nothing bounds the reading of the body: "overall request
  deadlines are the caller's job" (26-31), and no caller sets one. A body may therefore
  stall (Stall), and only the departure of the leader's client is sure to end that; Resume has no
  fairness, and EveryoneIsAnswered excludes a body that stalls for good under a leader that
  stays: there leader and joiners do wait for ever. Nor is anything assumed of upstream's health,
  of joiners, who only wait, or of the steps of a file request, whose transfer may stall too.
* Serving: weak fairness of the process's lifecycle (the shutdown window is a timer, and
  deferred functions run), and of each discovery (Discovered or DiscoveryFails): a call
  to an issuer ends, well or not. Strong fairness of Lock(r): sync.Mutex, which hands
  over to a goroutine that has waited for a millisecond, starves nobody. That
  the call ends is an assumption: the discovery client has no timeout of its own, so an
  issuer that accepts a connection and never answers ends it only when the request's
  client leaves. Nothing is assumed of clients, tokens, issuers' health or the bucket.


## 4. What is proved

All theorems hold for every value of the constants that satisfies the modules'
named assumptions. These say that a marker value (Absent, None, Unset, Unknown...) is no
ordinary value (an empty matcher kind is neither "oidc" nor "anonymous"), that modes and
filters are ones the code knows, and that TTL and length are positive. The bounds MaxTime, MaxVersion and MaxGeneration appear in guards
but the proofs use nothing of them but that they are numbers.

* **StoreProofs, of BlobFile.** TypeCorrect; NoTornSidecar, single winner, CoherentDownload
  and immutability of the bytes for create-once files; the refinement to WriteOnce;
  CommitsOnlyVerified and
  SoloUploadSettles in either mode. Inductive invariant `CreateOnceInv`: whoever is past
  the commit carries the content of the blob (`OwnsBlob`), and a download that has
  a size or a digest has the blob's (`KnowsBlob`). NoTornSidecar alone is not
  inductive: nothing in it says that the upload about to write a sidecar is the one
  whose blob is there. Refinement: each action of BlobFile is a step of WriteOnce or a
  stutter, by cases on Next, with one lemma for the steps that change a reader's answer.
  SoloUploadSettles follows from `SoloInv`: beside an upload that nothing has overlapped
  nobody writes or deletes, and from its commit on the blob is its own.
* **StoreProofs, of Generic.** CreatedOnce, AnnotationsStand, ReadsAreFresh, and that no
  step of anybody changes a record's creation time, empties its annotations or removes
  the file (RecordsOnlyGrow). Neither CreatedOnce nor AnnotationsStand is inductive: they need
  that an upsert about to write has found a record and read the creation time it still has
  (`WriterInv`), which holds because every other step keeps it (`PutStands`: creates leave
  what is there, upserts bring the time they read and annotations of their own). With
  that, what a GET is owed when it begins is in the store for good, and is found by each
  later step (`DueInv`).
* **AccessProofs, of Namespace.** BoundedStaleness, NeverRegresses, QuietHookInvalidates. The
  log is ordered in time, and every number a cache or a request holds was current at
  the time its load read it; an entry's expiry is at most Latency + TTL after that. A
  process's decisions, its entry and its flight are ordered: what was decided is no
  newer than what is cached, and what is cached no newer than what is in flight.
* **AccessProofs, of Serving.** Invariant `ServingInv`, in four parts. `RequestInv`: who is
  authenticated has claimed an issuer of the chain, who is authorized was verified, who
  runs was allowed to; OnlyEntitledAct follows by the lemma MatchesEntitle, that a
  matcher which matches the AuthContext of a token is satisfied by the token's own claims.
  `TroubleInv`: whatever a failure needs (its issuer or the bucket down, a doomed fetch of
  keys it waits for, a cancelled context, the end of the process) has met the waiting request
  itself, or the fetch it joined, which gives
  OutagesAreForgotten; the lemma ResponsibleClaimed (a nonempty set of indices has a least
  one) ties a request to the one issuer it may be troubled by. `ProbeInv`: the time the
  bucket is down is at most the time the answered ping has taken, and together with what is
  left of a cached success at most readyCacheTTL + readyTimeout (ReadyIsRecent).
  `ProcessInv`: Serve returns when the server is closed, closed in time means no connection
  is left (BucketOutlivesRequests). Beside it OneDiscoveryAtATime: getVerifier's mutex is
  held by exactly the request that discovers, which is the safety half of LocksAreReleased.
* **ProjectPageProofs.** UploadsAreListed, and that a cached page lists every file its
  process has answered for. `PageInv`: a load whose generation is current will still
  list (`WillList`) whatever has been announced; one whose generation is not owes only
  what was answered before it began, and is not stored.
* **NpmPackageProofs.** Backed, PublishesAreListed, InstallsWhatIsListed,
  OwnTagsResolve, from one invariant `IInv`: a publish past its tarball is backed, one
  that sets tags has its document (`PublishInv`); a reader's page lists only tarballs
  that exist, and what it owes is listed or still to be read (`ReaderInv`).
  InstallsWhatIsListed is of the names escaping leaves as they are (`Plain`), for any
  injective escaping: such a name is in a document only as itself.
* **TeeStreamProofs.** StoredWasDelivered, NoPartialFill, StoreNeverTruncates,
  ParentsAreBacked for files of any length. `HandlerInv` counts taken against sent
  chunks and ties the way the pipe is closed to how the copy ended; `FillInv` counts
  filled chunks against taken ones. NoPartialFill follows because a commit lies behind
  a clean end of the pipe, and a framed body ends cleanly only at its length.
  Of DisconnectsEnd the part that is not fairness is proved: the two goroutines never wait
  for each other (NeverBothWaiting), and each step of theirs lowers a bound on the steps
  left, `StepsLeft` (TransfersAreBounded).
* **ProxyProofs.** One flight per process, NegativeIsLatest, NeverFetchesFromSelf,
  FallsBackToStore, for both surfaces. `IInv` joins `OneFlight`/`FlightInv` (one leader,
  of its own process), `BucketInv` (own indexes list only stored files, by the names
  escaping makes of them, and are never saved), `IndexInv` (the same of what a request
  works with) and `OwedInv` (a flight that began with something to fall back to still has it). NeverFetchesFromSelf is of names
  escaping leaves as they are, FallsBackToStore of leaders that stay and a store that
  answers. Steps are grouped by
  what they do to a flight: move within it, enter it, deliver its result.
* **DebianProofs.** A lemma on chains of any length: what DecideAt allows without an age
  is admitted, that is, before every delay and every matching deny stands a matching
  allow. The first decider exists because < is well-founded on the indices. With
  it OnlyAdmittedIsStored, and StoredIsServed by `DueInv` (a download that is due stays on
  the steps that end in the store, unless the store could not be asked).
* **MavenProofs.** ChecksumsFit, StoredIsServed, FilesAreListed. `FitInv`: a release's
  stored files are of one artifact; `RequestInv`: so is what a download works with,
  whether it was fetched, computed or read; `UploadInv`: a checksum is written only
  behind the artifact it was compared with.

### What is only model-checked

* Liveness under fairness: ReplicasCatchUp, DisconnectsEnd, EveryoneIsAnswered,
  ShutdownEnds, LocksAreReleased. It is out of the prover's reach, as is ENABLED.
  Three rest on theorems that leave fairness alone to do the rest: DisconnectsEnd on
  NeverBothWaiting and TransfersAreBounded, EveryoneIsAnswered on OneFlightAtATime (who
  waits, waits for a flight at work), LocksAreReleased on OneDiscoveryAtATime (the mutex is
  only held by a request that discovers).
* Induction over data and RECURSIVE operators cannot be proved about with this prover.
  The models have neither: chains are decided by a least index, sets replace loops.


## 5. Where code and documents disagree

1. **drain.** `docs/operations.md:25-27` promises that requests in flight at a signal are
   drained within 15 seconds, and the package comment of `serving.go` says the same.
   `serving.go:52` makes the process context, which the signal cancels, the parent of every
   request's context: all of them are cancelled before Shutdown begins to wait, and
   their next bucket or upstream call fails. What holds is ShutdownEnds and
   BucketOutlivesRequests.
2. **republish.** `docs/npm.md:56` says that re-publishing a version returns 409. The
   create-once write that refuses is keyed by the tarball's basename, which the
   publisher chooses (`npm/handler.go:535`); under another basename the version's
   package.json is replaced.

The models contain more behaviour a reader may not expect. These are notes at the
hazards of PROJECT.json, not runs:

* Policies: the change hook of the catalog (`registry.go:94`) empties the cache of a process
  that changes policies itself. No command does: `serve` changes none, and the admin server
  builds no Registry. So a change of a policy reaches the data plane by the TTL alone
  (BoundedStaleness), whatever `docs/architecture.md:337-339` and `registry.go:75-77` say of a
  single process; even there a load that overlaps the hook would be stored after it.
  A namespace may be deleted under a concurrent first upload. A pattern's anchors are added
  to its text (`policy.go:103-111`), so in an alternation they bind to the outer
  branches only; the models take a pattern as the set of values it matches.
* Authentication: a request that waits for another's OIDC discovery waits as long as
  that call lasts, also when its own client has left (`oidc.go:112`). A fetch of keys begun
  in an outage refuses, when it fails, also those who joined it after the issuer was back.
* Files: two overlapping overwrites can leave the sidecar of the one beside the blob of the
  other; a download of an overwritable file may mix two contents.
* Names: npm escapes a file name when a publish stores dist.tarball (`npm/handler.go:519`) and
  the stored spelling again when a packument lists it (742). A name that escaping changes, such as
  `pkg(1).tgz`, is accepted and listed under a URL that is a 404; a proxied one, listed by a
  synthesized packument, is not found in the store (`npm/proxy.go:233`) and is fetched from
  this registry itself. The models have such names; InstallsWhatIsListed and
  NeverFetchesFromSelf are stated of the others.
* Surfaces: an npm dist-tag may be set to a version whose publish stopped half way; Maven
  snapshots with non-unique names are cached as if immutable; all Maven metadata
  documents of an artifact share one negative entry; Debian indexes fall back one by one
  and may then be of different ages.
* Proxies: an upstream body without length or chunking that breaks is stored as if whole;
  the joiners of a flight get a 503 beside a snapshot when its leader's client leaves; a
  negative entry for a file may come from an old index; an upstream whose body stalls holds
  a flight until its leader's client leaves. A store that fails the reads of the fallback makes
  a 503 (hosted Debian: a 404) beside a stored copy (`debian/proxy.go:298-301`,
  `pypi/proxy.go:364-369`).


## 6. What is not modelled, and why

* Signed-URL redirects: the models take the bucket as one that signs none (memory and
  file buckets), so downloads stream.
* The memo of signed URLs and attributes (`cache.go`): every request gets a Store of its own
  (`authz.go:48`, `registry.go:141`), so its memos start empty, and no two requests share
  an entry or a flight. Should Stores be kept, the life of an entry against that of its
  URL would be worth a model: an entry's TTL starts when signing ends, the URL's when it begins.
* Parsing, rendering, path encoding and status codes: data, not control, but for the
  escaping of npm's file names. Distinct names are taken to have distinct keys.
* In Namespace a policy is the set of grants it amounts to; Policy says how it is matched,
  with patterns as sets of values and claims as their rendered values.
* Of authentication: header parsing, and what go-oidc does (signatures, audience, expiry,
  the rotation of keys). Its key fetch is modelled as shared between requests and detached from
  their contexts, which is how RemoteKeySet works. A token is genuine or not.
* The admin plane's server, which differs from the data plane's in its handler only.
* Root listings and the npm ping: they change and combine nothing.
* Maven's archetype catalog and hosted metadata uploads: further files of the kind
  already modelled; planned.
* Two Debian indexes that name each other (Release and Packages): planned.
* Flags and configuration files, logging, metrics and their labels, the echo surface,
  version: wiring and output. Of the commands, the life of the serving process is modelled.


## 7. Plan

In the order of importance; the first fourteen are done.

1. BlobFile with WriteOnce, refinement and proofs.
2. Namespace with its policy cache, and proofs.
3. ProjectPage, and proofs.
4. NpmPackage, and proofs.
5. TeeStream, and proofs.
6. Proxy for both surfaces, and proofs.
7. FilterChain and Debian, and proofs.
8. Maven, and proofs.
9. Generic.
10. Policy matching as operators, used by 11.
11. Serving: authentication with lazy discovery, readiness, and shutdown against requests
    in flight, with liveness.
12. One instance of BlobFile for both modes, and SoloUploadSettles proved.
13. Proofs of Generic, beside those of BlobFile.
14. Proofs of Serving, beside those of Namespace.
15. Maven's hosted metadata and archetype catalog; two Debian indexes that refer to each other.
16. A composition of Namespace with a surface: what a request may still do
    after its grant was withdrawn, within BoundedStaleness.
