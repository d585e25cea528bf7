-------------------------------- MODULE Proxy --------------------------------
(***************************************************************************)
(* One package of a pull-through proxy namespace (proxyEngine of the PyPI  *)
(* and npm surfaces): requests for its index (simple index, packument) and *)
(* for its files, the memo, negative entries and flight of each process,   *)
(* the snapshot and the files in the bucket, and an upstream that changes  *)
(* and comes and goes.                                                     *)
(*                                                                         *)
(* An index is a set of files and whether it was put together from what    *)
(* the store holds (own), in which case its entries have no upstream URL   *)
(* (PyPI) or one of this registry (npm).  npm keeps of a file it stores a  *)
(* document whose URL spells the name escaped, and an index put together   *)
(* from such documents lists the escaped name: a name is listed as it is   *)
(* stored only if escaping leaves it as it is.                             *)
(*                                                                         *)
(* The clock is abstracted: a memo, a negative entry or a snapshot may     *)
(* come of age at any time.                                                *)
(***************************************************************************)
CONSTANTS
    Processes,    \* replicas
    Requests,
    Files,        \* file names; each is a file upstream may have, one to a version, or
                  \* what the name of such a file becomes when it is escaped
    Escape,       \* each as url.PathEscape spells it; None where the instance ends
    Derivable,    \* npm: the files whose name spells their version
    Packages,     \* packages: <<surface, "pypi" or "npm", and the file names it deals in>>
    Index,        \* what a request for the index wants
    Wanted,       \* what each request may want: file names and the index
    None

\* Only a name that escaping leaves as it is has no escape sequence in its escaped form.
ASSUME EscapeAssumption ==
    /\ Escape \in [Files -> Files \cup {None}]
    /\ \A f, g \in Files : Escape[f] = g /\ Escape[g] = g => f = g
ASSUME DerivableAssumption == Derivable \subseteq Files
ASSUME PackagesAssumption == Packages \subseteq {"pypi", "npm"} \X SUBSET Files
ASSUME WantedAssumption == Wanted \in [Requests -> SUBSET (Files \cup {Index})]
ASSUME IndexAssumption == Index \notin Files /\ None \notin Files

\* What upstream lists: no name that is the escaped form of another.
Sources == {f \in Files : \A g \in Files : Escape[g] = f => g = f}

Indexes == [files : SUBSET Files, own : BOOLEAN]

ASSUME NoneAssumption == None \notin Indexes /\ None \notin Requests

VARIABLES
    flavour,     \* the surface of the namespace
    names,       \* the file names of the package
    upstream,    \* the files upstream has; without any, the package is a 404
    reachable,   \* whether upstream answers, and with well-formed indexes
    snapshot,    \* the durable index in .cache, or None
    young,       \* npm: whether it is younger than the packument TTL
    local,       \* the files stored
    described,   \* npm: those whose package.json is stored too
    memo,        \* each process's memo of the index, or None
    negIndex,    \* the processes that remember the index as a 404
    negFiles,    \* the files each process remembers as a 404
    flight,      \* the request that leads each process's flight, or None
    rpc,         \* where each request is
    proc,        \* its process
    want,        \* what it wants
    idx,         \* the index it works with, or None
    gone,        \* it leads a flight and its client has left: its context is cancelled
    flaky,       \* it leads a flight that falls back, and the store has begun to fail its reads
    owed,        \* history: the store had an index to fall back to when its flight began
    lastFetch    \* history: how the last load of each process that reached upstream ended

bucketVars == <<snapshot, young, local, described>>
upstreamVars == <<flavour, names, upstream, reachable>>
vars == <<flavour, names, upstream, reachable, snapshot, young, local, described, memo, negIndex,
          negFiles, flight, rpc, proc, want, idx, gone, flaky, owed, lastFetch>>

Asking == {"fetch", "resumed"}
Loading == {"recheck", "fresh", "stalled", "save", "fallback", "synthesize"} \cup Asking
Answers == {"served", "missing", "denied", "unavailable", "failed"}
Steps == {"idle", "local", "negative", "memo", "negIndex", "enter", "join", "remember",
          "resolve", "again", "filter", "stream", "tee", "parents"} \cup Loading \cup Answers

TypeOK ==
    /\ flavour \in {"pypi", "npm"} /\ names \subseteq Files
    /\ upstream \subseteq Sources
    /\ reachable \in BOOLEAN /\ young \in BOOLEAN
    /\ snapshot \in Indexes \cup {None}
    /\ local \subseteq Files /\ described \subseteq Files
    /\ memo \in [Processes -> Indexes \cup {None}]
    /\ negIndex \subseteq Processes
    /\ negFiles \in [Processes -> SUBSET Files]
    /\ flight \in [Processes -> Requests \cup {None}]
    /\ rpc \in [Requests -> Steps]
    /\ proc \in [Requests -> Processes]
    /\ want \in [Requests -> Files \cup {Index}]
    /\ idx \in [Requests -> Indexes \cup {None}]
    /\ gone \in [Requests -> BOOLEAN] /\ flaky \in [Requests -> BOOLEAN]
    /\ owed \in [Requests -> BOOLEAN]
    /\ lastFetch \in [Processes -> {"none", "ok", "404"}]

Init ==
    /\ \E package \in Packages : flavour = package[1] /\ names = package[2]
    /\ upstream \in SUBSET (Sources \cap names)
    /\ reachable = TRUE
    /\ snapshot = None /\ young = FALSE
    /\ local = {} /\ described = {}
    /\ memo = [p \in Processes |-> None]
    /\ negIndex = {}
    /\ negFiles = [p \in Processes |-> {}]
    /\ flight = [p \in Processes |-> None]
    /\ rpc = [r \in Requests |-> "idle"]
    /\ proc \in [Requests -> Processes]
    /\ want = [r \in Requests |-> Index]
    /\ idx = [r \in Requests |-> None]
    /\ gone = [r \in Requests |-> FALSE] /\ flaky = [r \in Requests |-> FALSE]
    /\ owed = [r \in Requests |-> FALSE]
    /\ lastFetch = [p \in Processes |-> "none"]

Goto(r, step) == rpc' = [rpc EXCEPT ![r] = step]

\* A request that is answered has no more use for its index.
Reach(r, step) ==
    /\ Goto(r, step)
    /\ idx' = IF step \in Answers THEN [idx EXCEPT ![r] = None] ELSE idx

\* What synthesize finds: stored files; for npm those with a package.json, by the names
\* in its URLs.
Listable == IF flavour = "npm" THEN {Escape[f] : f \in described} \ {None} ELSE local
-----------------------------------------------------------------------------
(* Upstream, the clock, the store, and clients that leave.                  *)

Release(f) ==
    /\ f \in (Sources \cap names) \ upstream
    /\ upstream' = upstream \cup {f}
    /\ UNCHANGED <<flavour, names, reachable, bucketVars, memo, negIndex, negFiles, flight, rpc, proc, want,
                   idx, gone, flaky, owed, lastFetch>>

Withdraw(f) ==
    /\ f \in upstream
    /\ upstream' = upstream \ {f}
    /\ UNCHANGED <<flavour, names, reachable, bucketVars, memo, negIndex, negFiles, flight, rpc, proc, want,
                   idx, gone, flaky, owed, lastFetch>>

Toggle ==
    /\ reachable' = ~reachable
    /\ UNCHANGED <<flavour, names, upstream, bucketVars, memo, negIndex, negFiles, flight, rpc, proc, want,
                   idx, gone, flaky, owed, lastFetch>>

SnapshotAges ==
    /\ young
    /\ young' = FALSE
    /\ UNCHANGED <<upstreamVars, snapshot, local, described, memo, negIndex, negFiles, flight, rpc, proc,
                   want, idx, gone, flaky, owed, lastFetch>>

MemoExpires(p) ==
    /\ memo[p] # None
    /\ memo' = [memo EXCEPT ![p] = None]
    /\ UNCHANGED <<upstreamVars, bucketVars, negIndex, negFiles, flight, rpc, proc, want, idx, gone, flaky, owed, lastFetch>>

\* A negative entry is believed until its TTL has passed.
NegativeExpires(p) ==
    /\ \/ p \in negIndex /\ negIndex' = negIndex \ {p} /\ UNCHANGED negFiles
       \/ \E f \in negFiles[p] : negFiles' = [negFiles EXCEPT ![p] = @ \ {f}] /\ UNCHANGED negIndex
    /\ UNCHANGED <<upstreamVars, bucketVars, memo, flight, rpc, proc, want, idx, gone, flaky, owed, lastFetch>>

\* A client is missed only while its request leads a flight: elsewhere its request
\* just ends.
Leave(r) ==
    /\ rpc[r] \in Loading /\ ~gone[r]
    /\ gone' = [gone EXCEPT ![r] = TRUE]
    /\ UNCHANGED <<upstreamVars, bucketVars, memo, negIndex, negFiles, flight, rpc, proc, want, idx, flaky, owed, lastFetch>>

\* From now on any read of the store that the flight makes may fail.
StoreFalters(r) ==
    /\ rpc[r] \in {"fallback", "synthesize"} /\ ~flaky[r]
    /\ flaky' = [flaky EXCEPT ![r] = TRUE]
    /\ UNCHANGED <<upstreamVars, bucketVars, memo, negIndex, negFiles, flight, rpc, proc, want, idx, gone, owed, lastFetch>>

\* The body of upstream's answer stops coming: timeouts of the transport bound the dial
\* and the wait for headers, nothing bounds the reading of the body.
Stall(r) ==
    /\ rpc[r] = "fetch" /\ reachable
    /\ Goto(r, "stalled")
    /\ UNCHANGED <<upstreamVars, bucketVars, memo, negIndex, negFiles, flight, proc, want, idx, gone, flaky, owed, lastFetch>>

\* It comes after all, or the connection breaks.
Resume(r) ==
    /\ rpc[r] = "stalled"
    /\ Goto(r, "resumed")
    /\ UNCHANGED <<upstreamVars, bucketVars, memo, negIndex, negFiles, flight, proc, want, idx, gone, flaky, owed, lastFetch>>
-----------------------------------------------------------------------------
(* The index: fetchIndex, fetchPackument.                                   *)

\* projectIndex, packument, distTags begin with the index; download and tarball
\* with a look into the store.
Begin(r) ==
    /\ rpc[r] \in {"idle"} \cup Answers
    /\ \E p \in Processes : proc' = [proc EXCEPT ![r] = p]
    /\ \E w \in Wanted[r] \cap (names \cup {Index}) :
          /\ want' = [want EXCEPT ![r] = w]
          /\ Goto(r, IF w = Index THEN "memo" ELSE "local")
    /\ UNCHANGED <<upstreamVars, bucketVars, memo, negIndex, negFiles, flight, idx, gone, flaky, owed, lastFetch>>

LookMemo(r) ==
    /\ rpc[r] = "memo"
    /\ idx' = [idx EXCEPT ![r] = memo[proc[r]]]
    /\ Goto(r, IF memo[proc[r]] = None THEN "negIndex" ELSE "resolve")
    /\ UNCHANGED <<upstreamVars, bucketVars, memo, negIndex, negFiles, flight, proc, want, gone, flaky, owed, lastFetch>>

LookNegativeIndex(r) ==
    /\ rpc[r] = "negIndex"
    /\ Goto(r, IF proc[r] \in negIndex THEN "missing" ELSE "enter")
    /\ UNCHANGED <<upstreamVars, bucketVars, memo, negIndex, negFiles, flight, proc, want, idx, gone, flaky, owed, lastFetch>>

FlightTaken(r) == flight[proc[r]] # None

CouldFallBack == snapshot # None \/ Listable # {}

\* Group.Do: lead a flight, or join the one there is.
Enter(r) ==
    /\ rpc[r] = "enter"
    /\ \/ /\ ~FlightTaken(r)
          /\ flight' = [flight EXCEPT ![proc[r]] = r]
          /\ Goto(r, "recheck")
          /\ owed' = [owed EXCEPT ![r] = CouldFallBack]
       \/ /\ FlightTaken(r)
          /\ Goto(r, "join")
          /\ owed' = [owed EXCEPT ![r] = owed[flight[proc[r]]]]
          /\ UNCHANGED flight
    /\ UNCHANGED <<upstreamVars, bucketVars, memo, negIndex, negFiles, proc, want, idx, gone, flaky, lastFetch>>

\* The flight ends: leader and joiners get its result.
Party(r) == {q \in Requests : q = r \/ (rpc[q] = "join" /\ proc[q] = proc[r])}

DeliverToLeader(r, step, index) ==
    /\ Goto(r, step)
    /\ idx' = [idx EXCEPT ![r] = index]
    /\ flight' = [flight EXCEPT ![proc[r]] = None]
    /\ gone' = [gone EXCEPT ![r] = FALSE] /\ flaky' = [flaky EXCEPT ![r] = FALSE]
    /\ owed' = [owed EXCEPT ![r] = FALSE]

Deliver(r, step, index) ==
    /\ rpc' = [q \in Requests |-> IF q \in Party(r) THEN step ELSE rpc[q]]
    /\ idx' = [q \in Requests |-> IF q \in Party(r) THEN index ELSE idx[q]]
    /\ flight' = [flight EXCEPT ![proc[r]] = None]
    /\ gone' = [gone EXCEPT ![r] = FALSE] /\ flaky' = [flaky EXCEPT ![r] = FALSE]
    /\ owed' = [q \in Requests |-> owed[q] /\ q \notin Party(r)]

Recheck(r) ==
    /\ rpc[r] = "recheck"
    /\ \/ /\ memo[proc[r]] # None
          /\ Deliver(r, "remember", memo[proc[r]])
       \/ /\ memo[proc[r]] = None
          /\ Goto(r, IF flavour = "npm" THEN "fresh" ELSE "fetch")
          /\ UNCHANGED <<idx, flight, gone, flaky, owed>>
    /\ UNCHANGED <<upstreamVars, bucketVars, memo, negIndex, negFiles, proc, want, lastFetch>>

\* npm: a snapshot younger than its TTL is served without asking upstream, unless it
\* cannot be read.
ServeFresh(r) ==
    /\ rpc[r] = "fresh"
    /\ \/ /\ snapshot # None /\ young /\ ~gone[r]
          /\ Deliver(r, "remember", snapshot)
       \/ /\ Goto(r, "fetch")
          /\ UNCHANGED <<idx, flight, gone, flaky, owed>>
    /\ UNCHANGED <<upstreamVars, bucketVars, memo, negIndex, negFiles, proc, want, lastFetch>>

\* loadIndex, loadPackument: an index, a 404 that is remembered, or no use.
Fetch(r) ==
    /\ rpc[r] \in Asking /\ reachable /\ ~gone[r]
    /\ \/ /\ upstream # {}
          /\ idx' = [idx EXCEPT ![r] = [files |-> upstream, own |-> FALSE]]
          /\ Goto(r, "save")
          /\ UNCHANGED <<negIndex, flight, gone, flaky, owed, lastFetch>>
       \/ /\ upstream = {}
          /\ negIndex' = negIndex \cup {proc[r]}
          /\ lastFetch' = [lastFetch EXCEPT ![proc[r]] = "404"]
          /\ Deliver(r, "missing", None)
    /\ UNCHANGED <<upstreamVars, bucketVars, memo, negFiles, proc, want>>

\* The request fails, is answered 5xx, or with an index that does not parse.  The
\* context of a client that leaves ends it wherever it is.
FetchFails(r) ==
    /\ \/ rpc[r] \in Asking /\ (~reachable \/ gone[r])
       \/ rpc[r] = "stalled" /\ gone[r]
    /\ Goto(r, "fallback")
    /\ UNCHANGED <<upstreamVars, bucketVars, memo, negIndex, negFiles, flight, proc, want, idx, gone, flaky, owed, lastFetch>>

SaveKeepsNegative(r) ==
    /\ rpc[r] = "save"
    /\ \/ snapshot' = idx[r] /\ young' = TRUE
       \/ UNCHANGED <<snapshot, young>>
    /\ lastFetch' = [lastFetch EXCEPT ![proc[r]] = "ok"]
    /\ Deliver(r, "remember", idx[r])
    /\ UNCHANGED <<upstreamVars, local, described, memo, negIndex, negFiles, proc, want>>

\* The snapshot is written, best effort, and the negative entry dropped.
Save(r) ==
    /\ rpc[r] = "save"
    /\ \/ snapshot' = idx[r] /\ young' = TRUE
       \/ UNCHANGED <<snapshot, young>>
    /\ negIndex' = negIndex \ {proc[r]}
    /\ lastFetch' = [lastFetch EXCEPT ![proc[r]] = "ok"]
    /\ Deliver(r, "remember", idx[r])
    /\ UNCHANGED <<upstreamVars, local, described, memo, negFiles, proc, want>>

OnlyYoung(r) == snapshot # None /\ young /\ ~gone[r]

\* A snapshot of any age will do; nothing can be read with a cancelled context.
CanFallBack(r) == snapshot # None /\ ~gone[r]

\* fallbackIndex, fallbackPackument; a snapshot that cannot be read is passed over.
FallBack(r) ==
    /\ rpc[r] = "fallback"
    /\ \/ CanFallBack(r) /\ Deliver(r, "remember", snapshot)
       \/ /\ ~CanFallBack(r) \/ flaky[r]
          /\ Goto(r, "synthesize") /\ UNCHANGED <<idx, flight, gone, flaky, owed>>
    /\ UNCHANGED <<upstreamVars, bucketVars, memo, negIndex, negFiles, proc, want, lastFetch>>

\* A listing that fails leaves nothing to serve, a file or document that cannot be read
\* is left out.
Synthesize(r) ==
    /\ rpc[r] = "synthesize"
    /\ \/ \E found \in SUBSET Listable \ {{}} :
             /\ ~gone[r] /\ (found = Listable \/ flaky[r])
             /\ Deliver(r, "remember", [files |-> found, own |-> TRUE])
       \/ /\ Listable = {} \/ gone[r] \/ flaky[r]
          /\ Deliver(r, "unavailable", None)
    /\ UNCHANGED <<upstreamVars, bucketVars, memo, negIndex, negFiles, proc, want, lastFetch>>

\* Every caller of the flight puts its index into the memo, however late.
Remember(r) ==
    /\ rpc[r] = "remember"
    /\ memo' = [memo EXCEPT ![proc[r]] = idx[r]]
    /\ Goto(r, "resolve")
    /\ UNCHANGED <<upstreamVars, bucketVars, negIndex, negFiles, flight, proc, want, idx, gone, flaky, owed, lastFetch>>
-----------------------------------------------------------------------------
(* A file: download, tarball.                                               *)

\* npm looks before it has the index only where the name spells the version.
LookLocal(r) ==
    /\ rpc[r] = "local"
    /\ Goto(r, IF want[r] \in local /\ (flavour = "pypi" \/ want[r] \in Derivable) THEN "served" ELSE "negative")
    /\ UNCHANGED <<upstreamVars, bucketVars, memo, negIndex, negFiles, flight, proc, want, idx, gone, flaky, owed, lastFetch>>

LookNegative(r) ==
    /\ rpc[r] = "negative"
    /\ Goto(r, IF want[r] \in negFiles[proc[r]] THEN "missing" ELSE "memo")
    /\ UNCHANGED <<upstreamVars, bucketVars, memo, negIndex, negFiles, flight, proc, want, idx, gone, flaky, owed, lastFetch>>

MissingFile(r) ==
    /\ negFiles' = [negFiles EXCEPT ![proc[r]] = @ \cup {want[r]}]
    /\ Reach(r, "missing")

HasSource(r) == want[r] \in idx[r].files /\ (flavour = "npm" \/ ~idx[r].own)

\* The index is the answer, or the file is looked up in it; a file without a source
\* is remembered as missing.
Resolve(r) ==
    /\ rpc[r] = "resolve"
    /\ \/ want[r] = Index /\ Reach(r, "served") /\ UNCHANGED negFiles
       \/ want[r] # Index /\ HasSource(r) /\ Reach(r, IF flavour = "npm" THEN "again" ELSE "filter") /\ UNCHANGED negFiles
       \/ want[r] # Index /\ ~HasSource(r) /\ MissingFile(r)
    /\ UNCHANGED <<upstreamVars, bucketVars, memo, negIndex, flight, proc, want, gone, flaky, owed, lastFetch>>

SkipsLook(r) ==
    /\ rpc[r] = "again"
    /\ Reach(r, "filter")
    /\ UNCHANGED <<upstreamVars, bucketVars, memo, negIndex, negFiles, flight, proc, want, gone, flaky, owed, lastFetch>>

\* npm: now that the version is known, the store is asked again, for the name asked for.
LookAgain(r) ==
    /\ rpc[r] = "again"
    /\ Reach(r, IF want[r] \in local THEN "served" ELSE "filter")
    /\ UNCHANGED <<upstreamVars, bucketVars, memo, negIndex, negFiles, flight, proc, want, gone, flaky, owed, lastFetch>>

\* The filter chain allows or denies; a HEAD that it allows is answered here.
Filter(r) ==
    /\ rpc[r] = "filter"
    /\ \E step \in {"denied", "served", "stream"} : Reach(r, step)
    /\ UNCHANGED <<upstreamVars, bucketVars, memo, negIndex, negFiles, flight, proc, want, gone, flaky, owed, lastFetch>>

\* Client.Stream: the file, or a 404 that is remembered.  A source in an index of our
\* own making leads back to this registry, which decodes it to the name the file is
\* stored under and answers as it may.
Stream(r) ==
    /\ rpc[r] = "stream" /\ (idx[r].own \/ reachable)
    /\ \/ (idx[r].own \/ want[r] \in upstream) /\ Reach(r, "tee") /\ UNCHANGED negFiles
       \/ (idx[r].own \/ want[r] \notin upstream) /\ MissingFile(r)
    /\ UNCHANGED <<upstreamVars, bucketVars, memo, negIndex, flight, proc, want, gone, flaky, owed, lastFetch>>

\* A look into the store fails, or the stream does not begin.
Break(r) ==
    /\ rpc[r] \in {"local", "again", "stream"}
    /\ Reach(r, "failed")
    /\ UNCHANGED <<upstreamVars, bucketVars, memo, negIndex, negFiles, flight, proc, want, gone, flaky, owed, lastFetch>>

\* streamAndCache (module TeeStream): cut short and not stored; or whole, and stored
\* or not.  A fill that loses to another, or does not hear of its commit, records
\* no parents.
Tee(r) ==
    /\ rpc[r] = "tee"
    /\ \/ Reach(r, "failed") /\ UNCHANGED local
       \/ Reach(r, "served") /\ local' \in {local, local \cup {want[r]}}
       \/ want[r] \notin local /\ local' = local \cup {want[r]} /\ Reach(r, "parents")
    /\ UNCHANGED <<upstreamVars, snapshot, young, described, memo, negIndex, negFiles, flight, proc, want,
                   gone, flaky, owed, lastFetch>>

\* recordParents, best effort: for npm it ends with the version's package.json, which
\* replaces the one that spelled the file's name unescaped, if that is how it was found.
RecordParents(r) ==
    /\ rpc[r] = "parents"
    /\ \/ UNCHANGED described
       \/ /\ flavour = "npm" /\ Escape[want[r]] # None
          /\ described' = {f \in described : Escape[f] # want[r]} \cup {want[r]}
    /\ Reach(r, "served")
    /\ UNCHANGED <<upstreamVars, snapshot, young, local, memo, negIndex, negFiles, flight, proc, want,
                   gone, flaky, owed, lastFetch>>
-----------------------------------------------------------------------------
\* What a request does once it has begun: it looks for the index, then for the file.
LookUp(r) ==
    \/ LookMemo(r) \/ LookNegativeIndex(r) \/ Enter(r) \/ Recheck(r) \/ ServeFresh(r) \/ Fetch(r)
    \/ FetchFails(r) \/ Save(r) \/ FallBack(r) \/ Synthesize(r) \/ Remember(r)

Serve(r) ==
    \/ LookUp(r)
    \/ LookLocal(r) \/ LookNegative(r) \/ Resolve(r) \/ LookAgain(r) \/ Filter(r) \/ Stream(r) \/ Break(r)
    \/ Tee(r) \/ RecordParents(r)

Next ==
    \/ \E f \in Files : Release(f) \/ Withdraw(f)
    \/ Toggle \/ SnapshotAges
    \/ \E p \in Processes : MemoExpires(p) \/ NegativeExpires(p)
    \/ \E r \in Requests : Begin(r) \/ Leave(r) \/ StoreFalters(r) \/ Stall(r) \/ Resume(r) \/ Serve(r)

Spec == Init /\ [][Next]_vars

\* Requests run in goroutines of their own.  A look-up makes three kinds of call:
\* into the process, to the store, which is assumed to answer or to fail, and to
\* upstream, whose dial and headers the client's transport bounds.  A body that stalls
\* is ended by nothing but the cancellation of the leader's context (FetchFails), so
\* Resume has no fairness; nor have the steps that transfer a file.
Fairness == \A r \in Requests : WF_vars(LookUp(r))

FairSpec == Spec /\ Fairness
-----------------------------------------------------------------------------
\* A process remembers the index as missing only while that is how its last load from
\* upstream ended: a request that passed the negative check before the entry was made may
\* fetch the index after, and then drops the entry.
NegativeIsLatest == \A p \in negIndex : lastFetch[p] = "404"

\* "On a refresh failure the surface serves the durable snapshot at any age, else a
\* synthesized index" (docs/architecture.md): the index is unavailable only to those
\* whose flight began with neither in the store, was led by one that left, or met a
\* store that failed its reads.
FallsBackToStore ==
    [][\A r, q \in Requests :
         /\ rpc[r] = "synthesize" /\ rpc'[r] = "unavailable"
         /\ ~gone[r] /\ ~flaky[r] /\ q \in Party(r)
         => ~owed[q]]_vars

\* A file whose name escaping leaves as it is is never fetched through an entry of an
\* index of our own making, whose URL leads back to this registry: what such an index
\* lists is in the store, and is found there.  (Of other names it lists the escaped form,
\* under which nothing is stored: those requests do go round.)
NeverFetchesFromSelf ==
    \A r \in Requests : rpc[r] \in {"filter", "stream", "tee"} /\ idx[r].own => Escape[want[r]] # want[r]

\* One load of the index at a time in each process, and whoever waits, waits for one.
OneFlight ==
    /\ \A r \in Requests : rpc[r] \in Loading <=> flight[proc[r]] = r
    /\ \A r \in Requests : rpc[r] = "join" => flight[proc[r]] # None

\* Every request is answered, whoever leads its flight and whatever becomes of them,
\* unless an answer of upstream stalls for good under a leader whose client stays: then
\* leader and joiners wait with it.
EveryoneIsAnswered ==
    (\A q \in Requests : []<>~(rpc[q] = "stalled" /\ ~gone[q]))
        => \A r \in Requests : rpc[r] = "enter" ~> rpc[r] \in Answers \cup {"resolve"}
=============================================================================
