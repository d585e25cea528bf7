------------------------------- MODULE Debian -------------------------------
(***************************************************************************)
(* A Debian repository in a namespace, proxied or hosted: downloads of     *)
(* index files (dists/) and of one pool file race in one process, with its *)
(* negative cache, the filter chain, and an upstream that changes and may  *)
(* fail.  The process may restart at any time.                             *)
(*                                                                         *)
(* A file is read or written in one step (module BlobFile, with AddCache   *)
(* as its overwriting upload), and a tee stores the whole file or nothing  *)
(* (module TeeStream).  Upstream never changes a pool file, and pool files *)
(* of different directories have different names (docs/architecture.md).   *)
(***************************************************************************)
EXTENDS FilterChain

CONSTANTS
    Modes,      \* "hosted", "proxy"
    Chains,     \* filter chains
    Ref,        \* what the pool file's name says of it: package, version, no age
    Indexes,    \* paths of index files
    Pool,       \* the path of the pool file
    Bodies,     \* contents
    Requests,
    None

Paths == Indexes \cup {Pool}

ASSUME ModesAssumption == Modes \subseteq {"hosted", "proxy"}
ASSUME ChainsAssumption == Chains \subseteq Seq({f \in Filters : Valid(f)})
ASSUME RefAssumption == Ref \in Refs /\ Ref.age = Unknown
ASSUME PoolAssumption == Pool \notin Indexes
ASSUME NoneAssumption == None \notin Bodies

VARIABLES
    mode, chain,   \* the namespace's
    stored,        \* the cache entry of each index and the file of the pool, or None
    records,       \* which of the package and version records of the pool file exist
    content,       \* upstream's
    offered,       \* the paths upstream has
    negative,      \* the paths whose 404 the process remembers
    rpc,           \* where each download is
    want,          \* the path it asks for
    head,          \* whether it is a HEAD
    got,           \* the content it works with or was sent, or None
    due,           \* history: its path was stored when it began
    broken         \* history: a store call for its cached copy failed

spaceVars == <<mode, chain>>
upstreamVars == <<content, offered>>
requestVars == <<rpc, want, head, got, due, broken>>
vars == <<mode, chain, stored, records, content, offered, negative, rpc, want, head, got, due, broken>>

Answers == {"served", "missing", "failed", "unavailable"}
Steps == {"negative", "fetch", "filter", "tee", "look", "cached", "open", "parents"}

TypeOK ==
    /\ mode \in Modes /\ chain \in Chains
    /\ stored \in [Paths -> Bodies \cup {None}]
    /\ records \subseteq {"package", "version"}
    /\ content \in [Paths -> Bodies]
    /\ offered \subseteq Paths
    /\ negative \subseteq Paths
    /\ rpc \in [Requests -> Steps \cup Answers \cup {"idle"}]
    /\ want \in [Requests -> Paths]
    /\ head \in [Requests -> BOOLEAN]
    /\ got \in [Requests -> Bodies \cup {None}]
    /\ due \in [Requests -> BOOLEAN]
    /\ broken \in [Requests -> BOOLEAN]

\* A hosted namespace has what was put into the bucket beside the program.
Init ==
    /\ mode \in Modes /\ chain \in Chains
    /\ stored \in [Paths -> Bodies \cup {None}]
    /\ mode = "proxy" => \A x \in Paths : stored[x] = None
    /\ records = {}
    /\ content \in [Paths -> Bodies]
    /\ offered \in {{}, Paths}
    /\ negative = {}
    /\ rpc = [r \in Requests |-> "idle"]
    /\ want = [r \in Requests |-> Pool]
    /\ head = [r \in Requests |-> FALSE]
    /\ got = [r \in Requests |-> None]
    /\ due = [r \in Requests |-> FALSE]
    /\ broken = [r \in Requests |-> FALSE]
-----------------------------------------------------------------------------
(* Upstream, the clock and the process.                                     *)

\* Upstream gets a path or loses one.
Offer(x) ==
    /\ mode = "proxy"
    /\ offered' \in {offered \cup {x}, offered \ {x}} \ {offered}
    /\ UNCHANGED <<spaceVars, stored, records, content, negative, requestVars>>

\* An index is published again; a pool file never is.
Publish(x) ==
    /\ mode = "proxy"
    /\ \E b \in Bodies \ {content[x]} : content' = [content EXCEPT ![x] = b]
    /\ UNCHANGED <<spaceVars, stored, records, offered, negative, requestVars>>

\* An entry is believed until its TTL has passed.
NegativeExpires(x) ==
    /\ x \in negative
    /\ negative' = negative \ {x}
    /\ UNCHANGED <<spaceVars, stored, records, upstreamVars, requestVars>>

Restart ==
    /\ \E r \in Requests : rpc[r] # "idle"
    /\ negative' = {}
    /\ rpc' = [r \in Requests |-> "idle"]
    /\ got' = [r \in Requests |-> None]
    /\ due' = [r \in Requests |-> FALSE]
    /\ broken' = [r \in Requests |-> FALSE]
    /\ UNCHANGED <<spaceVars, stored, records, upstreamVars, want, head>>
-----------------------------------------------------------------------------
Goto(r, step) == rpc' = [rpc EXCEPT ![r] = step]

Serve(r, bytes) ==
    /\ Goto(r, "served")
    /\ got' = [got EXCEPT ![r] = IF head[r] THEN None ELSE bytes]

\* handler.download, serveLocal and proxyEngine.serve.
FirstStep(x) ==
    IF x = Pool THEN "look" ELSE IF mode = "proxy" THEN "negative" ELSE "cached"

Begin(r) ==
    /\ rpc[r] \in Answers \cup {"idle"}
    /\ \E x \in Paths : /\ want' = [want EXCEPT ![r] = x]
                        /\ due' = [due EXCEPT ![r] = stored[x] # None]
                        /\ Goto(r, FirstStep(x))
    /\ \E h \in BOOLEAN : head' = [head EXCEPT ![r] = h]
    /\ got' = [got EXCEPT ![r] = None]
    /\ broken' = [broken EXCEPT ![r] = FALSE]
    /\ UNCHANGED <<spaceVars, stored, records, upstreamVars, negative>>

\* serveArtifact and serveLocal: a stored pool file is served before all else.
Look(r) ==
    /\ rpc[r] = "look"
    /\ Goto(r, IF stored[Pool] # None THEN "open" ELSE IF mode = "proxy" THEN "negative" ELSE "missing")
    /\ UNCHANGED <<spaceVars, stored, records, upstreamVars, negative, want, head, got, due, broken>>

\* RedirectOrStreamFile.
Open(r) ==
    /\ rpc[r] = "open"
    /\ Serve(r, stored[want[r]])
    /\ UNCHANGED <<spaceVars, stored, records, upstreamVars, negative, want, head, due, broken>>

\* A remembered 404 answers; a HEAD and an index are not filtered.
LookNegative(r) ==
    /\ rpc[r] = "negative"
    /\ Goto(r, IF want[r] \in negative THEN "missing"
               ELSE IF want[r] = Pool /\ ~head[r] THEN "filter" ELSE "fetch")
    /\ UNCHANGED <<spaceVars, stored, records, upstreamVars, negative, want, head, got, due, broken>>

\* allow: no publish time is to be had, so a chain that asks for one denies.
Filter(r) ==
    /\ rpc[r] = "filter"
    /\ Goto(r, IF Decide(chain, Ref) = "allow" THEN "fetch" ELSE "missing")
    /\ UNCHANGED <<spaceVars, stored, records, upstreamVars, negative, want, head, got, due, broken>>

\* Upstream's 404 is remembered; a HEAD ends here, a GET goes on to the tee.
Fetch(r) ==
    /\ rpc[r] = "fetch"
    /\ \/ /\ want[r] \notin offered
          /\ negative' = negative \cup {want[r]}
          /\ Goto(r, "missing") /\ UNCHANGED got
       \/ want[r] \in offered /\ head[r] /\ Serve(r, None) /\ UNCHANGED negative
       \/ /\ want[r] \in offered /\ ~head[r]
          /\ Goto(r, "tee") /\ got' = [got EXCEPT ![r] = content[want[r]]] /\ UNCHANGED negative
    /\ UNCHANGED <<spaceVars, stored, records, upstreamVars, want, head, due, broken>>

FailsAtOnce(r) ==
    /\ rpc[r] = "fetch"
    /\ Goto(r, IF want[r] = Pool THEN "failed" ELSE "unavailable")
    /\ UNCHANGED <<spaceVars, stored, records, upstreamVars, negative, want, head, got, due, broken>>

\* Upstream fails: an index falls back to its cached copy, a pool file is a 502.
FetchFails(r) ==
    /\ rpc[r] = "fetch"
    /\ Goto(r, IF want[r] = Pool THEN "failed" ELSE "cached")
    /\ UNCHANGED <<spaceVars, stored, records, upstreamVars, negative, want, head, got, due, broken>>

\* AddCache overwrites; AddFile leaves a file that is there as it is.
Filled(x, bytes) == [stored EXCEPT ![x] = IF x \in Indexes \/ @ = None THEN bytes ELSE @]

\* serveIndex and streamAndCache: cut short; whole, and stored or not; parents of a
\* pool file after a clean fill.
Tee(r) ==
    /\ rpc[r] = "tee"
    /\ \/ Goto(r, "failed") /\ got' = [got EXCEPT ![r] = None] /\ UNCHANGED stored
       \/ stored' \in {stored, Filled(want[r], got[r])} /\ Goto(r, "served") /\ UNCHANGED got
       \/ /\ want[r] = Pool /\ stored[Pool] = None
          /\ stored' = Filled(Pool, got[r]) /\ Goto(r, "parents") /\ UNCHANGED got
    /\ UNCHANGED <<spaceVars, records, upstreamVars, negative, want, head, due, broken>>

\* recordParents, best effort.
RecordParents(r) ==
    /\ rpc[r] = "parents"
    /\ records' \in {records, records \cup {"package"}, {"package", "version"}}
    /\ Goto(r, "served")
    /\ UNCHANGED <<spaceVars, stored, upstreamVars, negative, want, head, got, due, broken>>

\* serveCachedIndex: nothing is cached, or a call that asks for it or opens it fails.
ServeCached(r) ==
    /\ rpc[r] = "cached"
    /\ \/ stored[want[r]] # None /\ Serve(r, stored[want[r]]) /\ UNCHANGED broken
       \/ /\ Goto(r, IF mode = "proxy" THEN "unavailable" ELSE "missing") /\ UNCHANGED got
          /\ broken' = [broken EXCEPT ![r] = stored[want[r]] # None]
    /\ UNCHANGED <<spaceVars, stored, records, upstreamVars, negative, want, head, due>>

\* A call to the store for the pool file fails: a 500.
Break(r) ==
    /\ rpc[r] \in {"look", "open"}
    /\ Goto(r, "failed")
    /\ UNCHANGED <<spaceVars, stored, records, upstreamVars, negative, want, head, got, due, broken>>
-----------------------------------------------------------------------------
Get(r) ==
    \/ Begin(r) \/ Look(r) \/ Open(r) \/ LookNegative(r) \/ Filter(r) \/ Fetch(r) \/ FetchFails(r)
    \/ Tee(r) \/ RecordParents(r) \/ ServeCached(r) \/ Break(r)

Next ==
    \/ \E x \in Paths : Offer(x) \/ NegativeExpires(x)
    \/ \E x \in Indexes : Publish(x)
    \/ Restart
    \/ \E r \in Requests : Get(r)

Spec == Init /\ [][Next]_vars
-----------------------------------------------------------------------------
\* What was stored when a download began does not go missing: a pool file is served
\* before negative cache, filters and upstream are asked, and an index "at any age"
\* when upstream fails.  Only upstream's own 404 hides a stored index of a proxied
\* namespace, or a store that could not be asked for it.
StoredIsServed ==
    \A r \in Requests : due[r] /\ ~broken[r] =>
        /\ rpc[r] # "unavailable"
        /\ rpc[r] = "missing" => mode = "proxy" /\ want[r] # Pool

\* A filter that denies the pool file, or one that would have to know how old it is:
\* no filter may let it through before an allow that names it.
Stops(f) == f.kind = "delay" \/ (f.kind = "deny" /\ Matches(f, Ref))
Admitted ==
    \A i \in DOMAIN chain : Stops(chain[i]) =>
        \E j \in 1..(i - 1) : chain[j].kind = "allow" /\ Matches(chain[j], Ref)

\* Filters apply to artifact downloads and fail closed when they need a publish time: a
\* file the chain does not admit never gets into a proxied namespace, nor into what a
\* GET is sent, and its parents are recorded only beside it.
OnlyAdmittedIsStored ==
    mode = "proxy" =>
        /\ stored[Pool] # None => Admitted
        /\ \A r \in Requests : want[r] = Pool /\ got[r] # None => Admitted
        /\ records # {} => stored[Pool] # None
=============================================================================
