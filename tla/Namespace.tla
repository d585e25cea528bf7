----------------------------- MODULE Namespace -----------------------------
(***************************************************************************)
(* One namespace: its .meta object in the bucket, the admin calls that     *)
(* write it (namespace.Store.Put and Delete), and the data-plane processes *)
(* that authorize requests by a cached copy of it (namespace.Registry and  *)
(* its policyCache).                                                       *)
(*                                                                         *)
(* A change of .meta is a version, numbered from 1 in the order the bucket *)
(* applied them; the cache and the requests hold version numbers, so how   *)
(* old the policy is that decided a request can be told.  Time is counted  *)
(* in ticks.                                                               *)
(***************************************************************************)
EXTENDS Integers, Sequences

CONSTANTS
    Processes,  \* data-plane processes, each with its own Registry
    Hooked,     \* those whose Registry hooks the catalog the admin API uses
    Requests,   \* data-plane requests on the namespace
    Admins,     \* admin calls on the namespace
    Subjects,   \* the identities requests come with
    Specs,      \* the policies admins put: sets of <<subject, op>> grants
    Absent,     \* the namespace has no .meta
    None,       \* no cache entry
    TTL,        \* defaultPolicyCacheTTL
    Latency,    \* the longest a catalog load takes from its read to its store
    MaxTime,    \* bound on the clock, for TLC
    MaxVersion  \* bound on the changes of .meta, for TLC

Ops == {"read", "write"}

ASSUME HookedAssumption == Hooked \subseteq Processes
ASSUME SpecsAssumption == Specs \subseteq SUBSET (Subjects \X Ops) /\ Absent \notin Specs
ASSUME TimeAssumption == TTL \in Nat \ {0} /\ Latency \in Nat /\ MaxTime \in Nat
ASSUME VersionAssumption == MaxVersion \in Nat \ {0}
ASSUME NoneAssumption == None \notin [ver : Nat, expires : Nat]

VARIABLES
    log,        \* every version of .meta, the last one in the bucket
    holds,      \* whether the namespace holds package data
    now,        \* the clock
    apc,        \* where each admin call is
    wrote,      \* the version each admin call wrote
    entry,      \* each process's cached entry
    rpc,        \* where each request is in policyCache.get
    proc,       \* the process that serves each request
    ver,        \* the version it has loaded, or was decided by
    at,         \* when it read that version, or was decided
    announced,  \* history: the version whose change hook last ran in each process
    quiet       \* history: no load was between its read and its answer at that time

adminVars == <<apc, wrote>>
requestVars == <<rpc, proc, ver, at>>
hookVars == <<announced, quiet>>
vars == <<log, holds, now, apc, wrote, entry, rpc, proc, ver, at, announced, quiet>>

Leading == {"check", "load", "store", "deliver"}
Versions == 1..Len(log)

TypeOK ==
    /\ log \in Seq([spec : Specs \cup {Absent}, time : Nat]) /\ log # <<>>
    /\ holds \in BOOLEAN
    /\ now \in Nat
    /\ apc \in [Admins -> {"idle", "list", "remove", "notify"}]
    /\ wrote \in [Admins -> Versions]
    /\ entry \in [Processes -> [ver : Versions, expires : Nat] \cup {None}]
    /\ rpc \in [Requests -> {"idle", "look", "missed", "wait", "decided"} \cup Leading]
    /\ proc \in [Requests -> Processes]
    /\ ver \in [Requests -> Versions]
    /\ at \in [Requests -> Nat]
    /\ announced \in [Processes -> Versions]
    /\ quiet \in [Processes -> BOOLEAN]

Init ==
    /\ \E s \in Specs \cup {Absent} : log = <<[spec |-> s, time |-> 0]>>
    /\ holds = FALSE
    /\ now = 0
    /\ apc = [a \in Admins |-> "idle"]
    /\ wrote = [a \in Admins |-> 1]
    /\ entry = [p \in Processes |-> None]
    /\ rpc = [r \in Requests |-> "idle"]
    /\ proc \in [Requests -> Processes]
    /\ ver = [r \in Requests |-> 1]
    /\ at = [r \in Requests |-> 0]
    /\ announced = [p \in Processes |-> 1]
    /\ quiet = [p \in Processes |-> TRUE]

\* What the bucket holds under the namespace's .meta key.
Meta == log[Len(log)].spec
-----------------------------------------------------------------------------
(* The admin plane.                                                         *)

\* The bucket applies a change made by a.  When its answer is lost the call
\* fails, and notify is never reached.
Change(a, s) ==
    /\ Len(log) < MaxVersion
    /\ log' = Append(log, [spec |-> s, time |-> now])
    /\ \/ /\ apc' = [apc EXCEPT ![a] = "notify"]
          /\ wrote' = [wrote EXCEPT ![a] = Len(log) + 1]
       \/ /\ apc' = [apc EXCEPT ![a] = "idle"]
          /\ UNCHANGED wrote

\* Put: one unconditional write of the validated spec.
Put(a) ==
    /\ apc[a] = "idle"
    /\ \E s \in Specs : Change(a, s)
    /\ UNCHANGED <<holds, now, entry, requestVars, hookVars>>

\* Delete starts with a load, and ends there for a missing namespace.
Delete(a) ==
    /\ apc[a] = "idle"
    /\ Meta # Absent
    /\ apc' = [apc EXCEPT ![a] = "list"]
    /\ UNCHANGED <<log, holds, now, wrote, entry, requestVars, hookVars>>

\* isEmpty: a namespace that holds package data is not deleted.
List(a) ==
    /\ apc[a] = "list"
    /\ apc' = [apc EXCEPT ![a] = IF holds THEN "idle" ELSE "remove"]
    /\ UNCHANGED <<log, holds, now, wrote, entry, requestVars, hookVars>>

\* The .meta object is removed, unless another Delete was faster.
Remove(a) ==
    /\ apc[a] = "remove"
    /\ IF Meta = Absent
       THEN apc' = [apc EXCEPT ![a] = "idle"] /\ UNCHANGED <<log, wrote>>
       ELSE Change(a, Absent)
    /\ UNCHANGED <<holds, now, entry, requestVars, hookVars>>

\* A bucket call of Delete fails.
DeleteFails(a) ==
    /\ apc[a] \in {"list", "remove"}
    /\ apc' = [apc EXCEPT ![a] = "idle"]
    /\ UNCHANGED <<log, holds, now, wrote, entry, requestVars, hookVars>>

\* A load of p has read .meta and not yet answered its requests.
PastRead(p) == \E r \in Requests : proc[r] = p /\ rpc[r] \in {"store", "deliver"}

NotifyNobody(a) ==
    /\ apc[a] = "notify"
    /\ apc' = [apc EXCEPT ![a] = "idle"]
    /\ wrote' = [wrote EXCEPT ![a] = 1]
    /\ announced' = [p \in Processes |-> IF p \in Hooked THEN wrote[a] ELSE announced[p]]
    /\ quiet' = [p \in Processes |-> IF p \in Hooked THEN ~PastRead(p) ELSE quiet[p]]
    /\ UNCHANGED <<log, holds, now, entry, requestVars>>

\* notify runs the change hooks: policyCache.invalidate in the hooked processes.
Notify(a) ==
    /\ apc[a] = "notify"
    /\ apc' = [apc EXCEPT ![a] = "idle"]
    /\ wrote' = [wrote EXCEPT ![a] = 1]
    /\ entry' = [p \in Processes |-> IF p \in Hooked THEN None ELSE entry[p]]
    /\ announced' = [p \in Processes |-> IF p \in Hooked THEN wrote[a] ELSE announced[p]]
    /\ quiet' = [p \in Processes |-> IF p \in Hooked THEN ~PastRead(p) ELSE quiet[p]]
    /\ UNCHANGED <<log, holds, now, requestVars>>
-----------------------------------------------------------------------------
(* The data plane: Registry.AuthorizedStore and policyCache.get.            *)

FreshForever(p) == entry[p] # None

\* fresh: the cached entry is there and has not expired.
Fresh(p) == entry[p] # None /\ now < entry[p].expires

Begin(r) ==
    /\ rpc[r] = "idle"
    /\ rpc' = [rpc EXCEPT ![r] = "look"]
    /\ \E p \in Processes : proc' = [proc EXCEPT ![r] = p]
    /\ UNCHANGED <<log, holds, now, adminVars, entry, ver, at, hookVars>>

Hit(r) ==
    /\ rpc[r] = "look"
    /\ Fresh(proc[r])
    /\ rpc' = [rpc EXCEPT ![r] = "decided"]
    /\ ver' = [ver EXCEPT ![r] = entry[proc[r]].ver]
    /\ at' = [at EXCEPT ![r] = now]
    /\ UNCHANGED <<log, holds, now, adminVars, entry, proc, hookVars>>

Miss(r) ==
    /\ rpc[r] = "look"
    /\ ~Fresh(proc[r])
    /\ rpc' = [rpc EXCEPT ![r] = "missed"]
    /\ UNCHANGED <<log, holds, now, adminVars, entry, proc, ver, at, hookVars>>

FlightsUnshared(p) == FALSE

\* A call for the namespace is in singleflight's map.
InFlight(p) == \E r \in Requests : proc[r] = p /\ rpc[r] \in Leading

\* singleflight.Do, after the cache was looked at: with no flight under way this request
\* leads one,
Lead(r) ==
    /\ rpc[r] = "missed"
    /\ ~InFlight(proc[r])
    /\ rpc' = [rpc EXCEPT ![r] = "check"]
    /\ UNCHANGED <<log, holds, now, adminVars, entry, proc, ver, at, hookVars>>

\* and else it waits for the result of the one there is.
Join(r) ==
    /\ rpc[r] = "missed"
    /\ InFlight(proc[r])
    /\ rpc' = [rpc EXCEPT ![r] = "wait"]
    /\ UNCHANGED <<log, holds, now, adminVars, entry, proc, ver, at, hookVars>>

\* The leader looks again: an earlier flight may have filled the cache since it missed.
Check(r) ==
    /\ rpc[r] = "check"
    /\ IF Fresh(proc[r])
       THEN /\ rpc' = [rpc EXCEPT ![r] = "deliver"]
            /\ ver' = [ver EXCEPT ![r] = entry[proc[r]].ver]
       ELSE /\ rpc' = [rpc EXCEPT ![r] = "load"]
            /\ UNCHANGED ver
    /\ UNCHANGED <<log, holds, now, adminVars, entry, proc, at, hookVars>>

\* The catalog read of load takes effect in the bucket.
Load(r) ==
    /\ rpc[r] = "load"
    /\ rpc' = [rpc EXCEPT ![r] = "store"]
    /\ ver' = [ver EXCEPT ![r] = Len(log)]
    /\ at' = [at EXCEPT ![r] = now]
    /\ UNCHANGED <<log, holds, now, adminVars, entry, proc, hookVars>>

\* The answer has arrived and compiled: the entry lives for a TTL from here.
Store(r) ==
    /\ rpc[r] = "store"
    /\ entry' = [entry EXCEPT ![proc[r]] = [ver |-> ver[r], expires |-> now + TTL]]
    /\ rpc' = [rpc EXCEPT ![r] = "deliver"]
    /\ UNCHANGED <<log, holds, now, adminVars, proc, ver, at, hookVars>>

\* The requests a flight of p answers: its leader and all that joined it.
Party(r) == {q \in Requests : q = r \/ (proc[q] = proc[r] /\ rpc[q] = "wait")}

\* The flight leaves the map and its result goes to everyone who waits for it.
Deliver(r) ==
    /\ rpc[r] = "deliver"
    /\ rpc' = [q \in Requests |-> IF q \in Party(r) THEN "decided" ELSE rpc[q]]
    /\ ver' = [q \in Requests |-> IF q \in Party(r) THEN ver[r] ELSE ver[q]]
    /\ at' = [q \in Requests |-> IF q \in Party(r) THEN now ELSE at[q]]
    /\ UNCHANGED <<log, holds, now, adminVars, entry, proc, hookVars>>

\* Requests that are over.
Gone(rs) ==
    /\ rpc' = [q \in Requests |-> IF q \in rs THEN "idle" ELSE rpc[q]]
    /\ ver' = [q \in Requests |-> IF q \in rs THEN 1 ELSE ver[q]]
    /\ at' = [q \in Requests |-> IF q \in rs THEN 0 ELSE at[q]]
    /\ UNCHANGED proc

\* The load fails, for everyone: the catalog cannot be read, the policy does not
\* compile, or the leader's client went away.  Nothing is cached.
LoadFails(r) ==
    /\ rpc[r] \in {"load", "store"}
    /\ Gone(Party(r))
    /\ UNCHANGED <<log, holds, now, adminVars, entry, hookVars>>

Permits(v, s, op) == log[v].spec # Absent /\ <<s, op>> \in log[v].spec

\* A request of subject s leaves package data: an upload under the write grant,
\* or a proxy fill, for which AuthorizedProxyStore asks for the read grant only.
Leaves(r, s) == \E op \in Ops : Permits(ver[r], s, op)

\* The request runs under the policy it was decided by, whatever has become of
\* the namespace since; one that is refused, or only reads, changes nothing.
Act(r) ==
    /\ rpc[r] = "decided"
    /\ \/ UNCHANGED holds
       \/ (\E s \in Subjects : Leaves(r, s)) /\ holds' = TRUE
    /\ Gone({r})
    /\ UNCHANGED <<log, now, adminVars, entry, hookVars>>

\* A data-plane process restarts: its cache and its requests are gone.
Restart(p) ==
    /\ entry' = [entry EXCEPT ![p] = None]
    /\ Gone({r \in Requests : proc[r] = p})
    /\ UNCHANGED <<log, holds, now, adminVars, hookVars>>

\* Time passes.  A load is not slower than Latency; singleflight hands a result
\* over without waiting for anything.
Tick ==
    /\ now < MaxTime
    /\ \A r \in Requests : /\ rpc[r] = "store" => now < at[r] + Latency
                           /\ rpc[r] # "deliver"
    /\ now' = now + 1
    /\ UNCHANGED <<log, holds, adminVars, entry, requestVars, hookVars>>
-----------------------------------------------------------------------------
Administer(a) == Put(a) \/ Delete(a) \/ List(a) \/ Remove(a) \/ DeleteFails(a) \/ Notify(a)

Serve(r) ==
    \/ Begin(r) \/ Hit(r) \/ Miss(r) \/ Lead(r) \/ Join(r) \/ Check(r) \/ Load(r)
    \/ Store(r) \/ Deliver(r) \/ LoadFails(r) \/ Act(r)

Next ==
    \/ \E a \in Admins : Administer(a)
    \/ \E r \in Requests : Serve(r)
    \/ \E p \in Processes : Restart(p)
    \/ Tick

Spec == Init /\ [][Next]_vars
-----------------------------------------------------------------------------
\* Version v was in the bucket at time t or later.
CurrentSince(v, t) == v = Len(log) \/ log[v + 1].time >= t

Decided(r) == rpc[r] = "decided"

\* The policy that policyCache.get decides a request by was in the bucket within
\* the last TTL and load: across processes, negative entries, shared loads, lost
\* admin answers and restarts.
BoundedStaleness ==
    \A r \in Requests : Decided(r) => CurrentSince(ver[r], at[r] - TTL - Latency)

\* A process never goes back to an older policy: what singleflight and the order
\* of load and store in policyCache.get have decided one request by is a lower
\* bound for every decision after it.
NeverRegresses ==
    [][\A q, r \in Requests :
         (Decided(q) /\ ~Decided(r) /\ Decided(r)' /\ proc[q] = proc[r]) => ver[q] <= ver'[r]]_vars

\* The change hook of Put and Delete, when no load was past its read as it ran,
\* leaves a process nothing older than the change it announced.
QuietHookInvalidates ==
    \A p \in Hooked : quiet[p] /\ entry[p] # None => entry[p].ver >= announced[p]
=============================================================================
