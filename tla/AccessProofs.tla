---------------------------- MODULE AccessProofs ----------------------------
(* Proofs about who gets to a namespace.  About Namespace, for any number of *)
(* processes, requests and admin calls, any policies, any TTL and any bound  *)
(* on the latency of a load; about Serving, for any chain of issuers, tokens *)
(* and policy, any number of connections, any cache of the readiness probe.  *)
EXTENDS Namespace, Serving, WellFoundedInduction, TLAPS

Stamped == [spec : Specs \cup {Absent}, time : Nat]
Entries(vs) == [ver : vs, expires : Nat] \cup {None}

\* A change appends one version and leaves those before it as they are.
LEMMA ChangeAppends ==
    ASSUME TypeOK, NEW a \in Admins, NEW s \in Specs \cup {Absent}, Change(a, s)
    PROVE  /\ log' \in Seq(Stamped) /\ log' # <<>>
           /\ Len(log') = Len(log) + 1
           /\ \A i \in Versions : log'[i] = log[i]
           /\ log'[Len(log) + 1] = [spec |-> s, time |-> now]
           /\ apc' \in [Admins -> {"idle", "list", "remove", "notify"}]
           /\ wrote' \in [Admins -> 1..Len(log')]
<1> USE DEF TypeOK, Versions, Stamped
<1>1. [spec |-> s, time |-> now] \in Stamped
  OBVIOUS
<1>2. /\ log' \in Seq(Stamped) /\ log' # <<>> /\ Len(log') = Len(log) + 1
      /\ \A i \in Versions : log'[i] = log[i]
      /\ log'[Len(log) + 1] = [spec |-> s, time |-> now]
  BY <1>1 DEF Change
<1>3. apc' \in [Admins -> {"idle", "list", "remove", "notify"}]
  BY DEF Change
<1>4. wrote' \in [Admins -> 1..Len(log')]
  BY <1>2 DEF Change
<1> QED
  BY <1>2, <1>3, <1>4

\* What names a version still does when there are more of them.
LEMMA MoreVersions ==
    ASSUME TypeOK, Len(log') >= Len(log), log' \in Seq(Stamped),
           UNCHANGED <<entry, requestVars, hookVars>>
    PROVE  /\ entry' \in [Processes -> Entries(Versions')]
           /\ rpc' \in [Requests -> {"idle", "look", "missed", "wait", "decided"} \cup Leading]
           /\ proc' \in [Requests -> Processes]
           /\ ver' \in [Requests -> Versions'] /\ at' \in [Requests -> Nat]
           /\ announced' \in [Processes -> Versions'] /\ quiet' \in [Processes -> BOOLEAN]
<1>1. Versions \subseteq Versions'
  BY DEF TypeOK, Versions, Stamped
<1>2. entry' \in [Processes -> Entries(Versions')]
  <2>1. entry \in [Processes -> Entries(Versions)]
    BY DEF TypeOK, Entries
  <2>2. Entries(Versions) \subseteq Entries(Versions')
    BY <1>1 DEF Entries
  <2> QED
    BY <2>1, <2>2
<1> QED
  BY <1>1, <1>2 DEF TypeOK, requestVars, hookVars

\* A change of .meta keeps every variable in its type.
LEMMA ChangeTyped ==
    ASSUME TypeOK, NEW a \in Admins, NEW s \in Specs \cup {Absent}, Change(a, s),
           UNCHANGED <<holds, now, entry, requestVars, hookVars>>
    PROVE  TypeOK'
<1>1. /\ log' \in Seq(Stamped) /\ log' # <<>> /\ Len(log') = Len(log) + 1
      /\ apc' \in [Admins -> {"idle", "list", "remove", "notify"}]
      /\ wrote' \in [Admins -> 1..Len(log')]
  BY ChangeAppends
<1>2. Len(log') >= Len(log)
  BY <1>1 DEF TypeOK
<1>3. /\ entry' \in [Processes -> Entries(Versions')]
      /\ rpc' \in [Requests -> {"idle", "look", "missed", "wait", "decided"} \cup Leading]
      /\ proc' \in [Requests -> Processes]
      /\ ver' \in [Requests -> Versions'] /\ at' \in [Requests -> Nat]
      /\ announced' \in [Processes -> Versions'] /\ quiet' \in [Processes -> BOOLEAN]
  BY <1>1, <1>2, MoreVersions
<1> QED
  BY <1>1, <1>3 DEF TypeOK, Versions, Stamped, Entries

\* Requests that end keep the types of what is kept about requests.
LEMMA GoneTyped ==
    ASSUME TypeOK, NEW rs, Gone(rs)
    PROVE  /\ rpc' \in [Requests -> {"idle", "look", "missed", "wait", "decided"} \cup Leading]
           /\ proc' \in [Requests -> Processes]
           /\ ver' \in [Requests -> Versions] /\ at' \in [Requests -> Nat]
<1>1. 1 \in Versions
  BY DEF TypeOK, Versions
<1>2. rpc' \in [Requests -> {"idle", "look", "missed", "wait", "decided"} \cup Leading]
  BY DEF Gone, TypeOK
<1>3. ver' \in [Requests -> Versions]
  BY <1>1 DEF Gone, TypeOK
<1>4. at' \in [Requests -> Nat]
  BY DEF Gone, TypeOK
<1> QED
  BY <1>2, <1>3, <1>4 DEF Gone, TypeOK

\* The variables hold what the catalog, the policy cache and its callers can
\* hold: versions are those the bucket has applied, entries name one of them.
THEOREM TypeCorrect == Spec => []TypeOK
<1>1. Init => TypeOK
  <2> SUFFICES ASSUME Init PROVE TypeOK
    OBVIOUS
  <2>1. log \in Seq(Stamped) /\ Len(log) = 1 /\ log # <<>>
    <3>1. PICK s \in Specs \cup {Absent} : log = <<[spec |-> s, time |-> 0]>>
      BY DEF Init
    <3>2. [spec |-> s, time |-> 0] \in Stamped
      BY DEF Stamped
    <3> QED
      BY <3>1, <3>2
  <2>2. 1 \in Versions
    BY <2>1 DEF Versions
  <2> QED
    BY <2>1, <2>2 DEF Init, TypeOK, Stamped
<1>2. TypeOK /\ [Next]_vars => TypeOK'
  <2> SUFFICES ASSUME TypeOK, [Next]_vars PROVE TypeOK'
    OBVIOUS
  <2> USE DEF TypeOK, Versions
  <2>1. ASSUME NEW a \in Admins, Put(a) PROVE TypeOK'
    <3> HIDE DEF TypeOK
    <3> QED
      BY <2>1, ChangeTyped DEF Put
  <2>2. ASSUME NEW a \in Admins, Delete(a) PROVE TypeOK'
    BY <2>2 DEF Delete, requestVars, hookVars
  <2>3. ASSUME NEW a \in Admins, List(a) PROVE TypeOK'
    BY <2>3 DEF List, requestVars, hookVars
  <2>4. ASSUME NEW a \in Admins, Remove(a) PROVE TypeOK'
    <3>1. CASE Change(a, Absent)
      <4> HIDE DEF TypeOK
      <4> QED
        BY <2>4, <3>1, ChangeTyped DEF Remove
    <3>2. CASE UNCHANGED <<log, wrote>>
      BY <2>4, <3>2 DEF Remove, Change, requestVars, hookVars
    <3> QED
      BY <2>4, <3>1, <3>2 DEF Remove
  <2>5. ASSUME NEW a \in Admins, DeleteFails(a) PROVE TypeOK'
    BY <2>5 DEF DeleteFails, requestVars, hookVars
  <2>6. ASSUME NEW a \in Admins, Notify(a) PROVE TypeOK'
    <3>1. 1 \in Versions
      OBVIOUS
    <3>2. /\ wrote' \in [Admins -> Versions] /\ announced' \in [Processes -> Versions]
          /\ quiet' \in [Processes -> BOOLEAN]
      BY <2>6, <3>1 DEF Notify
    <3>3. entry' \in [Processes -> Entries(Versions)]
      BY <2>6 DEF Notify, Entries
    <3> QED
      BY <2>6, <3>2, <3>3 DEF Notify, requestVars, Entries
  <2>7. ASSUME NEW r \in Requests, Serve(r) PROVE TypeOK'
    <3>1. CASE Begin(r) BY <3>1 DEF Begin, adminVars, hookVars
    <3>2. CASE Hit(r) BY <3>2 DEF Hit, Fresh, adminVars, hookVars
    <3>3. CASE Lead(r) BY <3>3 DEF Lead, Leading, adminVars, hookVars
    <3>4. CASE Miss(r) \/ Join(r) BY <3>4 DEF Miss, Join, adminVars, hookVars
    <3>5. CASE Check(r) BY <3>5 DEF Check, Fresh, Leading, adminVars, hookVars
    <3>6. CASE Load(r) BY <3>6 DEF Load, Leading, adminVars, hookVars
    <3>7. CASE Store(r)
      <4>1. [ver |-> ver[r], expires |-> now + TTL] \in Entries(Versions)
        BY TimeAssumption DEF Entries
      <4>2. entry' \in [Processes -> Entries(Versions)]
        BY <3>7, <4>1 DEF Store, Entries
      <4> QED
        BY <3>7, <4>2 DEF Store, Leading, Entries, adminVars, hookVars
    <3>8. CASE Deliver(r)
      <4>1. ver[r] \in Versions
        OBVIOUS
      <4>2. rpc' \in [Requests -> {"idle", "look", "missed", "wait", "decided"} \cup Leading]
        BY <3>8 DEF Deliver
      <4>3. ver' \in [Requests -> Versions]
        BY <3>8, <4>1 DEF Deliver
      <4>4. at' \in [Requests -> Nat]
        BY <3>8 DEF Deliver
      <4> QED
        BY <3>8, <4>2, <4>3, <4>4 DEF Deliver, adminVars, hookVars
    <3>9. CASE LoadFails(r)
      <4> HIDE DEF TypeOK
      <4> QED BY <3>9, GoneTyped DEF LoadFails, TypeOK, adminVars, hookVars
    <3>10. CASE Act(r)
      <4> HIDE DEF TypeOK
      <4> QED BY <3>10, GoneTyped DEF Act, TypeOK, adminVars, hookVars
    <3> QED
      BY <2>7, <3>1, <3>2, <3>3, <3>4, <3>5, <3>6, <3>7, <3>8, <3>9, <3>10 DEF Serve
  <2>8. ASSUME NEW p \in Processes, Restart(p) PROVE TypeOK'
    <3>1. entry' \in [Processes -> Entries(Versions)]
      BY <2>8 DEF Restart, Entries
    <3> HIDE DEF TypeOK
    <3> QED
      BY <2>8, <3>1, GoneTyped DEF Restart, TypeOK, Entries, adminVars, hookVars
  <2>9. CASE Tick
    BY <2>9 DEF Tick, adminVars, requestVars, hookVars
  <2>10. CASE UNCHANGED vars
    BY <2>10 DEF vars
  <2> QED
    BY <2>1, <2>2, <2>3, <2>4, <2>5, <2>6, <2>7, <2>8, <2>9, <2>10 DEF Next, Administer
<1> QED
  BY <1>1, <1>2, PTL DEF Spec
-----------------------------------------------------------------------------
(***************************************************************************)
(* Staleness.  An entry was filled from a read at most Latency before it   *)
(* was stored, that is at most TTL + Latency before it expires; what a     *)
(* flight delivers is either a read of its own, at most Latency old, or    *)
(* such an entry.                                                          *)
(***************************************************************************)
EntryInTime(p) ==
    entry[p] # None => /\ entry[p].expires <= now + TTL
                       /\ CurrentSince(entry[p].ver, entry[p].expires - TTL - Latency)

FlightInTime(r) ==
    /\ rpc[r] = "store" => /\ at[r] <= now /\ now <= at[r] + Latency
                           /\ CurrentSince(ver[r], at[r])
    /\ rpc[r] = "deliver" => CurrentSince(ver[r], now - TTL - Latency)
    /\ Decided(r) => /\ at[r] <= now
                     /\ CurrentSince(ver[r], at[r] - TTL - Latency)

InTime == (\A p \in Processes : EntryInTime(p)) /\ (\A r \in Requests : FlightInTime(r))

\* A version that is current now was current at any earlier time, and one that
\* was current at a time up to now still was after a change.
LEMMA ChangeKeepsCurrent ==
    ASSUME TypeOK, NEW a \in Admins, NEW s \in Specs \cup {Absent}, Change(a, s),
           NEW v \in Versions, NEW t \in Int, t <= now, CurrentSince(v, t)
    PROVE  v = Len(log') \/ log'[v + 1].time >= t
<1>1. /\ Len(log') = Len(log) + 1
      /\ \A i \in Versions : log'[i] = log[i]
      /\ log'[Len(log) + 1] = [spec |-> s, time |-> now]
  BY ChangeAppends
<1>2. CASE v = Len(log)
  BY <1>1, <1>2 DEF CurrentSince
<1>3. CASE v # Len(log)
  <2>1. v + 1 \in Versions
    BY <1>3 DEF TypeOK, Versions
  <2> QED
    BY <1>1, <1>3, <2>1 DEF CurrentSince
<1> QED
  BY <1>2, <1>3

\* A change leaves every entry and every decision as old as it was.
LEMMA ChangeInTime ==
    ASSUME TypeOK, InTime, NEW a \in Admins, NEW s \in Specs \cup {Absent}, Change(a, s),
           UNCHANGED <<now, entry, requestVars>>
    PROVE  InTime'
<1> USE TimeAssumption
<1>1. ASSUME NEW p \in Processes PROVE EntryInTime(p)'
  <2> SUFFICES ASSUME entry[p] # None PROVE EntryInTime(p)'
    BY DEF EntryInTime
  <2>1. entry[p].ver \in Versions /\ entry[p].expires \in Nat /\ now \in Nat
    BY DEF TypeOK
  <2>2. entry[p].expires - TTL - Latency \in Int /\ entry[p].expires - TTL - Latency <= now
    BY <2>1 DEF InTime, EntryInTime
  <2>3. CurrentSince(entry[p].ver, entry[p].expires - TTL - Latency)
    BY DEF InTime, EntryInTime
  <2>4. \/ entry[p].ver = Len(log')
        \/ log'[entry[p].ver + 1].time >= entry[p].expires - TTL - Latency
    BY <2>1, <2>2, <2>3, ChangeKeepsCurrent
  <2> QED
    BY <2>4 DEF InTime, EntryInTime, CurrentSince
<1>2. ASSUME NEW r \in Requests PROVE FlightInTime(r)'
  <2>1. ver[r] \in Versions /\ at[r] \in Nat /\ now \in Nat
    BY DEF TypeOK
  <2>2. ASSUME NEW t \in Int, t <= now, CurrentSince(ver[r], t)
        PROVE  ver[r] = Len(log') \/ log'[ver[r] + 1].time >= t
    BY <2>1, <2>2, ChangeKeepsCurrent
  <2>3. FlightInTime(r)
    BY DEF InTime
  <2>4. rpc[r] = "store" => CurrentSince(ver[r], at[r])'
    BY <2>1, <2>2, <2>3 DEF FlightInTime, requestVars, CurrentSince, Decided
  <2>5. rpc[r] = "deliver" => CurrentSince(ver[r], now - TTL - Latency)'
    BY <2>1, <2>2, <2>3 DEF FlightInTime, requestVars, CurrentSince, Decided
  <2>6. Decided(r) => CurrentSince(ver[r], at[r] - TTL - Latency)'
    BY <2>1, <2>2, <2>3 DEF FlightInTime, requestVars, CurrentSince, Decided
  <2> QED
    BY <2>3, <2>4, <2>5, <2>6 DEF FlightInTime, requestVars, CurrentSince, Decided
<1> QED
  BY <1>1, <1>2 DEF InTime

\* What was current at a time was current at every earlier one, and what is in
\* the bucket now is current at every time.
LEMMA CurrentEarlier ==
    ASSUME TypeOK, NEW v \in Versions, NEW t \in Int, NEW u \in Int, u <= t, CurrentSince(v, t)
    PROVE  CurrentSince(v, u)
<1>1. CASE v = Len(log)
  BY <1>1 DEF CurrentSince
<1>2. CASE v # Len(log)
  <2>1. v + 1 \in Versions
    BY <1>2 DEF TypeOK, Versions
  <2>2. log[v + 1].time \in Nat
    <3>1. log \in Seq(Stamped)
      BY DEF TypeOK, Stamped
    <3>2. log[v + 1] \in Stamped
      BY <2>1, <3>1 DEF Versions
    <3> QED
      BY <3>2 DEF Stamped
  <2> QED
    BY <1>2, <2>2 DEF CurrentSince
<1> QED
  BY <1>1, <1>2

\* Each step of a data-plane request keeps entries and decisions in time.
LEMMA ServeInTime ==
    ASSUME TypeOK, InTime, NEW r \in Requests, Serve(r)
    PROVE  InTime'
<1> USE TimeAssumption
<1>0. /\ now' = now /\ log' = log /\ now \in Nat
      /\ \A v, t : CurrentSince(v, t)' <=> CurrentSince(v, t)
  <2>1. now' = now /\ log' = log
    BY DEF Serve, Begin, Hit, Miss, Lead, Join, Check, Load, Store, Deliver, LoadFails, Act
  <2> QED
    BY <2>1 DEF TypeOK, CurrentSince
<1>1. \A q \in Requests : ver[q] \in Versions /\ at[q] \in Nat /\ FlightInTime(q)
  BY DEF TypeOK, InTime
<1>2. \A p \in Processes : entry[p] # None => entry[p].ver \in Versions /\ entry[p].expires \in Nat
  BY DEF TypeOK
<1>3. proc[r] \in Processes
  BY DEF TypeOK
<1>4. ASSUME entry' = entry, \A q \in Requests : FlightInTime(q)' PROVE InTime'
  BY <1>0, <1>4 DEF InTime, EntryInTime, CurrentSince
<1>5. ASSUME NEW q \in Requests, UNCHANGED <<rpc[q], ver[q], at[q]>> PROVE FlightInTime(q)'
  BY <1>0, <1>1, <1>5 DEF FlightInTime, Decided, CurrentSince
<1>6. ASSUME NEW q \in Requests, rpc'[q] \notin {"store", "deliver", "decided"} PROVE FlightInTime(q)'
  BY <1>6 DEF FlightInTime, Decided
<1>7. ASSUME Fresh(proc[r])
      PROVE  /\ CurrentSince(entry[proc[r]].ver, now - TTL - Latency)
             /\ entry[proc[r]].ver \in Versions
  <2>1. /\ now < entry[proc[r]].expires
        /\ CurrentSince(entry[proc[r]].ver, entry[proc[r]].expires - TTL - Latency)
        /\ entry[proc[r]].ver \in Versions /\ entry[proc[r]].expires \in Nat
    BY <1>2, <1>3, <1>7 DEF Fresh, InTime, EntryInTime
  <2>2. /\ entry[proc[r]].expires - TTL - Latency \in Int /\ now - TTL - Latency \in Int
        /\ now - TTL - Latency <= entry[proc[r]].expires - TTL - Latency
    BY <1>0, <2>1
  <2> QED
    BY <2>1, <2>2, CurrentEarlier
<1>8. CASE Begin(r)
  BY <1>4, <1>5, <1>6, <1>8 DEF Begin, TypeOK
<1>9. CASE Hit(r)
  <2>1. FlightInTime(r)'
    BY <1>0, <1>7, <1>9 DEF Hit, FlightInTime, Decided, TypeOK, CurrentSince
  <2> QED
    BY <1>4, <1>5, <1>9, <2>1 DEF Hit, TypeOK
<1>10. CASE Miss(r) \/ Lead(r)
  BY <1>4, <1>5, <1>6, <1>10 DEF Miss, Lead, TypeOK
<1>11. CASE Join(r)
  BY <1>4, <1>5, <1>6, <1>11 DEF Join, TypeOK
<1>12. CASE Check(r)
  <2>1. FlightInTime(r)'
    <3>1. CASE Fresh(proc[r])
      BY <1>0, <1>7, <1>12, <3>1 DEF Check, FlightInTime, Decided, TypeOK, CurrentSince
    <3>2. CASE ~Fresh(proc[r])
      BY <1>6, <1>12, <3>2 DEF Check, TypeOK
    <3> QED
      BY <3>1, <3>2
  <2> QED
    BY <1>4, <1>5, <1>12, <2>1 DEF Check, TypeOK
<1>13. CASE Load(r)
  <2>1. FlightInTime(r)'
    BY <1>0, <1>13 DEF Load, FlightInTime, Decided, TypeOK, CurrentSince
  <2> QED
    BY <1>4, <1>5, <1>13, <2>1 DEF Load, TypeOK
<1>14. CASE Store(r)
  <2>1. /\ CurrentSince(ver[r], at[r]) /\ now - Latency <= at[r] /\ ver[r] \in Versions
        /\ at[r] \in Nat
    BY <1>0, <1>1, <1>14 DEF Store, FlightInTime
  <2>2. CurrentSince(ver[r], now - Latency) /\ CurrentSince(ver[r], now - TTL - Latency)
    <3>1. /\ now - Latency \in Int /\ now - TTL - Latency \in Int /\ at[r] \in Int
          /\ now - TTL - Latency <= at[r]
      BY <1>0, <2>1
    <3> QED
      BY <2>1, <3>1, CurrentEarlier
  <2>3. FlightInTime(r)'
    BY <1>0, <1>14, <2>2 DEF Store, FlightInTime, Decided, TypeOK, CurrentSince
  <2>4. ASSUME NEW p \in Processes PROVE EntryInTime(p)'
    <3>1. CASE p = proc[r]
      <4>1. entry'[p].ver = ver[r] /\ entry'[p].expires = now + TTL
        BY <1>14, <3>1 DEF Store, TypeOK
      <4>2. entry'[p].expires - TTL - Latency = now - Latency
        BY <1>0, <4>1
      <4> QED
        BY <1>0, <2>2, <4>1, <4>2 DEF EntryInTime, CurrentSince
    <3>2. CASE p # proc[r]
      BY <1>0, <1>14, <3>2 DEF Store, InTime, EntryInTime, TypeOK, CurrentSince
    <3> QED
      BY <3>1, <3>2
  <2>5. \A q \in Requests : FlightInTime(q)'
    BY <1>5, <1>14, <2>3 DEF Store, TypeOK
  <2> QED
    BY <2>4, <2>5 DEF InTime
<1>15. CASE Deliver(r)
  <2>1. CurrentSince(ver[r], now - TTL - Latency)
    BY <1>1, <1>15 DEF Deliver, FlightInTime
  <2>2. ASSUME NEW q \in Party(r), q \in Requests PROVE FlightInTime(q)'
    BY <1>0, <1>15, <2>1, <2>2 DEF Deliver, FlightInTime, Decided, CurrentSince
  <2>3. ASSUME NEW q \in Requests, q \notin Party(r) PROVE FlightInTime(q)'
    BY <1>5, <1>15, <2>3 DEF Deliver
  <2> QED
    BY <1>4, <1>15, <2>2, <2>3 DEF Deliver
<1>16. ASSUME NEW rs, Gone(rs), entry' = entry PROVE InTime'
  <2>1. ASSUME NEW q \in Requests PROVE FlightInTime(q)'
    <3>1. CASE q \in rs
      BY <1>6, <1>16, <3>1 DEF Gone
    <3>2. CASE q \notin rs
      BY <1>5, <1>16, <3>2 DEF Gone
    <3> QED
      BY <3>1, <3>2
  <2> QED
    BY <1>4, <1>16, <2>1
<1>17. CASE LoadFails(r)
  BY <1>16, <1>17 DEF LoadFails
<1>18. CASE Act(r)
  BY <1>16, <1>18 DEF Act
<1> QED
  BY <1>8, <1>9, <1>10, <1>11, <1>12, <1>13, <1>14, <1>15, <1>17, <1>18 DEF Serve

\* Dropping entries and ending requests keeps the rest in time.
LEMMA DroppedInTime ==
    ASSUME TypeOK, InTime, NEW rs, Gone(rs) \/ UNCHANGED requestVars, UNCHANGED <<log, now>>,
           \A p \in Processes : entry'[p] \in {None, entry[p]}
    PROVE  InTime'
<1>1. ASSUME NEW p \in Processes PROVE EntryInTime(p)'
  BY DEF InTime, EntryInTime, CurrentSince
<1>2. ASSUME NEW r \in Requests PROVE FlightInTime(r)'
  <2>1. FlightInTime(r) /\ (rpc'[r] = "idle" \/ UNCHANGED <<rpc[r], ver[r], at[r]>>)
    BY DEF InTime, Gone, requestVars
  <2> QED
    BY <2>1 DEF FlightInTime, Decided, CurrentSince
<1> QED
  BY <1>1, <1>2 DEF InTime

\* The policy that decides a request was in the bucket within the last TTL and
\* load, whatever the hooks reached (policyCache.get, Registry.load).
THEOREM StalenessBounded == Spec => []BoundedStaleness
<1>1. Init => InTime
  <2> SUFFICES ASSUME Init PROVE InTime
    OBVIOUS
  <2>1. \A p \in Processes : entry[p] = None
    BY DEF Init
  <2>2. \A r \in Requests : rpc[r] = "idle"
    BY DEF Init
  <2> QED
    BY <2>1, <2>2 DEF InTime, EntryInTime, FlightInTime, Decided
<1>2. TypeOK /\ InTime /\ [Next]_vars => InTime'
  <2> SUFFICES ASSUME TypeOK, InTime, [Next]_vars PROVE InTime'
    OBVIOUS
  <2>1. ASSUME NEW a \in Admins, Put(a) PROVE InTime'
    BY <2>1, ChangeInTime DEF Put
  <2>2. ASSUME NEW a \in Admins, Remove(a) PROVE InTime'
    <3>1. CASE Change(a, Absent)
      BY <2>2, <3>1, ChangeInTime DEF Remove
    <3>2. CASE UNCHANGED <<log, wrote>>
      BY <2>2, <3>2, DroppedInTime DEF Remove
    <3> QED
      BY <2>2, <3>1, <3>2 DEF Remove
  <2>3. ASSUME NEW a \in Admins, Delete(a) \/ List(a) \/ DeleteFails(a) PROVE InTime'
    BY <2>3, DroppedInTime DEF Delete, List, DeleteFails
  <2>4. ASSUME NEW a \in Admins, Notify(a) PROVE InTime'
    BY <2>4, DroppedInTime DEF Notify
  <2>5. ASSUME NEW r \in Requests, Serve(r) PROVE InTime'
    BY <2>5, ServeInTime
  <2>6. ASSUME NEW p \in Processes, Restart(p) PROVE InTime'
    <3>1. \A q \in Processes : entry'[q] \in {None, entry[q]}
      BY <2>6 DEF Restart, TypeOK
    <3> QED
      BY <2>6, <3>1, DroppedInTime DEF Restart
  <2>7. CASE Tick
    <3>1. log' = log /\ now' = now + 1 /\ now \in Nat /\ UNCHANGED <<entry, rpc, ver, at>>
      BY <2>7 DEF Tick, requestVars, TypeOK
    <3>2. \A v, t : CurrentSince(v, t)' <=> CurrentSince(v, t)
      BY <3>1 DEF CurrentSince
    <3>3. ASSUME NEW p \in Processes PROVE EntryInTime(p)'
      <4>1. EntryInTime(p) /\ (entry[p] # None => entry[p].expires \in Nat)
        BY DEF InTime, TypeOK
      <4> QED
        BY <3>1, <4>1, TimeAssumption DEF EntryInTime, CurrentSince
    <3>4. ASSUME NEW r \in Requests PROVE FlightInTime(r)'
      <4>1. FlightInTime(r) /\ at[r] \in Nat
        BY DEF InTime, TypeOK
      <4>2. (rpc[r] = "store" => now < at[r] + Latency) /\ rpc[r] # "deliver"
        BY <2>7 DEF Tick
      <4> QED
        BY <3>1, <4>1, <4>2, TimeAssumption DEF FlightInTime, Decided, CurrentSince
    <3> QED
      BY <3>3, <3>4 DEF InTime
  <2>8. CASE UNCHANGED vars
    BY <2>8, DroppedInTime DEF vars, requestVars
  <2> QED
    BY <2>1, <2>2, <2>3, <2>4, <2>5, <2>6, <2>7, <2>8 DEF Next, Administer
<1>3. InTime => BoundedStaleness
  BY DEF InTime, FlightInTime, BoundedStaleness
<1> QED
  BY <1>1, <1>2, <1>3, TypeCorrect, PTL DEF Spec
-----------------------------------------------------------------------------
(***************************************************************************)
(* Order.  One request leads the flight of a process, and what it carries  *)
(* is no older than the entry, which is no older than any decision.        *)
(***************************************************************************)
InOrder ==
    /\ \A q, r \in Requests :
          (proc[q] = proc[r] /\ rpc[q] \in Leading /\ rpc[r] \in Leading) => q = r
    /\ \A r \in Requests :
          entry[proc[r]] # None =>
              /\ Decided(r) => ver[r] <= entry[proc[r]].ver
              /\ rpc[r] \in {"store", "deliver"} => entry[proc[r]].ver <= ver[r]
              /\ rpc[r] = "deliver" => entry[proc[r]].ver = ver[r]
    /\ \A q, r \in Requests :
          (proc[q] = proc[r] /\ Decided(q) /\ rpc[r] \in {"store", "deliver"}) => ver[q] <= ver[r]

\* Each step of a data-plane request keeps the order.
LEMMA ServeInOrder ==
    ASSUME TypeOK, InOrder, NEW r \in Requests, Serve(r)
    PROVE  InOrder'
<1>1. /\ \A q \in Requests : ver[q] \in Nat /\ ver[q] <= Len(log) /\ proc[q] \in Processes
      /\ Len(log) \in Nat
      /\ \A p \in Processes : entry[p] # None => entry[p].ver \in Nat /\ entry[p].ver <= Len(log)
  BY DEF TypeOK, Versions
<1> USE DEF InOrder, Decided, Leading
<1>2. CASE Begin(r)
  <2>1. /\ rpc[r] = "idle" /\ rpc'[r] = "look" /\ UNCHANGED <<entry, ver>>
        /\ \A q \in Requests \ {r} : rpc'[q] = rpc[q] /\ proc'[q] = proc[q]
    BY <1>2 DEF Begin, TypeOK
  <2> QED
    BY <2>1
<1>3. CASE Hit(r)
  <2>1. /\ rpc'[r] = "decided" /\ ver'[r] = entry[proc[r]].ver /\ entry[proc[r]] # None
        /\ UNCHANGED <<entry, proc>>
        /\ \A q \in Requests \ {r} : rpc'[q] = rpc[q] /\ ver'[q] = ver[q]
    BY <1>3 DEF Hit, Fresh, TypeOK
  <2> QED
    BY <1>1, <2>1
<1>4. CASE Lead(r)
  <2>1. /\ rpc'[r] = "check" /\ UNCHANGED <<entry, proc, ver>>
        /\ \A q \in Requests \ {r} : rpc'[q] = rpc[q]
        /\ \A q \in Requests : proc[q] = proc[r] => rpc[q] \notin Leading
    BY <1>4 DEF Lead, InFlight, TypeOK
  <2> QED
    BY <2>1
<1>5. CASE Miss(r) \/ Join(r)
  <2>1. /\ rpc'[r] \in {"missed", "wait"} /\ UNCHANGED <<entry, proc, ver>>
        /\ \A q \in Requests \ {r} : rpc'[q] = rpc[q]
    BY <1>5 DEF Miss, Join, TypeOK
  <2> QED
    BY <2>1
<1>6. CASE Check(r)
  <2>1. /\ rpc[r] = "check" /\ UNCHANGED <<entry, proc>>
        /\ \A q \in Requests \ {r} : rpc'[q] = rpc[q] /\ ver'[q] = ver[q]
        /\ \/ entry[proc[r]] # None /\ rpc'[r] = "deliver" /\ ver'[r] = entry[proc[r]].ver
           \/ rpc'[r] = "load" /\ ver'[r] = ver[r]
    BY <1>6 DEF Check, Fresh, TypeOK
  <2> QED
    BY <1>1, <2>1
<1>7. CASE Load(r)
  <2>1. /\ rpc[r] = "load" /\ rpc'[r] = "store" /\ ver'[r] = Len(log)
        /\ UNCHANGED <<entry, proc>>
        /\ \A q \in Requests \ {r} : rpc'[q] = rpc[q] /\ ver'[q] = ver[q]
    BY <1>7 DEF Load, TypeOK
  <2> QED
    BY <1>1, <2>1
<1>8. CASE Store(r)
  <2>1. /\ rpc[r] = "store" /\ rpc'[r] = "deliver" /\ UNCHANGED <<ver, proc>>
        /\ entry'[proc[r]].ver = ver[r]
        /\ \A p \in Processes \ {proc[r]} : entry'[p] = entry[p]
        /\ \A q \in Requests \ {r} : rpc'[q] = rpc[q]
    BY <1>1, <1>8 DEF Store, TypeOK
  <2> QED
    BY <1>1, <2>1
<1>9. CASE Deliver(r)
  <2>1. /\ rpc[r] = "deliver" /\ UNCHANGED <<entry, proc>>
        /\ \A q \in Party(r) : q \in Requests /\ proc[q] = proc[r]
        /\ \A q \in Party(r) : rpc'[q] = "decided" /\ ver'[q] = ver[r]
        /\ \A q \in Requests \ Party(r) : rpc'[q] = rpc[q] /\ ver'[q] = ver[q]
        /\ r \in Party(r)
    BY <1>9 DEF Deliver, Party, TypeOK
  <2>2. ASSUME NEW q \in Requests, rpc'[q] \in Leading
        PROVE  q \notin Party(r) /\ proc[q] # proc[r]
    BY <2>1, <2>2
  <2> QED
    BY <1>1, <2>1, <2>2
<1>10. ASSUME NEW rs, Gone(rs), entry' = entry PROVE InOrder'
  <2>1. /\ UNCHANGED <<entry, proc>>
        /\ \A q \in Requests : rpc'[q] = "idle" \/ (rpc'[q] = rpc[q] /\ ver'[q] = ver[q])
    BY <1>10 DEF Gone
  <2> QED
    BY <2>1
<1>11. CASE LoadFails(r)
  BY <1>10, <1>11 DEF LoadFails
<1>12. CASE Act(r)
  BY <1>10, <1>12 DEF Act
<1> QED
  BY <1>2, <1>3, <1>4, <1>5, <1>6, <1>7, <1>8, <1>9, <1>11, <1>12 DEF Serve

\* Dropping entries and ending requests keeps the order.
LEMMA DroppedInOrder ==
    ASSUME InOrder, NEW rs, Gone(rs) \/ UNCHANGED requestVars,
           TypeOK, \A p \in Processes : entry'[p] \in {None, entry[p]}
    PROVE  InOrder'
<1>1. \A q \in Requests : rpc'[q] = "idle" \/ (rpc'[q] = rpc[q] /\ ver'[q] = ver[q])
  BY DEF Gone, requestVars
<1>2. proc' = proc /\ \A q \in Requests : proc[q] \in Processes
  BY DEF Gone, requestVars, TypeOK
<1> QED
  BY <1>1, <1>2 DEF InOrder, Decided, Leading

LEMMA OrderInvariant == Spec => []InOrder
<1>1. Init => InOrder
  <2> SUFFICES ASSUME Init PROVE InOrder
    OBVIOUS
  <2>1. \A r \in Requests : rpc[r] = "idle"
    BY DEF Init
  <2> QED
    BY <2>1 DEF InOrder, Decided, Leading
<1>2. TypeOK /\ InOrder /\ [Next]_vars => InOrder'
  <2> SUFFICES ASSUME TypeOK, InOrder, [Next]_vars PROVE InOrder'
    OBVIOUS
  <2>1. ASSUME NEW a \in Admins, Administer(a) PROVE InOrder'
    BY <2>1, DroppedInOrder DEF Administer, Put, Delete, List, Remove, DeleteFails, Notify
  <2>2. ASSUME NEW r \in Requests, Serve(r) PROVE InOrder'
    BY <2>2, ServeInOrder
  <2>3. ASSUME NEW p \in Processes, Restart(p) PROVE InOrder'
    <3>1. \A q \in Processes : entry'[q] \in {None, entry[q]}
      BY <2>3 DEF Restart, TypeOK
    <3> QED
      BY <2>3, <3>1, DroppedInOrder DEF Restart
  <2>4. CASE Tick \/ UNCHANGED vars
    BY <2>4, DroppedInOrder DEF Tick, vars, requestVars
  <2> QED
    BY <2>1, <2>2, <2>3, <2>4 DEF Next
<1> QED
  BY <1>1, <1>2, TypeCorrect, PTL DEF Spec

\* A process never decides a request by a policy older than one it has decided
\* another by (policyCache.get: one load at a time, stored before it is used).
THEOREM DecisionsNeverRegress == Spec => NeverRegresses
<1> DEFINE Step == \A q, r \in Requests :
        (Decided(q) /\ ~Decided(r) /\ Decided(r)' /\ proc[q] = proc[r]) => ver[q] <= ver'[r]
<1>1. TypeOK /\ InOrder /\ [Next]_vars => [Step]_vars
  <2> SUFFICES ASSUME TypeOK, InOrder, Next,
                      NEW q \in Requests, NEW r \in Requests,
                      Decided(q), ~Decided(r), Decided(r)', proc[q] = proc[r]
               PROVE  ver[q] <= ver'[r]
    OBVIOUS
  <2>1. ASSUME NEW a \in Admins, Administer(a) PROVE FALSE
    BY <2>1 DEF Administer, Put, Delete, List, Remove, DeleteFails, Notify, requestVars, Decided
  <2>2. ASSUME NEW p \in Processes, Restart(p) PROVE FALSE
    BY <2>2 DEF Restart, Gone, Decided
  <2>3. CASE Tick
    BY <2>3 DEF Tick, requestVars, Decided
  <2>4. ASSUME NEW s \in Requests, Serve(s) PROVE ver[q] <= ver'[r]
    <3>1. CASE Hit(s)
      <4>1. s = r
        BY <3>1 DEF Hit, Decided, TypeOK
      <4>2. ver'[r] = entry[proc[r]].ver /\ entry[proc[r]] # None
        BY <3>1, <4>1 DEF Hit, Fresh, TypeOK
      <4> QED
        BY <4>2 DEF InOrder
    <3>2. CASE Deliver(s)
      <4>1. r \in Party(s) /\ ver'[r] = ver[s] /\ proc[r] = proc[s] /\ rpc[s] = "deliver"
        BY <3>2 DEF Deliver, Party, Decided, TypeOK
      <4> QED
        BY <4>1 DEF InOrder
    <3>3. CASE LoadFails(s) \/ Act(s)
      BY <3>3 DEF LoadFails, Act, Gone, Decided
    <3>4. CASE Begin(s) \/ Miss(s) \/ Lead(s) \/ Join(s) \/ Check(s) \/ Load(s) \/ Store(s)
      BY <3>4 DEF Begin, Miss, Lead, Join, Check, Load, Store, Decided, TypeOK
    <3> QED
      BY <2>4, <3>1, <3>2, <3>3, <3>4 DEF Serve
  <2> QED
    BY <2>1, <2>2, <2>3, <2>4 DEF Next
<1> QED
  BY <1>1, TypeCorrect, OrderInvariant, PTL DEF Spec, NeverRegresses
-----------------------------------------------------------------------------
(***************************************************************************)
(* The change hook.  When it ran with no load past its read, everything    *)
(* read afterwards is at least as new as what it announced.                *)
(***************************************************************************)
HookInv ==
    /\ QuietHookInvalidates
    /\ \A r \in Requests :
          (proc[r] \in Hooked /\ quiet[proc[r]] /\ rpc[r] \in {"store", "deliver"}) =>
              announced[proc[r]] <= ver[r]

\* A hook that runs between no load's read and its answer leaves nothing older
\* than the change it announces (policyCache.invalidate).
THEOREM QuietHooksInvalidate == Spec => []QuietHookInvalidates
<1>1. Init => HookInv
  <2> SUFFICES ASSUME Init PROVE HookInv
    OBVIOUS
  <2>1. (\A p \in Processes : entry[p] = None) /\ (\A r \in Requests : rpc[r] = "idle")
    BY DEF Init
  <2> QED
    BY <2>1, HookedAssumption DEF HookInv, QuietHookInvalidates
<1>2. TypeOK /\ HookInv /\ [Next]_vars => HookInv'
  <2> SUFFICES ASSUME TypeOK, HookInv, [Next]_vars PROVE HookInv'
    OBVIOUS
  <2> USE HookedAssumption DEF HookInv, QuietHookInvalidates
  <2>0. /\ \A q \in Requests : ver[q] \in Nat /\ proc[q] \in Processes
        /\ Len(log) \in Nat
        /\ \A p \in Processes : announced[p] \in Nat /\ announced[p] <= Len(log)
        /\ \A p \in Processes : entry[p] # None => entry[p].ver \in Nat
    BY DEF TypeOK, Versions
  <2>1. ASSUME UNCHANGED hookVars, NEW rs, Gone(rs) \/ UNCHANGED requestVars,
               \A p \in Processes : entry'[p] \in {None, entry[p]}
        PROVE  HookInv'
    <3>1. /\ proc' = proc
          /\ \A q \in Requests : rpc'[q] = "idle" \/ (rpc'[q] = rpc[q] /\ ver'[q] = ver[q])
      BY <2>1 DEF Gone, requestVars
    <3> QED
      BY <2>1, <3>1 DEF hookVars
  <2>2. ASSUME NEW a \in Admins, Administer(a) PROVE HookInv'
    <3>1. CASE Notify(a)
      BY <3>1 DEF Notify, PastRead, requestVars
    <3>2. CASE ~Notify(a)
      BY <2>1, <2>2, <3>2 DEF Administer, Put, Delete, List, Remove, DeleteFails
    <3> QED
      BY <3>1, <3>2
  <2>3. ASSUME NEW r \in Requests, Serve(r) PROVE HookInv'
    <3>1. CASE Check(r)
      <4>1. /\ UNCHANGED <<entry, proc, hookVars>>
            /\ \A q \in Requests \ {r} : rpc'[q] = rpc[q] /\ ver'[q] = ver[q]
            /\ \/ entry[proc[r]] # None /\ ver'[r] = entry[proc[r]].ver
               \/ rpc'[r] = "load"
        BY <3>1 DEF Check, Fresh, TypeOK, hookVars
      <4> QED
        BY <2>0, <4>1 DEF hookVars
    <3>2. CASE Load(r)
      <4>1. /\ UNCHANGED <<entry, proc, hookVars>> /\ ver'[r] = Len(log)
            /\ \A q \in Requests \ {r} : rpc'[q] = rpc[q] /\ ver'[q] = ver[q]
        BY <3>2 DEF Load, TypeOK, hookVars
      <4> QED
        BY <2>0, <4>1 DEF hookVars
    <3>3. CASE Store(r)
      <4>1. /\ rpc[r] = "store" /\ UNCHANGED <<proc, ver, hookVars>>
            /\ entry'[proc[r]].ver = ver[r]
            /\ \A p \in Processes \ {proc[r]} : entry'[p] = entry[p]
            /\ \A q \in Requests \ {r} : rpc'[q] = rpc[q]
        BY <2>0, <3>3 DEF Store, TypeOK, hookVars
      <4> QED
        BY <2>0, <4>1 DEF hookVars
    <3>4. CASE Begin(r) \/ Hit(r) \/ Miss(r) \/ Lead(r) \/ Join(r) \/ Deliver(r)
      <4>1. /\ UNCHANGED <<entry, hookVars>>
            /\ \A q \in Requests :
                  rpc'[q] \in {"store", "deliver"} => UNCHANGED <<rpc[q], ver[q], proc[q]>>
        BY <3>4 DEF Begin, Hit, Miss, Lead, Join, Deliver, TypeOK, hookVars
      <4> QED
        BY <2>0, <4>1 DEF hookVars
    <3>5. CASE LoadFails(r) \/ Act(r)
      BY <2>1, <3>5 DEF LoadFails, Act
    <3> QED
      BY <2>3, <3>1, <3>2, <3>3, <3>4, <3>5 DEF Serve
  <2>4. ASSUME NEW p \in Processes, Restart(p) PROVE HookInv'
    <3>1. \A q \in Processes : entry'[q] \in {None, entry[q]}
      BY <2>4 DEF Restart, TypeOK
    <3> QED
      BY <2>1, <2>4, <3>1 DEF Restart
  <2>5. CASE Tick \/ UNCHANGED vars
    BY <2>1, <2>5 DEF Tick, vars, requestVars, hookVars
  <2> QED
    BY <2>2, <2>3, <2>4, <2>5 DEF Next
<1> QED
  BY <1>1, <1>2, TypeCorrect, PTL DEF Spec, HookInv
-----------------------------------------------------------------------------
(* Serving.                                                                  *)

\* The types of what belongs to a connection.
ConnectionsTyped ==
    /\ pc \in [Connections -> {"off", "idle"} \cup Working \cup Answers]
    /\ token \in [Connections -> Tokens \cup {NoToken}]
    /\ op \in [Connections -> Operations]
    /\ gone \in [Connections -> BOOLEAN]
    /\ waited \in [Connections -> 0..ReadyTimeout]
    /\ disturbed \in [Connections -> BOOLEAN]

\* Every clock may start from zero.
LEMMA ZeroTyped == 0 \in 0..ReadyTTL /\ 0 \in 0..ReadyTimeout /\ 0 \in 0..Horizon
BY ProbeAssumption DEF Horizon

\* Requests that are over leave connections of the right type.
LEMMA OverTyped ==
    ASSUME ServingTypeOK, NEW rs, NEW where \in {"off", "idle"}, Over(rs, where)
    PROVE  ConnectionsTyped'
BY ProbeAssumption DEF ServingTypeOK, ConnectionsTyped, Over, Operations

\* Every step of a request keeps the types.
LEMMA HandleTyped ==
    ASSUME ServingTypeOK, NEW r \in Connections, Handle(r)
    PROVE  ServingTypeOK'
<1> USE DEF ServingTypeOK, Goto, configVars, processVars, authVars, probeVars
<1>1. CASE Connect(r)
  BY <1>1 DEF Connect
<1>2. CASE Receive(r)
  BY <1>2 DEF Receive, Working, Waiting, Authenticating, Answers
<1>3. CASE Lock(r)
  BY <1>3 DEF Lock, Working, Waiting, Authenticating
<1>4. CASE Discovered(r)
  BY <1>4 DEF Discovered, Working, Waiting, Authenticating
<1>5. CASE DiscoveryFails(r)
  BY <1>5 DEF DiscoveryFails, Answers
<1>6. CASE Verified(r)
  BY <1>6 DEF Verified, Working
<1>7. CASE AwaitKeys(r)
  BY <1>7 DEF AwaitKeys, Working, Waiting, Authenticating
<1>8. CASE Authorize(r)
  BY <1>8 DEF Authorize, Working
<1>9. CASE Forbid(r) \/ Finish(r) \/ Answered(r) \/ Disconnect(r)
  <2>1. ConnectionsTyped'
    BY <1>9, OverTyped DEF Forbid, Finish, Answered, Disconnect, Answer
  <2> QED
    BY <1>9, <2>1 DEF Forbid, Finish, Answered, Disconnect, ConnectionsTyped
<1>10. CASE CallCut(r)
  BY <1>10 DEF CallCut, Answers
<1>11. CASE Probe(r)
  BY <1>11 DEF Probe, Working, Waiting, Pinging, Answers
<1>12. CASE PingReaches(r)
  BY <1>12 DEF PingReaches, Working, Waiting, Pinging
<1>13. CASE PingAnswered(r)
  BY <1>13, ProbeAssumption DEF PingAnswered, Answers
<1>14. CASE PingFails(r)
  BY <1>14 DEF PingFails, Answers
<1>15. CASE Leave(r)
  BY <1>15 DEF Leave
<1>16. CASE KeysAbandoned(r)
  BY <1>16 DEF KeysAbandoned, Answers
<1> QED
  BY <1>1, <1>2, <1>3, <1>4, <1>5, <1>6, <1>7, <1>8, <1>9, <1>10, <1>11, <1>12, <1>13,
     <1>14, <1>15, <1>16 DEF Handle, Authenticate

\* What happens to the process, the issuers and the bucket.
Surroundings ==
    \/ \E c \in Children : Trouble(c) \/ Recover(c) \/ KeysArrive(c) \/ KeysFail(c)
    \/ Lifecycle \/ Signal \/ AcceptFails \/ StartAgain
    \/ BucketFails \/ BucketRecovers \/ Elapse

\* Every step of the process, the issuers, the bucket and the clock keeps the types.
LEMMA SurroundingsTyped ==
    ASSUME ServingTypeOK, Surroundings
    PROVE  ServingTypeOK'
<1> USE DEF ServingTypeOK, configVars, processVars, authVars, probeVars, connectionVars
<1>1. ASSUME NEW c \in Children, Trouble(c) \/ Recover(c) PROVE ServingTypeOK'
  BY <1>1 DEF Trouble, Recover
<1>2. CASE Shutdown \/ Drained \/ Return \/ AcceptFails
  BY <1>2 DEF Shutdown, Drained, Return, AcceptFails
<1>3. CASE WindowExpires
  BY <1>3 DEF WindowExpires
<1>4. CASE CloseBucket
  BY <1>4 DEF CloseBucket
<1>5. CASE Exit
  <2>1. ConnectionsTyped'
    BY <1>5, OverTyped DEF Exit
  <2> QED
    BY <1>5, <2>1 DEF Exit, ConnectionsTyped
<1>6. CASE Signal
  BY <1>6 DEF Signal
<1>7. CASE StartAgain
  BY <1>7, ZeroTyped DEF StartAgain
<1>8. CASE BucketFails
  BY <1>8 DEF BucketFails
<1>9. CASE BucketRecovers
  BY <1>9, ProbeAssumption DEF BucketRecovers, Horizon
<1>10. CASE Elapse
  <2>1. waited' \in [Connections -> 0..ReadyTimeout]
    BY <1>10, ProbeAssumption DEF Elapse
  <2>2. fresh' \in 0..ReadyTTL /\ down' \in 0..Horizon
    BY <1>10, ProbeAssumption DEF Elapse, Horizon
  <2> QED
    BY <1>10, <2>1, <2>2 DEF Elapse
<1>11. ASSUME NEW c \in Children, KeysArrive(c) PROVE ServingTypeOK'
  BY <1>11 DEF KeysArrive, Working, Answers
<1>12. ASSUME NEW c \in Children, KeysFail(c) PROVE ServingTypeOK'
  BY <1>12 DEF KeysFail, Answers
<1> QED
  BY <1>1, <1>2, <1>3, <1>4, <1>5, <1>6, <1>7, <1>8, <1>9, <1>10, <1>11, <1>12
  DEF Surroundings, Lifecycle

\* The steps of the next-state relation, by who takes them.
LEMMA ServingSteps ==
    ASSUME [ServingNext]_servingVars
    PROVE  (\E r \in Connections : Handle(r)) \/ Surroundings \/ UNCHANGED servingVars
BY DEF ServingNext, Surroundings

\* A process starts well typed,
LEMMA ServingInitTyped == ServingInit => ServingTypeOK
<1> SUFFICES ASSUME ServingInit PROVE ServingTypeOK
  OBVIOUS
<1>1. ConnectionsTyped
  BY ZeroTyped DEF ServingInit, ConnectionsTyped, Operations
<1>2. /\ verifier \in [Children -> {"none", "built", "keyed"}]
      /\ holder \in [Children -> Connections \cup {Nobody}]
      /\ keyFetch \in [Children -> {"none", "running", "doomed"}]
      /\ issuer \in [Children -> BOOLEAN]
  BY DEF ServingInit
<1>3. /\ disabled \in BOOLEAN /\ policy \in Policies /\ traffic \in Traffic
      /\ main = "serve" /\ server = "up" /\ signalled \in BOOLEAN /\ overdue \in BOOLEAN
      /\ backend \in BOOLEAN /\ fresh = 0 /\ down = 0
  BY DEF ServingInit
<1> QED
  BY <1>1, <1>2, <1>3, ZeroTyped DEF ConnectionsTyped, ServingTypeOK

\* and no step changes that.
LEMMA ServingStepTyped ==
    ASSUME ServingTypeOK, [ServingNext]_servingVars
    PROVE  ServingTypeOK'
<1>1. UNCHANGED servingVars => ServingTypeOK'
  BY DEF ServingTypeOK, servingVars
<1> QED
  BY <1>1, HandleTyped, SurroundingsTyped, ServingSteps

\* Every reachable state of the process, its connections, its authenticators and its
\* readiness cache is well typed, across any number of restarts.
THEOREM ServingTypeCorrect == ServingSpec => []ServingTypeOK
BY ServingInitTyped, ServingStepTyped, PTL DEF ServingSpec

\* A set of authenticators has a first one, so the one a claim selects has the claim.
LEMMA ResponsibleClaimed ==
    ASSUME NEW t, Claimed(t) # {}
    PROVE  Responsible(t) \in Claimed(t)
<1> DEFINE Below == {ss \in Nat \X Nat : ss[1] < ss[2]}
<1>1. Claimed(t) \subseteq Nat
  BY ChainAssumption DEF Claimed, Children
<1>2. PICK c \in Claimed(t) : \A d \in Claimed(t) : ~(<<d, c>> \in Below)
  BY <1>1, NatLessThanWellFounded, WFMin DEF OpToRel
<1>3. ASSUME NEW d \in Claimed(t) PROVE c <= d
  <2>1. <<d, c>> \in Nat \X Nat /\ ~(<<d, c>> \in Below)
    BY <1>1, <1>2
  <2> QED
    BY <1>1, <2>1
<1> QED
  BY <1>3 DEF Responsible

\* A matcher that matches the AuthContext of a verified token is one the token's own
\* claims satisfy; one that matches an anonymous subject asks for anonymous subjects.
LEMMA MatchesEntitle ==
    ASSUME NEW m
    PROVE  /\ \A t : Matches(m, Identity(t)) => Entitles(m, t)
           /\ Matches(m, Anonymous) => m.kind = "anonymous"
BY PatternAssumption DEF Matches, KindOf, Identity, Anonymous, Entitles

\* A request that is authenticated has claimed an issuer of the chain, one that is
\* authorized is genuine, and one that runs was allowed to.
RequestInv(r) ==
    /\ pc[r] \in {"off", "idle"} => ~gone[r]
    /\ pc[r] \in Authenticating => ~disabled /\ Claimed(token[r]) # {}
    /\ pc[r] \in {"authorize", "run"} /\ ~disabled =>
          token[r].genuine /\ Claimed(token[r]) # {}
    /\ pc[r] = "run" => Authorizes(policy, Subject(r), op[r])

\* What a failure needs has met the request: an outage of its own issuer, of the keys it
\* waits for or of the bucket, a cancellation, the end of the process.
TroubleInv(r) ==
    /\ pc[r] \in Authenticating /\ (~issuer[Child(r)] \/ Cancelled(r)) => disturbed[r]
    /\ pc[r] = "keys" /\ keyFetch[Child(r)] = "doomed" => disturbed[r]
    /\ pc[r] \in Pinging /\ (~backend \/ Cancelled(r) \/ main = "exiting") => disturbed[r]
    /\ pc[r] = "refused" /\ Claimed(token[r]) # {} /\ token[r].genuine => disturbed[r]
    /\ pc[r] = "unready" => disturbed[r]

\* What is believed of the bucket, or about to be, is no older than the time the ping
\* has taken and the time since.
ProbeInv ==
    /\ backend => down = 0
    /\ fresh > 0 => down + fresh <= ReadyTTL + ReadyTimeout
    /\ \A r \in Connections : pc[r] = "pong" => down <= waited[r]

\* A server that shuts down was told to; serving.Serve returns when it is closed, and it
\* is closed in time only when no connection is left.
ProcessInv ==
    /\ server # "up" => signalled
    /\ main = "returned" => server = "closed"
    /\ server = "closed" /\ ~overdue => \A r \in Connections : pc[r] = "off"

ServingInv ==
    /\ ServingTypeOK
    /\ ProcessInv /\ ProbeInv
    /\ \A r \in Connections : RequestInv(r) /\ TroubleInv(r)

\* A step of one request leaves the others where they are.
LEMMA OthersStay ==
    ASSUME ServingTypeOK, NEW q \in Connections, Handle(q), NEW r \in Connections \ {q}
    PROVE  /\ pc'[r] = pc[r] /\ token'[r] = token[r] /\ op'[r] = op[r]
           /\ gone'[r] = gone[r] /\ waited'[r] = waited[r] /\ disturbed'[r] = disturbed[r]
BY DEF ServingTypeOK, Handle, Authenticate, Connect, Receive, Lock, Discovered, DiscoveryFails,
       Verified, AwaitKeys, KeysAbandoned, Authorize, Forbid, Finish, CallCut, Probe, PingReaches,
       PingAnswered, PingFails, Answered, Disconnect, Leave, Goto, Answer, Over

\* A step of a request leaves the process, the issuers and the bucket as they are.
LEMMA HandleFrame ==
    ASSUME NEW r \in Connections, Handle(r)
    PROVE  UNCHANGED <<configVars, processVars, issuer, backend, down>>
BY DEF Handle, Authenticate, Connect, Receive, Lock, Discovered, DiscoveryFails,
       Verified, AwaitKeys, KeysAbandoned, Authorize, Forbid, Finish, CallCut, Probe, PingReaches,
       PingAnswered, PingFails, Answered, Disconnect, Leave, configVars, processVars,
       authVars, probeVars

\* The only fetch of keys that a request's step can doom is one begun in an outage.
LEMMA HandleKeys ==
    ASSUME ServingTypeOK, NEW r \in Connections, Handle(r), NEW c \in Children
    PROVE  keyFetch'[c] = "doomed" => keyFetch[c] = "doomed" \/ ~issuer[c]
<1>1. CASE AwaitKeys(r)
  BY <1>1 DEF ServingTypeOK, AwaitKeys
<1>2. CASE ~AwaitKeys(r)
  <2>1. keyFetch' = keyFetch
    BY <1>2 DEF Handle, Authenticate, Connect, Receive, Lock, Discovered, DiscoveryFails,
       Verified, KeysAbandoned, Authorize, Forbid, Finish, CallCut, Probe, PingReaches,
       PingAnswered, PingFails, Answered, Disconnect, Leave, authVars
  <2> QED
    BY <2>1
<1> QED
  BY <1>1, <1>2

\* Where a request that is authenticated waits is an authenticator of the chain.
LEMMA ChildInChain ==
    ASSUME NEW r \in Connections, Claimed(token[r]) # {}
    PROVE  Child(r) \in Children
BY ResponsibleClaimed DEF Child, Claimed

\* A request that is over is idle or off, and its client has not left.
LEMMA OverForgets ==
    ASSUME NEW r \in Connections, NEW rs, r \in rs, NEW where \in {"off", "idle"}, Over(rs, where)
    PROVE  RequestInv(r)' /\ TroubleInv(r)' /\ pc'[r] = where
BY DEF Over, RequestInv, TroubleInv, Authenticating, Pinging

\* A request is authenticated by the claim it made and runs what the policy allows it.
LEMMA RequestStep ==
    ASSUME ServingInv, NEW r \in Connections, Handle(r)
    PROVE  RequestInv(r)'
<1> USE DEF ServingInv, ServingTypeOK, RequestInv, Goto, Authenticating, configVars
<1>1. CASE Connect(r)
  BY <1>1 DEF Connect
<1>2. CASE Receive(r)
  BY <1>2 DEF Receive
<1>3. CASE Lock(r)
  BY <1>3 DEF Lock
<1>4. CASE Discovered(r)
  BY <1>4 DEF Discovered
<1>5. CASE DiscoveryFails(r)
  BY <1>5 DEF DiscoveryFails
<1>6. CASE Verified(r)
  BY <1>6 DEF Verified
<1>7. CASE AwaitKeys(r)
  BY <1>7 DEF AwaitKeys
<1>8. CASE Authorize(r)
  <2>1. PICK o \in Operations : Authorizes(policy, Subject(r), o) /\ op' = [op EXCEPT ![r] = o]
    BY <1>8 DEF Authorize
  <2>2. /\ pc'[r] = "run" /\ op'[r] = o /\ token' = token /\ disabled' = disabled
        /\ policy' = policy /\ pc[r] = "authorize"
    BY <1>8, <2>1 DEF Authorize
  <2> QED
    BY <2>1, <2>2 DEF Subject
<1>9. CASE Forbid(r) \/ Finish(r) \/ Answered(r) \/ Disconnect(r)
  BY <1>9, OverForgets DEF Forbid, Finish, Answered, Disconnect, Answer
<1>10. CASE CallCut(r)
  BY <1>10 DEF CallCut
<1>11. CASE Probe(r)
  BY <1>11 DEF Probe
<1>12. CASE PingReaches(r)
  BY <1>12 DEF PingReaches
<1>13. CASE PingAnswered(r)
  BY <1>13 DEF PingAnswered
<1>14. CASE PingFails(r)
  BY <1>14 DEF PingFails
<1>15. CASE Leave(r)
  BY <1>15 DEF Leave, Working, Waiting, Pinging, Subject
<1>16. CASE KeysAbandoned(r)
  BY <1>16 DEF KeysAbandoned
<1> QED
  BY <1>1, <1>2, <1>3, <1>4, <1>5, <1>6, <1>7, <1>8, <1>9, <1>10, <1>11, <1>12, <1>13,
     <1>14, <1>15, <1>16 DEF Handle, Authenticate

\* Whatever makes a request fail that should not has met the request itself.
LEMMA TroubleStep ==
    ASSUME ServingInv, NEW r \in Connections, Handle(r)
    PROVE  TroubleInv(r)'
<1> USE DEF ServingInv, ServingTypeOK, RequestInv, TroubleInv, Goto, Authenticating, Pinging,
            Cancelled, Child, processVars
<1>1. CASE Connect(r)
  BY <1>1 DEF Connect
<1>2. CASE Receive(r)
  <2>1. PICK t \in Tokens \cup {NoToken} :
          /\ token' = [token EXCEPT ![r] = t]
          /\ pc' = [pc EXCEPT ![r] = IF disabled THEN "authorize"
                                     ELSE IF Claimed(t) = {} THEN "refused" ELSE "lock"]
          /\ disturbed' = [disturbed EXCEPT ![r] = signalled \/ \E c \in Claimed(t) : ~issuer[c]]
    BY <1>2 DEF Receive
  <2>2. token'[r] = t /\ pc'[r] \in {"authorize", "refused", "lock"} /\ ~gone'[r]
        /\ UNCHANGED <<signalled, issuer>>
    BY <1>2, <2>1 DEF Receive
  <2>3. pc'[r] = "refused" => Claimed(t) = {}
    BY <2>1
  <2>4. ASSUME pc'[r] = "lock", ~issuer[Responsible(t)] \/ signalled
        PROVE  disturbed'[r]
    <3>1. Responsible(t) \in Claimed(t)
      BY <2>1, <2>4, ResponsibleClaimed
    <3> QED
      BY <2>1, <2>4, <3>1
  <2> QED
    BY <2>2, <2>3, <2>4
<1>3. CASE Lock(r)
  BY <1>3 DEF Lock
<1>4. CASE Discovered(r)
  BY <1>4 DEF Discovered
<1>5. CASE DiscoveryFails(r)
  BY <1>5 DEF DiscoveryFails
<1>6. CASE Verified(r)
  BY <1>6 DEF Verified
<1>7. CASE AwaitKeys(r)
  <2>1. Child(r) \in Children /\ token' = token
    BY <1>7, ChildInChain DEF AwaitKeys
  <2>2. keyFetch'[Child(r)] = "doomed" => keyFetch[Child(r)] = "doomed" \/ ~issuer[Child(r)]
    BY <2>1, HandleKeys
  <2> QED
    BY <1>7, <2>1, <2>2 DEF AwaitKeys
<1>8. CASE Authorize(r)
  BY <1>8 DEF Authorize
<1>9. CASE Forbid(r) \/ Finish(r) \/ Answered(r) \/ Disconnect(r)
  BY <1>9, OverForgets DEF Forbid, Finish, Answered, Disconnect, Answer
<1>10. CASE CallCut(r)
  BY <1>10 DEF CallCut
<1>11. CASE Probe(r)
  BY <1>11 DEF Probe
<1>12. CASE PingReaches(r)
  BY <1>12 DEF PingReaches
<1>13. CASE PingAnswered(r)
  BY <1>13 DEF PingAnswered
<1>14. CASE PingFails(r)
  BY <1>14 DEF PingFails
<1>15. CASE Leave(r)
  BY <1>15 DEF Leave, Working, Waiting
<1>16. CASE KeysAbandoned(r)
  BY <1>16 DEF KeysAbandoned
<1> QED
  BY <1>1, <1>2, <1>3, <1>4, <1>5, <1>6, <1>7, <1>8, <1>9, <1>10, <1>11, <1>12, <1>13,
     <1>14, <1>15, <1>16 DEF Handle, Authenticate

\* A ping is answered with what the bucket was when it was reached; no connection is made
\* to a server that shuts down.
LEMMA HandleProcess ==
    ASSUME ServingInv, NEW r \in Connections, Handle(r)
    PROVE  ProbeInv' /\ ProcessInv'
<1>1. UNCHANGED <<processVars, backend, down>>
  BY HandleFrame
<1>2. \A q \in Connections \ {r} : pc'[q] = pc[q] /\ waited'[q] = waited[q]
  BY OthersStay DEF ServingInv
<1>3. pc[r] = "off" => main = "serve" /\ server = "up"
  BY DEF Handle, Authenticate, Connect, Receive, Lock, Discovered, DiscoveryFails, Verified,
     AwaitKeys, KeysAbandoned, Authorize, Forbid, Finish, CallCut, Probe, PingReaches,
     PingAnswered, PingFails, Answered, Disconnect, Leave, Answers, Pinging, Working, Waiting,
     Authenticating
<1>4. ProcessInv'
  BY <1>1, <1>2, <1>3 DEF ServingInv, ProcessInv, processVars
<1>5. pc'[r] = "pong" => down <= waited'[r]
  <2>1. CASE PingReaches(r)
    BY <2>1, <1>1, ProbeAssumption DEF ServingInv, ServingTypeOK, ProbeInv, PingReaches
  <2>2. CASE Leave(r)
    BY <2>2 DEF ServingInv, ProbeInv, Leave
  <2>3. CASE ~PingReaches(r) /\ ~Leave(r)
    <3>1. pc'[r] # "pong"
      BY <2>3, OverForgets DEF ServingInv, ServingTypeOK, Handle, Authenticate, Connect,
         Receive, Lock, Discovered, DiscoveryFails, Verified, AwaitKeys, KeysAbandoned,
         Authorize, Forbid, Finish, CallCut, Probe, PingAnswered, PingFails, Answered,
         Disconnect, Goto, Answer, Over
    <3> QED
      BY <3>1
  <2> QED
    BY <2>1, <2>2, <2>3
<1>6. fresh' = fresh \/ PingAnswered(r)
  BY DEF Handle, Authenticate, Connect, Receive, Lock, Discovered, DiscoveryFails, Verified,
     AwaitKeys, KeysAbandoned, Authorize, Forbid, Finish, CallCut, Probe, PingReaches,
     PingAnswered, PingFails, Answered, Disconnect, Leave, probeVars
<1>7. fresh' > 0 => down + fresh' <= ReadyTTL + ReadyTimeout
  <2>1. CASE PingAnswered(r)
    BY <2>1, ProbeAssumption DEF ServingInv, ServingTypeOK, ProbeInv, PingAnswered, Horizon
  <2>2. CASE fresh' = fresh
    BY <2>2 DEF ServingInv, ProbeInv
  <2> QED
    BY <1>6, <2>1, <2>2
<1>8. ProbeInv'
  BY <1>1, <1>2, <1>5, <1>7 DEF ServingInv, ProbeInv
<1> QED
  BY <1>4, <1>8

\* The process, the issuers, the bucket and the clock touch what a request does only by
\* disturbing it or by ending it.
LEMMA SurroundingsRequest ==
    ASSUME ServingInv, Surroundings, NEW r \in Connections
    PROVE  RequestInv(r)' /\ TroubleInv(r)'
<1> USE DEF ServingInv, ServingTypeOK, RequestInv, TroubleInv, Authenticating, Pinging, Waiting,
            Cancelled, Child, Subject, configVars, processVars, authVars, connectionVars
<1>1. ASSUME NEW c \in Children, Trouble(c) PROVE RequestInv(r)' /\ TroubleInv(r)'
  BY <1>1 DEF Trouble
<1>2. ASSUME NEW c \in Children, Recover(c) PROVE RequestInv(r)' /\ TroubleInv(r)'
  BY <1>2 DEF Recover
<1>3. CASE Shutdown \/ Drained \/ Return \/ AcceptFails
  BY <1>3 DEF Shutdown, Drained, Return, AcceptFails
<1>4. CASE WindowExpires
  BY <1>4 DEF WindowExpires, ProcessInv, Working, Answers
<1>5. CASE CloseBucket
  BY <1>5 DEF CloseBucket
<1>6. CASE Exit
  BY <1>6, OverForgets DEF Exit
<1>7. CASE Signal
  BY <1>7 DEF Signal
<1>8. CASE StartAgain
  BY <1>8 DEF StartAgain
<1>9. CASE BucketFails
  BY <1>9 DEF BucketFails
<1>10. CASE BucketRecovers
  BY <1>10 DEF BucketRecovers
<1>11. CASE Elapse
  BY <1>11 DEF Elapse
<1>12. ASSUME NEW c \in Children, KeysArrive(c) PROVE RequestInv(r)' /\ TroubleInv(r)'
  BY <1>12 DEF KeysArrive, AwaitsKeys
<1>13. ASSUME NEW c \in Children, KeysFail(c) PROVE RequestInv(r)' /\ TroubleInv(r)'
  BY <1>13 DEF KeysFail, AwaitsKeys
<1> QED
  BY <1>1, <1>2, <1>3, <1>4, <1>5, <1>6, <1>7, <1>8, <1>9, <1>10, <1>11, <1>12, <1>13
  DEF Surroundings, Lifecycle

\* The clock moves what is believed of the bucket and how long it is down together.
LEMMA SurroundingsProcess ==
    ASSUME ServingInv, Surroundings
    PROVE  ProbeInv' /\ ProcessInv'
<1> USE DEF ServingInv, ProbeInv, ProcessInv, configVars, processVars, authVars, probeVars,
            connectionVars
<1>1. ASSUME NEW c \in Children, Trouble(c) \/ Recover(c) PROVE ProbeInv' /\ ProcessInv'
  BY <1>1 DEF Trouble, Recover
<1>2. CASE Shutdown \/ Drained \/ Return \/ AcceptFails \/ CloseBucket \/ Signal
  BY <1>2 DEF Shutdown, Drained, Return, AcceptFails, CloseBucket, Signal
<1>3. CASE WindowExpires
  BY <1>3 DEF WindowExpires, ServingTypeOK
<1>4. CASE Exit
  BY <1>4 DEF Exit, Over, ServingTypeOK
<1>5. CASE StartAgain
  BY <1>5 DEF StartAgain
<1>6. CASE BucketFails \/ BucketRecovers
  BY <1>6, ProbeAssumption DEF BucketFails, BucketRecovers, ServingTypeOK, Horizon
<1>7. CASE Elapse
  BY <1>7, ProbeAssumption DEF Elapse, ServingTypeOK, Horizon, Pinging
<1>8. ASSUME NEW c \in Children, KeysArrive(c) \/ KeysFail(c) PROVE ProbeInv' /\ ProcessInv'
  BY <1>8 DEF KeysArrive, KeysFail, AwaitsKeys
<1> QED
  BY <1>1, <1>2, <1>3, <1>4, <1>5, <1>6, <1>7, <1>8 DEF Surroundings, Lifecycle

\* The invariant holds in every reachable state.
LEMMA ServingHolds == ServingSpec => []ServingInv
<1>1. ServingInit => ServingInv
  <2> SUFFICES ASSUME ServingInit, ServingTypeOK PROVE ServingInv
    BY ServingInitTyped
  <2>1. ProcessInv /\ ProbeInv
    BY DEF ServingInit, ProcessInv, ProbeInv
  <2>2. \A r \in Connections : RequestInv(r) /\ TroubleInv(r)
    BY DEF ServingInit, RequestInv, TroubleInv, Authenticating, Pinging
  <2> QED
    BY <2>1, <2>2 DEF ServingInv
<1>2. ServingInv /\ [ServingNext]_servingVars => ServingInv'
  <2> SUFFICES ASSUME ServingInv, [ServingNext]_servingVars PROVE ServingInv'
    OBVIOUS
  <2>1. ServingTypeOK'
    BY ServingStepTyped DEF ServingInv
  <2>2. ASSUME NEW r \in Connections, Handle(r) PROVE ServingInv'
    <3>1. ASSUME NEW q \in Connections \ {r} PROVE RequestInv(q)' /\ TroubleInv(q)'
      <4>1. /\ pc'[q] = pc[q] /\ token'[q] = token[q] /\ op'[q] = op[q]
            /\ gone'[q] = gone[q] /\ disturbed'[q] = disturbed[q]
        BY <2>2, OthersStay DEF ServingInv
      <4>2. UNCHANGED <<configVars, processVars, issuer, backend>>
        BY <2>2, HandleFrame
      <4>3. RequestInv(q)'
        BY <4>1, <4>2 DEF ServingInv, RequestInv, configVars, processVars, Child, Subject
      <4>4. pc[q] = "keys" /\ keyFetch'[Child(q)] = "doomed" => disturbed[q]
        BY <2>2, HandleKeys, ChildInChain DEF ServingInv, RequestInv, TroubleInv, Authenticating
      <4> QED
        BY <4>1, <4>2, <4>3, <4>4 DEF ServingInv, TroubleInv, processVars, Cancelled, Child
    <3> QED
      BY <2>1, <2>2, <3>1, RequestStep, TroubleStep, HandleProcess DEF ServingInv
  <2>3. CASE Surroundings
    BY <2>1, <2>3, SurroundingsRequest, SurroundingsProcess DEF ServingInv
  <2>4. CASE UNCHANGED servingVars
    <3>1. ProcessInv' /\ ProbeInv'
      BY <2>4 DEF ServingInv, servingVars, ProcessInv, ProbeInv
    <3>2. \A r \in Connections : RequestInv(r)' /\ TroubleInv(r)'
      BY <2>4 DEF ServingInv, servingVars, RequestInv, TroubleInv, Cancelled, Child, Subject
    <3> QED
      BY <2>1, <3>1, <3>2 DEF ServingInv
  <2> QED
    BY <2>2, <2>3, <2>4, ServingSteps
<1> QED
  BY <1>1, <1>2, PTL DEF ServingSpec

\* Only who is entitled gets to the bucket: for any chain of issuers, any tokens and any
\* policy, a request that runs presented a genuine token of an issuer of the chain, whose
\* own claims satisfy a matcher of the operation's role (oidc.Authenticate,
\* compiledPolicy.Authorize); with authentication off, a matcher for anonymous subjects.
THEOREM OnlyEntitledEverAct == ServingSpec => []OnlyEntitledAct
<1>1. ServingInv => OnlyEntitledAct
  <2> SUFFICES ASSUME ServingInv, NEW r \in Connections, pc[r] = "run"
               PROVE  \E m \in Role(policy, op[r]) :
                        IF disabled THEN m.kind = "anonymous"
                        ELSE token[r].genuine /\ Claimed(token[r]) # {} /\ Entitles(m, token[r])
    BY DEF OnlyEntitledAct
  <2>1. PICK m \in Role(policy, op[r]) : Matches(m, Subject(r))
    BY DEF ServingInv, RequestInv, Authorizes
  <2>2. IF disabled THEN m.kind = "anonymous" ELSE Entitles(m, token[r])
    BY <2>1, MatchesEntitle DEF Subject
  <2> QED
    BY <2>2 DEF ServingInv, RequestInv
<1> QED
  BY <1>1, ServingHolds, PTL

\* Outages leave no trace: whatever discoveries (getVerifier) and pings (prober.probe) of
\* other requests have failed, a genuine token is refused and a probe fails only if an
\* outage, a timeout, a cancellation or the end of the process met the request itself, or
\* an outage the fetch of its issuer's keys that it joined (verifier.Verify).
THEOREM OutagesAlwaysForgotten == ServingSpec => []OutagesAreForgotten
<1>1. ServingInv => OutagesAreForgotten
  BY DEF ServingInv, TroubleInv, OutagesAreForgotten
<1> QED
  BY <1>1, ServingHolds, PTL

\* Readiness is never older than readyCacheTTL and readyTimeout together, for any values
\* of the two: a cached success was of a ping that took at most readyTimeout.
THEOREM ReadinessAlwaysRecent == ServingSpec => ReadyIsRecent
<1>1. ServingInv /\ [ServingNext]_servingVars =>
        [\A r \in Connections :
           pc[r] # "ready" /\ pc'[r] = "ready" => down <= ReadyTTL + ReadyTimeout]_servingVars
  <2> SUFFICES ASSUME ServingInv, [ServingNext]_servingVars, NEW r \in Connections,
                      pc[r] # "ready", pc'[r] = "ready"
               PROVE  down <= ReadyTTL + ReadyTimeout
    OBVIOUS
  <2>1. Handle(r)
    <3>1. ~Surroundings
      BY DEF ServingInv, ServingTypeOK, Surroundings, Lifecycle, Trouble, Recover, KeysArrive,
         KeysFail, AwaitsKeys, Shutdown, Drained, WindowExpires, Return, CloseBucket, Exit,
         Over, Signal, AcceptFails, StartAgain, BucketFails, BucketRecovers, Elapse,
         connectionVars
    <3>2. ~UNCHANGED servingVars
      BY DEF servingVars
    <3>3. \A q \in Connections \ {r} : ~Handle(q)
      BY OthersStay DEF ServingInv
    <3> QED
      BY <3>1, <3>2, <3>3, ServingSteps
  <2>2. (Probe(r) /\ Cached) \/ PingAnswered(r)
    BY <2>1, OverForgets DEF ServingInv, ServingTypeOK, Handle, Authenticate, Connect, Receive,
       Lock, Discovered, DiscoveryFails, Verified, AwaitKeys, KeysAbandoned, Authorize, Forbid,
       Finish, CallCut, Probe, PingReaches, PingFails, Answered, Disconnect, Leave, Goto,
       Answer, Over
  <2> QED
    BY <2>2, ProbeAssumption DEF ServingInv, ServingTypeOK, ProbeInv, Cached, PingAnswered,
       Horizon
<1> QED
  BY <1>1, ServingHolds, PTL DEF ServingSpec, ReadyIsRecent

\* No handler loses the bucket to a shutdown that is in time: command.serve's deferred
\* cleanup runs after serving.Serve returned, which waits for every connection.
THEOREM BucketAlwaysOutlives == ServingSpec => BucketOutlivesRequests
<1>1. ServingInv /\ [ServingNext]_servingVars =>
        [main # "exiting" /\ main' = "exiting" =>
           main = "broken" \/ overdue \/ \A r \in Connections : pc[r] = "off"]_servingVars
  <2> SUFFICES ASSUME ServingInv, [ServingNext]_servingVars,
                      main # "exiting", main' = "exiting"
               PROVE  main = "broken" \/ overdue \/ \A r \in Connections : pc[r] = "off"
    OBVIOUS
  <2>1. \A r \in Connections : ~Handle(r)
    BY HandleFrame DEF processVars
  <2>2. ~UNCHANGED servingVars
    BY DEF servingVars
  <2>3. CloseBucket
    <3>1. Surroundings
      BY <2>1, <2>2, ServingSteps
    <3> QED
      BY <3>1 DEF Surroundings, Lifecycle, Trouble, Recover, KeysArrive, KeysFail, AwaitsKeys,
         Shutdown, Drained, WindowExpires, Return, Exit, Signal, AcceptFails, StartAgain,
         BucketFails, BucketRecovers, Elapse, processVars
  <2> QED
    BY <2>3 DEF CloseBucket, ServingInv, ProcessInv
<1> QED
  BY <1>1, ServingHolds, PTL DEF ServingSpec, BucketOutlivesRequests

\* The mutex of an authenticator is held by exactly the request that discovers its issuer.
HeldToDiscover ==
    \A c \in Children, r \in Connections : holder[c] = r <=> pc[r] = "discover" /\ Child(r) = c

\* Steps that neither lock nor unlock leave who discovers alone.
LEMMA DiscoverersStay ==
    ASSUME ServingInv, HeldToDiscover, NEW r \in Connections, Handle(r),
           ~Lock(r), ~Discovered(r), ~DiscoveryFails(r)
    PROVE  HeldToDiscover'
<1>1. UNCHANGED holder
  BY DEF Handle, Authenticate, Connect, Receive, Verified, AwaitKeys, KeysAbandoned, Authorize,
     Forbid, Finish, CallCut, Probe, PingReaches, PingAnswered, PingFails, Answered, Disconnect,
     Leave, authVars
<1>2. \/ pc[r] # "discover" /\ pc'[r] # "discover"
      \/ pc'[r] = pc[r] /\ token'[r] = token[r]
  BY OverForgets DEF ServingInv, ServingTypeOK, Handle, Authenticate, Connect, Receive,
     Verified, AwaitKeys, KeysAbandoned, Authorize, Forbid, Finish, CallCut, Probe, PingReaches,
     PingAnswered, PingFails, Answered, Disconnect, Leave, Goto, Answer, Answers, Pinging
<1>3. \A q \in Connections \ {r} : pc'[q] = pc[q] /\ token'[q] = token[q]
  BY OthersStay DEF ServingInv
<1> QED
  BY <1>1, <1>2, <1>3 DEF HeldToDiscover, Child

\* For any number of requests and any interleaving of outages, departures and restarts,
\* getVerifier's mutex is held for a discovery and for nothing else: one discovery of an
\* issuer runs at a time, and no failed or cancelled one keeps the mutex.
THEOREM OneDiscoveryAtATime == ServingSpec => []HeldToDiscover
<1>1. ServingInit => HeldToDiscover
  BY NobodyAssumption DEF ServingInit, HeldToDiscover
<1>2. ServingInv /\ HeldToDiscover /\ [ServingNext]_servingVars => HeldToDiscover'
  <2> SUFFICES ASSUME ServingInv, HeldToDiscover, [ServingNext]_servingVars PROVE HeldToDiscover'
    OBVIOUS
  <2>1. ASSUME NEW r \in Connections, Lock(r) \/ Discovered(r) \/ DiscoveryFails(r)
        PROVE  HeldToDiscover'
    <3>1. Child(r) \in Children
      <4>1. Claimed(token[r]) # {}
        BY <2>1 DEF ServingInv, RequestInv, Authenticating, Lock, Discovered, DiscoveryFails
      <4> QED
        BY <4>1, ResponsibleClaimed DEF Child, Claimed
    <3>2. token' = token
      BY <2>1 DEF Lock, Discovered, DiscoveryFails
    <3>3. CASE Lock(r)
      BY <3>1, <3>2, <3>3, NobodyAssumption DEF ServingInv, ServingTypeOK, HeldToDiscover, Lock,
         Goto, Child
    <3>4. CASE Discovered(r) \/ DiscoveryFails(r)
      BY <3>1, <3>2, <3>4, NobodyAssumption DEF ServingInv, ServingTypeOK, HeldToDiscover,
         Discovered, DiscoveryFails, Goto, Child
    <3> QED
      BY <2>1, <3>3, <3>4
  <2>2. CASE Surroundings
    <3>1. CASE Exit
      BY <3>1, NobodyAssumption DEF Exit, Over, HeldToDiscover
    <3>2. CASE ~Exit
      <4>1. holder' = holder /\ token' = token
        BY <2>2, <3>2 DEF Surroundings, Lifecycle, Trouble, Recover, KeysArrive, KeysFail,
           AwaitsKeys, Shutdown, Drained, WindowExpires, Return, CloseBucket, Signal,
           AcceptFails, StartAgain, BucketFails, BucketRecovers, Elapse, authVars,
           connectionVars
      <4>2. \A r \in Connections : pc'[r] = "discover" <=> pc[r] = "discover"
        BY <2>2, <3>2 DEF Surroundings, Lifecycle, Trouble, Recover, KeysArrive, KeysFail,
           AwaitsKeys, Shutdown, Drained, WindowExpires, Return, CloseBucket, Signal,
           AcceptFails, StartAgain, BucketFails, BucketRecovers, Elapse, connectionVars
      <4> QED
        BY <4>1, <4>2 DEF HeldToDiscover, Child
    <3> QED
      BY <3>1, <3>2
  <2>3. CASE UNCHANGED servingVars
    BY <2>3 DEF servingVars, HeldToDiscover, Child
  <2> QED
    BY <2>1, <2>2, <2>3, DiscoverersStay, ServingSteps
<1> QED
  BY <1>1, <1>2, ServingHolds, PTL DEF ServingSpec
=============================================================================
