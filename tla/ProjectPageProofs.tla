------------------------- MODULE ProjectPageProofs -------------------------
(* Proofs about ProjectPage, for any number of replicas, uploads, requests,  *)
(* files and versions, and without a bound on the generation.                *)
EXTENDS ProjectPage, TLAPS

\* The variables hold what the upload handler, projectCache and
\* buildProjectPage can hold.
THEOREM TypeCorrect == Spec => []TypeOK
<1>1. Init => TypeOK
  <2> SUFFICES ASSUME Init PROVE TypeOK
    OBVIOUS
  <2>1. page \in [Requests -> Pages]
    BY DEF Init, Pages
  <2>2. cached \in [Processes -> {Nothing} \cup Pages]
    BY DEF Init
  <2>3. /\ acked \in [Processes -> SUBSET Files] /\ due \in [Requests -> SUBSET Files]
        /\ unlisted \in [Requests -> SUBSET Versions] /\ unread \in [Requests -> SUBSET Files]
    BY DEF Init
  <2> QED
    BY <2>1, <2>2, <2>3 DEF Init, TypeOK, UploadSteps, RequestSteps
<1>2. TypeOK /\ [Next]_vars => TypeOK'
  <2> SUFFICES ASSUME TypeOK, [Next]_vars PROVE TypeOK'
    OBVIOUS
  <2> USE DEF TypeOK, UploadSteps, RequestSteps, objectVars, cacheVars, uploadVars,
              requestVars, historyVars
  <2>1. ASSUME NEW u \in Uploads, Publish(u) PROVE TypeOK'
    <3>1. CASE Upload(u) BY <3>1 DEF Upload
    <3>2. CASE AddPackage(u) BY <3>2 DEF AddPackage
    <3>3. CASE AddVersion(u) BY <3>3, VersionOfAssumption DEF AddVersion
    <3>4. CASE CommitBlob(u) BY <3>4 DEF CommitBlob
    <3>5. CASE WriteSidecar(u) BY <3>5 DEF WriteSidecar
    <3>6. CASE UploadFails(u) BY <3>6 DEF UploadFails
    <3>7. CASE Invalidate(u) BY <3>7 DEF Invalidate
    <3>8. CASE Answer(u) BY <3>8 DEF Answer
    <3> QED BY <2>1, <3>1, <3>2, <3>3, <3>4, <3>5, <3>6, <3>7, <3>8 DEF Publish
  <2>2. ASSUME NEW r \in Requests, Begin(r) PROVE TypeOK'
    BY <2>2 DEF Begin, Pages
  <2>3. ASSUME NEW r \in Requests, Proceed(r) PROVE TypeOK'
    <3>1. CASE Hit(r) BY <3>1 DEF Hit
    <3>2. CASE Miss(r) BY <3>2 DEF Miss
    <3>3. CASE ListVersions(r) BY <3>3 DEF ListVersions
    <3>4. ASSUME NEW v \in Versions, ListFiles(r, v) PROVE TypeOK' BY <3>4 DEF ListFiles
    <3>5. ASSUME NEW f \in Files, ReadMeta(r, f) PROVE TypeOK'
      <4>1. page[r] \cup {[file |-> f, described |-> f \in sidecars]} \in Pages
        <5>1. [file |-> f, described |-> f \in sidecars] \in Links
          BY DEF Links
        <5>2. page[r] \in Pages
          OBVIOUS
        <5> QED
          BY <5>1, <5>2 DEF Pages
      <4>2. page' \in [Requests -> Pages]
        BY <3>5, <4>1 DEF ReadMeta
      <4> QED
        BY <3>5, <4>2 DEF ReadMeta
    <3>6. CASE Store(r) BY <3>6 DEF Store
    <3> QED BY <2>3, <3>1, <3>2, <3>3, <3>4, <3>5, <3>6 DEF Proceed
  <2>4. ASSUME NEW r \in Requests, LoadFails(r) PROVE TypeOK'
    BY <2>4 DEF LoadFails, Pages
  <2>5. ASSUME NEW p \in Processes, Expire(p) PROVE TypeOK'
    BY <2>5 DEF Expire
  <2>6. CASE UNCHANGED vars
    BY <2>6 DEF vars
  <2> QED
    BY <2>1, <2>2, <2>3, <2>4, <2>5, <2>6 DEF Next
<1> QED
  BY <1>1, <1>2, PTL DEF Spec
-----------------------------------------------------------------------------
\* A step of an upload keeps PageInv.
LEMMA PublishStep ==
    ASSUME TypeOK, PageInv, NEW u \in Uploads, Publish(u)
    PROVE  PageInv'
<1> USE DEF PageInv, UploadInv, UploadsAreListed
<1>1. UNCHANGED requestVars /\ due' = due
  BY DEF Publish, Upload, AddPackage, AddVersion, CommitBlob, WriteSidecar, UploadFails,
         Invalidate, Answer, objectVars, historyVars
<1>2. /\ versions \subseteq versions' /\ blobs \subseteq blobs' /\ sidecars \subseteq sidecars'
  BY DEF Publish, Upload, AddPackage, AddVersion, CommitBlob, WriteSidecar, UploadFails,
         Invalidate, Answer, objectVars
<1>3. /\ \A w \in Uploads \ {u} : UNCHANGED <<upc[w], file[w], host[w]>>
      /\ \A w \in Uploads : UNCHANGED <<file[w], host[w]>> \/ upc'[w] = "package"
  BY DEF TypeOK, Publish, Upload, AddPackage, AddVersion, CommitBlob, WriteSidecar, UploadFails,
         Invalidate, Answer
<1>4. \A w \in Uploads : UploadInv(w)'
  <2>1. \A w \in Uploads \ {u} : UploadInv(w)'
    BY <1>2, <1>3
  <2>2. UploadInv(u)'
    BY <1>2 DEF TypeOK, Publish, Upload, AddPackage, AddVersion, CommitBlob, WriteSidecar,
                UploadFails, Invalidate, Answer, objectVars
  <2> QED
    BY <2>1, <2>2
<1>5. \A r \in Requests : \A f : WillList(r, f)' <=> WillList(r, f)
  BY <1>1 DEF WillList, requestVars, Described
<1>6. ASSUME ~Invalidate(u), ~Answer(u) PROVE PageInv'
  <2>1. UNCHANGED <<cacheVars, acked>> /\ upc[u] # "answer" /\ upc'[u] # "answer"
    BY <1>6 DEF TypeOK, Publish, Upload, AddPackage, AddVersion, CommitBlob, WriteSidecar,
                UploadFails, historyVars
  <2>2. \A p \in Processes : Announced(p)' = Announced(p)
    BY <1>3, <2>1 DEF Announced
  <2> QED
    BY <1>1, <1>2, <1>4, <1>5, <2>1, <2>2
       DEF cacheVars, requestVars, Settled, Loading, LoadIsCurrent, Described, TypeOK
<1>7. CASE Invalidate(u)
  <2>1. /\ UNCHANGED <<objectVars, acked>> /\ cached'[host[u]] = Nothing
        /\ generation'[host[u]] = generation[host[u]] + 1
        /\ \A p \in Processes \ {host[u]} : cached'[p] = cached[p] /\ generation'[p] = generation[p]
        /\ host' = host /\ file' = file /\ upc[u] = "invalidate"
    BY <1>7 DEF Invalidate, historyVars, TypeOK
  <2>2. \A p \in Processes \ {host[u]} : Announced(p)' = Announced(p)
    BY <1>3, <2>1 DEF Announced
  <2>3. \A r \in Requests : started[r] \in Nat /\ generation[server[r]] \in Nat /\ server[r] \in Processes
    BY DEF TypeOK
  <2>4. \A r \in Requests : server[r] = host[u] /\ Loading(r) => ~LoadIsCurrent(r)'
    BY <1>1, <2>1, <2>3 DEF LoadIsCurrent, requestVars
  <2>5. \A p \in Processes : cached'[p] # Nothing => p # host[u] /\ cached'[p] = cached[p]
    BY <2>1
  <2> QED
    BY <1>1, <1>4, <1>5, <2>1, <2>2, <2>3, <2>4, <2>5
       DEF objectVars, requestVars, Settled, Loading, LoadIsCurrent, Described
<1>8. CASE Answer(u)
  <2>1. /\ UNCHANGED <<objectVars, cacheVars, file, host>> /\ upc[u] = "answer" /\ upc'[u] = "idle"
        /\ acked'[host[u]] = acked[host[u]] \cup {file[u]}
        /\ \A p \in Processes \ {host[u]} : acked'[p] = acked[p]
    BY <1>8 DEF Answer, TypeOK
  <2>2. \A p \in Processes : Announced(p)' = Announced(p)
    BY <1>3, <2>1 DEF Announced
  <2>3. file[u] \in blobs /\ file[u] \in sidecars /\ VersionOf[file[u]] \in versions
    BY <2>1
  <2>4. \A p \in Processes, f \in Files : f \in acked'[p] => f \in acked[p] \/ f = file[u]
    BY <2>1
  <2>5. \A p \in Processes, f \in Files : f \in acked'[p] => Settled(f)'
    BY <2>1, <2>3, <2>4 DEF Settled, objectVars
  <2>6. \A p \in Processes : acked[p] \subseteq acked'[p]
    BY <2>1
  <2>7. \A r \in Requests : server[r] \in Processes
    BY DEF TypeOK
  <2> QED
    BY <1>1, <1>4, <1>5, <2>1, <2>2, <2>5, <2>6, <2>7
       DEF cacheVars, requestVars, Loading, LoadIsCurrent, Described
<1> QED
  BY <1>6, <1>7, <1>8

\* What stays of PageInv when objects and uploads do: the parts about the cache
\* and about each request.
LEMMA PageInvKept ==
    ASSUME PageInv, UNCHANGED <<objectVars, uploadVars, acked, generation>>,
           \A p \in Processes : cached'[p] # Nothing =>
               \A f \in Announced(p) : Described(f) \in cached'[p],
           \A r \in Requests :
              \/ UNCHANGED <<rpc[r], server[r], started[r], unlisted[r], unread[r], page[r], due[r]>>
              \/ /\ due'[r] \subseteq acked[server'[r]]
                 /\ Loading(r)' => started'[r] <= generation[server'[r]]
                 /\ Loading(r)' => \A f \in due'[r] : WillList(r, f)'
                 /\ Loading(r)' /\ LoadIsCurrent(r)' => \A f \in Announced(server'[r]) : WillList(r, f)'
                 /\ rpc'[r] = "served" => \A f \in due'[r] : Described(f) \in page'[r]
    PROVE  PageInv'
<1>1. \A p : Announced(p)' = Announced(p)
  BY DEF Announced, uploadVars
<1>2. \A u \in Uploads : UploadInv(u)'
  BY DEF PageInv, UploadInv, uploadVars, objectVars
<1>3. \A f : Settled(f)' <=> Settled(f)
  BY DEF Settled, objectVars
<1> QED
  BY <1>1, <1>2, <1>3
     DEF PageInv, UploadsAreListed, Loading, LoadIsCurrent, WillList, Described

\* A step of a page request keeps PageInv.
LEMMA RequestStep ==
    ASSUME TypeOK, PageInv, NEW r \in Requests, Begin(r) \/ Proceed(r) \/ LoadFails(r)
    PROVE  PageInv'
<1> USE DEF TypeOK
<1>1. /\ UNCHANGED <<objectVars, uploadVars, acked, generation>>
      /\ \A q \in Requests \ {r} :
            UNCHANGED <<rpc[q], server[q], started[q], unlisted[q], unread[q], page[q], due[q]>>
  BY DEF Begin, Proceed, LoadFails, Hit, Miss, ListVersions, ListFiles, ReadMeta, Store,
         cacheVars, uploadVars, historyVars
<1>2. \A p \in Processes : cached[p] # Nothing => \A f \in Announced(p) : Described(f) \in cached[p]
  BY DEF PageInv
<1>3. /\ due[r] \subseteq acked[server[r]] /\ server[r] \in Processes
      /\ \A f \in acked[server[r]] : f \in Announced(server[r])
      /\ \A f \in Announced(server[r]) : f \in Files /\ Settled(f)
  BY DEF PageInv, UploadInv, Announced, Settled
<1>4. /\ Loading(r) => started[r] <= generation[server[r]]
      /\ Loading(r) => \A f \in due[r] : WillList(r, f)
      /\ Loading(r) /\ LoadIsCurrent(r) => \A f \in Announced(server[r]) : WillList(r, f)
  BY DEF PageInv
<1>5. CASE Begin(r)
  <2>1. /\ rpc'[r] = "get" /\ due'[r] = acked[server'[r]] /\ cached' = cached
    BY <1>5 DEF Begin, cacheVars
  <2> QED
    BY <1>1, <1>2, <2>1, PageInvKept DEF Loading
<1>6. CASE Hit(r)
  <2>1. /\ rpc'[r] = "served" /\ page'[r] = cached[server[r]] /\ cached[server[r]] # Nothing
        /\ cached' = cached /\ due' = due /\ server' = server
    BY <1>6 DEF Hit, cacheVars, historyVars
  <2>2. \A f \in due'[r] : Described(f) \in page'[r]
    BY <1>2, <1>3, <2>1
  <2> QED
    BY <1>1, <1>2, <1>3, <2>1, <2>2, PageInvKept DEF Loading
<1>7. CASE Miss(r)
  <2>1. /\ rpc'[r] = "versions" /\ started'[r] = generation[server[r]] /\ generation[server[r]] \in Nat
        /\ cached' = cached /\ due' = due /\ server' = server
    BY <1>7 DEF Miss, cacheVars, historyVars
  <2>2. \A f : WillList(r, f)'
    BY <2>1 DEF WillList
  <2> QED
    BY <1>1, <1>2, <1>3, <2>1, <2>2, PageInvKept
<1>8. ASSUME cached' = cached, due' = due, UNCHANGED <<server[r], started[r]>>,
             Loading(r), rpc'[r] = "files",
             \A f \in Announced(server[r]) : WillList(r, f) => WillList(r, f)'
      PROVE  PageInv'
  <2>1. \A f \in due[r] : WillList(r, f)'
    BY <1>3, <1>4, <1>8
  <2>2. LoadIsCurrent(r)' => LoadIsCurrent(r)
    BY <1>1, <1>8 DEF LoadIsCurrent
  <2> QED
    BY <1>1, <1>2, <1>3, <1>4, <1>8, <2>1, <2>2, PageInvKept
<1>9. CASE ListVersions(r)
  <2>1. /\ unlisted'[r] = versions /\ rpc'[r] = "files" /\ rpc[r] = "versions"
        /\ cached' = cached /\ due' = due /\ server' = server /\ started' = started
    BY <1>9 DEF ListVersions, cacheVars, historyVars
  <2>2. \A f \in Announced(server[r]) : WillList(r, f)'
    BY <1>3, <2>1 DEF WillList, Settled
  <2> QED
    BY <1>8, <2>1, <2>2 DEF Loading
<1>10. ASSUME NEW v \in Versions, ListFiles(r, v) PROVE PageInv'
  <2>1. /\ unlisted'[r] = unlisted[r] \ {v} /\ unread[r] = {}
        /\ unread'[r] = {f \in blobs : VersionOf[f] = v}
        /\ rpc[r] = "files" /\ rpc' = rpc /\ page' = page
        /\ cached' = cached /\ due' = due /\ server' = server /\ started' = started
    BY <1>10 DEF ListFiles, cacheVars, historyVars
  <2>2. ASSUME NEW f \in Announced(server[r]), WillList(r, f) PROVE WillList(r, f)'
    BY <1>3, <2>1, <2>2 DEF WillList, Settled, Described
  <2> QED
    BY <1>8, <2>1, <2>2 DEF Loading
<1>11. ASSUME NEW g \in Files, ReadMeta(r, g) PROVE PageInv'
  <2>1. /\ unread'[r] = unread[r] \ {g} /\ unlisted' = unlisted
        /\ page'[r] = page[r] \cup {[file |-> g, described |-> g \in sidecars]}
        /\ rpc[r] = "files" /\ rpc' = rpc
        /\ cached' = cached /\ due' = due /\ server' = server /\ started' = started
    BY <1>11 DEF ReadMeta, cacheVars, historyVars
  <2>2. ASSUME NEW f \in Announced(server[r]), WillList(r, f) PROVE WillList(r, f)'
    <3>1. CASE f = g
      <4>1. (g \in sidecars) = TRUE
        BY <1>3, <3>1 DEF Settled
      <4>2. Described(f) \in page'[r]
        BY <2>1, <3>1, <4>1 DEF Described
      <4> QED
        BY <4>2 DEF WillList, Described
    <3>2. CASE f # g
      BY <2>1, <2>2, <3>2 DEF WillList, Described
    <3> QED
      BY <3>1, <3>2
  <2> QED
    BY <1>8, <2>1, <2>2 DEF Loading
<1>12. CASE Store(r)
  <2>1. /\ rpc[r] = "files" /\ rpc'[r] = "served" /\ page' = page /\ due' = due /\ server' = server
        /\ unlisted[r] = {} /\ unread[r] = {}
        /\ cached' = IF LoadIsCurrent(r) THEN [cached EXCEPT ![server[r]] = page[r]] ELSE cached
    BY <1>12 DEF Store, historyVars
  <2>2. \A f : WillList(r, f) => Described(f) \in page[r]
    BY <2>1 DEF WillList
  <2>3. \A f \in due[r] : Described(f) \in page[r]
    BY <1>4, <2>1, <2>2 DEF Loading
  <2>4. ASSUME NEW p \in Processes, cached'[p] # Nothing, NEW f \in Announced(p)
        PROVE  Described(f) \in cached'[p]
    <3>1. CASE LoadIsCurrent(r) /\ p = server[r]
      <4>1. cached'[p] = page[r]
        BY <2>1, <3>1
      <4> QED
        BY <1>4, <2>1, <2>2, <3>1, <4>1 DEF Loading
    <3>2. CASE ~(LoadIsCurrent(r) /\ p = server[r])
      <4>1. cached'[p] = cached[p]
        BY <2>1, <3>2
      <4> QED
        BY <1>2, <2>4, <4>1
    <3> QED
      BY <3>1, <3>2
  <2> QED
    BY <1>1, <1>3, <2>1, <2>3, <2>4, PageInvKept DEF Loading, Described
<1>13. CASE LoadFails(r)
  <2>1. rpc'[r] = "idle" /\ cached' = cached /\ due' = due /\ server' = server
    BY <1>13 DEF LoadFails, cacheVars, historyVars
  <2> QED
    BY <1>1, <1>2, <1>3, <2>1, PageInvKept DEF Loading
<1> QED
  BY <1>5, <1>6, <1>7, <1>9, <1>10, <1>11, <1>12, <1>13 DEF Proceed
-----------------------------------------------------------------------------
LEMMA PageInvariant == Spec => []PageInv
<1>1. Init => PageInv
  <2> SUFFICES ASSUME Init PROVE PageInv
    OBVIOUS
  <2>1. /\ \A u \in Uploads : upc[u] = "idle"
        /\ \A p \in Processes : cached[p] = Nothing /\ acked[p] = {}
        /\ \A r \in Requests : rpc[r] = "idle" /\ due[r] = {}
    BY DEF Init
  <2> QED
    BY <2>1 DEF PageInv, UploadInv, UploadsAreListed, Loading
<1>2. TypeOK /\ PageInv /\ [Next]_vars => PageInv'
  <2> SUFFICES ASSUME TypeOK, PageInv, [Next]_vars PROVE PageInv'
    OBVIOUS
  <2>1. ASSUME NEW p \in Processes, Expire(p) PROVE PageInv'
    <3>1. /\ UNCHANGED <<objectVars, uploadVars, requestVars, historyVars, generation>>
          /\ \A q \in Processes : cached'[q] # Nothing => cached'[q] = cached[q]
      BY <2>1 DEF Expire, TypeOK
    <3>2. \A q \in Processes : cached'[q] # Nothing =>
              \A f \in Announced(q) : Described(f) \in cached'[q]
      BY <3>1 DEF PageInv
    <3> QED
      BY <3>1, <3>2, PageInvKept DEF requestVars, historyVars
  <2>2. CASE UNCHANGED vars
    <3>1. \A q \in Processes : cached'[q] # Nothing =>
              \A f \in Announced(q) : Described(f) \in cached'[q]
      BY <2>2 DEF PageInv, vars
    <3> QED
      BY <2>2, <3>1, PageInvKept DEF vars, objectVars, uploadVars
  <2> QED
    BY <2>1, <2>2, PublishStep, RequestStep DEF Next
<1> QED
  BY <1>1, <1>2, TypeCorrect, PTL DEF Spec

\* A page that a process starts to serve after it has answered an upload lists
\* the file with its metadata (handler.upload, projectCache, buildProjectPage).
THEOREM AnsweredUploadsAreListed == Spec => []UploadsAreListed
<1>1. PageInv => UploadsAreListed
  BY DEF PageInv
<1> QED
  BY <1>1, PageInvariant, PTL

\* No process caches a page that lacks a file it has answered an upload for
\* (projectCache.get keeps a load only if no upload invalidated meanwhile).
THEOREM CachedPagesAreCurrent == Spec => []CacheIsCurrent
<1>1. PageInv => CacheIsCurrent
  BY DEF PageInv, CacheIsCurrent, Announced
<1> QED
  BY <1>1, PageInvariant, PTL
=============================================================================
