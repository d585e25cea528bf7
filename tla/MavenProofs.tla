----------------------------- MODULE MavenProofs -----------------------------
(* Proofs about Maven, for any number of contents, metadata documents,       *)
(* uploads and downloads, hosted and proxied.                                *)
EXTENDS Maven, TLAPS

\* Only requests for metadata documents take the steps of metadata.
WantInv ==
    \A r \in Requests : rpc[r] \in Steps \ {"metadata", "live"} => want[r] \in Files

\* Only what is asked for is marked as missing.
LEMMA Marks ==
    ASSUME TypeOK, NEW r \in Requests, NotFound(r) \/ UNCHANGED negative
    PROVE  negative' \subseteq Files \cup Docs
<1>1. want[r] \in Files \cup Docs
  BY DEF TypeOK
<1>2. negative \subseteq Files \cup Docs
  BY DEF TypeOK
<1> QED BY <1>1, <1>2 DEF NotFound

\* Every reachable state is well typed, and no step reads the store at a document.
LEMMA TypeInvariant == Spec => [](TypeOK /\ WantInv)
<1>1. Init => TypeOK /\ WantInv
  BY DEF Init, TypeOK, WantInv, Files, Steps, Answers, UploadSteps
<1>2. TypeOK /\ WantInv /\ [Next]_vars => TypeOK' /\ WantInv'
  <2> SUFFICES ASSUME TypeOK, WantInv, [Next]_vars
               PROVE  TypeOK' /\ WantInv'
    OBVIOUS
  <2> USE DEF TypeOK, WantInv, Files, Records, Steps, Answers, UploadSteps, Refusals, Goto, UploadAt,
          spaceVars, upstreamVars, uploadVars, requestVars
  <2>1. ASSUME NEW x \in Files \cup Docs, Offer(x)
        PROVE  TypeOK' /\ WantInv'
    BY <2>1 DEF Offer
  <2>2. CASE Redeploy
    BY <2>2 DEF Redeploy
  <2>3. ASSUME NEW keys, NegativeExpires(keys)
        PROVE  TypeOK' /\ WantInv'
    BY <2>3 DEF NegativeExpires
  <2>4. ASSUME NEW u \in Uploads, Put(u)
        PROVE  TypeOK' /\ WantInv'
    <3>1. CASE Upload(u)
      BY <3>1 DEF Upload
    <3>2. CASE VerifyChecksum(u) \/ VerifyFails(u)
      BY <3>2 DEF VerifyChecksum, VerifyFails
    <3>3. CASE EnsureParents(u)
      BY <3>3 DEF EnsureParents
    <3>4. CASE WriteFile(u)
      BY <3>4 DEF WriteFile
    <3> QED BY <2>4, <3>1, <3>2, <3>3, <3>4 DEF Put
  <2>5. ASSUME NEW r \in Requests, Get(r)
        PROVE  TypeOK' /\ WantInv'
    <3>1. CASE Begin(r)
      BY <3>1 DEF Begin, Paths, FirstStep
    <3>2. CASE Open(r)
      BY <3>2 DEF Open, Serve
    <3>3. CASE Look(r)
      BY <3>3 DEF Look
    <3>4. CASE LookNegative(r)
      BY <3>4 DEF LookNegative
    <3>5. CASE Filter(r)
      BY <3>5 DEF Filter
    <3>6. CASE Head(r)
      <4>1. negative' \subseteq Files \cup Docs
        BY <3>6, Marks DEF Head
      <4>2. WantInv'
        BY <3>6 DEF Head, Serve, NotFound
      <4> QED BY <3>6, <4>1, <4>2 DEF Head, Serve, NotFound
    <3>7. CASE Stream(r)
      <4>1. negative' \subseteq Files \cup Docs
        BY <3>7, Marks DEF Stream
      <4>2. WantInv'
        BY <3>7 DEF Stream, NotFound
      <4> QED BY <3>7, <4>1, <4>2 DEF Stream, NotFound
    <3>8. CASE Tee(r)
      BY <3>8 DEF Tee, Kept
    <3>9. CASE RecordParents(r)
      BY <3>9 DEF RecordParents
    <3>10. CASE LookTarget(r)
      BY <3>10 DEF LookTarget
    <3>11. CASE Compute(r)
      BY <3>11 DEF Compute
    <3>12. CASE FetchChecksum(r)
      <4>1. negative' \subseteq Files \cup Docs
        BY <3>12, Marks DEF FetchChecksum
      <4>2. WantInv'
        BY <3>12 DEF FetchChecksum, NotFound
      <4> QED BY <3>12, <4>1, <4>2 DEF FetchChecksum, NotFound
    <3>13. CASE KeepChecksum(r)
      BY <3>13 DEF KeepChecksum, Kept, Serve
    <3>14. CASE LookMetadata(r)
      BY <3>14 DEF LookMetadata
    <3>15. CASE FetchMetadata(r)
      <4>1. negative' \subseteq Files \cup Docs
        BY <3>15, Marks DEF FetchMetadata
      <4>2. WantInv'
        BY <3>15 DEF FetchMetadata, Serve, NotFound
      <4> QED BY <3>15, <4>1, <4>2 DEF FetchMetadata, Serve, NotFound
    <3>16. CASE Break(r)
      BY <3>16 DEF Break
    <3> QED BY <2>5, <3>1, <3>2, <3>3, <3>4, <3>5, <3>6, <3>7, <3>8,
               <3>9, <3>10, <3>11, <3>12, <3>13, <3>14, <3>15, <3>16 DEF Get
  <2>6. CASE UNCHANGED vars
    BY <2>6 DEF vars
  <2> QED BY <2>1, <2>2, <2>3, <2>4, <2>5, <2>6 DEF Next
<1> QED BY <1>1, <1>2, PTL DEF Spec

\* Every reachable state of the space, its uploads and its downloads is well typed.
THEOREM TypeCorrect == Spec => []TypeOK
BY TypeInvariant, PTL
-----------------------------------------------------------------------------
\* An upload has its body and, from one step to the next, what let it pass: the records,
\* and for the checksum of a release the artifact it is of, which stays.
UploadInv(u) ==
    /\ upc[u] # "idle" => mode = "hosted" /\ body[u] # None
    /\ upc[u] = "write" => records = Records
    /\ ~overwritable /\ upc[u] \in {"parents", "write"} /\ file[u] = "checksum" =>
           stored["artifact"] = body[u]

\* What a release has in store is of one artifact.
FitInv ==
    ~overwritable =>
        /\ mode = "hosted" => stored["checksum"] \in {None, stored["artifact"]}
        /\ mode = "proxy" => \A f \in Files : stored[f] \in {None, original}

\* So is what a download of a release works with.
RequestInv(r) ==
    /\ mode = "hosted" => rpc[r] \in {"idle", "open"} \cup Answers
    /\ ~overwritable /\ want[r] \in Files =>
           got[r] \in {None, IF mode = "proxy" THEN original ELSE stored["artifact"]}

\* A download that is due stays on the steps that end in what is stored.
DueInv(r) ==
    due[r] => /\ want[r] \in Files /\ stored[want[r]] # None
              /\ rpc[r] \in {"look", "open", "served", "failed"}

IInv ==
    /\ FilesAreListed /\ FitInv
    /\ \A u \in Uploads : UploadInv(u)
    /\ \A r \in Requests : RequestInv(r) /\ DueInv(r)

\* Uploads of a hosted space.
LEMMA PutKeeps ==
    ASSUME TypeOK, IInv, NEW u \in Uploads, Put(u)
    PROVE  IInv'
<1> USE ModesAssumption, NoneAssumption DEF TypeOK, IInv, Files, Records, UploadSteps, Refusals,
        UploadAt, spaceVars, upstreamVars, uploadVars, requestVars
<1>1. CASE Upload(u)
  BY <1>1 DEF Upload, FilesAreListed, FitInv, UploadInv, RequestInv, DueInv
<1>2. CASE VerifyChecksum(u) \/ VerifyFails(u)
  BY <1>2 DEF VerifyChecksum, VerifyFails, FilesAreListed, FitInv, UploadInv, RequestInv, DueInv
<1>3. CASE EnsureParents(u)
  BY <1>3 DEF EnsureParents, FilesAreListed, FitInv, UploadInv, RequestInv, DueInv
<1>4. CASE WriteFile(u)
  <2>1. FilesAreListed' /\ FitInv'
    BY <1>4 DEF WriteFile, MayWrite, FilesAreListed, FitInv, UploadInv
  <2>2. ASSUME NEW v \in Uploads
        PROVE  UploadInv(v)'
    BY <1>4 DEF WriteFile, MayWrite, UploadInv
  <2>3. ASSUME NEW r \in Requests
        PROVE  RequestInv(r)' /\ DueInv(r)'
    BY <1>4 DEF WriteFile, MayWrite, FitInv, UploadInv, RequestInv, DueInv
  <2> QED BY <2>1, <2>2, <2>3
<1> QED BY <1>1, <1>2, <1>3, <1>4 DEF Put

\* Downloads.
LEMMA BeginKeeps ==
    ASSUME TypeOK, IInv, NEW r \in Requests, Begin(r)
    PROVE  IInv'
<1>1. PICK w \in Paths : /\ want' = [want EXCEPT ![r] = w]
                        /\ due' = [due EXCEPT ![r] = w \in Files /\ stored[w] # None]
                        /\ Goto(r, FirstStep(w))
  BY DEF Begin
<1>2. UNCHANGED <<spaceVars, stored, records, upstreamVars, negative, uploadVars>>
  BY DEF Begin
<1>3. FilesAreListed' /\ FitInv' /\ \A u \in Uploads : UploadInv(u)'
  BY <1>2 DEF IInv, FilesAreListed, FitInv, UploadInv, spaceVars, upstreamVars, uploadVars
<1>4. ASSUME NEW q \in Requests \ {r}
      PROVE  RequestInv(q)' /\ DueInv(q)'
  BY <1>1, <1>2 DEF Begin, Goto, TypeOK, IInv, RequestInv, DueInv, spaceVars, upstreamVars
<1>5. /\ want'[r] = w /\ got'[r] = None /\ rpc'[r] = FirstStep(w)
      /\ due'[r] <=> w \in Files /\ stored[w] # None
  BY <1>1 DEF Begin, Goto, TypeOK
<1>6. /\ mode = "hosted" => FirstStep(w) = "open"
      /\ w \in Files => FirstStep(w) \in {"look", "open"}
  BY ModesAssumption, DocsAssumption DEF TypeOK, FirstStep, Paths
<1>7. RequestInv(r)' /\ DueInv(r)'
  BY <1>2, <1>5, <1>6 DEF RequestInv, DueInv, spaceVars
<1> QED BY <1>3, <1>4, <1>7 DEF IInv

LEMMA GetKeeps ==
    ASSUME TypeOK, WantInv, IInv, NEW r \in Requests, Get(r)
    PROVE  IInv'
<1> USE ModesAssumption, NoneAssumption, DocsAssumption DEF TypeOK, WantInv, IInv, Files, Steps, Answers,
        Goto, FilesAreListed, FitInv, UploadInv, RequestInv, DueInv,
        spaceVars, upstreamVars, uploadVars, requestVars
<1>1. CASE Begin(r)
  BY <1>1, BeginKeeps
<1>2. CASE Open(r)
  BY <1>2 DEF Open, Serve
<1>3. CASE Look(r)
  BY <1>3 DEF Look
<1>4. CASE LookNegative(r)
  BY <1>4 DEF LookNegative
<1>5. CASE Filter(r)
  BY <1>5 DEF Filter
<1>6. CASE Head(r)
  BY <1>6 DEF Head, NotFound, Serve
<1>7. CASE Stream(r)
  BY <1>7 DEF Stream, NotFound
<1>8. CASE Tee(r)
  BY <1>8 DEF Tee, Kept
<1>9. CASE RecordParents(r)
  BY <1>9 DEF RecordParents
<1>10. CASE LookTarget(r)
  BY <1>10 DEF LookTarget
<1>11. CASE Compute(r)
  BY <1>11 DEF Compute
<1>12. CASE FetchChecksum(r)
  BY <1>12 DEF FetchChecksum, NotFound
<1>13. CASE KeepChecksum(r)
  BY <1>13 DEF KeepChecksum, Kept, Serve
<1>14. CASE LookMetadata(r)
  BY <1>14 DEF LookMetadata
<1>15. CASE FetchMetadata(r)
  BY <1>15 DEF FetchMetadata, NotFound, Serve
<1>16. CASE Break(r)
  BY <1>16 DEF Break
<1> QED BY <1>1, <1>2, <1>3, <1>4, <1>5, <1>6, <1>7, <1>8,
           <1>9, <1>10, <1>11, <1>12, <1>13, <1>14, <1>15, <1>16 DEF Get

LEMMA Invariant == Spec => [](TypeOK /\ WantInv /\ IInv)
<1>1. Init => IInv
  BY NoneAssumption DEF Init, IInv, Files, FilesAreListed, FitInv, UploadInv, RequestInv, DueInv, Answers
<1>2. TypeOK /\ WantInv /\ IInv /\ [Next]_vars => IInv'
  <2> SUFFICES ASSUME TypeOK, WantInv, IInv, [Next]_vars
               PROVE  IInv'
    OBVIOUS
  <2>1. ASSUME NEW x \in Files \cup Docs, Offer(x)
        PROVE  IInv'
    BY <2>1 DEF Offer, IInv, FilesAreListed, FitInv, UploadInv, RequestInv, DueInv,
            spaceVars, uploadVars, requestVars
  <2>2. CASE Redeploy
    BY <2>2 DEF Redeploy, IInv, FilesAreListed, FitInv, UploadInv, RequestInv, DueInv,
            spaceVars, uploadVars, requestVars
  <2>3. ASSUME NEW keys, NegativeExpires(keys)
        PROVE  IInv'
    BY <2>3 DEF NegativeExpires, IInv, FilesAreListed, FitInv, UploadInv, RequestInv, DueInv,
            spaceVars, upstreamVars, uploadVars, requestVars
  <2>4. CASE UNCHANGED vars
    BY <2>4 DEF vars, IInv, FilesAreListed, FitInv, UploadInv, RequestInv, DueInv
  <2> QED BY <2>1, <2>2, <2>3, <2>4, PutKeeps, GetKeeps DEF Next
<1> QED BY <1>1, <1>2, TypeInvariant, PTL DEF Spec

\* For a release, whichever of artifact and checksum was uploaded, fetched or computed
\* first, a checksum that is served is that of the artifact that is served
\* (verifyChecksumUpload, serveChecksum).
THEOREM ReleaseChecksumsFit == Spec => []ChecksumsFit
<1>1. TypeOK /\ IInv => ChecksumsFit
  BY ModesAssumption DEF TypeOK, IInv, RequestInv, Files, ChecksumsFit
<1> QED BY <1>1, Invariant, PTL

\* A download of a file that was stored when it began is served, whatever upstream and
\* the negative cache say (serveArtifact).
THEOREM StoredIsAlwaysServed == Spec => []StoredIsServed
<1>1. IInv => StoredIsServed
  BY DEF IInv, DueInv, StoredIsServed
<1> QED BY <1>1, Invariant, PTL

\* Wherever an upload stops, a file of a hosted space has its package and version records
\* (ensureParents before AddFile).
THEOREM HostedFilesAreListed == Spec => []FilesAreListed
<1>1. IInv => FilesAreListed
  BY DEF IInv
<1> QED BY <1>1, Invariant, PTL
=============================================================================
