-------------------------- MODULE NpmPackageProofs --------------------------
(* Proofs about NpmPackage, for any number of publishes, dist-tag requests   *)
(* and clients, versions, file names and tags.                               *)
EXTENDS NpmPackage, TLAPS

Past == {"package", "version", "document", "tags"}

\* A publish past its tarball is backed by it, and sets tags only once its version's
\* package.json is there.
PublishInv(u) ==
    /\ ppc[u] \in Past \cup {"tarball"} => version[u] \in Versions /\ tarball[u] \in Tarballs
    /\ ppc[u] \in Past => <<version[u], tarball[u]>> \in tarballs
    /\ ppc[u] = "tags" => docs[version[u]] # None

TaggerInv(d) == tpc[d] \in {"probe", "set"} => target[d] \in Versions

AckInv == \A v \in acked : docs[v] # None

\* The tarball behind an entry of a packument: stored under the name the entry's is
\* the escaped form of.
Held(e) == \E t \in Tarballs : Escape[t] = e[2] /\ <<e[1], t>> \in tarballs

\* A reader's packument lists only tarballs that are there, and misses no version that
\* was answered before its request: what is not yet listed is still to be read.
ReaderInv(r) ==
    /\ due[r] \subseteq acked
    /\ \A e \in page[r] : Held(e)
    /\ rpc[r] = "documents" => \A v \in due[r] : v \in unread[r] \/ \E e \in page[r] : e[1] = v
    /\ rpc[r] \in {"tags", "served"} => \A v \in due[r] : \E e \in page[r] : e[1] = v
    /\ rpc[r] = "notFound" => due[r] = {}
    /\ rpc[r] \in {"derive", "scan"} => wanted[r] \in Entries /\ Held(wanted[r])
    /\ wanted[r][2] \in Plain =>
          /\ rpc[r] = "scan" => Derived[wanted[r][2]] # wanted[r][1]
          /\ rpc[r] = "downloaded" /\ Derived[wanted[r][2]] = wanted[r][1] => got[r] = wanted[r][1]
          /\ rpc[r] # "missing"

IInv ==
    /\ TypeOK
    /\ \A u \in Publishes : PublishInv(u)
    /\ \A d \in Taggers : TaggerInv(d)
    /\ \A r \in Readers : ReaderInv(r)
    /\ AckInv
    /\ Backed
    /\ OwnTagsResolve
-----------------------------------------------------------------------------
\* The tags a publish has to set are pairs of a tag and a version.
LEMMA ChoicesAreTags ==
    ASSUME NEW v \in Versions, NEW w \in TagChoices(v)
    PROVE  w \in SUBSET (Tags \X Versions)
<1>1. CASE w = {<<Latest, v>>}
  BY <1>1, TagsAssumption
<1>2. CASE w # {<<Latest, v>>}
  <2>1. PICK m \in TagMaps : w = {<<g, m[g]>> : g \in {h \in Tags : m[h] # None}}
    BY <1>2 DEF TagChoices
  <2>2. \A g \in Tags : m[g] # None => m[g] \in Versions
    BY <2>1 DEF TagMaps
  <2> QED
    BY <2>1, <2>2
<1> QED
  BY <1>1, <1>2

\* No write takes a tarball, a package.json or an answer back.
Grows ==
    /\ tarballs \subseteq tarballs'
    /\ \A v \in Versions : docs[v] # None => docs'[v] # None
    /\ acked \subseteq acked'

\* An entry under a plain name is held under that very name: no other name's escaped
\* form is plain.
LEMMA PlainIsHeld ==
    ASSUME NEW e \in Entries, Held(e), e[2] \in Plain
    PROVE  e \in tarballs /\ e = <<e[1], e[2]>>
<1>1. PICK t \in Tarballs : Escape[t] = e[2] /\ <<e[1], t>> \in tarballs
  BY DEF Held
<1>2. e[2] \in Tarballs /\ Escape[e[2]] = e[2]
  BY DEF Plain
<1>3. t = e[2]
  BY <1>1, <1>2, EscapeAssumption
<1>4. e = <<e[1], e[2]>>
  BY DEF Entries
<1> QED
  BY <1>1, <1>3, <1>4

\* A step of a publish keeps the types.
LEMMA PublishTypes ==
    ASSUME TypeOK, NEW u \in Publishes, PublishInv(u), Write(u)
    PROVE  TypeOK'
<1> USE DEF TypeOK, PublishSteps, ReaderSteps, storeVars, publishVars, taggerVars, readerVars, Finish
<1>1. CASE Publish(u)
  <2>1. PICK v \in Versions :
            /\ version' = [version EXCEPT ![u] = v]
            /\ \E t \in Tarballs : tarball' = [tarball EXCEPT ![u] = t]
            /\ \E w \in TagChoices(v) : todo' = [todo EXCEPT ![u] = w]
    BY <1>1 DEF Publish
  <2>2. todo' \in [Publishes -> SUBSET (Tags \X Versions)]
    BY <2>1, ChoicesAreTags
  <2>3. /\ version' \in [Publishes -> Versions \cup {None}]
        /\ tarball' \in [Publishes -> Tarballs \cup {None}]
    BY <2>1
  <2>4. ppc' \in [Publishes -> PublishSteps]
    BY <1>1 DEF Publish
  <2> QED
    BY <1>1, <2>2, <2>3, <2>4 DEF Publish
<1>2. CASE PutTarball(u)
  <2>1. <<version[u], tarball[u]>> \in Versions \X Tarballs
    BY <1>2 DEF PutTarball, PublishInv, Past
  <2> QED
    BY <1>2, <2>1 DEF PutTarball
<1>3. CASE AddPackage(u) BY <1>3 DEF AddPackage
<1>4. CASE AddVersion(u) BY <1>4 DEF AddVersion, PublishInv, Past
<1>5. CASE PutDocument(u)
  <2>1. Escape[tarball[u]] \in Names
    BY <1>5, EscapeAssumption DEF PutDocument, PublishInv, Past
  <2> QED
    BY <1>5, <2>1 DEF PutDocument, PublishInv, Past
<1>6. CASE SetTag(u)
  <2>1. PICK e \in todo[u] :
            /\ tags' = [tags EXCEPT ![e[1]] = e[2]]
            /\ todo' = [todo EXCEPT ![u] = @ \ {e}]
            /\ vouched' = IF e[2] = version[u] THEN vouched \cup {e[1]} ELSE vouched \ {e[1]}
    BY <1>6 DEF SetTag
  <2>2. e[1] \in Tags /\ e[2] \in Versions
    BY <2>1
  <2>3. tags' \in TagMaps /\ vouched' \subseteq Tags
    BY <2>1, <2>2 DEF TagMaps
  <2>4. todo' \in [Publishes -> SUBSET (Tags \X Versions)]
    BY <2>1
  <2> QED
    BY <1>6, <2>3, <2>4 DEF SetTag
<1>7. CASE Answer(u) BY <1>7 DEF Answer, PublishInv, Past
<1>8. CASE PublishFails(u) BY <1>8 DEF PublishFails
<1> QED
  BY <1>1, <1>2, <1>3, <1>4, <1>5, <1>6, <1>7, <1>8 DEF Write

\* A step of a publish keeps the invariant.
LEMMA PublishStep ==
    ASSUME IInv, NEW u \in Publishes, Write(u)
    PROVE  IInv'
<1>1. TypeOK /\ PublishInv(u)
  BY DEF IInv
<1>2. TypeOK'
  BY <1>1, PublishTypes
<1> USE NoneAssumption DEF storeVars, publishVars, taggerVars, readerVars, Finish
<1>3. Grows /\ UNCHANGED <<taggerVars, readerVars>>
  BY <1>1, EscapeAssumption DEF TypeOK, PublishInv, Past, Grows, Write, Publish, PutTarball, AddPackage, AddVersion, PutDocument,
             SetTag, Answer, PublishFails
<1>4. PublishInv(u)'
  <2> USE <1>1 DEF TypeOK, PublishInv, Past
  <2>1. CASE Publish(u) BY <2>1 DEF Publish
  <2>2. CASE PutTarball(u) BY <2>2 DEF PutTarball
  <2>3. CASE AddPackage(u) BY <2>3 DEF AddPackage
  <2>4. CASE AddVersion(u) BY <2>4 DEF AddVersion
  <2>5. CASE PutDocument(u) BY <2>5, EscapeAssumption DEF PutDocument
  <2>6. CASE SetTag(u) BY <2>6 DEF SetTag
  <2>7. CASE Answer(u) BY <2>7 DEF Answer
  <2>8. CASE PublishFails(u) BY <2>8 DEF PublishFails
  <2> QED
    BY <2>1, <2>2, <2>3, <2>4, <2>5, <2>6, <2>7, <2>8 DEF Write
<1>5. \A w \in Publishes : PublishInv(w)'
  <2> SUFFICES ASSUME NEW w \in Publishes, w # u PROVE PublishInv(w)'
    BY <1>4
  <2>1. UNCHANGED <<ppc[w], version[w], tarball[w]>>
    BY <1>1 DEF TypeOK, Write, Publish, PutTarball, AddPackage, AddVersion, PutDocument, SetTag, Answer, PublishFails
  <2>2. PublishInv(w)
    BY DEF IInv
  <2> QED
    BY <1>3, <2>1, <2>2 DEF PublishInv, Past, Grows
<1>6. \A d \in Taggers : TaggerInv(d)'
  BY <1>3 DEF IInv, TaggerInv
<1>7. \A r \in Readers : ReaderInv(r)'
  <2> SUFFICES ASSUME NEW r \in Readers PROVE ReaderInv(r)'
    OBVIOUS
  <2>1. ReaderInv(r)
    BY DEF IInv
  <2> QED
    BY <1>3, <2>1 DEF ReaderInv, Held, Grows
<1>8. AckInv'
  <2> SUFFICES ASSUME NEW v \in acked' PROVE docs'[v] # None
    BY DEF AckInv
  <2>1. CASE v \in acked
    BY <1>1, <1>3, <2>1 DEF IInv, AckInv, Grows, TypeOK
  <2>2. CASE v \notin acked
    BY <1>1, <2>2 DEF PublishInv, Past, Write, Publish, PutTarball, AddPackage, AddVersion, PutDocument, SetTag,
                      Answer, PublishFails
  <2> QED
    BY <2>1, <2>2
<1>9. Backed'
  <2>0. Backed
    BY DEF IInv
  <2>1. \A v \in Versions : docs'[v] # None => \E t \in Tarballs : Escape[t] = docs'[v] /\ <<v, t>> \in tarballs'
    <3>1. CASE PutDocument(u)
      BY <1>1, <2>0, <3>1 DEF PutDocument, Backed, PublishInv, Past, TypeOK
    <3>2. CASE ~PutDocument(u)
      <4>1. docs' = docs
        BY <3>2 DEF Write, Publish, PutTarball, AddPackage, AddVersion, SetTag, Answer, PublishFails
      <4> QED
        BY <1>3, <2>0, <4>1 DEF Backed, Grows
    <3> QED
      BY <3>1, <3>2
  <2>2. \A v \in records' : \E t \in Tarballs : <<v, t>> \in tarballs'
    <3>1. CASE AddVersion(u)
      BY <1>1, <1>3, <2>0, <3>1 DEF AddVersion, Backed, PublishInv, Past, Grows
    <3>2. CASE ~AddVersion(u)
      <4>1. records' = records
        BY <3>2 DEF Write, Publish, PutTarball, AddPackage, PutDocument, SetTag, Answer, PublishFails
      <4> QED
        BY <1>3, <2>0, <4>1 DEF Backed, Grows
    <3> QED
      BY <3>1, <3>2
  <2>3. package' => tarballs' # {}
    <3>1. CASE AddPackage(u)
      BY <1>1, <3>1 DEF AddPackage, PublishInv, Past
    <3>2. CASE ~AddPackage(u)
      <4>1. package' = package
        BY <3>2 DEF Write, Publish, PutTarball, AddVersion, PutDocument, SetTag, Answer, PublishFails
      <4> QED
        BY <1>3, <2>0, <4>1 DEF Backed, Grows
    <3> QED
      BY <3>1, <3>2
  <2> QED
    BY <2>1, <2>2, <2>3 DEF Backed
<1>10. OwnTagsResolve'
  <2>0. OwnTagsResolve
    BY DEF IInv
  <2>1. CASE SetTag(u)
    <3>1. PICK e \in todo[u] :
              /\ tags' = [tags EXCEPT ![e[1]] = e[2]]
              /\ vouched' = IF e[2] = version[u] THEN vouched \cup {e[1]} ELSE vouched \ {e[1]}
      BY <2>1 DEF SetTag
    <3>2. docs' = docs /\ docs[version[u]] # None /\ version[u] \in Versions
      BY <2>1, <1>1 DEF SetTag, PublishInv, Past
    <3>3. e[1] \in Tags /\ e[2] \in Versions
      BY <1>1, <3>1 DEF TypeOK
    <3> SUFFICES ASSUME NEW g \in vouched' PROVE tags'[g] # None /\ docs[tags'[g]] # None
      BY <3>2 DEF OwnTagsResolve
    <3>4. CASE g = e[1]
      <4>1. e[2] = version[u]
        BY <3>1, <3>4
      <4> QED
        BY <1>1, <3>1, <3>2, <3>3, <3>4, <4>1 DEF TypeOK, TagMaps
    <3>5. CASE g # e[1]
      BY <1>1, <2>0, <3>1, <3>3, <3>5 DEF TypeOK, TagMaps, OwnTagsResolve
    <3> QED
      BY <3>4, <3>5
  <2>2. CASE ~SetTag(u)
    <3>1. UNCHANGED <<tags, vouched>>
      BY <2>2 DEF Write, Publish, PutTarball, AddPackage, AddVersion, PutDocument, Answer, PublishFails
    <3>2. \A g \in vouched : tags[g] # None => tags[g] \in Versions
      BY <1>1 DEF TypeOK, TagMaps
    <3> QED
      BY <1>3, <2>0, <3>1, <3>2 DEF Grows, OwnTagsResolve
  <2> QED
    BY <2>1, <2>2
<1> QED
  BY <1>2, <1>5, <1>6, <1>7, <1>8, <1>9, <1>10 DEF IInv

\* A step of a dist-tag request keeps the invariant: a tag it sets is no longer a
\* publish's.
LEMMA TagStep ==
    ASSUME IInv, NEW d \in Taggers, Tag(d)
    PROVE  IInv'
<1> USE DEF storeVars, publishVars, taggerVars, readerVars, EndTag
<1>1. TypeOK /\ TaggerInv(d) /\ OwnTagsResolve
  BY DEF IInv
<1>2. UNCHANGED <<tarballs, package, records, docs, publishVars, readerVars, acked>>
  BY DEF Tag, BeginTag, ProbeTarget, Retag, TagFails
<1>3. TypeOK' /\ TaggerInv(d)'
  <2> USE <1>1 DEF TypeOK, TaggerInv
  <2>1. CASE BeginTag(d) BY <2>1 DEF BeginTag
  <2>2. CASE ProbeTarget(d) BY <2>2 DEF ProbeTarget
  <2>3. ASSUME NEW g \in Tags, Retag(d, g) PROVE TypeOK' /\ TaggerInv(d)' BY <2>3 DEF Retag, TagMaps
  <2>4. CASE TagFails(d) BY <2>4 DEF TagFails
  <2> QED
    BY <2>1, <2>2, <2>3, <2>4 DEF Tag
<1>4. \A e \in Taggers : TaggerInv(e)'
  <2> SUFFICES ASSUME NEW e \in Taggers, e # d PROVE TaggerInv(e)'
    BY <1>3
  <2>1. UNCHANGED <<tpc[e], target[e]>>
    BY <1>1 DEF TypeOK, Tag, BeginTag, ProbeTarget, Retag, TagFails
  <2> QED
    BY <2>1 DEF IInv, TaggerInv
<1>5. OwnTagsResolve'
  <2>1. CASE \E g \in Tags : Retag(d, g)
    BY <1>1, <2>1 DEF Retag, OwnTagsResolve, TypeOK, TagMaps
  <2>2. CASE ~\E g \in Tags : Retag(d, g)
    BY <1>1, <2>2 DEF Tag, BeginTag, ProbeTarget, TagFails, OwnTagsResolve
  <2> QED
    BY <2>1, <2>2
<1>6. (\A u \in Publishes : PublishInv(u)') /\ (\A r \in Readers : ReaderInv(r)') /\ AckInv' /\ Backed'
  BY <1>2 DEF IInv, PublishInv, ReaderInv, Held, AckInv, Backed
<1> QED
  BY <1>3, <1>4, <1>5, <1>6 DEF IInv

\* A step of a reader keeps the invariant.
LEMMA ReadStep ==
    ASSUME IInv, NEW r \in Readers, Read(r)
    PROVE  IInv'
<1> USE DEF storeVars, publishVars, taggerVars
<1>1. TypeOK /\ ReaderInv(r) /\ AckInv /\ Backed
  BY DEF IInv
<1>2. UNCHANGED <<storeVars, publishVars, taggerVars, acked, vouched>>
  BY DEF Read, Begin, ListVersions, ReadDocument, DocumentsRead, ReadTags, Download, Derive, Scan, ReadFails
<1>3. TypeOK' /\ ReaderInv(r)'
  <2>0. wanted[r] \in Entries /\ Held(wanted[r]) /\ wanted[r][2] \in Plain
           => wanted[r] \in tarballs /\ wanted[r] = <<wanted[r][1], wanted[r][2]>>
    BY PlainIsHeld
  <2> USE <1>1, <1>2 DEF TypeOK, ReaderSteps, ReaderInv, Held
  <2>1. CASE Begin(r)
    <3>1. NoEntry \in Entries \cup {NoEntry}
      OBVIOUS
    <3>2. TypeOK'
      BY <2>1, <3>1 DEF Begin
    <3>3. rpc'[r] = "notFound" => acked = {}
      <4>1. \A v \in acked : Present(v)
        BY DEF AckInv, Present
      <4> QED
        BY <2>1, <4>1 DEF Begin
    <3>4. /\ due'[r] = acked /\ page'[r] = {} /\ rpc'[r] \in {"versions", "notFound"}
      BY <2>1 DEF Begin
    <3> QED
      BY <1>2, <3>2, <3>3, <3>4
  <2>2. CASE ListVersions(r)
    <3>1. \A v \in due[r] : v \in {x \in Versions : Present(x)}
      BY DEF AckInv, Present
    <3> QED
      BY <2>2, <3>1 DEF ListVersions
  <2>3. ASSUME NEW v \in Versions, ReadDocument(r, v) PROVE TypeOK' /\ ReaderInv(r)'
    <3>1. docs[v] # None => Held(<<v, docs[v]>>) /\ <<v, docs[v]>> \in Entries
      BY DEF Backed, Entries, Held
    <3>2. page'[r] = IF docs[v] = None THEN page[r] ELSE page[r] \cup {<<v, docs[v]>>}
      BY <2>3 DEF ReadDocument
    <3>3. TypeOK'
      BY <2>3, <3>1 DEF ReadDocument
    <3>4. v \in due[r] => docs[v] # None
      BY DEF AckInv
    <3>5. \A x \in due[r] : x \in unread'[r] \/ \E e \in page'[r] : e[1] = x
      <4> SUFFICES ASSUME NEW x \in due[r] PROVE x \in unread'[r] \/ \E e \in page'[r] : e[1] = x
        OBVIOUS
      <4>1. CASE x = v
        <5>1. <<v, docs[v]>> \in page'[r] /\ <<v, docs[v]>>[1] = v
          BY <3>2, <3>4, <4>1
        <5> QED
          BY <4>1, <5>1
      <4>2. CASE x # v
        BY <2>3, <3>2, <4>2 DEF ReadDocument
      <4> QED
        BY <4>1, <4>2
    <3> QED
      BY <2>3, <3>1, <3>2, <3>3, <3>5 DEF ReadDocument
  <2>4. CASE DocumentsRead(r) BY <2>4 DEF DocumentsRead
  <2>5. CASE ReadTags(r) BY <2>5 DEF ReadTags
  <2>6. ASSUME NEW e \in Entries, Download(r, e) PROVE TypeOK' /\ ReaderInv(r)'
    BY <2>6 DEF Download
  <2>7. CASE Derive(r)
    <3>1. wanted[r] \in Entries /\ Held(wanted[r])
      BY <2>7 DEF Derive
    <3>2. wanted[r][2] \in Names /\ wanted[r][1] # None /\ Derived[wanted[r][2]] \in Versions \cup {None}
      BY <3>1, DerivedAssumption, NoneAssumption DEF Entries
    <3> DEFINE hit == Derived[wanted[r][2]] # None /\ <<Derived[wanted[r][2]], wanted[r][2]>> \in tarballs
    <3>3. /\ got' = [got EXCEPT ![r] = IF hit THEN Derived[wanted[r][2]] ELSE None]
          /\ rpc' = [rpc EXCEPT ![r] = IF hit THEN "downloaded" ELSE "scan"]
      BY <2>7 DEF Derive
    <3>4. UNCHANGED <<unread, page, wanted, due>>
      BY <2>7 DEF Derive
    <3>5. wanted[r][2] \in Plain /\ ~hit => Derived[wanted[r][2]] # wanted[r][1]
      BY <2>0, <3>1, <3>2
    <3>6. TypeOK'
      BY <2>7, <3>2, <3>3 DEF Derive
    <3> HIDE DEF hit
    <3>7. CASE hit
      BY <1>2, <3>1, <3>3, <3>4, <3>6, <3>7 DEF Held
    <3>8. CASE ~hit
      BY <1>2, <3>1, <3>3, <3>4, <3>5, <3>6, <3>8 DEF Held
    <3> QED
      BY <3>7, <3>8
  <2>8. CASE Scan(r)
    <3>1. wanted[r] \in Entries /\ Held(wanted[r]) /\ wanted[r][1] \in Versions
      BY <2>8 DEF Scan, Entries
    <3>2. wanted[r][2] \in Plain => \E v \in Versions : <<v, wanted[r][2]>> \in tarballs
      BY <2>0, <3>1
    <3>3. \/ \E v \in Versions : got' = [got EXCEPT ![r] = v] /\ rpc' = [rpc EXCEPT ![r] = "downloaded"]
          \/ /\ wanted[r][2] \notin Plain
             /\ rpc' = [rpc EXCEPT ![r] = "missing"] /\ got' = got
      BY <2>8, <3>2 DEF Scan
    <3>4. UNCHANGED <<unread, page, wanted, due>>
      BY <2>8 DEF Scan
    <3>5. wanted[r][2] \in Plain => Derived[wanted[r][2]] # wanted[r][1]
      BY <2>8 DEF Scan
    <3> QED
      BY <1>2, <3>3, <3>4, <3>5 DEF Held
  <2>9. CASE ReadFails(r) BY <2>9 DEF ReadFails
  <2> QED
    BY <2>1, <2>2, <2>3, <2>4, <2>5, <2>6, <2>7, <2>8, <2>9 DEF Read
<1>4. \A q \in Readers : ReaderInv(q)'
  <2> SUFFICES ASSUME NEW q \in Readers, q # r PROVE ReaderInv(q)'
    BY <1>3
  <2>1. UNCHANGED <<rpc[q], unread[q], page[q], wanted[q], got[q], due[q]>>
    BY <1>1 DEF TypeOK, Read, Begin, ListVersions, ReadDocument, DocumentsRead, ReadTags, Download, Derive, Scan, ReadFails
  <2>2. ReaderInv(q)
    BY DEF IInv
  <2> QED
    BY <1>2, <2>1, <2>2 DEF ReaderInv, Held
<1>5. /\ \A u \in Publishes : PublishInv(u)'
      /\ \A d \in Taggers : TaggerInv(d)'
      /\ AckInv' /\ Backed' /\ OwnTagsResolve'
  BY <1>2 DEF IInv, PublishInv, TaggerInv, AckInv, Backed, OwnTagsResolve
<1> QED
  BY <1>3, <1>4, <1>5 DEF IInv

LEMMA Invariance == Spec => []IInv
<1>1. Init => IInv
  <2> SUFFICES ASSUME Init PROVE IInv
    OBVIOUS
  <2>1. TypeOK
    BY DEF Init, TypeOK, TagMaps, PublishSteps, ReaderSteps, NoEntry
  <2>2. /\ \A u \in Publishes : PublishInv(u)
        /\ \A d \in Taggers : TaggerInv(d)
        /\ \A r \in Readers : ReaderInv(r)
    BY NoneAssumption, EscapeAssumption DEF Init, PublishInv, TaggerInv, ReaderInv, Past, NoEntry, Plain
  <2>3. AckInv /\ Backed /\ OwnTagsResolve
    BY DEF Init, AckInv, Backed, OwnTagsResolve
  <2> QED
    BY <2>1, <2>2, <2>3 DEF IInv
<1>2. IInv /\ [Next]_vars => IInv'
  <2> SUFFICES ASSUME IInv, [Next]_vars PROVE IInv'
    OBVIOUS
  <2>1. CASE UNCHANGED vars
    <3>1. \A r \in Readers : ReaderInv(r)'
      BY <2>1 DEF vars, IInv, ReaderInv, Held
    <3>2. TypeOK'
      BY <2>1 DEF vars, IInv, TypeOK
    <3>3. /\ \A u \in Publishes : PublishInv(u)'
          /\ \A d \in Taggers : TaggerInv(d)'
          /\ AckInv' /\ Backed' /\ OwnTagsResolve'
      BY <2>1 DEF vars, IInv, PublishInv, TaggerInv, AckInv, Backed, OwnTagsResolve
    <3> QED
      BY <3>1, <3>2, <3>3 DEF IInv
  <2>2. CASE Next
    BY <2>2, PublishStep, TagStep, ReadStep DEF Next
  <2> QED
    BY <2>1, <2>2
<1> QED
  BY <1>1, <1>2, PTL DEF Spec
-----------------------------------------------------------------------------
\* The variables hold what publish, the dist-tag route and packument can hold.
THEOREM TypeCorrect == Spec => []TypeOK
<1>1. IInv => TypeOK
  BY DEF IInv
<1> QED
  BY <1>1, Invariance, PTL

\* Wherever publishes stop, what they wrote is backed by the tarballs they wrote first.
THEOREM PublishesAreBacked == Spec => []Backed
<1>1. IInv => Backed
  BY DEF IInv
<1> QED
  BY <1>1, Invariance, PTL

\* A packument lists every version whose publish was answered before it was asked for.
THEOREM AnsweredPublishesAreListed == Spec => []PublishesAreListed
<1>1. IInv => PublishesAreListed
  BY DEF IInv, ReaderInv, PublishesAreListed
<1> QED
  BY <1>1, Invariance, PTL

\* findTarball finds every tarball a packument lists under a name that a URL spells as
\* it is, in the version the name spells.
THEOREM ListedTarballsInstall == Spec => []InstallsWhatIsListed
<1>1. IInv => InstallsWhatIsListed
  BY DEF IInv, ReaderInv, InstallsWhatIsListed
<1> QED
  BY <1>1, Invariance, PTL

\* A tag last set by a publish to its own version names a version with package.json.
THEOREM OwnTagsAlwaysResolve == Spec => []OwnTagsResolve
<1>1. IInv => OwnTagsResolve
  BY DEF IInv
<1> QED
  BY <1>1, Invariance, PTL
=============================================================================
