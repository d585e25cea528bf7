----------------------------- MODULE NpmPackage -----------------------------
(***************************************************************************)
(* One package of a hosted npm namespace: the objects a publish writes one *)
(* after another (tarball, records, package.json, dist-tags), dist-tag     *)
(* requests, and the packument a request puts together from separate       *)
(* reads, followed by the download of a tarball it lists.                  *)
(*                                                                         *)
(* A version may hold any number of tarballs: the file name is the last    *)
(* element of the dist.tarball of the published document, not a function   *)
(* of the version.  The tarball is stored under that name, but the         *)
(* document kept for packuments spells it escaped for a URL, and the       *)
(* packument escapes that spelling once more: a client's request decodes   *)
(* once, so it asks for the escaped name.  Tags are numbered in the order  *)
(* of their names.                                                         *)
(***************************************************************************)
EXTENDS Integers

CONSTANTS
    Publishes,    \* publish requests
    Taggers,      \* requests that set a dist-tag
    Readers,      \* clients that read the packument and download a tarball
    Versions,
    Tarballs,     \* tarball file names that may be published
    Names,        \* those, and the names they are listed under
    Escape,       \* a file name as url.PathEscape spells it
    Derived,      \* the version a file name spells, if any: deriveVersion
    Tags,         \* dist-tag names, as their positions in sorted order
    Latest,       \* the tag "latest"
    None

ASSUME EscapeAssumption ==
    /\ Tarballs \subseteq Names
    /\ Escape \in [Tarballs -> Names]
    /\ \A s, t \in Tarballs : Escape[s] = Escape[t] => s = t
ASSUME DerivedAssumption == Derived \in [Names -> Versions \cup {None}]
ASSUME TagsAssumption == Tags \subseteq Nat /\ Latest \in Tags
ASSUME NoneAssumption == None \notin Versions /\ None \notin Names

VARIABLES
    tarballs,   \* the tarballs stored: <<version, file name>>
    package,    \* whether the package record exists
    records,    \* the versions whose record exists
    docs,       \* the file name, escaped, in the dist.tarball of each version's package.json
    tags,       \* the version each tag names
    ppc,        \* where each publish is
    version,    \* the version it publishes
    tarball,    \* the file name of its tarball
    todo,       \* the tags it has still to set: <<tag, version>>
    tpc,        \* where each dist-tag request is
    target,     \* the version it names
    rpc,        \* where each reader is
    unread,     \* the versions whose package.json it has still to read
    page,       \* the packument: <<version, file name its dist.tarball leads to>>
    wanted,     \* the entry it downloads
    got,        \* the version whose tarball it was sent
    acked,      \* history: the versions whose publish was answered 201
    due,        \* history: those when a reader's request began
    vouched     \* history: tags last set by a publish, to its own version

storeVars == <<tarballs, package, records, docs, tags>>
publishVars == <<ppc, version, tarball, todo>>
taggerVars == <<tpc, target>>
readerVars == <<rpc, unread, page, wanted, got, due>>
vars == <<tarballs, package, records, docs, tags, ppc, version, tarball, todo, tpc, target,
          rpc, unread, page, wanted, got, acked, due, vouched>>

Entries == Versions \X Names
NoEntry == <<None, None>>
TagMaps == [Tags -> Versions \cup {None}]

PublishSteps == {"idle", "tarball", "package", "version", "document", "tags", "done"}
ReaderSteps == {"idle", "versions", "documents", "tags", "served", "notFound",
                "derive", "scan", "downloaded", "missing"}

TypeOK ==
    /\ tarballs \subseteq Versions \X Tarballs
    /\ package \in BOOLEAN
    /\ records \subseteq Versions
    /\ docs \in [Versions -> Names \cup {None}]
    /\ tags \in TagMaps
    /\ ppc \in [Publishes -> PublishSteps]
    /\ version \in [Publishes -> Versions \cup {None}]
    /\ tarball \in [Publishes -> Tarballs \cup {None}]
    /\ todo \in [Publishes -> SUBSET (Tags \X Versions)]
    /\ tpc \in [Taggers -> {"idle", "probe", "set", "done"}]
    /\ target \in [Taggers -> Versions \cup {None}]
    /\ rpc \in [Readers -> ReaderSteps]
    /\ unread \in [Readers -> SUBSET Versions]
    /\ page \in [Readers -> SUBSET Entries]
    /\ wanted \in [Readers -> Entries \cup {NoEntry}]
    /\ got \in [Readers -> Versions \cup {None}]
    /\ acked \subseteq Versions
    /\ due \in [Readers -> SUBSET Versions]
    /\ vouched \subseteq Tags

Init ==
    /\ tarballs = {} /\ package = FALSE /\ records = {}
    /\ docs = [v \in Versions |-> None]
    /\ tags = [g \in Tags |-> None]
    /\ ppc = [u \in Publishes |-> "idle"]
    /\ version = [u \in Publishes |-> None]
    /\ tarball = [u \in Publishes |-> None]
    /\ todo = [u \in Publishes |-> {}]
    /\ tpc = [d \in Taggers |-> "idle"]
    /\ target = [d \in Taggers |-> None]
    /\ rpc = [r \in Readers |-> "idle"]
    /\ unread = [r \in Readers |-> {}]
    /\ page = [r \in Readers |-> {}]
    /\ wanted = [r \in Readers |-> NoEntry]
    /\ got = [r \in Readers |-> None]
    /\ acked = {}
    /\ due = [r \in Readers |-> {}]
    /\ vouched = {}

\* Version.Exists: the record, or any object beneath the version's directory.
\* Package.Versions lists the same names.
Present(v) == v \in records \/ docs[v] # None \/ \E t \in Tarballs : <<v, t>> \in tarballs
-----------------------------------------------------------------------------
(* Publishes: handler.publish.                                              *)

\* The dist-tags of a document; a document without any sets latest to its version.
TagChoices(v) ==
    {{<<Latest, v>>}}
        \cup {{<<g, m[g]>> : g \in {h \in Tags : m[h] # None}} :
              m \in {n \in TagMaps : \E h \in Tags : n[h] # None}}

PublishRecordsFirst(u) ==
    /\ ppc[u] = "idle"
    /\ \E v \in Versions :
          /\ version' = [version EXCEPT ![u] = v]
          /\ records' = records \cup {v}
          /\ \E t \in Tarballs : tarball' = [tarball EXCEPT ![u] = t]
          /\ \E w \in TagChoices(v) : todo' = [todo EXCEPT ![u] = w]
    /\ package' = TRUE
    /\ ppc' = [ppc EXCEPT ![u] = "tarball"]
    /\ UNCHANGED <<tarballs, docs, tags, taggerVars, readerVars, acked, vouched>>

Publish(u) ==
    /\ ppc[u] = "idle"
    /\ \E v \in Versions :
          /\ version' = [version EXCEPT ![u] = v]
          /\ \E t \in Tarballs : tarball' = [tarball EXCEPT ![u] = t]
          /\ \E w \in TagChoices(v) : todo' = [todo EXCEPT ![u] = w]
    /\ ppc' = [ppc EXCEPT ![u] = "tarball"]
    /\ UNCHANGED <<storeVars, taggerVars, readerVars, acked, vouched>>

\* The request ends, answered or not.
Finish(u) ==
    /\ ppc' = [ppc EXCEPT ![u] = "done"]
    /\ version' = [version EXCEPT ![u] = None]
    /\ tarball' = [tarball EXCEPT ![u] = None]
    /\ todo' = [todo EXCEPT ![u] = {}]

\* AddFile of the tarball, create-once: one that is there already is a 409.
\* The body was verified against the declared digests before the commit.
PutTarball(u) ==
    /\ ppc[u] = "tarball"
    /\ \/ /\ <<version[u], tarball[u]>> \notin tarballs
          /\ tarballs' = tarballs \cup {<<version[u], tarball[u]>>}
          /\ ppc' = [ppc EXCEPT ![u] = "package"]
          /\ UNCHANGED <<version, tarball, todo>>
       \/ /\ <<version[u], tarball[u]>> \in tarballs
          /\ Finish(u)
          /\ UNCHANGED tarballs
    /\ UNCHANGED <<package, records, docs, tags, taggerVars, readerVars, acked, vouched>>

\* AddPackage; a package that exists already is no error.
AddPackage(u) ==
    /\ ppc[u] = "package"
    /\ package' = TRUE
    /\ ppc' = [ppc EXCEPT ![u] = "version"]
    /\ UNCHANGED <<tarballs, records, docs, tags, version, tarball, todo, taggerVars, readerVars, acked, vouched>>

AddVersionSkipsDocument(u) ==
    /\ ppc[u] = "version"
    /\ records' = records \cup {version[u]}
    /\ ppc' = [ppc EXCEPT ![u] = IF version[u] \in records THEN "tags" ELSE "document"]
    /\ UNCHANGED <<tarballs, package, docs, tags, version, tarball, todo, taggerVars, readerVars, acked, vouched>>

\* AddVersion; likewise.
AddVersion(u) ==
    /\ ppc[u] = "version"
    /\ records' = records \cup {version[u]}
    /\ ppc' = [ppc EXCEPT ![u] = "document"]
    /\ UNCHANGED <<tarballs, package, docs, tags, version, tarball, todo, taggerVars, readerVars, acked, vouched>>

\* AddFile of package.json, overwriting; tarballURL has escaped the file name.
PutDocument(u) ==
    /\ ppc[u] = "document"
    /\ docs' = [docs EXCEPT ![version[u]] = Escape[tarball[u]]]
    /\ ppc' = [ppc EXCEPT ![u] = "tags"]
    /\ UNCHANGED <<tarballs, package, records, tags, version, tarball, todo, taggerVars, readerVars, acked, vouched>>

\* applyDistTags: the next tag in the order of their names.  Its target is taken
\* as the document names it, without a look at what exists.
SetTag(u) ==
    /\ ppc[u] = "tags"
    /\ \E e \in todo[u] :
          /\ \A o \in todo[u] : e[1] <= o[1]
          /\ tags' = [tags EXCEPT ![e[1]] = e[2]]
          /\ todo' = [todo EXCEPT ![u] = @ \ {e}]
          /\ vouched' = IF e[2] = version[u] THEN vouched \cup {e[1]} ELSE vouched \ {e[1]}
    /\ UNCHANGED <<tarballs, package, records, docs, ppc, version, tarball, taggerVars, readerVars, acked>>

\* 201.
Answer(u) ==
    /\ ppc[u] = "tags" /\ todo[u] = {}
    /\ acked' = acked \cup {version[u]}
    /\ Finish(u)
    /\ UNCHANGED <<storeVars, taggerVars, readerVars, vouched>>

\* A call fails or the process dies: what is written stays.
PublishFails(u) ==
    /\ ppc[u] \notin {"idle", "done"}
    /\ Finish(u)
    /\ UNCHANGED <<storeVars, taggerVars, readerVars, acked, vouched>>
-----------------------------------------------------------------------------
(* Dist-tag requests: handler.distTagsRoute.                                *)

BeginTag(d) ==
    /\ tpc[d] = "idle"
    /\ \E v \in Versions : target' = [target EXCEPT ![d] = v]
    /\ tpc' = [tpc EXCEPT ![d] = "probe"]
    /\ UNCHANGED <<storeVars, publishVars, readerVars, acked, vouched>>

EndTag(d) ==
    /\ tpc' = [tpc EXCEPT ![d] = "done"]
    /\ target' = [target EXCEPT ![d] = None]

\* A target that does not exist is a 404.
ProbeTarget(d) ==
    /\ tpc[d] = "probe"
    /\ IF Present(target[d])
       THEN tpc' = [tpc EXCEPT ![d] = "set"] /\ UNCHANGED target
       ELSE EndTag(d)
    /\ UNCHANGED <<storeVars, publishVars, readerVars, acked, vouched>>

\* SetTag; the answer lists the tags.
Retag(d, g) ==
    /\ tpc[d] = "set"
    /\ tags' = [tags EXCEPT ![g] = target[d]]
    /\ vouched' = vouched \ {g}
    /\ EndTag(d)
    /\ UNCHANGED <<tarballs, package, records, docs, publishVars, readerVars, acked>>

TagFails(d) ==
    /\ tpc[d] \notin {"idle", "done"}
    /\ EndTag(d)
    /\ UNCHANGED <<storeVars, publishVars, readerVars, acked, vouched>>
-----------------------------------------------------------------------------
(* Readers: handler.packument, then handler.tarballRoute.                   *)

\* Package.Exists: the record, or any object beneath the package's directory.
Begin(r) ==
    /\ rpc[r] \in {"idle", "served", "notFound", "downloaded", "missing"}
    /\ due' = [due EXCEPT ![r] = acked]
    /\ rpc' = [rpc EXCEPT ![r] = IF package \/ \E v \in Versions : Present(v) THEN "versions" ELSE "notFound"]
    /\ page' = [page EXCEPT ![r] = {}]
    /\ wanted' = [wanted EXCEPT ![r] = NoEntry]
    /\ got' = [got EXCEPT ![r] = None]
    /\ UNCHANGED <<storeVars, publishVars, taggerVars, unread, acked, vouched>>

ListVersions(r) ==
    /\ rpc[r] = "versions"
    /\ unread' = [unread EXCEPT ![r] = {v \in Versions : Present(v)}]
    /\ rpc' = [rpc EXCEPT ![r] = "documents"]
    /\ UNCHANGED <<storeVars, publishVars, taggerVars, page, wanted, got, acked, due, vouched>>

\* readVersionMetadata of one version, in any order; one without package.json is
\* the trace of a partial publish and is skipped.  rewriteTarball takes the last
\* element of the stored URL for the file name and escapes it again: what a client
\* asks for, decoded once, is the name as it is stored, escaped.
ReadDocument(r, v) ==
    /\ rpc[r] = "documents"
    /\ v \in unread[r]
    /\ unread' = [unread EXCEPT ![r] = @ \ {v}]
    /\ page' = [page EXCEPT ![r] = IF docs[v] = None THEN @ ELSE @ \cup {<<v, docs[v]>>}]
    /\ UNCHANGED <<storeVars, publishVars, taggerVars, rpc, wanted, got, acked, due, vouched>>

\* All documents are read: a packument without versions is a 404.
DocumentsRead(r) ==
    /\ rpc[r] = "documents" /\ unread[r] = {}
    /\ rpc' = [rpc EXCEPT ![r] = IF page[r] = {} THEN "notFound" ELSE "tags"]
    /\ UNCHANGED <<storeVars, publishVars, taggerVars, unread, page, wanted, got, acked, due, vouched>>

\* TagTargets; which version a tag names is left to the tags themselves.
ReadTags(r) ==
    /\ rpc[r] = "tags"
    /\ rpc' = [rpc EXCEPT ![r] = "served"]
    /\ UNCHANGED <<storeVars, publishVars, taggerVars, unread, page, wanted, got, acked, due, vouched>>

\* The client asks for the tarball of an entry.
Download(r, e) ==
    /\ rpc[r] = "served"
    /\ e \in page[r]
    /\ wanted' = [wanted EXCEPT ![r] = e]
    /\ rpc' = [rpc EXCEPT ![r] = "derive"]
    /\ UNCHANGED <<storeVars, publishVars, taggerVars, unread, page, got, acked, due, vouched>>

DeriveNothing(r) ==
    /\ rpc[r] = "derive"
    /\ rpc' = [rpc EXCEPT ![r] = "scan"]
    /\ UNCHANGED <<storeVars, publishVars, taggerVars, unread, page, wanted, got, acked, due, vouched>>

\* findTarball: first the version the file name spells.
Derive(r) ==
    /\ rpc[r] = "derive"
    /\ LET t == wanted[r][2]
           hit == Derived[t] # None /\ <<Derived[t], t>> \in tarballs
       IN /\ got' = [got EXCEPT ![r] = IF hit THEN Derived[t] ELSE None]
          /\ rpc' = [rpc EXCEPT ![r] = IF hit THEN "downloaded" ELSE "scan"]
    /\ UNCHANGED <<storeVars, publishVars, taggerVars, unread, page, wanted, acked, due, vouched>>

\* Then every version, in the order of the listing: any that holds a file of that
\* name may be the first.
Scan(r) ==
    /\ rpc[r] = "scan"
    /\ \/ \E v \in Versions :
             /\ <<v, wanted[r][2]>> \in tarballs
             /\ got' = [got EXCEPT ![r] = v]
             /\ rpc' = [rpc EXCEPT ![r] = "downloaded"]
       \/ /\ \A v \in Versions : <<v, wanted[r][2]>> \notin tarballs
          /\ rpc' = [rpc EXCEPT ![r] = "missing"]
          /\ UNCHANGED got
    /\ UNCHANGED <<storeVars, publishVars, taggerVars, unread, page, wanted, acked, due, vouched>>

\* A call fails: the request is answered with an error.
ReadFails(r) ==
    /\ rpc[r] \in {"versions", "documents", "tags", "derive", "scan"}
    /\ rpc' = [rpc EXCEPT ![r] = "idle"]
    /\ unread' = [unread EXCEPT ![r] = {}]
    /\ UNCHANGED <<storeVars, publishVars, taggerVars, page, wanted, got, acked, due, vouched>>
-----------------------------------------------------------------------------
Write(u) ==
    \/ Publish(u) \/ PutTarball(u) \/ AddPackage(u) \/ AddVersion(u) \/ PutDocument(u)
    \/ SetTag(u) \/ Answer(u) \/ PublishFails(u)

Tag(d) == BeginTag(d) \/ ProbeTarget(d) \/ TagFails(d) \/ \E g \in Tags : Retag(d, g)

Read(r) ==
    \/ Begin(r) \/ ListVersions(r) \/ DocumentsRead(r) \/ ReadTags(r) \/ Derive(r) \/ Scan(r) \/ ReadFails(r)
    \/ \E v \in Versions : ReadDocument(r, v)
    \/ \E e \in Entries : Download(r, e)

Next ==
    \/ \E u \in Publishes : Write(u)
    \/ \E d \in Taggers : Tag(d)
    \/ \E r \in Readers : Read(r)

Spec == Init /\ [][Next]_vars
-----------------------------------------------------------------------------
\* What a publish leaves behind is backed by its tarball, wherever it stops: the
\* tarball is the first thing written ("a rejected upload leaves no metadata").
Backed ==
    /\ \A v \in Versions : docs[v] # None => \E t \in Tarballs : Escape[t] = docs[v] /\ <<v, t>> \in tarballs
    /\ \A v \in records : \E t \in Tarballs : <<v, t>> \in tarballs
    /\ package => tarballs # {}

\* The file names that a URL spells as they are.
Plain == {t \in Tarballs : Escape[t] = t}

\* Install works: a tarball that a packument lists under a name no escaping changes can
\* be downloaded, and if its name spells its version it is that version's, whatever
\* other versions hold a file of the same name (findTarball).  A name that escaping
\* changes, which publish accepts, is listed under another than it is stored under.
InstallsWhatIsListed ==
    \A r \in Readers :
        wanted[r][2] \in Plain =>
            /\ rpc[r] # "missing"
            /\ rpc[r] = "downloaded" /\ Derived[wanted[r][2]] = wanted[r][1] => got[r] = wanted[r][1]

\* Read your publishes: a packument request that begins after a publish was answered
\* 201 is served and lists its version.
PublishesAreListed ==
    \A r \in Readers :
        /\ rpc[r] = "notFound" => due[r] = {}
        /\ rpc[r] = "served" => due[r] \subseteq {e[1] : e \in page[r]}

\* A tag that a publish set to its own version, latest above all, names a version
\* that packuments list: tags come after package.json.
OwnTagsResolve == \A g \in vouched : tags[g] # None /\ docs[tags[g]] # None

\* "Re-publishing an existing version returns 409" (docs/npm.md): what a listed
\* version installs never changes.
ListedVersionsImmutable == [][\A v \in Versions : docs[v] # None => docs'[v] = docs[v]]_vars
=============================================================================
