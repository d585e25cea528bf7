------------------------------- MODULE Generic -------------------------------
(***************************************************************************)
(* The generic surface over one package, one version of it and one file in *)
(* it: PUTs of the two containers, which create a record or replace its    *)
(* annotations (Store.upsertAnnotations, a read and a write), uploads that *)
(* create the containers they lack, and the GETs that combine several      *)
(* reads of the store.                                                     *)
(*                                                                         *)
(* A record's creation time is the request that created it; a file is      *)
(* written in one step and is what its upload brought (module BlobFile).   *)
(* Listing packages combines nothing and is left out.                      *)
(***************************************************************************)
CONSTANTS
    Overwrites,  \* Config.AllowOverwrite
    Puts,        \* requests that write, one each
    Gets,        \* requests that read
    Notes,       \* annotations
    Bare,        \* no annotations
    None

Containers == {"package", "version"}

ASSUME OverwritesAssumption == Overwrites \subseteq BOOLEAN
ASSUME BareAssumption == Bare \notin Notes

Envelopes == [created : Puts, notes : Notes \cup {Bare}]

ASSUME NoneAssumption == None \notin Puts \cup Envelopes

VARIABLES
    allowOverwrite, \* the surface's option
    record,         \* the record of each container, or None
    file,           \* the upload whose body the file holds, or None
    ppc,            \* where each PUT is
    kind,           \* what it writes: a container, or the file
    notes,          \* the annotations it brings
    read,           \* the record it read, or None
    gpc,            \* where each GET is
    target,         \* the container it asks for
    listed,         \* whether it found the version of the package, or the file of the version
    shown,          \* the annotations it found
    due             \* history: what had been answered when it began: "file", "notes"

putVars == <<ppc, kind, notes, read>>
getVars == <<gpc, target, listed, shown, due>>
genericVars == <<allowOverwrite, record, file, ppc, kind, notes, read,
                 gpc, target, listed, shown, due>>

Success == {"created", "updated"}
PutSteps == {"idle", "parent", "version", "add", "read", "write", "upload"}
Refusals == {"conflict", "failed"}
GetSteps == {"exists", "list", "record"}
GetAnswers == {"ok", "missing", "failed"}

GenericTypeOK ==
    /\ allowOverwrite \in Overwrites
    /\ record \in [Containers -> {None} \cup Envelopes]
    /\ file \in Puts \cup {None}
    /\ ppc \in [Puts -> PutSteps \cup Success \cup Refusals]
    /\ kind \in [Puts -> Containers \cup {"file"}]
    /\ notes \in [Puts -> Notes \cup {Bare}]
    /\ read \in [Puts -> {None} \cup Envelopes]
    /\ gpc \in [Gets -> GetSteps \cup GetAnswers \cup {"idle"}]
    /\ target \in [Gets -> Containers]
    /\ listed \in [Gets -> BOOLEAN]
    /\ shown \in [Gets -> Notes \cup {Bare}]
    /\ due \in [Gets -> SUBSET {"file", "notes"}]

GenericInit ==
    /\ allowOverwrite \in Overwrites
    /\ record = [c \in Containers |-> None]
    /\ file = None
    /\ ppc = [p \in Puts |-> "idle"]
    /\ kind = [p \in Puts |-> "package"]
    /\ notes = [p \in Puts |-> Bare]
    /\ read = [p \in Puts |-> None]
    /\ gpc = [g \in Gets |-> "idle"]
    /\ target = [g \in Gets |-> "package"]
    /\ listed = [g \in Gets |-> FALSE]
    /\ shown = [g \in Gets |-> Bare]
    /\ due = [g \in Gets |-> {}]
-----------------------------------------------------------------------------
(* PUTs: handler.putPackage, putVersion and uploadFile.                     *)

PutAt(p, step) == ppc' = [ppc EXCEPT ![p] = step]

BeginPut(p) ==
    /\ ppc[p] = "idle"
    /\ \E k \in Containers \cup {"file"}, n \in Notes \cup {Bare} :
          /\ k = "file" => n = Bare
          /\ kind' = [kind EXCEPT ![p] = k]
          /\ notes' = [notes EXCEPT ![p] = n]
          /\ PutAt(p, IF k = "package" THEN "add" ELSE "parent")
    /\ UNCHANGED <<allowOverwrite, record, file, read, getVars>>

\* The last write has taken effect; its answer may be lost.
Answer(p, success) == \E a \in {success, "failed"} : PutAt(p, a)

AddedUnstamped(c, p, n) ==
    [record EXCEPT ![c] = IF @ = None THEN [created |-> None, notes |-> n] ELSE @]

AddedAnyway(c, p, n) == [record EXCEPT ![c] = [created |-> p, notes |-> n]]

\* writeMeta under IfNotExist: a record that is there stays as it is.
Added(c, p, n) == [record EXCEPT ![c] = IF @ = None THEN [created |-> p, notes |-> n] ELSE @]

\* AddPackage, and for an upload AddVersion, without annotations: there afterwards or
\* already is the same.
AddParent(p) ==
    /\ ppc[p] \in {"parent", "version"}
    /\ record' = Added(IF ppc[p] = "parent" THEN "package" ELSE "version", p, Bare)
    /\ PutAt(p, IF ppc[p] = "version" THEN "upload" ELSE IF kind[p] = "file" THEN "version" ELSE "add")
    /\ UNCHANGED <<allowOverwrite, file, kind, notes, read, getVars>>

\* upsertContainer: the record is created, or its annotations are to be replaced.
Add(p) ==
    /\ ppc[p] = "add"
    /\ record' = Added(kind[p], p, notes[p])
    /\ \/ record[kind[p]] = None /\ Answer(p, "created")
       \/ record[kind[p]] # None /\ PutAt(p, IF notes[p] = Bare THEN "updated" ELSE "read")
    /\ UNCHANGED <<allowOverwrite, file, kind, notes, read, getVars>>

\* upsertAnnotations reads the record,
ReadRecord(p) ==
    /\ ppc[p] = "read"
    /\ read' = [read EXCEPT ![p] = record[kind[p]]]
    /\ PutAt(p, "write")
    /\ UNCHANGED <<allowOverwrite, record, file, kind, notes, getVars>>

RestampsRecord(p) ==
    /\ ppc[p] = "write"
    /\ record' = [record EXCEPT ![kind[p]] = [created |-> p, notes |-> notes[p]]]
    /\ PutAt(p, "updated")
    /\ UNCHANGED <<allowOverwrite, file, kind, notes, read, getVars>>

\* and writes it whole: its creation time as it was read, the annotations new.
WriteRecord(p) ==
    /\ ppc[p] = "write"
    /\ record' = [record EXCEPT ![kind[p]] =
                     [created |-> IF read[p] = None THEN p ELSE read[p].created, notes |-> notes[p]]]
    /\ Answer(p, "updated")
    /\ UNCHANGED <<allowOverwrite, file, kind, notes, read, getVars>>

\* AddFile.
Upload(p) ==
    /\ ppc[p] = "upload"
    /\ \/ (allowOverwrite \/ file = None) /\ file' = p /\ Answer(p, "created")
       \/ ~allowOverwrite /\ file # None /\ PutAt(p, "conflict") /\ UNCHANGED file
    /\ UNCHANGED <<allowOverwrite, record, kind, notes, read, getVars>>

\* A call to the store fails, after it took effect or before, or the process stops.
PutFails(p) ==
    /\ ppc[p] \in PutSteps \ {"idle"}
    /\ PutAt(p, "failed")
    /\ UNCHANGED <<allowOverwrite, record, file, kind, notes, read, getVars>>
-----------------------------------------------------------------------------
(* GETs: handler.getPackage, listVersions, getVersion and listFiles.        *)

Goto(g, step) == gpc' = [gpc EXCEPT ![g] = step]

Annotators(c) == {p \in Puts : kind[p] = c /\ notes[p] # Bare}

\* A resource must exist, is listed and has its record read; the route of a collection
\* does List alone.
Ask(g) ==
    /\ gpc[g] \in GetAnswers \cup {"idle"}
    /\ \E c \in Containers :
          /\ target' = [target EXCEPT ![g] = c]
          /\ due' = [due EXCEPT ![g] =
                (IF \E p \in Puts : kind[p] = "file" /\ ppc[p] = "created" THEN {"file"} ELSE {})
                \cup (IF \E p \in Annotators(c) : ppc[p] \in Success THEN {"notes"} ELSE {})]
    /\ Goto(g, "exists")
    /\ listed' = [listed EXCEPT ![g] = FALSE]
    /\ shown' = [shown EXCEPT ![g] = Bare]
    /\ UNCHANGED <<allowOverwrite, record, file, putVars>>

\* Exists: its record, or anything below it.
Exists(c) == record[c] # None \/ file # None \/ (c = "package" /\ record["version"] # None)

LookFor(g) ==
    /\ gpc[g] = "exists"
    /\ Goto(g, IF Exists(target[g]) THEN "list" ELSE "missing")
    /\ UNCHANGED <<allowOverwrite, record, file, putVars, target, listed, shown, due>>

\* The package's versions: every one with an object below it.  The version's files: their blobs.
List(g) ==
    /\ gpc[g] = "list"
    /\ listed' = [listed EXCEPT ![g] = file # None \/ (target[g] = "package" /\ record["version"] # None)]
    /\ Goto(g, "record")
    /\ UNCHANGED <<allowOverwrite, record, file, putVars, target, shown, due>>

\* A record that is not there is shown without annotations.
ShowRecord(g) ==
    /\ gpc[g] = "record"
    /\ shown' = [shown EXCEPT ![g] = IF record[target[g]] = None THEN Bare ELSE record[target[g]].notes]
    /\ Goto(g, "ok")
    /\ UNCHANGED <<allowOverwrite, record, file, putVars, target, listed, due>>

GetFails(g) ==
    /\ gpc[g] \in GetSteps
    /\ Goto(g, "failed")
    /\ UNCHANGED <<allowOverwrite, record, file, putVars, target, listed, shown, due>>
-----------------------------------------------------------------------------
Put(p) ==
    \/ BeginPut(p) \/ AddParent(p) \/ Add(p) \/ ReadRecord(p) \/ WriteRecord(p) \/ Upload(p)
    \/ PutFails(p)

Get(g) == Ask(g) \/ LookFor(g) \/ List(g) \/ ShowRecord(g) \/ GetFails(g)

GenericNext == (\E p \in Puts : Put(p)) \/ (\E g \in Gets : Get(g))

GenericSpec == GenericInit /\ [][GenericNext]_genericVars
-----------------------------------------------------------------------------
\* "201 on create and 200 on update ... CreatedAt preserved" (docs/architecture.md): the
\* PUT that is answered 201 made the record, and is still its creation time whatever
\* concurrent creates, auto-creating uploads and read-modify-writes did since.
CreatedOnce ==
    \A p \in Puts : kind[p] \in Containers /\ ppc[p] = "created" =>
        record[kind[p]] # None /\ record[kind[p]].created = p

\* Annotations that were acknowledged give way only to another PUT's annotations: no
\* upload or bare PUT that creates the container at the same time wipes them.
AnnotationsStand ==
    \A c \in Containers, p \in Puts :
        p \in Annotators(c) /\ ppc[p] \in Success =>
            record[c] # None /\ record[c].notes \in {notes[q] : q \in Annotators(c)}

\* A GET that began after an upload or an annotating PUT was answered finds the
\* container, lists what was uploaded into it and shows annotations.
ReadsAreFresh ==
    \A g \in Gets :
        /\ due[g] # {} => gpc[g] # "missing"
        /\ gpc[g] = "ok" /\ "file" \in due[g] => listed[g]
        /\ gpc[g] = "ok" /\ "notes" \in due[g] => shown[g] # Bare
=============================================================================
