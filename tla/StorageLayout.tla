---------------------------- MODULE StorageLayout ----------------------------
(***************************************************************************)
(* Where the host keeps what it writes: StoragePaths and the paths that    *)
(* the ledger, the log, the evidence store, snapshots, exports and         *)
(* recovery build on it, and the identities they derive from ids.  Nothing *)
(* is written over: HostFilesystem refuses a path that is there, so two    *)
(* artifacts that met on one path would leave the second unwritten.        *)
(*                                                                         *)
(* An id is the sequence of its words, the parts between its hyphens.  A   *)
(* segment of a path is an id, or an id and the extension of a file, which *)
(* no id can look like; NoExt is that of a directory.  Names are those of  *)
(* files of the agent's workspace, which the program does not choose.      *)
(***************************************************************************)
EXTENDS Naturals, Sequences, FiniteSets

CONSTANTS
    Runs,          \* run scopes: project, glassbox, experiment and run
    Ids,           \* what cycles, incidents, exports and bundles are called
    SnapshotIds,   \* what the host calls its own full snapshots
    Names,         \* the relative paths of workspace files, of segments
    MaxFiles       \* bound on the artifacts written, for TLC; two meet, so
                   \* one that is written has them all meet it in turn

NoExt == ""

VARIABLES
    written,   \* the artifacts that were written
    met        \* the one that has just found its path taken, if any

layoutVars == <<written, met>>

RunKinds == {"run record", "run manifest", "ledger", "log", "log bundle",
             "export manifest"}
IdKinds == {"cycle record", "cycle manifest", "cycle link", "incident manifest",
            "incident", "incident report", "branch"}
FileKinds == {"cycle file", "incident file", "export", "proof", "proof backup"}

Artifact ==
    [kind : RunKinds, run : Runs, id : {<<>>}, name : {<<>>}]
        \cup [kind : IdKinds, run : Runs, id : Ids, name : {<<>>}]
        \cup [kind : FileKinds, run : Runs, id : Ids, name : Names]
        \cup [kind : {"full manifest"}, run : Runs, id : SnapshotIds, name : {<<>>}]
        \cup [kind : {"full file"}, run : Runs, id : SnapshotIds, name : Names]

-----------------------------------------------------------------------------
(* ReadableId *)

IsReadable(id, prefix) == Len(id) > 1 /\ Head(id) = prefix

(* Mutant: the hyphen is not looked for. *)
NormalizeByWord(id, prefix) == IF Head(id) = prefix THEN id ELSE <<prefix>> \o id

(* _normalize_readable_id *)
NormalizeReadableId(id, prefix) ==
    IF IsReadable(id, prefix) THEN id ELSE <<prefix>> \o id

IncidentId(id) == NormalizeReadableId(id, "incident")

(* RecoveryController._full_snapshot_id *)
FullSnapshotId(id) == <<"snapshot">> \o Tail(IncidentId(id))

-----------------------------------------------------------------------------
(* What is to be stored *)

IsWithin(p, q) == Len(q) < Len(p) /\ SubSeq(p, 1, Len(q)) = q

Meets(p, q) == p = q \/ IsWithin(p, q) \/ IsWithin(q, p)

(* The files of one workspace: none is where another has a directory.      *)
NamesApart == \A m, n \in Names : Meets(m, n) => m = n

(* No two full snapshots have one id: no incident x beside incident-x, and *)
(* what the host calls its own is nothing like an incident's.              *)
SnapshotsApart ==
    /\ \A x, y \in Ids : FullSnapshotId(x) = FullSnapshotId(y) => x = y
    /\ \A x \in Ids : FullSnapshotId(x) \notin SnapshotIds

LayoutConstants ==
    /\ \A r \in Runs : r \in [project : Seq(STRING), glassbox : Seq(STRING),
                              experiment : Seq(STRING), run : Seq(STRING)]
    /\ Ids \cup SnapshotIds \subseteq Seq(STRING) \ {<<>>}
    /\ Names \subseteq Seq(Seq(STRING) \X STRING) \ {<<>>}
    /\ NamesApart /\ SnapshotsApart
    /\ MaxFiles \in Nat

ASSUME LayoutAssumption == LayoutConstants

-----------------------------------------------------------------------------
(* StoragePaths *)

Dir(id) == <<id, NoExt>>

File(id, ext) == <<id, ext>>

(* _run_segments *)
RunSegments(r) ==
    <<Dir(<<"projects">>), Dir(r.project), Dir(<<"glassboxes">>), Dir(r.glassbox),
      Dir(<<"experiments">>), Dir(r.experiment), Dir(<<"runs">>), Dir(r.run)>>

(* Where a snapshot keeps its manifest and its files. *)
CycleSnapshot(id) == <<Dir(<<"cycles">>), Dir(id)>>

FullSnapshot(id) == <<Dir(<<"full">>), Dir(id)>>

SnapshotManifest == <<File(<<"manifest">>, "json")>>

(* Mutant: files and manifest are not kept apart. *)
SnapshotFileBeside(name) == name

SnapshotFile(name) == <<Dir(<<"files">>)>> \o name

(* The place of an artifact in its run's directory of a tree. *)
Place(a) ==
    CASE a.kind = "run record" -> <<File(<<"run">>, "json")>>
      [] a.kind = "run manifest" -> <<File(<<"run", "start", "reproducibility">>, "json")>>
      [] a.kind = "ledger" -> <<File(<<"ledger">>, "jsonl")>>
      [] a.kind = "log" -> <<Dir(<<"brokered">>), File(<<"full", "log", "bundle">>, "jsonl")>>
      [] a.kind = "log bundle" ->
            <<Dir(<<"brokered">>), File(<<"full", "log", "bundle">>, "json")>>
      [] a.kind = "export manifest" -> <<Dir(<<"items">>), File(<<"manifest">>, "jsonl")>>
      [] a.kind = "export" -> <<Dir(<<"items">>), Dir(a.id)>> \o a.name
      [] a.kind = "cycle record" -> <<Dir(<<"cycles">>), File(a.id, "json")>>
      [] a.kind = "cycle link" ->
            <<Dir(<<"cycles">>), File(a.id \o <<"audit", "link">>, "json")>>
      [] a.kind = "cycle manifest" -> CycleSnapshot(a.id) \o SnapshotManifest
      [] a.kind = "cycle file" -> CycleSnapshot(a.id) \o SnapshotFile(a.name)
      [] a.kind = "full manifest" -> FullSnapshot(a.id) \o SnapshotManifest
      [] a.kind = "full file" -> FullSnapshot(a.id) \o SnapshotFile(a.name)
      [] a.kind = "incident manifest" -> FullSnapshot(FullSnapshotId(a.id)) \o SnapshotManifest
      [] a.kind = "incident file" -> FullSnapshot(FullSnapshotId(a.id)) \o SnapshotFile(a.name)
      [] a.kind = "incident" -> <<File(a.id, "json")>>
      [] a.kind = "incident report" -> <<Dir(a.id), File(<<"report">>, "json")>>
      [] a.kind = "branch" ->
            <<Dir(<<"git">>), Dir(<<"branches">>), File(a.id, "json")>>
      [] a.kind = "proof" -> <<Dir(<<"bundles">>), Dir(a.id)>> \o a.name
      [] a.kind = "proof backup" -> <<Dir(<<"proofs">>), Dir(a.id)>> \o a.name

Tree(kind) ==
    CASE kind \in {"run record", "cycle record"} -> "records"
      [] kind = "run manifest" -> "manifests"
      [] kind = "ledger" -> "audit"
      [] kind = "cycle link" -> "evidence"
      [] kind \in {"log", "log bundle"} -> "logs"
      [] kind \in {"export", "export manifest"} -> "exports"
      [] kind \in {"cycle manifest", "cycle file", "full manifest", "full file",
                   "incident manifest", "incident file"} -> "snapshots"
      [] kind \in {"incident", "incident report"} -> "incidents"
      [] kind = "branch" -> "mirrors"
      [] kind = "proof" -> "proofs"
      [] kind = "proof backup" -> "backups"

Path(a) == <<Dir(<<Tree(a.kind)>>)>> \o RunSegments(a.run) \o Place(a)

-----------------------------------------------------------------------------
(* HostFilesystem *)

(* The path is there, is a directory that is there, or is under a file:    *)
(* write_json and write_bytes raise.                                       *)
Taken(a) == \E b \in written : Meets(Path(a), Path(b))

(* The type of what the host has written; its incidents have ReadableIds.  *)
LayoutTypeOK ==
    /\ written \subseteq Artifact
    /\ met \subseteq Artifact
    /\ \A a \in written : a.kind \in {"incident", "incident report"} =>
          IsReadable(IncidentId(a.id), "incident")

LayoutInit == written = {} /\ met = {}

Write(a) ==
    /\ ~Taken(a) /\ Cardinality(written) < MaxFiles
    /\ written' = written \cup {a}
    /\ met' = {}

(* The write is refused, or it is an append and goes on.                   *)
Meet(a) ==
    /\ Taken(a)
    /\ met' = {a}
    /\ UNCHANGED written

LayoutNext == \E a \in Artifact : Write(a) \/ Meet(a)

LayoutSpec == LayoutInit /\ [][LayoutNext]_layoutVars

-----------------------------------------------------------------------------
(* Properties *)

(* A path that is taken is taken by the very artifact that is to be        *)
(* written: FileExistsError means that it has been written before, and     *)
(* what is appended goes to a file of its own, whatever ids are chosen,    *)
(* the names of the host's own directories among them, and whatever the    *)
(* agent calls its files.  Only full snapshots are not kept apart by the   *)
(* code: incidents x and incident-x share one.                             *)
TakenIsOwn == met \subseteq written

==============================================================================
