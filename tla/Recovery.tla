------------------------------- MODULE Recovery -------------------------------
(***************************************************************************)
(* Recovery of one run: RecoveryController pauses the session, has the     *)
(* SnapshotService capture the failing cycle and the whole workspace,      *)
(* branches, rolls back or restores, and writes the incident's report and  *)
(* record.  Every file it writes on the host goes through HostFilesystem,  *)
(* which refuses to write over one; a write may break off and the process  *)
(* may stop anywhere, and the operator may then ask again.                 *)
(*                                                                         *)
(* Paths are numbers in the order of their names.  The entries of a        *)
(* manifest hold the sha256 of each file: it is represented by what the    *)
(* file contained.                                                         *)
(***************************************************************************)
EXTENDS Integers, FiniteSets

CONSTANTS
    Paths,       \* the files the sandbox may have in its workspace
    Parent,      \* Parent[p] is the path whose directory p is in, if in Paths
    Contents,    \* what a file may contain
    Requests,    \* the captures and the recoveries asked for
    AgentWaits,  \* TRUE: the agent starts again when a recovery is over;
                 \* FALSE: as soon as the lifecycle is active
    MayFail,     \* TRUE: the disk may give out during a write
    MayCrash,    \* TRUE: the host process may stop, and be started again
    None,        \* no file, no session, no directory
    Torn         \* what a write that broke off has left

Manifest == 0

RecoveryKinds == {"branch", "rollback", "restore"}

(* Where an operation is.  When it is over, it has returned, has raised or *)
(* was stopped with the process: what it left behind tells them apart.     *)
Phases == {"pause", "cycle", "full", "branch", "lifecycle", "plan", "unlink",
           "write", "tidy", "report", "record", "over"}

ASSUME RecoveryAssumption ==
    /\ Paths \subseteq Nat \ {Manifest} /\ IsFiniteSet(Paths)
    /\ Parent \in [Paths -> Paths \cup {None}]
    /\ \A p \in Paths : Parent[p] \in Paths => Parent[Parent[p]] = None
    /\ None \notin Paths /\ None \notin Requests
    /\ None \notin Contents /\ Torn \notin Contents /\ None # Torn
    /\ \A r \in Requests :
          /\ r.kind \in RecoveryKinds \cup {"capture"}
          /\ r.kind \in {"rollback", "restore"} => r.target[1] \in {"cycle", "full"}
    /\ {AgentWaits, MayFail, MayCrash} \subseteq BOOLEAN

VARIABLES
    ws,       \* the workspace: what each path contains
    dirs,     \* the paths that are directories
    disk,     \* the host's state root: artifacts, by name
    session,  \* lifecycle_state of the run's RuntimeSession
    op        \* the operation under way, or the last one

vars == <<ws, dirs, disk, session, op>>

CycleSnapshots == {<<"cycle", r.cycle>> : r \in Requests}
FullSnapshots == {<<"full", r.incident>> : r \in Requests}
Snapshots == CycleSnapshots \cup FullSnapshots

(* The files of the state root: the copy of a path in a snapshot, or the   *)
(* snapshot's manifest; and what a recovery writes of its incident.        *)
InSnapshot(s, p) == <<s[1], s[2], p>>
ManifestOf(s) == InSnapshot(s, Manifest)
Of(incident, document) == <<document, incident, Manifest>>

Artifacts ==
    {InSnapshot(s, p) : s \in Snapshots, p \in Paths \cup {Manifest}}
        \cup {Of(r.incident, d) : r \in Requests, d \in {"branch", "report", "record"}}

Files == UNION {[S -> Contents \cup {Torn}] : S \in SUBSET Paths}

(* What a broken write left is told from what any document says. *)
ASSUME TornAssumption == Torn \notin Files \cup Requests

Present == {p \in Paths : ws[p] # None}

Over == op.at = "over"

TypeOK ==
    /\ ws \in [Paths -> Contents \cup {None, Torn}]
    /\ dirs \subseteq Paths /\ dirs \cap Present = {}
    /\ DOMAIN disk \subseteq Artifacts
    /\ \A a \in DOMAIN disk :
          \/ disk[a] = Torn
          \/ a[1] \in {"cycle", "full"} /\ a[3] # Manifest /\ disk[a] \in Contents
          \/ a[1] \in {"cycle", "full"} /\ a[3] = Manifest /\ disk[a] \in Files
          \/ a[1] \in {"branch", "report", "record"} /\ disk[a] \in Requests
    /\ session \in {None, "active", "paused"}
    /\ op.at \in Phases /\ op.todo \subseteq Paths
    /\ IF Over THEN op.request = None ELSE op.request \in Requests

Init ==
    /\ ws = [p \in Paths |-> None]
    /\ dirs = {}
    /\ disk = [a \in {} |-> None]
    /\ session = "active"
    /\ op = [at |-> "over", request |-> None, todo |-> {}]

-----------------------------------------------------------------------------
(* The agent and the host around the controller *)

Beneath(d) == {p \in Paths : Parent[p] = d}

(* The agent creates, changes or deletes a file, or removes a directory,   *)
(* while the run is active and its cycle is not being captured.            *)
AgentMayWork ==
    /\ session = "active"
    /\ ~Over => ~AgentWaits /\ op.request.kind \in RecoveryKinds

FreeFor(p) ==
    /\ p \notin dirs
    /\ Parent[p] # None => ws[Parent[p]] = None

AgentWrites(p, c) ==
    /\ AgentMayWork /\ FreeFor(p)
    /\ ws' = [ws EXCEPT ![p] = c]
    /\ dirs' = dirs \cup ({Parent[p]} \ {None})
    /\ UNCHANGED <<disk, session, op>>

AgentDeletes(p) ==
    /\ AgentMayWork
    /\ \/ ws[p] # None /\ ws' = [ws EXCEPT ![p] = None] /\ UNCHANGED dirs
       \/ /\ p \in dirs /\ Beneath(p) \cap (Present \cup dirs) = {}
          /\ dirs' = dirs \ {p} /\ UNCHANGED ws
    /\ UNCHANGED <<disk, session, op>>

(* HostOrchestratorService.register_run, when the host comes back. *)
RegisterRun ==
    /\ session = None /\ Over
    /\ session' = "active"
    /\ UNCHANGED <<ws, dirs, disk, op>>

(* HostOrchestratorService.resume, by the operator. *)
Resume ==
    /\ session = "paused" /\ Over
    /\ session' = "active"
    /\ UNCHANGED <<ws, dirs, disk, op>>

(* The host captures a cycle, or the operator asks for a recovery. *)
Begin(r) ==
    /\ Over
    /\ op' = IF r.kind = "capture"
             THEN [at |-> "cycle", request |-> r, todo |-> Present]
             ELSE [at |-> "pause", request |-> r, todo |-> {}]
    /\ UNCHANGED <<ws, dirs, disk, session>>

-----------------------------------------------------------------------------
(* The order of the steps *)

(* Mutant: the workspace is captured in full only for a branch. *)
AfterCycleFullForBranch(r) ==
    CASE r.kind = "capture" -> "over"
      [] r.kind = "branch" -> "full"
      [] r.kind \in {"rollback", "restore"} -> "lifecycle"

AfterCycle(r) == IF r.kind = "capture" THEN "over" ELSE "full"

AfterFull(r) == IF r.kind = "branch" THEN "branch" ELSE "lifecycle"

(* The step that follows, and the files it goes through one by one. *)
Goto(at, todo) ==
    op' = [at |-> at, todo |-> todo,
           request |-> IF at = "over" THEN None ELSE op.request]

Raise == Goto("over", {})

Pause ==
    /\ op.at = "pause"
    /\ \/ /\ session # None
          /\ session' = "paused"
          /\ Goto("cycle", Present)
       \/ session = None /\ Raise /\ UNCHANGED session
    /\ UNCHANGED <<ws, dirs, disk>>

-----------------------------------------------------------------------------
(* Writing artifacts *)

Put(a, v) == disk' = [b \in DOMAIN disk \cup {a} |-> IF b = a THEN v ELSE disk[b]]

(* Mutants: what exists is taken to be written already; it is written over. *)
WriteOrKeep(a, v) ==
    IF a \in DOMAIN disk THEN UNCHANGED disk ELSE Put(a, v)

WriteOver(a, v) == Put(a, v)

(* HostFilesystem.write_bytes and write_json, on a disk that works. *)
WriteNew(a, v) == a \notin DOMAIN disk /\ Put(a, v)

(* A write that breaks off, or is refused by _prepare_file. *)
WriteFails(a) ==
    \/ a \in DOMAIN disk /\ UNCHANGED disk
    \/ MayFail /\ UNCHANGED disk
    \/ MayFail /\ a \notin DOMAIN disk /\ Put(a, Torn)

(* A step that writes artifact a, and then goes on. *)
Writes(a, v, at, todo) ==
    /\ \/ WriteNew(a, v) /\ Goto(at, todo)
       \/ WriteFails(a) /\ Raise
    /\ UNCHANGED <<ws, dirs, session>>

IsFirst(p, S) == p \in S /\ \A q \in S : p <= q
IsLast(p, S) == p \in S /\ \A q \in S : p >= q

Snapshot(r, at) ==
    IF at = "cycle" THEN <<"cycle", r.cycle>> ELSE <<"full", r.incident>>

AfterCapture(r, at) == IF at = "cycle" THEN AfterCycle(r) ELSE AfterFull(r)

(* Mutant: the manifest lists the files that have gone, too. *)
EntriesOfAll == ws

Entries == [p \in Present |-> ws[p]]

(* _capture_snapshot: every file of the workspace, and then the manifest.  *)
CopyFile ==
    /\ op.at \in {"cycle", "full"}
    /\ \E p \in op.todo :
          /\ IsFirst(p, op.todo)
          /\ Writes(InSnapshot(Snapshot(op.request, op.at), p), ws[p],
                    op.at, op.todo \ {p})

WriteManifest ==
    /\ op.at \in {"cycle", "full"} /\ op.todo = {}
    /\ LET after == AfterCapture(op.request, op.at)
       IN  Writes(ManifestOf(Snapshot(op.request, op.at)), Entries,
                  after, IF after = "full" THEN Present ELSE {})

(* _write_branch_evidence *)
WriteBranch ==
    /\ op.at = "branch"
    /\ Writes(Of(op.request.incident, "branch"), op.request, "report", {})

(* _write_incident_bundle *)
WriteReport ==
    /\ op.at = "report"
    /\ Writes(Of(op.request.incident, "report"), op.request, "record", {})

WriteRecord ==
    /\ op.at = "record"
    /\ Writes(Of(op.request.incident, "record"), op.request, "over", {})

-----------------------------------------------------------------------------
(* Restoring the workspace *)

(* HostRuntime.rollback and restore leave the run active. *)
SetLifecycle ==
    /\ op.at = "lifecycle"
    /\ session' = "active"
    /\ Goto("plan", {})
    /\ UNCHANGED <<ws, dirs, disk>>

Intact(a) == a \in DOMAIN disk /\ disk[a] # Torn

Expected == DOMAIN disk[ManifestOf(op.request.target)]

(* Mutant: what the snapshot does not have is left where it is. *)
ExtraLeft == {}

Extra == Present \ Expected

(* reconstruct_restore, and the files that are not in the plan. *)
Plan ==
    /\ op.at = "plan"
    /\ \/ Intact(ManifestOf(op.request.target)) /\ Goto("unlink", Extra)
       \/ ~Intact(ManifestOf(op.request.target)) /\ Raise
    /\ UNCHANGED <<ws, dirs, disk, session>>

Unlink ==
    /\ op.at = "unlink"
    /\ \/ \E p \in op.todo :
             /\ IsLast(p, op.todo)
             /\ \/ /\ ws[p] # None
                   /\ ws' = [ws EXCEPT ![p] = None]
                   /\ Goto("unlink", op.todo \ {p})
                \/ (ws[p] = None \/ MayFail) /\ Raise /\ UNCHANGED ws
       \/ op.todo = {} /\ Goto("write", Expected) /\ UNCHANGED ws
    /\ UNCHANGED <<dirs, disk, session>>

(* mkdir and write_bytes: raises where a directory is in the place of the  *)
(* file, or a file in that of its directory.                               *)
WriteBack ==
    /\ op.at = "write"
    /\ \/ \E p \in op.todo :
             /\ IsFirst(p, op.todo)
             /\ \/ /\ FreeFor(p)
                   /\ ws' = [ws EXCEPT ![p] = disk[InSnapshot(op.request.target, p)]]
                   /\ dirs' = dirs \cup ({Parent[p]} \ {None})
                   /\ Goto("write", op.todo \ {p})
                \/ ~FreeFor(p) /\ Raise /\ UNCHANGED <<ws, dirs>>
                \/ /\ MayFail /\ FreeFor(p) /\ Raise
                   /\ ws' \in {ws, [ws EXCEPT ![p] = Torn]}
                   /\ dirs' = dirs \cup ({Parent[p]} \ {None})
       \/ op.todo = {} /\ Goto("tidy", {}) /\ UNCHANGED <<ws, dirs>>
    /\ UNCHANGED <<disk, session>>

(* The directories left empty go, the deepest first. *)
Tidy ==
    /\ op.at = "tidy"
    /\ \E D \in SUBSET dirs :
          /\ dirs' = dirs \ D
          /\ \A d \in dirs : d \in D <=> Beneath(d) \cap (Present \cup dirs') = {}
    /\ Goto("report", {})
    /\ UNCHANGED <<ws, disk, session>>

-----------------------------------------------------------------------------
(* The artifact a crash may tear. *)
BeingWritten ==
    CASE op.at \in {"cycle", "full"} ->
            {InSnapshot(Snapshot(op.request, op.at), p) :
                p \in IF op.todo = {} THEN {Manifest}
                      ELSE {q \in op.todo : IsFirst(q, op.todo)}}
      [] op.at \in {"branch", "report", "record"} ->
            {Of(op.request.incident, op.at)}
      [] OTHER -> {}

(* The process stops, in the middle of a write or between two steps. *)
Crash ==
    /\ MayCrash /\ ~Over
    /\ session' = None
    /\ Goto("over", {})
    /\ \/ UNCHANGED <<ws, dirs, disk>>
       \/ /\ \E a \in BeingWritten : a \notin DOMAIN disk /\ Put(a, Torn)
          /\ UNCHANGED <<ws, dirs>>
       \/ /\ op.at = "write"
          /\ \E p \in op.todo :
                /\ IsFirst(p, op.todo) /\ FreeFor(p)
                /\ ws' = [ws EXCEPT ![p] = Torn]
                /\ dirs' = dirs \cup ({Parent[p]} \ {None})
          /\ UNCHANGED disk

Next ==
    \/ \E p \in Paths : \/ \E c \in Contents : AgentWrites(p, c)
                        \/ AgentDeletes(p)
    \/ RegisterRun \/ Resume
    \/ \E r \in Requests : Begin(r)
    \/ Pause \/ CopyFile \/ WriteManifest
    \/ WriteBranch \/ WriteReport \/ WriteRecord
    \/ SetLifecycle \/ Plan \/ Unlink \/ WriteBack \/ Tidy
    \/ Crash

Spec == Init /\ [][Next]_vars

-----------------------------------------------------------------------------
(* Properties *)

(* A snapshot can be restored: all that its manifest lists is there, as it *)
(* was.                                                                    *)
Whole(s) ==
    /\ Intact(ManifestOf(s))
    /\ \A p \in DOMAIN disk[ManifestOf(s)] :
          /\ InSnapshot(s, p) \in DOMAIN disk
          /\ disk[InSnapshot(s, p)] = disk[ManifestOf(s)][p]

(* A manifest never lies: whatever broke off and was asked for again, the  *)
(* files of a snapshot whose manifest can be read are the files it lists.  *)
SnapshotsAreWhole ==
    \A s \in Snapshots : Intact(ManifestOf(s)) => Whole(s)

(* "Snapshot evidence is written before destructive recovery steps         *)
(* proceed": a recovery overwrites or deletes no file of the workspace     *)
(* that the full snapshot of its incident does not have.                   *)
HasEvidence(p) ==
    LET s == <<"full", op.request.incident>> IN
    /\ Intact(ManifestOf(s)) /\ p \in DOMAIN disk[ManifestOf(s)]
    /\ InSnapshot(s, p) \in DOMAIN disk /\ disk[InSnapshot(s, p)] = ws[p]

EvidenceFirst ==
    [][op' # op => \A p \in Paths :
          ws[p] # None /\ ws'[p] # ws[p] => HasEvidence(p)]_vars

(* When a rollback or a restore writes its report, the workspace is the    *)
(* snapshot it names, no file more and no file less, and no empty          *)
(* directory.                                                              *)
RestoredIsTarget ==
    op.at \in {"report", "record"} /\ op.request.kind # "branch" =>
        /\ Whole(op.request.target)
        /\ Entries = disk[ManifestOf(op.request.target)]
        /\ dirs = {Parent[p] : p \in Present} \ {None}

(* An incident record that can be read leads to evidence that can be read: *)
(* its report, both snapshots, and the branch it speaks of.                *)
ReportedEvidenceHolds ==
    \A i \in {r.incident : r \in Requests} : Intact(Of(i, "record")) =>
        LET r == disk[Of(i, "record")] IN
        /\ Intact(Of(i, "report")) /\ disk[Of(i, "report")] = r
        /\ Whole(<<"cycle", r.cycle>>) /\ Whole(<<"full", i>>)
        /\ r.kind = "branch" => Intact(Of(i, "branch"))

=============================================================================
