---------------------------- MODULE Recovery_proofs ----------------------------
(***************************************************************************)
(* Theorems about Recovery, for every set of paths, contents and requests, *)
(* whatever writes break off and whenever the process stops, and about     *)
(* StorageLayout, for every set of runs, ids and names of files.           *)
(***************************************************************************)
EXTENDS Recovery, StorageLayout, SequenceTheorems, TLAPS

(***************************************************************************)
(* What a write may put on the disk, and what it leaves as it was.         *)
(***************************************************************************)
Capturing == op.at \in {"cycle", "full"}

Documents == {"branch", "report", "record"}

(* The artifact a step writes, and what a write that succeeds puts in it.  *)
Due(a, v) ==
    \/ /\ Capturing
       /\ \E p \in op.todo : /\ a = InSnapshot(Snapshot(op.request, op.at), p)
                             /\ v = ws[p]
    \/ /\ Capturing /\ op.todo = {}
       /\ a = ManifestOf(Snapshot(op.request, op.at)) /\ v = Entries
    \/ /\ op.at \in Documents
       /\ a = Of(op.request.incident, op.at) /\ v = op.request

LEMMA CopyNames ==
    ASSUME NEW s, NEW t, NEW p, NEW q
    PROVE  /\ InSnapshot(s, p) = InSnapshot(t, q)
                 <=> s[1] = t[1] /\ s[2] = t[2] /\ p = q
           /\ InSnapshot(s, p)[1] = s[1] /\ InSnapshot(s, p)[3] = p
BY DEF InSnapshot

LEMMA DocumentNames ==
    ASSUME NEW i, NEW j, NEW d, NEW e, NEW s, NEW p
    PROVE  /\ Of(i, d) = Of(j, e) <=> d = e /\ i = j
           /\ Of(i, d)[1] = d
           /\ InSnapshot(s, p) = Of(i, d) => s[1] = d
BY DEF Of, InSnapshot

(* One artifact is on the disk that was not there; the others stay.        *)
Adds(a, v) ==
    /\ a \notin DOMAIN disk /\ DOMAIN disk' = DOMAIN disk \cup {a}
    /\ disk'[a] = v
    /\ \A b \in DOMAIN disk : disk'[b] = disk[b]

LEMMA WriteEffect ==
    ASSUME NEW a, NEW v, NEW at, NEW todo, Writes(a, v, at, todo)
    PROVE  disk' = disk \/ \E w \in {v, Torn} : Adds(a, w)
BY DEF Writes, WriteNew, WriteFails, Put, Adds

LEMMA TornByCrash ==
    ASSUME NEW a \in BeingWritten, op.todo \subseteq Paths
    PROVE  \E v : Due(a, v)
<1>1. CASE Capturing /\ op.todo = {}
  <2>1. a = ManifestOf(Snapshot(op.request, op.at))
    BY <1>1 DEF BeingWritten, Capturing, ManifestOf
  <2> QED
    BY <1>1, <2>1 DEF Due
<1>2. CASE Capturing /\ op.todo # {}
  <2>1. PICK p \in op.todo : a = InSnapshot(Snapshot(op.request, op.at), p)
    BY <1>2 DEF BeingWritten, Capturing
  <2> QED
    BY <1>2, <2>1 DEF Due
<1>3. CASE op.at \in Documents
  BY <1>3 DEF BeingWritten, Documents, Due
<1>4. CASE ~Capturing /\ op.at \notin Documents
  BY <1>4 DEF BeingWritten, Capturing, Documents
<1> QED
  BY <1>1, <1>2, <1>3, <1>4

(* A step writes the artifact that is due, or breaks off in it, or leaves  *)
(* the disk alone; it writes over nothing.                                 *)
LEMMA DiskEffect ==
    ASSUME Next, op.todo \subseteq Paths
    PROVE  \/ disk' = disk
           \/ \E a, v : Due(a, v) /\ \E w \in {v, Torn} : Adds(a, w)
<1>1. CASE CopyFile
  <2>1. PICK p \in op.todo :
           Writes(InSnapshot(Snapshot(op.request, op.at), p), ws[p],
                  op.at, op.todo \ {p})
    BY <1>1 DEF CopyFile
  <2>2. Due(InSnapshot(Snapshot(op.request, op.at), p), ws[p])
    BY <1>1 DEF CopyFile, Due, Capturing
  <2> QED
    BY <2>1, <2>2, WriteEffect
<1>2. CASE WriteManifest
  <2>1. PICK at, todo :
           Writes(ManifestOf(Snapshot(op.request, op.at)), Entries, at, todo)
    BY <1>2 DEF WriteManifest
  <2>2. Due(ManifestOf(Snapshot(op.request, op.at)), Entries)
    BY <1>2 DEF WriteManifest, Due, Capturing
  <2> QED
    BY <2>1, <2>2, WriteEffect
<1>3. CASE WriteBranch \/ WriteReport \/ WriteRecord
  <2>1. PICK at, todo : Writes(Of(op.request.incident, op.at), op.request, at, todo)
    BY <1>3 DEF WriteBranch, WriteReport, WriteRecord
  <2>2. Due(Of(op.request.incident, op.at), op.request)
    BY <1>3 DEF WriteBranch, WriteReport, WriteRecord, Due, Documents
  <2> QED
    BY <2>1, <2>2, WriteEffect
<1>4. CASE Crash
  <2>1. CASE disk' = disk
    BY <2>1
  <2>2. CASE \E a \in BeingWritten : a \notin DOMAIN disk /\ Put(a, Torn)
    BY <2>2, TornByCrash DEF Put, Adds
  <2> QED
    BY <1>4, <2>1, <2>2 DEF Crash
<1>5. CASE \E p \in Paths : AgentDeletes(p) \/ \E c \in Contents : AgentWrites(p, c)
  BY <1>5 DEF AgentDeletes, AgentWrites
<1>6. CASE \/ RegisterRun \/ Resume \/ Pause \/ SetLifecycle \/ Plan
           \/ Unlink \/ WriteBack \/ Tidy \/ \E r \in Requests : Begin(r)
  BY <1>6 DEF RegisterRun, Resume, Begin, Pause, SetLifecycle, Plan, Unlink,
              WriteBack, Tidy
<1> QED
  BY <1>1, <1>2, <1>3, <1>4, <1>5, <1>6 DEF Next

(* What is on the disk stays as it is. *)
LEMMA DiskKeeps ==
    ASSUME [Next]_vars, op.todo \subseteq Paths, NEW a \in DOMAIN disk
    PROVE  /\ a \in DOMAIN disk' /\ disk'[a] = disk[a]
           /\ Intact(a) => Intact(a)'
<1>1. a \in DOMAIN disk' /\ disk'[a] = disk[a]
  BY DiskEffect DEF vars, Adds
<1> QED
  BY <1>1 DEF Intact

-----------------------------------------------------------------------------
(***************************************************************************)
(* The inductive invariant.  A manifest never lies because                 *)
(*   - the agent is held while the workspace is captured (AgentIsHeld),    *)
(*   - what has been gone through is on the disk as it is in the workspace *)
(*     when the manifest is written (CopiedSoFar), and                     *)
(*   - nothing on the disk is written over (DiskKeeps).                    *)
(* An incident's record leads to evidence because each step is entered     *)
(* with what the steps before it have written (EvidenceTaken), and a       *)
(* restore has its plan (PlanHolds).                                       *)
(***************************************************************************)
KindsFit ==
    /\ op.at \notin {"cycle", "over"} => op.request.kind \in RecoveryKinds
    /\ op.at = "branch" => op.request.kind = "branch"
    /\ op.at \in {"lifecycle", "plan", "unlink", "write", "tidy"} =>
          op.request.kind \in {"rollback", "restore"}

AgentIsHeld ==
    Capturing => op.request.kind = "capture" \/ session = "paused"

CopiedSoFar ==
    Capturing =>
        /\ op.todo \subseteq Present
        /\ \A p \in Present \ op.todo :
              LET copy == InSnapshot(Snapshot(op.request, op.at), p)
              IN  copy \in DOMAIN disk /\ disk[copy] = ws[p]

EvidenceTaken ==
    /\ op.at \notin {"over", "pause", "cycle"} =>
          Intact(ManifestOf(<<"cycle", op.request.cycle>>))
    /\ op.at \notin {"over", "pause", "cycle", "full"} =>
          Intact(ManifestOf(<<"full", op.request.incident>>))
    /\ op.at \in {"report", "record"} /\ op.request.kind = "branch" =>
          Intact(Of(op.request.incident, "branch"))
    /\ op.at = "record" =>
          /\ Intact(Of(op.request.incident, "report"))
          /\ disk[Of(op.request.incident, "report")] = op.request

Restoring ==
    \/ op.at \in {"unlink", "write", "tidy"}
    \/ op.at \in {"report", "record"} /\ op.request.kind # "branch"

PlanHolds ==
    /\ Restoring => Intact(ManifestOf(op.request.target))
    /\ op.at = "write" => op.todo \subseteq Expected

IInv ==
    /\ TypeOK /\ SnapshotsAreWhole
    /\ KindsFit /\ AgentIsHeld /\ CopiedSoFar /\ EvidenceTaken /\ PlanHolds

LEMMA InitInv == Init => IInv
<1> SUFFICES ASSUME Init PROVE IInv
  OBVIOUS
<1>1. DOMAIN disk = {} /\ op.at = "over" /\ op.request = None /\ op.todo = {}
  BY DEF Init
<1>2. TypeOK
  BY <1>1, RecoveryAssumption DEF Init, TypeOK, Phases, Over, Present
<1>3. SnapshotsAreWhole
  BY <1>1 DEF SnapshotsAreWhole, Intact
<1>4. KindsFit /\ AgentIsHeld /\ CopiedSoFar /\ EvidenceTaken /\ PlanHolds
  BY <1>1 DEF KindsFit, AgentIsHeld, CopiedSoFar, EvidenceTaken, PlanHolds,
              Restoring, Capturing
<1> QED
  BY <1>2, <1>3, <1>4 DEF IInv

-----------------------------------------------------------------------------
(* What the artifact that is due is. *)

LEMMA SnapshotKinds ==
    ASSUME NEW s \in Snapshots
    PROVE  s[1] \in {"cycle", "full"}
BY DEF Snapshots, CycleSnapshots, FullSnapshots

LEMMA SnapshotOfRequest ==
    ASSUME TypeOK, Capturing
    PROVE  Snapshot(op.request, op.at) \in Snapshots
<1>1. op.request \in Requests
  BY DEF TypeOK, Over, Capturing
<1> QED
  BY <1>1 DEF Capturing, Snapshot, Snapshots, CycleSnapshots, FullSnapshots

LEMMA EntriesTyped ==
    ASSUME TypeOK
    PROVE  Entries \in Files /\ Entries # Torn
<1>1. Entries \in [Present -> Contents \cup {Torn}]
  BY DEF TypeOK, Entries, Present
<1>2. Present \in SUBSET Paths
  BY DEF Present
<1>3. Entries \in Files
  BY <1>1, <1>2 DEF Files
<1> QED
  BY <1>3, TornAssumption

(* The names and values of well-typed artifacts. *)
Fits(a, v) ==
    \/ v = Torn
    \/ a[1] \in {"cycle", "full"} /\ a[3] # Manifest /\ v \in Contents
    \/ a[1] \in {"cycle", "full"} /\ a[3] = Manifest /\ v \in Files
    \/ a[1] \in Documents /\ v \in Requests

LEMMA DueTyped ==
    ASSUME TypeOK, CopiedSoFar, NEW a, NEW v, Due(a, v)
    PROVE  a \in Artifacts /\ Fits(a, v)
<1>1. CASE \E p \in op.todo :
              /\ Capturing
              /\ a = InSnapshot(Snapshot(op.request, op.at), p) /\ v = ws[p]
  <2>1. PICK p \in op.todo : /\ a = InSnapshot(Snapshot(op.request, op.at), p)
                             /\ v = ws[p]
    BY <1>1
  <2>2. p \in Paths /\ p # Manifest /\ ws[p] \in Contents \cup {Torn}
    BY <1>1, RecoveryAssumption DEF TypeOK, CopiedSoFar, Present
  <2>3. Snapshot(op.request, op.at) \in Snapshots
    BY <1>1, SnapshotOfRequest
  <2>4. a \in Artifacts
    BY <2>1, <2>2, <2>3 DEF Artifacts
  <2>5. a[1] \in {"cycle", "full"} /\ a[3] = p
    BY <2>1, <2>3, CopyNames, SnapshotKinds
  <2> QED
    BY <2>1, <2>2, <2>4, <2>5 DEF Fits
<1>2. CASE /\ Capturing
           /\ a = ManifestOf(Snapshot(op.request, op.at)) /\ v = Entries
  <2>1. Snapshot(op.request, op.at) \in Snapshots
    BY <1>2, SnapshotOfRequest
  <2>2. a \in Artifacts
    BY <1>2, <2>1 DEF Artifacts, ManifestOf
  <2>3. a[1] \in {"cycle", "full"} /\ a[3] = Manifest
    BY <1>2, <2>1, CopyNames, SnapshotKinds DEF ManifestOf
  <2> QED
    BY <1>2, <2>2, <2>3, EntriesTyped DEF Fits
<1>3. CASE /\ op.at \in Documents
           /\ a = Of(op.request.incident, op.at) /\ v = op.request
  <2>1. op.request \in Requests
    BY <1>3 DEF TypeOK, Over, Documents
  <2>2. a \in Artifacts
    BY <1>3, <2>1 DEF Artifacts, Documents
  <2>3. a[1] \in Documents
    BY <1>3, DocumentNames
  <2> QED
    BY <1>3, <2>1, <2>2, <2>3 DEF Fits
<1> QED
  BY <1>1, <1>2, <1>3 DEF Due

(* A manifest that is due lists copies that are on the disk already. *)
LEMMA DueManifest ==
    ASSUME TypeOK, CopiedSoFar, NEW s \in Snapshots, NEW v, Due(ManifestOf(s), v)
    PROVE  /\ v = Entries /\ DOMAIN v = Present
           /\ \A p \in Present : /\ InSnapshot(s, p) \in DOMAIN disk
                                 /\ disk[InSnapshot(s, p)] = v[p]
<1>1. /\ Capturing /\ op.todo = {} /\ v = Entries
      /\ ManifestOf(s) = ManifestOf(Snapshot(op.request, op.at))
  <2>1. ASSUME NEW p \in op.todo, Capturing
        PROVE  ManifestOf(s) # InSnapshot(Snapshot(op.request, op.at), p)
    <3>1. p # Manifest
      BY <2>1, RecoveryAssumption DEF CopiedSoFar, Present
    <3> QED
      BY <3>1, CopyNames DEF ManifestOf
  <2>2. ASSUME op.at \in Documents PROVE ManifestOf(s) # Of(op.request.incident, op.at)
    BY <2>2, DocumentNames, SnapshotKinds DEF ManifestOf, Documents
  <2> QED
    BY <2>1, <2>2 DEF Due
<1>2. ASSUME NEW p \in Present
      PROVE  InSnapshot(s, p) = InSnapshot(Snapshot(op.request, op.at), p)
  BY <1>1, CopyNames DEF ManifestOf
<1>3. ASSUME NEW p \in Present
      PROVE  InSnapshot(s, p) \in DOMAIN disk /\ disk[InSnapshot(s, p)] = ws[p]
  BY <1>1, <1>2 DEF CopiedSoFar
<1> QED
  BY <1>1, <1>3 DEF Entries

-----------------------------------------------------------------------------
(* Snapshots, step by step *)

LEMMA SnapshotsStep ==
    ASSUME IInv, Next
    PROVE  SnapshotsAreWhole'
<1>1. TypeOK /\ SnapshotsAreWhole /\ CopiedSoFar /\ op.todo \subseteq Paths
  BY DEF IInv, TypeOK
<1>2. ASSUME NEW a \in DOMAIN disk
      PROVE  a \in DOMAIN disk' /\ disk'[a] = disk[a] /\ (Intact(a) => Intact(a)')
  BY <1>1, DiskKeeps
<1> SUFFICES ASSUME NEW s \in Snapshots, Intact(ManifestOf(s))'
             PROVE  Whole(s)'
  BY DEF SnapshotsAreWhole, Snapshots, CycleSnapshots, FullSnapshots
<1> DEFINE m == ManifestOf(s)
<1>3. CASE m \in DOMAIN disk
  <2>1. disk'[m] = disk[m]
    BY <1>2, <1>3
  <2>2. Intact(m)
    BY <1>3, <2>1 DEF Intact, ManifestOf, InSnapshot
  <2>3. ASSUME NEW p \in DOMAIN disk'[m]
        PROVE  /\ InSnapshot(s, p) \in DOMAIN disk'
               /\ disk'[InSnapshot(s, p)] = disk'[m][p]
    <3>1. InSnapshot(s, p) \in DOMAIN disk /\ disk[InSnapshot(s, p)] = disk[m][p]
      BY <1>1, <2>1, <2>2, <2>3 DEF SnapshotsAreWhole, Whole
    <3> QED
      BY <1>2, <2>1, <3>1
  <2> QED
    BY <2>3 DEF Whole, ManifestOf, InSnapshot
<1>4. CASE m \notin DOMAIN disk
  <2>1. m \in DOMAIN disk' /\ disk'[m] # Torn
    BY DEF Intact, ManifestOf, InSnapshot
  <2>2. PICK a, v : Due(a, v) /\ \E w \in {v, Torn} : Adds(a, w)
    BY <1>1, <1>4, <2>1, DiskEffect
  <2>3. a = m /\ disk'[m] = v
    BY <1>4, <2>1, <2>2 DEF Adds
  <2>4. /\ DOMAIN v = Present
        /\ \A p \in Present : /\ InSnapshot(s, p) \in DOMAIN disk
                              /\ disk[InSnapshot(s, p)] = v[p]
    BY <1>1, <2>2, <2>3, DueManifest
  <2>5. ASSUME NEW p \in DOMAIN disk'[m]
        PROVE  /\ InSnapshot(s, p) \in DOMAIN disk'
               /\ disk'[InSnapshot(s, p)] = disk'[m][p]
    BY <1>2, <2>3, <2>4
  <2> QED
    BY <2>5 DEF Whole, ManifestOf, InSnapshot
<1> QED
  BY <1>3, <1>4

(* The manifest a restore goes by is that of a whole snapshot. *)
LEMMA PlanTarget ==
    ASSUME TypeOK, SnapshotsAreWhole,
           op.request.kind \in {"rollback", "restore"}, op.request \in Requests,
           Intact(ManifestOf(op.request.target))
    PROVE  /\ Whole(op.request.target)
           /\ Expected \subseteq Paths
           /\ disk[ManifestOf(op.request.target)] \in Files
           /\ \A p \in Expected :
                 disk[InSnapshot(op.request.target, p)] \in Contents \cup {Torn}
<1> DEFINE t == op.request.target
           m == ManifestOf(t)
<1>1. t[1] \in {"cycle", "full"} /\ m \in DOMAIN disk /\ disk[m] # Torn
  BY RecoveryAssumption DEF Intact
<1>2. m \in Artifacts
  BY <1>1 DEF TypeOK
<1>3. PICK s \in Snapshots : s[1] = t[1] /\ s[2] = t[2]
  <2>1. CASE \E s \in Snapshots, p \in Paths \cup {Manifest} : m = InSnapshot(s, p)
    BY <2>1, CopyNames DEF ManifestOf
  <2>2. CASE \E r \in Requests, d \in {"branch", "report", "record"} :
                m = Of(r.incident, d)
    BY <1>1, <2>2, DocumentNames DEF ManifestOf
  <2> QED
    BY <1>2, <2>1, <2>2 DEF Artifacts
<1>4. ASSUME NEW p PROVE InSnapshot(t, p) = InSnapshot(s, p)
  BY <1>3, CopyNames
<1>5. Whole(s)
  BY <1>1, <1>4 DEF SnapshotsAreWhole, ManifestOf, Intact
<1>6. Whole(t)
  BY <1>4, <1>5 DEF Whole, ManifestOf
<1>7. m[1] \in {"cycle", "full"} /\ m[3] = Manifest
  BY <1>1, CopyNames DEF ManifestOf
<1>8. disk[m] \in Files
  BY <1>1, <1>7, RecoveryAssumption DEF TypeOK
<1>9. Expected \subseteq Paths
  BY <1>8 DEF Expected, Files
<1>10. ASSUME NEW p \in Expected PROVE disk[InSnapshot(t, p)] \in Contents \cup {Torn}
  <2>1. InSnapshot(t, p) \in DOMAIN disk
    BY <1>6, <1>10 DEF Whole, Expected
  <2>2. InSnapshot(t, p)[1] \in {"cycle", "full"} /\ InSnapshot(t, p)[3] = p
    BY <1>1, CopyNames
  <2>3. p # Manifest
    BY <1>9, <1>10, RecoveryAssumption
  <2> QED
    BY <2>1, <2>2, <2>3 DEF TypeOK
<1> QED
  BY <1>6, <1>8, <1>9, <1>10

-----------------------------------------------------------------------------
(* Typing, step by step *)

LEMMA DiskTyped ==
    ASSUME IInv, Next
    PROVE  /\ DOMAIN disk' \subseteq Artifacts
           /\ \A a \in DOMAIN disk' : Fits(a, disk'[a])
<1>1. TypeOK /\ CopiedSoFar /\ op.todo \subseteq Paths
  BY DEF IInv, TypeOK
<1>2. /\ DOMAIN disk \subseteq Artifacts
      /\ \A a \in DOMAIN disk : Fits(a, disk[a])
  BY <1>1 DEF TypeOK, Fits, Documents
<1>3. CASE disk' = disk
  BY <1>2, <1>3
<1>4. CASE \E a, v : Due(a, v) /\ \E w \in {v, Torn} : Adds(a, w)
  <2>1. PICK a, v : Due(a, v) /\ \E w \in {v, Torn} : Adds(a, w)
    BY <1>4
  <2>2. a \in Artifacts /\ Fits(a, v) /\ Fits(a, Torn)
    BY <1>1, <2>1, DueTyped DEF Fits
  <2> QED
    BY <1>2, <2>1, <2>2 DEF Adds
<1> QED
  BY <1>1, <1>3, <1>4, DiskEffect

LEMMA ParentTyped ==
    ASSUME NEW p \in Paths
    PROVE  /\ {Parent[p]} \ {None} \subseteq Paths
           /\ Parent[p] # p
BY RecoveryAssumption

(* A file written where it is free for it, and its directory made. *)
LEMMA FileWritten ==
    ASSUME TypeOK, NEW p \in Paths, FreeFor(p), NEW c \in Contents \cup {Torn},
           ws' = [ws EXCEPT ![p] = c],
           dirs' = dirs \cup ({Parent[p]} \ {None})
    PROVE  /\ ws' \in [Paths -> Contents \cup {None, Torn}]
           /\ dirs' \subseteq Paths /\ dirs' \cap Present' = {}
<1>1. Present' = Present \cup {p}
  BY RecoveryAssumption DEF TypeOK, Present
<1>2. p \notin dirs' /\ (Parent[p] # None => Parent[p] \notin Present)
  BY ParentTyped DEF FreeFor, Present
<1>3. Parent[p] \notin {p} /\ {Parent[p]} \ {None} \subseteq Paths
  BY ParentTyped
<1> QED
  BY <1>1, <1>2, <1>3 DEF TypeOK

(* A file deleted. *)
LEMMA FileDeleted ==
    ASSUME TypeOK, NEW p \in Paths, ws' = [ws EXCEPT ![p] = None], dirs' = dirs
    PROVE  /\ ws' \in [Paths -> Contents \cup {None, Torn}]
           /\ dirs' \subseteq Paths /\ dirs' \cap Present' = {}
<1>1. Present' = Present \ {p}
  BY DEF TypeOK, Present
<1> QED
  BY <1>1 DEF TypeOK

LEMMA WorkspaceTyped ==
    ASSUME IInv, Next
    PROVE  /\ ws' \in [Paths -> Contents \cup {None, Torn}]
           /\ dirs' \subseteq Paths /\ dirs' \cap Present' = {}
<1>1. TypeOK /\ SnapshotsAreWhole /\ KindsFit /\ PlanHolds
  BY DEF IInv
<1>2. CASE ws' = ws /\ dirs' \subseteq dirs
  BY <1>1, <1>2 DEF TypeOK, Present
<1>3. CASE \E p \in Paths, c \in Contents : AgentWrites(p, c)
  <2>1. PICK p \in Paths, c \in Contents : AgentWrites(p, c)
    BY <1>3
  <2> QED
    BY <1>1, <2>1, FileWritten DEF AgentWrites
<1>4. CASE \E p \in Paths : AgentDeletes(p)
  <2>1. PICK p \in Paths : AgentDeletes(p)
    BY <1>4
  <2>2. CASE ws' = [ws EXCEPT ![p] = None] /\ UNCHANGED dirs
    BY <1>1, <2>2, FileDeleted
  <2> QED
    BY <1>2, <2>1, <2>2 DEF AgentDeletes
<1>5. CASE Unlink
  <2>1. CASE \E p \in op.todo : ws' = [ws EXCEPT ![p] = None]
    BY <1>1, <1>5, <2>1, FileDeleted DEF TypeOK, Unlink
  <2> QED
    BY <1>2, <1>5, <2>1 DEF Unlink
<1>6. ASSUME NEW p \in op.todo, op.at = "write"
      PROVE  disk[InSnapshot(op.request.target, p)] \in Contents \cup {Torn}
  <2>1. /\ op.request.kind \in {"rollback", "restore"} /\ op.request \in Requests
        /\ Intact(ManifestOf(op.request.target)) /\ p \in Expected
    BY <1>1, <1>6 DEF KindsFit, TypeOK, Over, PlanHolds, Restoring
  <2> QED
    BY <1>1, <2>1, PlanTarget
<1>7. CASE WriteBack
  <2>1. CASE ws' = ws /\ dirs' = dirs
    BY <1>2, <2>1
  <2>2. CASE \E p \in op.todo :
                /\ FreeFor(p)
                /\ ws' = [ws EXCEPT ![p] = disk[InSnapshot(op.request.target, p)]]
                /\ dirs' = dirs \cup ({Parent[p]} \ {None})
    <3>1. PICK p \in op.todo :
             /\ FreeFor(p)
             /\ ws' = [ws EXCEPT ![p] = disk[InSnapshot(op.request.target, p)]]
             /\ dirs' = dirs \cup ({Parent[p]} \ {None})
      BY <2>2
    <3>2. disk[InSnapshot(op.request.target, p)] \in Contents \cup {Torn} /\ p \in Paths
      BY <1>1, <1>6, <1>7 DEF WriteBack, TypeOK
    <3> QED
      BY <1>1, <3>1, <3>2, FileWritten
  <2>3. CASE \E p \in op.todo :
                /\ FreeFor(p)
                /\ ws' = [ws EXCEPT ![p] = Torn]
                /\ dirs' = dirs \cup ({Parent[p]} \ {None})
    BY <1>1, <2>3, FileWritten DEF TypeOK
  <2>4. CASE \E p \in op.todo :
                /\ FreeFor(p) /\ ws' = ws
                /\ dirs' = dirs \cup ({Parent[p]} \ {None})
    <3>1. PICK p \in op.todo :
             FreeFor(p) /\ ws' = ws /\ dirs' = dirs \cup ({Parent[p]} \ {None})
      BY <2>4
    <3>2. Parent[p] # None => Parent[p] \notin Present /\ Parent[p] \in Paths
      BY <1>1, <3>1, ParentTyped DEF FreeFor, Present, TypeOK
    <3> QED
      BY <1>1, <3>1, <3>2 DEF TypeOK, Present
  <2> QED
    BY <1>7, <2>1, <2>2, <2>3, <2>4 DEF WriteBack
<1>8. CASE Crash
  <2>1. CASE ws' = ws /\ dirs' = dirs
    BY <1>2, <2>1
  <2>2. CASE \E p \in op.todo :
                /\ FreeFor(p)
                /\ ws' = [ws EXCEPT ![p] = Torn]
                /\ dirs' = dirs \cup ({Parent[p]} \ {None})
    BY <1>1, <2>2, FileWritten DEF TypeOK
  <2> QED
    BY <1>8, <2>1, <2>2 DEF Crash
<1>9. CASE \/ RegisterRun \/ Resume \/ Pause \/ CopyFile \/ WriteManifest
           \/ WriteBranch \/ WriteReport \/ WriteRecord
           \/ SetLifecycle \/ Plan \/ Tidy \/ \E r \in Requests : Begin(r)
  <2>1. ws' = ws /\ dirs' \subseteq dirs
    BY <1>9 DEF RegisterRun, Resume, Begin, Pause, CopyFile, WriteManifest, WriteBranch,
                WriteReport, WriteRecord, Writes, SetLifecycle, Plan, Tidy
  <2> QED
    BY <1>2, <2>1
<1> QED
  BY <1>3, <1>4, <1>5, <1>7, <1>8, <1>9 DEF Next

(* What the step that follows is about, and that it is one of the steps.   *)
OpOK ==
    /\ op.at \in Phases /\ op.todo \subseteq Paths
    /\ IF Over THEN op.request = None ELSE op.request \in Requests

LEMMA GotoTyped ==
    ASSUME op.request \in Requests, NEW at \in Phases,
           NEW todo \in SUBSET Paths, Goto(at, todo)
    PROVE  OpOK'
BY DEF Goto, OpOK, Over

LEMMA OpTyped ==
    ASSUME IInv, Next
    PROVE  OpOK'
<1>1. TypeOK /\ SnapshotsAreWhole /\ KindsFit /\ PlanHolds /\ OpOK
  BY DEF IInv, TypeOK, OpOK
<1>2. Present \in SUBSET Paths /\ {} \in SUBSET Paths
  BY DEF Present
<1>3. ASSUME UNCHANGED op PROVE OpOK'
  BY <1>1, <1>3 DEF OpOK, Over
<1>4. ASSUME NEW r \in Requests, Begin(r) PROVE OpOK'
  <2>1. r # None
    BY RecoveryAssumption
  <2> QED
    BY <1>2, <1>4, <2>1 DEF Begin, OpOK, Over, Phases
<1>5. ASSUME op.at # "over" PROVE op.request \in Requests /\ (Raise => OpOK')
  <2>1. op.request \in Requests /\ "over" \in Phases
    BY <1>1, <1>5 DEF OpOK, Over, Phases
  <2> QED
    BY <1>2, <2>1, GotoTyped DEF Raise
<1>6. ASSUME NEW a, NEW v, NEW at \in Phases, NEW todo \in SUBSET Paths,
             Writes(a, v, at, todo), op.at # "over"
      PROVE  OpOK'
  BY <1>5, <1>6, GotoTyped DEF Writes
<1>7. CASE \E p \in Paths : AgentDeletes(p) \/ \E c \in Contents : AgentWrites(p, c)
  BY <1>3, <1>7 DEF AgentDeletes, AgentWrites
<1>8. CASE RegisterRun \/ Resume
  BY <1>3, <1>8 DEF RegisterRun, Resume
<1>9. CASE Pause
  BY <1>2, <1>5, <1>9, GotoTyped DEF Pause, Phases
<1>10. CASE CopyFile
  <2>1. PICK p \in op.todo :
           Writes(InSnapshot(Snapshot(op.request, op.at), p), ws[p],
                  op.at, op.todo \ {p})
    BY <1>10 DEF CopyFile
  <2>2. op.todo \ {p} \in SUBSET Paths /\ op.at \in Phases /\ op.at # "over"
    BY <1>1, <1>10 DEF OpOK, CopyFile
  <2> QED
    BY <1>6, <2>1, <2>2
<1>11. CASE WriteManifest
  <2>1. op.at # "over" /\ AfterCapture(op.request, op.at) \in Phases
    BY <1>11 DEF WriteManifest, AfterCapture, AfterCycle, AfterFull, Phases
  <2>2. PICK todo \in SUBSET Paths :
           Writes(ManifestOf(Snapshot(op.request, op.at)), Entries,
                  AfterCapture(op.request, op.at), todo)
    BY <1>2, <1>11 DEF WriteManifest
  <2> QED
    BY <1>6, <2>1, <2>2
<1>12. CASE WriteBranch \/ WriteReport \/ WriteRecord
  <2>1. PICK at \in {"report", "record", "over"} : \E a, v : Writes(a, v, at, {})
    BY <1>12 DEF WriteBranch, WriteReport, WriteRecord
  <2>2. op.at # "over" /\ at \in Phases
    BY <1>12 DEF WriteBranch, WriteReport, WriteRecord, Phases
  <2> QED
    BY <1>2, <1>6, <2>1, <2>2
<1>13. CASE SetLifecycle
  BY <1>2, <1>5, <1>13, GotoTyped DEF SetLifecycle, Phases
<1>14. CASE Plan
  BY <1>2, <1>5, <1>14, GotoTyped DEF Plan, Phases, Extra
<1>15. CASE Unlink
  <2>1. Expected \in SUBSET Paths
    <3>1. /\ op.request.kind \in {"rollback", "restore"} /\ op.request \in Requests
          /\ Intact(ManifestOf(op.request.target))
      BY <1>1, <1>15 DEF Unlink, KindsFit, OpOK, Over, PlanHolds, Restoring
    <3> QED
      BY <1>1, <3>1, PlanTarget
  <2>2. op.at # "over" /\ {"unlink", "write"} \subseteq Phases
    BY <1>15 DEF Unlink, Phases
  <2>3. ASSUME NEW p PROVE op.todo \ {p} \in SUBSET Paths
    BY <1>1 DEF OpOK
  <2> QED
    BY <1>5, <1>15, <2>1, <2>2, <2>3, GotoTyped DEF Unlink
<1>16. CASE WriteBack
  <2>1. op.at # "over" /\ {"write", "tidy"} \subseteq Phases
    BY <1>16 DEF WriteBack, Phases
  <2>2. ASSUME NEW p PROVE op.todo \ {p} \in SUBSET Paths
    BY <1>1 DEF OpOK
  <2> QED
    BY <1>2, <1>5, <1>16, <2>1, <2>2, GotoTyped DEF WriteBack
<1>17. CASE Tidy
  BY <1>2, <1>5, <1>17, GotoTyped DEF Tidy, Phases
<1>18. CASE Crash
  BY <1>5, <1>18 DEF Crash, Over, Raise
<1> QED
  BY <1>4, <1>7, <1>8, <1>9, <1>10, <1>11, <1>12, <1>13, <1>14, <1>15, <1>16,
     <1>17, <1>18 DEF Next

LEMMA SessionTyped ==
    ASSUME TypeOK, Next
    PROVE  session' \in {None, "active", "paused"}
BY DEF TypeOK, Next, AgentWrites, AgentDeletes, RegisterRun, Resume, Begin, Pause,
       CopyFile, WriteManifest, WriteBranch, WriteReport, WriteRecord, Writes,
       SetLifecycle, Plan, Unlink, WriteBack, Tidy, Crash

LEMMA TypeStep ==
    ASSUME IInv, Next
    PROVE  TypeOK'
<1>1. TypeOK
  BY DEF IInv
<1>2. /\ DOMAIN disk' \subseteq Artifacts
      /\ \A a \in DOMAIN disk' : Fits(a, disk'[a])
  BY DiskTyped
<1>3. /\ ws' \in [Paths -> Contents \cup {None, Torn}]
      /\ dirs' \subseteq Paths /\ dirs' \cap Present' = {}
  BY WorkspaceTyped
<1>4. OpOK' /\ session' \in {None, "active", "paused"}
  BY <1>1, OpTyped, SessionTyped
<1> QED
  BY <1>2, <1>3, <1>4 DEF TypeOK, Fits, Documents, OpOK

-----------------------------------------------------------------------------
(* The order of the steps *)

(* Where an operation may go from where it is, on the same request.        *)
Follows(at, next, kind) ==
    \/ at = "pause" /\ next = "cycle"
    \/ at = "cycle" /\ next \in {"cycle"} \cup (IF kind = "capture" THEN {} ELSE {"full"})
    \/ at = "full" /\ next \in {"full"} \cup (IF kind = "branch" THEN {"branch"}
                                                                 ELSE {"lifecycle"})
    \/ <<at, next>> \in {<<"branch", "report">>, <<"lifecycle", "plan">>,
                         <<"plan", "unlink">>, <<"unlink", "unlink">>,
                         <<"unlink", "write">>, <<"write", "write">>,
                         <<"write", "tidy">>, <<"tidy", "report">>,
                         <<"report", "record">>}

LEMMA OpMoves ==
    ASSUME Next
    PROVE  \/ UNCHANGED op
           \/ op'.at = "over"
           \/ /\ op.at = "over" /\ op'.request \in Requests
              /\ \/ op'.at = "cycle" /\ op'.request.kind = "capture"
                 \/ op'.at = "pause" /\ op'.request.kind # "capture"
           \/ op'.request = op.request /\ Follows(op.at, op'.at, op.request.kind)
<1>1. ASSUME NEW at, NEW todo, Goto(at, todo)
      PROVE  op'.at = at /\ (at # "over" => op'.request = op.request)
  BY <1>1 DEF Goto
<1>2. ASSUME Raise PROVE op'.at = "over"
  BY <1>2 DEF Raise, Goto
<1>3. CASE \/ \E p \in Paths : AgentDeletes(p) \/ \E c \in Contents : AgentWrites(p, c)
           \/ RegisterRun \/ Resume
  BY <1>3 DEF AgentDeletes, AgentWrites, RegisterRun, Resume
<1>4. CASE \E r \in Requests : Begin(r)
  BY <1>4 DEF Begin, Over
<1>5. CASE Pause \/ CopyFile \/ WriteBranch \/ WriteReport \/ WriteRecord
  BY <1>1, <1>2, <1>5 DEF Pause, CopyFile, WriteBranch, WriteReport, WriteRecord,
                          Writes, Follows
<1>6. CASE WriteManifest
  <2>1. PICK a, v, todo : Writes(a, v, AfterCapture(op.request, op.at), todo)
    BY <1>6 DEF WriteManifest
  <2>2. \/ AfterCapture(op.request, op.at) = "over"
        \/ Follows(op.at, AfterCapture(op.request, op.at), op.request.kind)
    BY <1>6 DEF WriteManifest, AfterCapture, AfterCycle, AfterFull, Follows
  <2> QED
    BY <1>1, <1>2, <2>1, <2>2 DEF Writes
<1>7. CASE SetLifecycle \/ Plan \/ Unlink \/ WriteBack \/ Tidy
  BY <1>1, <1>2, <1>7 DEF SetLifecycle, Plan, Unlink, WriteBack, Tidy, Follows
<1>8. CASE Crash
  BY <1>1, <1>8 DEF Crash
<1> QED
  BY <1>3, <1>4, <1>5, <1>6, <1>7, <1>8 DEF Next

LEMMA KindsFitStep ==
    ASSUME IInv, Next
    PROVE  KindsFit'
<1>1. KindsFit /\ op.at \in Phases /\ (op.at # "over" => op.request \in Requests)
  BY DEF IInv, TypeOK, Over
<1>2. \A r \in Requests : r.kind \in RecoveryKinds \cup {"capture"}
  BY RecoveryAssumption
<1> QED
  BY <1>1, <1>2, OpMoves DEF KindsFit, Follows, RecoveryKinds

LEMMA AgentIsHeldStep ==
    ASSUME IInv, Next
    PROVE  AgentIsHeld'
<1>1. AgentIsHeld /\ KindsFit
  BY DEF IInv
<1>2. CASE session' = session \/ op'.at = "over"
  <2>1. ASSUME op.at = "pause"
        PROVE  UNCHANGED op \/ op'.at = "over" \/ session' = "paused"
    <3>1. UNCHANGED op \/ Pause \/ Crash
      BY <2>1 DEF Next, AgentWrites, AgentDeletes, RegisterRun, Resume, Begin, Over,
         CopyFile, WriteManifest, WriteBranch, WriteReport, WriteRecord,
         SetLifecycle, Plan, Unlink, WriteBack, Tidy
    <3> QED
      BY <3>1 DEF Pause, Crash, Raise, Goto
  <2> QED
    BY <1>1, <1>2, <2>1, OpMoves DEF AgentIsHeld, Capturing, Follows
<1>3. CASE RegisterRun \/ Resume
  BY <1>3 DEF RegisterRun, Resume, Over, AgentIsHeld, Capturing
<1>4. CASE Pause
  BY <1>2, <1>4 DEF Pause, Raise, Goto, AgentIsHeld, Capturing
<1>5. CASE SetLifecycle
  BY <1>5 DEF SetLifecycle, Goto, AgentIsHeld, Capturing
<1>6. \/ session' = session \/ op'.at = "over"
      \/ RegisterRun \/ Resume \/ Pause \/ SetLifecycle
  BY DEF Next, AgentWrites, AgentDeletes, Begin,
       CopyFile, WriteManifest, WriteBranch, WriteReport, WriteRecord, Writes,
       Plan, Unlink, WriteBack, Tidy, Crash, Goto
<1> QED
  BY <1>2, <1>3, <1>4, <1>5, <1>6

(* Steps that leave an operation where it is while it captures leave the   *)
(* workspace alone.                                                        *)
LEMMA AgentIsAway ==
    ASSUME IInv, Capturing
    PROVE  ~AgentMayWork
BY DEF IInv, AgentIsHeld, AgentMayWork, Over, Capturing, RecoveryKinds

LEMMA CopiedSoFarStep ==
    ASSUME IInv, Next
    PROVE  CopiedSoFar'
<1>1. TypeOK /\ CopiedSoFar /\ op.todo \subseteq Paths
  BY DEF IInv, TypeOK
<1>2. ASSUME ~Capturing' PROVE CopiedSoFar'
  BY <1>2 DEF CopiedSoFar
<1>3. ASSUME op'.todo = Present, ws' = ws PROVE CopiedSoFar'
  BY <1>3 DEF CopiedSoFar, Present
<1>4. CASE \/ \E p \in Paths : AgentDeletes(p) \/ \E c \in Contents : AgentWrites(p, c)
           \/ RegisterRun \/ Resume
  <2>1. ~Capturing
    BY <1>4, AgentIsAway DEF AgentDeletes, AgentWrites, RegisterRun, Resume, Over, Capturing
  <2>2. UNCHANGED op
    BY <1>4 DEF AgentDeletes, AgentWrites, RegisterRun, Resume
  <2> QED
    BY <1>2, <2>1, <2>2 DEF Capturing
<1>5. CASE \E r \in Requests : Begin(r)
  BY <1>2, <1>3, <1>5 DEF Begin, Capturing
<1>6. CASE Pause
  BY <1>2, <1>3, <1>6 DEF Pause, Goto, Raise, Capturing
<1>7. CASE CopyFile
  <2>1. PICK p \in op.todo :
           Writes(InSnapshot(Snapshot(op.request, op.at), p), ws[p],
                  op.at, op.todo \ {p})
    BY <1>7 DEF CopyFile
  <2> DEFINE c(q) == InSnapshot(Snapshot(op.request, op.at), q)
  <2>2. CASE Raise
    BY <1>2, <2>2 DEF Raise, Goto, Capturing
  <2>3. CASE WriteNew(c(p), ws[p]) /\ Goto(op.at, op.todo \ {p})
    <3>1. Capturing /\ ws' = ws
      BY <1>7, <2>1 DEF CopyFile, Capturing, Writes
    <3>2. op'.at = op.at /\ op'.todo = op.todo \ {p} /\ op'.request = op.request
      BY <2>3, <3>1 DEF Goto, Capturing
    <3>3. c(p) \in DOMAIN disk' /\ disk'[c(p)] = ws[p]
      BY <2>3 DEF WriteNew, Put
    <3>4. ASSUME NEW q \in Present \ op.todo
          PROVE  c(q) \in DOMAIN disk' /\ disk'[c(q)] = ws[q]
      <4>1. c(q) \in DOMAIN disk /\ disk[c(q)] = ws[q]
        BY <1>1, <3>1 DEF CopiedSoFar
      <4> QED
        BY <1>1, <4>1, DiskKeeps
    <3>5. Present' = Present
      BY <3>1 DEF Present
    <3> QED
      BY <1>1, <3>1, <3>2, <3>3, <3>4, <3>5
      DEF CopiedSoFar, Capturing, InSnapshot, Snapshot
  <2> QED
    BY <2>1, <2>2, <2>3 DEF Writes
<1>8. CASE WriteManifest
  <2>1. PICK a, v : Writes(a, v, AfterCapture(op.request, op.at),
                           IF AfterCapture(op.request, op.at) = "full"
                           THEN Present ELSE {})
    BY <1>8 DEF WriteManifest
  <2>2. ws' = ws
    BY <2>1 DEF Writes
  <2>3. AfterCapture(op.request, op.at) # "cycle"
    BY DEF AfterCapture, AfterCycle, AfterFull
  <2> QED
    BY <1>2, <1>3, <2>1, <2>2, <2>3 DEF Writes, Goto, Raise, Capturing
<1>9. CASE \/ WriteBranch \/ WriteReport \/ WriteRecord
           \/ SetLifecycle \/ Plan \/ Unlink \/ WriteBack \/ Tidy \/ Crash
  BY <1>2, <1>9 DEF WriteBranch, WriteReport, WriteRecord, Writes, SetLifecycle, Plan,
     Unlink, WriteBack, Tidy, Crash, Goto, Raise, Capturing
<1> QED
  BY <1>4, <1>5, <1>6, <1>7, <1>8, <1>9 DEF Next

(* A step that writes leaves what it wrote, or the operation is over.      *)
LEMMA Wrote ==
    ASSUME NEW a, NEW v, v # Torn, NEW at, NEW todo, Writes(a, v, at, todo)
    PROVE  \/ op'.at = "over"
           \/ /\ op'.at = at /\ op'.request = op.request
              /\ a \in DOMAIN disk' /\ disk'[a] = v /\ disk'[a] # Torn
BY DEF Writes, WriteNew, Put, Goto, Raise

LEMMA EvidenceTakenStep ==
    ASSUME IInv, Next
    PROVE  EvidenceTaken'
<1> DEFINE Cycle == ManifestOf(<<"cycle", op.request.cycle>>)
           Full == ManifestOf(<<"full", op.request.incident>>)
           Has(d) == Of(op.request.incident, d)
<1>1. TypeOK /\ KindsFit /\ EvidenceTaken /\ op.todo \subseteq Paths
  BY DEF IInv, TypeOK
<1>2. ASSUME NEW a, Intact(a)
      PROVE  a \in DOMAIN disk' /\ disk'[a] = disk[a] /\ disk'[a] # Torn
  BY <1>1, <1>2, DiskKeeps DEF Intact
<1>3. CASE UNCHANGED op \/ op'.at \in {"over", "cycle", "pause"}
  BY <1>1, <1>2, <1>3 DEF EvidenceTaken, Intact, ManifestOf, InSnapshot, Of
<1>4. CASE WriteManifest
  <2>1. PICK todo : Writes(ManifestOf(Snapshot(op.request, op.at)), Entries,
                           AfterCapture(op.request, op.at), todo)
    BY <1>4 DEF WriteManifest
  <2>2. CASE op'.at # "over" /\ op.at = "cycle"
    <3>1. op'.at = "full" /\ op'.request = op.request
      BY <1>1, <2>1, <2>2, Wrote, EntriesTyped DEF AfterCapture, AfterCycle
    <3>2. Cycle \in DOMAIN disk' /\ disk'[Cycle] # Torn
      BY <1>1, <2>1, <2>2, Wrote, EntriesTyped DEF Snapshot
    <3> QED
      BY <3>1, <3>2 DEF EvidenceTaken, Intact, ManifestOf, InSnapshot
  <2>3. CASE op'.at # "over" /\ op.at = "full"
    <3>1. op'.at \in {"branch", "lifecycle"} /\ op'.request = op.request
      BY <1>1, <2>1, <2>3, Wrote, EntriesTyped DEF AfterCapture, AfterFull
    <3>2. Full \in DOMAIN disk' /\ disk'[Full] # Torn
      BY <1>1, <2>1, <2>3, Wrote, EntriesTyped DEF Snapshot
    <3>3. Cycle \in DOMAIN disk' /\ disk'[Cycle] # Torn
      BY <1>1, <1>2, <2>3 DEF EvidenceTaken
    <3> QED
      BY <3>1, <3>2, <3>3 DEF EvidenceTaken, Intact, ManifestOf, InSnapshot
  <2> QED
    BY <1>3, <1>4, <2>2, <2>3 DEF WriteManifest
<1>5. CASE op'.at \notin {"over", "pause", "cycle", "full"}
            /\ op.at \notin {"over", "pause", "cycle", "full"}
            /\ op'.request = op.request
            /\ ~ (op'.at = "record" \/ (op'.at = "report" /\ op.request.kind = "branch"))
  <2>1. Intact(Cycle) /\ Intact(Full)
    BY <1>1, <1>5 DEF EvidenceTaken
  <2> QED
    BY <1>2, <1>5, <2>1 DEF EvidenceTaken, Intact, ManifestOf, InSnapshot
<1>6. CASE op'.at # "over" /\ (WriteBranch \/ WriteReport)
  <2>1. op.request # Torn
    BY <1>1, <1>6, TornAssumption DEF TypeOK, Over, WriteBranch, WriteReport
  <2>2. Intact(Cycle) /\ Intact(Full)
    BY <1>1, <1>6 DEF EvidenceTaken, WriteBranch, WriteReport
  <2>3. /\ Cycle \in DOMAIN disk' /\ disk'[Cycle] # Torn
        /\ Full \in DOMAIN disk' /\ disk'[Full] # Torn
    BY <1>2, <2>2
  <2>4. CASE WriteBranch
    <3>1. /\ op'.at = "report" /\ op'.request = op.request
          /\ Has("branch") \in DOMAIN disk' /\ disk'[Has("branch")] # Torn
      BY <1>6, <2>1, <2>4, Wrote DEF WriteBranch
    <3> QED
      BY <2>3, <3>1 DEF EvidenceTaken, Intact, ManifestOf, InSnapshot, Of
  <2>5. CASE WriteReport
    <3>1. /\ op'.at = "record" /\ op'.request = op.request
          /\ Has("report") \in DOMAIN disk' /\ disk'[Has("report")] # Torn
          /\ disk'[Has("report")] = op.request
      BY <1>6, <2>1, <2>5, Wrote DEF WriteReport
    <3>2. op.request.kind = "branch" =>
             Has("branch") \in DOMAIN disk' /\ disk'[Has("branch")] # Torn
      BY <1>1, <1>2, <2>5 DEF EvidenceTaken, WriteReport
    <3> QED
      BY <2>3, <3>1, <3>2 DEF EvidenceTaken, Intact, ManifestOf, InSnapshot, Of
  <2> QED
    BY <1>6, <2>4, <2>5
<1>7. CASE SetLifecycle \/ Plan \/ Unlink \/ WriteBack \/ Tidy
  BY <1>1, <1>3, <1>5, <1>7, OpMoves DEF SetLifecycle, Plan, Unlink, WriteBack, Tidy,
     Follows, KindsFit
<1>8. CASE \/ \E p \in Paths : AgentDeletes(p) \/ \E c \in Contents : AgentWrites(p, c)
           \/ RegisterRun \/ Resume \/ Pause \/ WriteRecord \/ Crash
           \/ \E r \in Requests : Begin(r)
  BY <1>3, <1>8 DEF AgentDeletes, AgentWrites, RegisterRun, Resume, Pause, WriteRecord,
     Crash, Begin, Writes, Goto, Raise
<1>9. CASE CopyFile
  <2>1. op.at \in {"cycle", "full"} /\ \/ op'.at = "over"
                                       \/ op'.at = op.at /\ op'.request = op.request
    BY <1>9 DEF CopyFile, Writes, Goto, Raise
  <2>2. CASE op'.at = "full" /\ op.at = "full" /\ op'.request = op.request
    <3>1. Cycle \in DOMAIN disk' /\ disk'[Cycle] # Torn
      BY <1>1, <1>2, <2>2 DEF EvidenceTaken
    <3> QED
      BY <2>2, <3>1 DEF EvidenceTaken, Intact, ManifestOf, InSnapshot
  <2> QED
    BY <1>3, <2>1, <2>2
<1> QED
  BY <1>3, <1>4, <1>6, <1>7, <1>8, <1>9 DEF Next

LEMMA PlanHoldsStep ==
    ASSUME IInv, Next
    PROVE  PlanHolds'
<1> DEFINE m == ManifestOf(op.request.target)
<1>1. KindsFit /\ PlanHolds /\ op.todo \subseteq Paths
  BY DEF IInv, TypeOK
<1>2. ASSUME Intact(m)
      PROVE  m \in DOMAIN disk' /\ disk'[m] = disk[m] /\ disk'[m] # Torn
  BY <1>1, <1>2, DiskKeeps DEF Intact
<1>3. CASE UNCHANGED op
  BY <1>1, <1>2, <1>3 DEF PlanHolds, Restoring, Expected, Intact, ManifestOf, InSnapshot
<1>4. CASE op'.at \in {"over", "pause", "cycle", "full", "branch", "lifecycle", "plan"}
  BY <1>4 DEF PlanHolds, Restoring
<1>5. CASE Plan
  BY <1>2, <1>4, <1>5 DEF Plan, PlanHolds, Restoring, Raise, Goto, Intact, ManifestOf,
     InSnapshot
<1>6. CASE Unlink \/ WriteBack \/ Tidy
  <2>1. CASE op'.at # "over"
    <3>1. op'.request = op.request /\ disk' = disk /\ op'.at # "plan"
      BY <1>6, <2>1 DEF Unlink, WriteBack, Tidy, Raise, Goto
    <3>2. Intact(m)
      BY <1>1, <1>6 DEF PlanHolds, Restoring, Unlink, WriteBack, Tidy
    <3>3. op'.at = "write" => op'.todo \subseteq Expected
      BY <1>1, <1>6, <2>1 DEF PlanHolds, Unlink, WriteBack, Tidy, Goto, Raise
    <3> QED
      BY <3>1, <3>2, <3>3 DEF PlanHolds, Expected, Intact, ManifestOf, InSnapshot
  <2> QED
    BY <1>4, <2>1
<1>7. CASE WriteBranch \/ WriteReport \/ WriteRecord
  <2>1. \/ op'.at = "over"
        \/ /\ op'.at \in {"report", "record"} /\ op'.request = op.request
           /\ op.request.kind # "branch" => op.at \in {"report", "record"}
    BY <1>1, <1>7 DEF WriteBranch, WriteReport, WriteRecord, Writes, Raise, Goto, KindsFit
  <2> QED
    BY <1>1, <1>2, <1>4, <2>1 DEF PlanHolds, Restoring, Intact, ManifestOf, InSnapshot
<1>8. CASE \/ Pause \/ CopyFile \/ WriteManifest \/ SetLifecycle \/ Crash
           \/ \E r \in Requests : Begin(r)
  BY <1>4, <1>8, OpMoves DEF Pause, CopyFile, WriteManifest, SetLifecycle, Crash, Begin,
     Writes, Goto, Raise, AfterCapture, AfterCycle, AfterFull
<1>9. CASE \/ \E p \in Paths : AgentDeletes(p) \/ \E c \in Contents : AgentWrites(p, c)
           \/ RegisterRun \/ Resume
  BY <1>3, <1>9 DEF AgentDeletes, AgentWrites, RegisterRun, Resume
<1> QED
  BY <1>5, <1>6, <1>7, <1>8, <1>9 DEF Next

LEMMA StepInv == IInv /\ [Next]_vars => IInv'
<1>1. ASSUME IInv, Next PROVE IInv'
  BY <1>1, TypeStep, SnapshotsStep, KindsFitStep, AgentIsHeldStep, CopiedSoFarStep,
     EvidenceTakenStep, PlanHoldsStep DEF IInv
<1>2. ASSUME IInv, UNCHANGED vars PROVE IInv'
  <2> USE <1>2 DEF vars, IInv, Capturing
  <2>1. TypeOK'
    BY DEF TypeOK, Present, Over
  <2>2. SnapshotsAreWhole'
    BY DEF SnapshotsAreWhole, Whole, Intact, ManifestOf, InSnapshot, Snapshots,
           CycleSnapshots, FullSnapshots
  <2>3. KindsFit' /\ AgentIsHeld'
    BY DEF KindsFit, AgentIsHeld
  <2>4. CopiedSoFar'
    BY DEF CopiedSoFar, Present, InSnapshot, Snapshot
  <2>5. EvidenceTaken'
    BY DEF EvidenceTaken, Intact, ManifestOf, InSnapshot, Of
  <2>6. PlanHolds'
    BY DEF PlanHolds, Restoring, Expected, Intact, ManifestOf, InSnapshot
  <2> QED
    BY <2>1, <2>2, <2>3, <2>4, <2>5, <2>6
<1> QED
  BY <1>1, <1>2

LEMMA Invariant == Spec => []IInv
BY InitInv, StepInv, PTL DEF Spec

(* Workspace, directories, artifacts and operations are well typed. *)
THEOREM TypeCorrect == Spec => []TypeOK
<1>1. IInv => TypeOK
  BY DEF IInv
<1> QED
  BY <1>1, Invariant, PTL

(* Whatever writes break off, whenever the process stops, and whatever is  *)
(* asked for again under the ids of an earlier attempt: the files of a     *)
(* snapshot whose manifest can be read are the files it lists.             *)
THEOREM SnapshotsHold == Spec => []SnapshotsAreWhole
<1>1. IInv => SnapshotsAreWhole
  BY DEF IInv
<1> QED
  BY <1>1, Invariant, PTL

-----------------------------------------------------------------------------
(* Records *)

LEMMA WholeKeeps ==
    ASSUME [Next]_vars, op.todo \subseteq Paths, NEW s, Whole(s)
    PROVE  Whole(s)'
<1> DEFINE m == ManifestOf(s)
<1>1. ASSUME NEW a \in DOMAIN disk
      PROVE  a \in DOMAIN disk' /\ disk'[a] = disk[a]
  BY DiskKeeps
<1>2. m \in DOMAIN disk' /\ disk'[m] = disk[m] /\ disk'[m] # Torn
  BY <1>1 DEF Whole, Intact
<1>3. ASSUME NEW p \in DOMAIN disk'[m]
      PROVE  /\ InSnapshot(s, p) \in DOMAIN disk'
             /\ disk'[InSnapshot(s, p)] = disk'[m][p]
  <2>1. InSnapshot(s, p) \in DOMAIN disk /\ disk[InSnapshot(s, p)] = disk[m][p]
    BY <1>2, <1>3 DEF Whole
  <2> QED
    BY <1>1, <1>2, <2>1
<1> QED
  BY <1>2, <1>3 DEF Whole, Intact, ManifestOf, InSnapshot

(* The evidence of a request is on the disk. *)
Evidence(r) ==
    /\ Intact(Of(r.incident, "report")) /\ disk[Of(r.incident, "report")] = r
    /\ Whole(<<"cycle", r.cycle>>) /\ Whole(<<"full", r.incident>>)
    /\ r.kind = "branch" => Intact(Of(r.incident, "branch"))

(* Each record is of a request of its own incident. *)
RecordsHaveEvidence ==
    \A i \in {r.incident : r \in Requests} : Intact(Of(i, "record")) =>
        \E r \in Requests : r.incident = i /\ disk[Of(i, "record")] = r /\ Evidence(r)

LEMMA EvidenceKeeps ==
    ASSUME [Next]_vars, op.todo \subseteq Paths, NEW r, Evidence(r)
    PROVE  Evidence(r)'
<1>1. ASSUME NEW a, Intact(a)
      PROVE  a \in DOMAIN disk' /\ disk'[a] = disk[a] /\ disk'[a] # Torn
  BY <1>1, DiskKeeps DEF Intact
<1>2. Whole(<<"cycle", r.cycle>>)' /\ Whole(<<"full", r.incident>>)'
  <2>1. Whole(<<"cycle", r.cycle>>) /\ Whole(<<"full", r.incident>>)
    BY DEF Evidence
  <2> QED
    BY <2>1, WholeKeeps
<1> QED
  BY <1>1, <1>2 DEF Evidence, Intact, Of

LEMMA RecordsStep ==
    ASSUME IInv, RecordsHaveEvidence, Next
    PROVE  RecordsHaveEvidence'
<1>1. /\ TypeOK /\ SnapshotsAreWhole /\ CopiedSoFar /\ EvidenceTaken
      /\ op.todo \subseteq Paths
  BY DEF IInv, TypeOK
<1> SUFFICES ASSUME NEW i \in {r.incident : r \in Requests}, Intact(Of(i, "record"))'
             PROVE  \E r \in Requests :
                       r.incident = i /\ disk'[Of(i, "record")] = r /\ Evidence(r)'
  BY DEF RecordsHaveEvidence, Of
<1> DEFINE d == Of(i, "record")
<1>2. d \in DOMAIN disk' /\ disk'[d] # Torn
  BY DEF Intact, Of
<1>3. CASE d \in DOMAIN disk
  <2>1. disk'[d] = disk[d]
    BY <1>1, <1>3, DiskKeeps
  <2>2. PICK r \in Requests : r.incident = i /\ disk[d] = r /\ Evidence(r)
    BY <1>2, <1>3, <2>1 DEF RecordsHaveEvidence, Intact
  <2>3. Evidence(r)'
    BY <1>1, <2>2, EvidenceKeeps
  <2> QED
    BY <2>1, <2>2, <2>3
<1>4. CASE d \notin DOMAIN disk
  <2>1. PICK a, v : Due(a, v) /\ \E w \in {v, Torn} : Adds(a, w)
    BY <1>1, <1>2, <1>4, DiskEffect
  <2>2. a = d /\ disk'[d] = v
    BY <1>2, <1>4, <2>1 DEF Adds
  <2>3. op.at = "record" /\ op.request.incident = i /\ v = op.request
    <3>1. ASSUME Capturing, NEW p PROVE d # InSnapshot(Snapshot(op.request, op.at), p)
      BY <1>1, <3>1, SnapshotOfRequest, SnapshotKinds, DocumentNames
    <3> QED
      BY <2>1, <2>2, <3>1, DocumentNames DEF Due, ManifestOf
  <2>4. op.request \in Requests
    BY <1>1, <2>3 DEF TypeOK, Over
  <2>5. Whole(<<"cycle", op.request.cycle>>) /\ Whole(<<"full", op.request.incident>>)
    <3>1. /\ <<"cycle", op.request.cycle>> \in Snapshots
          /\ <<"full", op.request.incident>> \in Snapshots
      BY <2>4 DEF Snapshots, CycleSnapshots, FullSnapshots
    <3> QED
      BY <1>1, <2>3, <3>1 DEF EvidenceTaken, SnapshotsAreWhole
  <2>6. Evidence(op.request)
    BY <1>1, <2>3, <2>5 DEF EvidenceTaken, Evidence
  <2>7. PICK r \in Requests : r = op.request
    BY <2>4
  <2>8. Evidence(r)'
    BY <1>1, <2>6, <2>7, EvidenceKeeps
  <2> QED
    BY <2>2, <2>3, <2>7, <2>8
<1> QED
  BY <1>3, <1>4

(* Every incident record that can be read leads to its report, to both     *)
(* snapshots, whole, and to the branch it speaks of.                       *)
THEOREM RecordsLeadToEvidence == Spec => []ReportedEvidenceHolds
<1>1. Init => RecordsHaveEvidence
  BY DEF Init, RecordsHaveEvidence, Intact
<1>2. IInv /\ RecordsHaveEvidence /\ [Next]_vars => RecordsHaveEvidence'
  <2>1. ASSUME IInv, RecordsHaveEvidence, UNCHANGED vars PROVE RecordsHaveEvidence'
    <3>1. disk' = disk /\ op.todo \subseteq Paths
      BY <2>1 DEF vars, IInv, TypeOK
    <3>2. ASSUME NEW r, Evidence(r) PROVE Evidence(r)'
      BY <2>1, <3>1, <3>2, EvidenceKeeps
    <3> QED
      BY <2>1, <3>1, <3>2 DEF RecordsHaveEvidence, Intact, Of
  <2> QED
    BY <2>1, RecordsStep
<1>3. RecordsHaveEvidence => ReportedEvidenceHolds
  BY DEF RecordsHaveEvidence, ReportedEvidenceHolds, Evidence
<1> QED
  BY <1>1, <1>2, <1>3, Invariant, PTL DEF Spec

-----------------------------------------------------------------------------
(***************************************************************************)
(* The restored workspace, when the agent waits for the recovery to end.   *)
(* From the full capture on, each file a step may still delete or          *)
(* overwrite is in the full snapshot (Evident); what has been gone through *)
(* is as the plan says (AsPlanned).                                        *)
(***************************************************************************)
ParentsAreDirs == \A p \in Present : Parent[p] # None => Parent[p] \in dirs

Evident ==
    /\ op.at \in {"lifecycle", "plan", "unlink"} => \A p \in Present : HasEvidence(p)
    /\ op.at = "write" => \A p \in op.todo \cap Present : HasEvidence(p)

AsPlanned ==
    /\ op.at = "unlink" => op.todo = Extra
    /\ op.at = "write" =>
          /\ Present \subseteq Expected
          /\ \A p \in Expected \ op.todo :
                ws[p] = disk[InSnapshot(op.request.target, p)]
    /\ op.at = "tidy" => Entries = disk[ManifestOf(op.request.target)]

WInv == IInv /\ ParentsAreDirs /\ Evident /\ AsPlanned /\ RestoredIsTarget

LEMMA WorkspaceInit == Init => WInv
<1>1. Init => ParentsAreDirs /\ Evident /\ AsPlanned /\ RestoredIsTarget
  BY DEF Init, ParentsAreDirs, Present, Evident, AsPlanned, RestoredIsTarget
<1> QED
  BY <1>1, InitInv DEF WInv

(* Whatever has become of a file, the directory it is in has been made.    *)
LEMMA ParentsStep ==
    ASSUME IInv, ParentsAreDirs, Next
    PROVE  ParentsAreDirs'
<1>1. TypeOK
  BY DEF IInv
<1>2. ASSUME NEW p \in Paths, NEW c, ws' = [ws EXCEPT ![p] = c],
             dirs' = dirs \cup ({Parent[p]} \ {None})
      PROVE  ParentsAreDirs'
  BY <1>1, <1>2 DEF ParentsAreDirs, Present, TypeOK
<1>3. ASSUME NEW p \in Paths, ws' = [ws EXCEPT ![p] = None], dirs' = dirs
      PROVE  ParentsAreDirs'
  BY <1>1, <1>3 DEF ParentsAreDirs, Present, TypeOK
<1>4. ASSUME ws' = ws, dirs \subseteq dirs' PROVE ParentsAreDirs'
  BY <1>4 DEF ParentsAreDirs, Present
<1>5. ASSUME ws' = ws, NEW D,
             \A d \in dirs : d \in D => Beneath(d) \cap Present = {},
             dirs' = dirs \ D
      PROVE  ParentsAreDirs'
  BY <1>5 DEF ParentsAreDirs, Present, Beneath
<1>6. CASE \E p \in Paths, c \in Contents : AgentWrites(p, c)
  BY <1>2, <1>6 DEF AgentWrites
<1>7. CASE \E p \in Paths : AgentDeletes(p)
  <2>1. PICK p \in Paths : AgentDeletes(p)
    BY <1>7
  <2>2. CASE ws' = [ws EXCEPT ![p] = None] /\ UNCHANGED dirs
    BY <1>3, <2>2
  <2>3. CASE /\ Beneath(p) \cap (Present \cup dirs) = {}
             /\ dirs' = dirs \ {p} /\ UNCHANGED ws
    BY <1>5, <2>3
  <2> QED
    BY <2>1, <2>2, <2>3 DEF AgentDeletes
<1>8. CASE Unlink
  BY <1>1, <1>3, <1>4, <1>8 DEF Unlink, TypeOK
<1>9. CASE WriteBack
  <2>1. CASE ws' = ws
    BY <1>4, <1>9, <2>1 DEF WriteBack
  <2>2. CASE \E p \in op.todo : \E c :
                /\ ws' = [ws EXCEPT ![p] = c]
                /\ dirs' = dirs \cup ({Parent[p]} \ {None})
    BY <1>1, <1>2, <2>2 DEF TypeOK
  <2> QED
    BY <1>9, <2>1, <2>2 DEF WriteBack
<1>10. CASE Tidy
  BY <1>5, <1>10 DEF Tidy
<1>11. CASE Crash
  BY <1>1, <1>2, <1>4, <1>11 DEF Crash, TypeOK
<1>12. CASE \/ RegisterRun \/ Resume \/ Pause \/ CopyFile \/ WriteManifest
            \/ WriteBranch \/ WriteReport \/ WriteRecord
            \/ SetLifecycle \/ Plan \/ \E r \in Requests : Begin(r)
  BY <1>4, <1>12 DEF RegisterRun, Resume, Begin, Pause, CopyFile, WriteManifest,
     WriteBranch, WriteReport, WriteRecord, Writes, SetLifecycle, Plan
<1> QED
  BY <1>6, <1>7, <1>8, <1>9, <1>10, <1>11, <1>12 DEF Next

LEMMA HasEvidenceKeeps ==
    ASSUME [Next]_vars, op.todo \subseteq Paths, NEW p, HasEvidence(p),
           op'.request = op.request, ws'[p] = ws[p]
    PROVE  HasEvidence(p)'
<1> DEFINE s == <<"full", op.request.incident>>
           m == ManifestOf(s)
<1>1. /\ m \in DOMAIN disk' /\ disk'[m] = disk[m] /\ disk[m] # Torn
      /\ InSnapshot(s, p) \in DOMAIN disk'
      /\ disk'[InSnapshot(s, p)] = disk[InSnapshot(s, p)]
  BY DiskKeeps DEF HasEvidence, Intact
<1>2. p \in DOMAIN disk[m] /\ disk[InSnapshot(s, p)] = ws[p]
  BY DEF HasEvidence
<1> QED
  BY <1>1, <1>2 DEF HasEvidence, Intact, ManifestOf, InSnapshot

(* When the full snapshot's manifest is written, it has every file.        *)
LEMMA FullCaptured ==
    ASSUME IInv, WriteManifest, op.at = "full", op'.at # "over"
    PROVE  \A p \in Present : HasEvidence(p)'
<1> DEFINE s == <<"full", op.request.incident>>
           m == ManifestOf(s)
<1>1. TypeOK /\ CopiedSoFar /\ op.todo = {} /\ op.todo \subseteq Paths /\ Next
  BY DEF IInv, TypeOK, WriteManifest, Next
<1>2. PICK at, todo : Writes(m, Entries, at, todo)
  BY DEF WriteManifest, Snapshot
<1>3. /\ m \in DOMAIN disk' /\ disk'[m] = Entries /\ disk'[m] # Torn
      /\ op'.request = op.request /\ ws' = ws
  BY <1>1, <1>2, Wrote, EntriesTyped DEF Writes
<1>4. DOMAIN Entries = Present
  BY DEF Entries
<1>5. ASSUME NEW p \in Present
      PROVE  InSnapshot(s, p) \in DOMAIN disk' /\ disk'[InSnapshot(s, p)] = ws[p]
  <2>1. InSnapshot(s, p) \in DOMAIN disk /\ disk[InSnapshot(s, p)] = ws[p]
    BY <1>1 DEF CopiedSoFar, Capturing, Snapshot
  <2> QED
    BY <1>1, <2>1, DiskKeeps
<1> QED
  BY <1>3, <1>4, <1>5 DEF HasEvidence, Intact, ManifestOf, InSnapshot

(* While a recovery is under way, only the recovery changes the workspace. *)
LEMMA AgentWaitsForTheEnd ==
    ASSUME AgentWaits = TRUE, Next, op.at # "over"
    PROVE  \/ Pause \/ CopyFile \/ WriteManifest
           \/ WriteBranch \/ WriteReport \/ WriteRecord
           \/ SetLifecycle \/ Plan \/ Unlink \/ WriteBack \/ Tidy
           \/ op'.at = "over"
<1>1. ~AgentMayWork /\ ~Over
  BY DEF AgentMayWork, Over
<1> QED
  BY <1>1 DEF Next, AgentDeletes, AgentWrites, RegisterRun, Resume, Begin, Crash, Goto

LEMMA EvidentStep ==
    ASSUME AgentWaits = TRUE, IInv, Evident, AsPlanned, Next
    PROVE  Evident'
<1>1. KindsFit /\ PlanHolds /\ op.todo \subseteq Paths
  BY DEF IInv, TypeOK
<1>2. CASE op'.at \notin {"lifecycle", "plan", "unlink", "write"}
  BY <1>2 DEF Evident
<1>3. CASE op.at = "over"
  BY <1>2, <1>3, OpMoves DEF Evident, Over, Next, AgentDeletes, AgentWrites,
     RegisterRun, Resume, Follows
<1>4. CASE WriteManifest
  <2>1. CASE op.at = "full" /\ op'.at # "over"
    <3>1. \A p \in Present : HasEvidence(p)'
      BY <1>4, <2>1, FullCaptured
    <3>2. Present' = Present /\ op'.at \in {"branch", "lifecycle"}
      BY <1>4, <2>1 DEF WriteManifest, Writes, Goto, Raise, AfterCapture, AfterFull, Present
    <3> QED
      BY <3>1, <3>2 DEF Evident
  <2> QED
    BY <1>2, <1>4, <2>1 DEF WriteManifest, Writes, Goto, Raise, AfterCapture, AfterCycle
<1>5. CASE (SetLifecycle \/ Plan) /\ op'.at # "over"
  <2>1. /\ op'.request = op.request /\ ws' = ws /\ Present' = Present
        /\ op'.at \in {"plan", "unlink"} /\ op.at \in {"lifecycle", "plan"}
    BY <1>5 DEF SetLifecycle, Plan, Goto, Raise, Present
  <2> QED
    BY <1>1, <2>1, HasEvidenceKeeps DEF Evident
<1>6. CASE Unlink /\ op'.at # "over"
  <2>1. op'.request = op.request /\ op.at = "unlink" /\ op'.at \in {"unlink", "write"}
    BY <1>6 DEF Unlink, Goto, Raise
  <2>2. ASSUME NEW p \in Present' PROVE p \in Present /\ ws'[p] = ws[p]
    BY <1>6, <2>2 DEF Unlink, Goto, Raise, Present, IInv, TypeOK
  <2>3. ASSUME NEW p \in Present' PROVE HasEvidence(p)'
    BY <1>1, <2>1, <2>2, HasEvidenceKeeps DEF Evident
  <2> QED
    BY <2>1, <2>3 DEF Evident
<1>7. CASE WriteBack /\ op'.at = "write"
  <2>1. PICK q \in op.todo :
           /\ ws' = [ws EXCEPT ![q] = disk[InSnapshot(op.request.target, q)]]
           /\ Goto("write", op.todo \ {q})
    BY <1>7 DEF WriteBack, Goto, Raise
  <2>2. op'.request = op.request /\ op'.todo = op.todo \ {q} /\ op.at = "write"
    BY <1>7, <2>1 DEF Goto, WriteBack
  <2>3. ASSUME NEW p \in op'.todo \cap Present'
        PROVE  p \in op.todo \cap Present /\ ws'[p] = ws[p]
    BY <1>1, <2>1, <2>2, <2>3 DEF Present, IInv, TypeOK
  <2>4. ASSUME NEW p \in op'.todo \cap Present' PROVE HasEvidence(p)'
    BY <1>1, <2>2, <2>3, HasEvidenceKeeps DEF Evident
  <2> QED
    BY <1>7, <2>4 DEF Evident
<1>8. CASE WriteBack /\ op'.at # "write"
  BY <1>2, <1>8 DEF WriteBack, Goto, Raise
<1>9. CASE Pause \/ CopyFile \/ WriteBranch \/ WriteReport \/ WriteRecord \/ Tidy
  BY <1>2, <1>9 DEF Pause, CopyFile, WriteBranch, WriteReport, WriteRecord, Tidy,
     Writes, Goto, Raise
<1> QED
  BY <1>2, <1>3, <1>4, <1>5, <1>6, <1>7, <1>8, <1>9, AgentWaitsForTheEnd

(* The plan of a restore under way, and the snapshot it is of. *)
LEMMA PlanOfRestore ==
    ASSUME IInv, op.at \in {"unlink", "write", "tidy"}
    PROVE  /\ Whole(op.request.target) /\ Expected \subseteq Paths
           /\ disk[ManifestOf(op.request.target)] \in Files
           /\ \A p \in Expected :
                 disk[InSnapshot(op.request.target, p)] \in Contents \cup {Torn}
<1>1. /\ op.request.kind \in {"rollback", "restore"} /\ op.request \in Requests
      /\ Intact(ManifestOf(op.request.target))
  BY DEF IInv, KindsFit, TypeOK, Over, PlanHolds, Restoring
<1> QED
  BY <1>1, PlanTarget DEF IInv

(* When nothing is left to write back, the workspace is the snapshot.      *)
LEMMA WrittenBack ==
    ASSUME IInv, AsPlanned, op.at = "write", op.todo = {}
    PROVE  Entries = disk[ManifestOf(op.request.target)]
<1> DEFINE t == op.request.target
           m == ManifestOf(t)
<1>1. /\ Whole(t) /\ Expected \subseteq Paths /\ disk[m] \in Files
      /\ \A p \in Expected : disk[InSnapshot(t, p)] \in Contents \cup {Torn}
  BY PlanOfRestore
<1>2. /\ Present \subseteq Expected
      /\ \A p \in Expected : ws[p] = disk[InSnapshot(t, p)]
  BY DEF AsPlanned
<1>3. None \notin Contents \cup {Torn}
  BY RecoveryAssumption
<1>4. Present = Expected
  BY <1>1, <1>2, <1>3 DEF Present
<1>5. \A p \in Expected : ws[p] = disk[m][p]
  BY <1>1, <1>2 DEF Whole, Expected
<1>6. disk[m] = [p \in Expected |-> disk[m][p]]
  BY <1>1 DEF Files, Expected
<1> QED
  BY <1>4, <1>5, <1>6 DEF Entries

LEMMA AsPlannedStep ==
    ASSUME AgentWaits = TRUE, IInv, AsPlanned, Next
    PROVE  AsPlanned'
<1>1. KindsFit /\ PlanHolds /\ op.todo \subseteq Paths /\ Present \subseteq Paths
  BY DEF IInv, TypeOK, Present
<1>2. CASE op'.at \notin {"unlink", "write", "tidy"}
  BY <1>2 DEF AsPlanned
<1>3. CASE op.at = "over"
  BY <1>2, <1>3, OpMoves DEF AsPlanned, Over, Next, AgentDeletes, AgentWrites,
     RegisterRun, Resume, Follows
<1>4. CASE (Plan \/ Unlink \/ WriteBack) /\ op'.at # "over"
  <2>1. op'.request = op.request /\ disk' = disk
    BY <1>4 DEF Plan, Unlink, WriteBack, Goto, Raise
  <2>2. Expected' = Expected
    BY <2>1 DEF Expected, ManifestOf, InSnapshot
  <2>3. CASE Plan
    BY <1>4, <2>2, <2>3 DEF Plan, Goto, Raise, Extra, Present, AsPlanned
  <2>4. CASE Unlink
    <3>1. op.todo = Extra /\ op.at = "unlink"
      BY <2>4 DEF Unlink, AsPlanned
    <3>2. CASE \E p \in op.todo : /\ ws' = [ws EXCEPT ![p] = None]
                                  /\ Goto("unlink", op.todo \ {p})
      <4>1. PICK p \in op.todo : /\ ws' = [ws EXCEPT ![p] = None]
                                 /\ Goto("unlink", op.todo \ {p})
        BY <3>2
      <4>2. Present' = Present \ {p}
        BY <1>1, <4>1 DEF Present, IInv, TypeOK
      <4> QED
        BY <2>2, <3>1, <4>1, <4>2 DEF Goto, Extra, AsPlanned
    <3>3. CASE op.todo = {} /\ Goto("write", Expected) /\ UNCHANGED ws
      <4>1. Present \subseteq Expected /\ Present' = Present
        BY <3>1, <3>3 DEF Extra, Present
      <4> QED
        BY <2>2, <3>3, <4>1 DEF Goto, AsPlanned
    <3> QED
      BY <1>4, <2>4, <3>2, <3>3 DEF Unlink, Raise, Goto
  <2>5. CASE WriteBack
    <3>1. CASE \E p \in op.todo :
                  /\ ws' = [ws EXCEPT ![p] = disk[InSnapshot(op.request.target, p)]]
                  /\ Goto("write", op.todo \ {p})
      <4>1. PICK p \in op.todo :
               /\ ws' = [ws EXCEPT ![p] = disk[InSnapshot(op.request.target, p)]]
               /\ Goto("write", op.todo \ {p})
        BY <3>1
      <4>2. /\ Present \subseteq Expected /\ p \in Expected /\ Expected \subseteq Paths
            /\ \A q \in Expected \ op.todo : ws[q] = disk[InSnapshot(op.request.target, q)]
        BY <1>1, <2>5, PlanOfRestore DEF WriteBack, AsPlanned, PlanHolds
      <4>3. Present' \subseteq Present \cup {p}
        BY <4>1 DEF Present, IInv, TypeOK
      <4>4. \A q \in Expected \ (op.todo \ {p}) :
               ws'[q] = disk[InSnapshot(op.request.target, q)]
        BY <4>1, <4>2 DEF IInv, TypeOK
      <4> QED
        BY <2>1, <2>2, <4>1, <4>2, <4>3, <4>4 DEF Goto, AsPlanned, InSnapshot
    <3>2. CASE op.todo = {} /\ Goto("tidy", {}) /\ UNCHANGED ws
      <4>1. Entries = disk[ManifestOf(op.request.target)]
        BY <2>5, <3>2, WrittenBack DEF WriteBack
      <4>2. Entries' = Entries
        BY <3>2 DEF Entries, Present
      <4> QED
        BY <2>1, <3>2, <4>1, <4>2 DEF Goto, AsPlanned, ManifestOf, InSnapshot
    <3> QED
      BY <1>4, <2>5, <3>1, <3>2 DEF WriteBack, Raise, Goto
  <2> QED
    BY <1>4, <2>3, <2>4, <2>5
<1>5. CASE Pause \/ CopyFile \/ WriteManifest \/ SetLifecycle
           \/ WriteBranch \/ WriteReport \/ WriteRecord \/ Tidy
  BY <1>2, <1>5 DEF Pause, CopyFile, WriteManifest, SetLifecycle,
     WriteBranch, WriteReport, WriteRecord, Tidy, Writes, Goto, Raise,
     AfterCapture, AfterCycle, AfterFull
<1> QED
  BY <1>2, <1>3, <1>4, <1>5, AgentWaitsForTheEnd

(* The directories that stay are those of the files that are there: paths  *)
(* are at most two deep.                                                   *)
LEMMA Tidied ==
    ASSUME TypeOK, ParentsAreDirs, Tidy
    PROVE  dirs' = {Parent[p] : p \in Present} \ {None}
<1>1. PICK D \in SUBSET dirs :
         /\ dirs' = dirs \ D
         /\ \A d \in dirs : d \in D <=> Beneath(d) \cap (Present \cup dirs') = {}
  BY DEF Tidy
<1>2. dirs' \subseteq Paths /\ Present \subseteq Paths
  BY <1>1 DEF TypeOK, Present
<1>3. ASSUME NEW p \in Present, Parent[p] # None PROVE Parent[p] \in dirs'
  <2>1. Parent[p] \in dirs /\ p \in Beneath(Parent[p])
    BY <1>2, <1>3 DEF ParentsAreDirs, Beneath
  <2> QED
    BY <1>1, <1>3, <2>1
<1>4. ASSUME NEW d \in dirs' PROVE \E p \in Present : d = Parent[p] /\ d # None
  <2>1. PICK q \in Paths : Parent[q] = d /\ q \in Present \cup dirs'
    BY <1>1, <1>4 DEF Beneath
  <2>2. d \in Paths /\ d # None
    BY <1>2, <1>4, RecoveryAssumption
  <2>3. CASE q \in dirs'
    <3>1. PICK r \in Paths : Parent[r] = q
      BY <1>1, <2>3 DEF Beneath
    <3>2. Parent[Parent[r]] = None
      BY <3>1, RecoveryAssumption
    <3> QED
      BY <2>1, <2>2, <3>1, <3>2
  <2> QED
    BY <2>1, <2>2, <2>3
<1> QED
  BY <1>3, <1>4

LEMMA RestoredStep ==
    ASSUME AgentWaits = TRUE, WInv, Next
    PROVE  RestoredIsTarget'
<1> DEFINE m == ManifestOf(op.request.target)
<1>1. IInv /\ TypeOK /\ KindsFit /\ AsPlanned /\ ParentsAreDirs /\ op.todo \subseteq Paths
  BY DEF WInv, IInv, TypeOK
<1>2. CASE op'.at \notin {"report", "record"} \/ op'.request.kind = "branch"
  BY <1>2 DEF RestoredIsTarget
<1>3. CASE op.at = "over"
  BY <1>2, <1>3, OpMoves DEF RestoredIsTarget, Over, Next, AgentDeletes, AgentWrites,
     RegisterRun, Resume, Follows
<1>4. ASSUME op'.request = op.request, ws' = ws, Whole(op.request.target),
             Entries = disk[m], dirs' = {Parent[p] : p \in Present} \ {None}
      PROVE  RestoredIsTarget'
  <2>1. m \in DOMAIN disk /\ disk'[m] = disk[m]
    BY <1>1, <1>4, DiskKeeps DEF Whole, Intact
  <2>2. Entries' = Entries /\ Present' = Present
    BY <1>4 DEF Entries, Present
  <2>3. PICK t : t = op.request.target
    OBVIOUS
  <2>4. Whole(t)'
    BY <1>1, <1>4, <2>3, WholeKeeps
  <2>5. Whole(op.request.target)'
    BY <1>4, <2>3, <2>4 DEF Whole, Intact, ManifestOf, InSnapshot
  <2> QED
    BY <1>4, <2>1, <2>2, <2>5 DEF RestoredIsTarget, ManifestOf, InSnapshot
<1>5. CASE Tidy
  <2>1. op'.request = op.request /\ ws' = ws /\ op.at = "tidy"
    BY <1>5 DEF Tidy, Goto
  <2>2. Whole(op.request.target) /\ Entries = disk[m]
    BY <1>1, <2>1, PlanOfRestore DEF AsPlanned
  <2> QED
    BY <1>1, <1>4, <1>5, <2>1, <2>2, Tidied
<1>6. CASE (WriteReport \/ WriteRecord) /\ op'.at # "over" /\ op'.request.kind # "branch"
  <2>1. op'.request = op.request /\ ws' = ws /\ dirs' = dirs /\ op.at \in {"report", "record"}
    BY <1>6 DEF WriteReport, WriteRecord, Writes, Goto, Raise
  <2>2. /\ Whole(op.request.target) /\ Entries = disk[m]
        /\ dirs = {Parent[p] : p \in Present} \ {None}
    BY <1>6, <2>1 DEF WInv, RestoredIsTarget
  <2> QED
    BY <1>4, <2>1, <2>2
<1>7. CASE WriteBranch
  BY <1>1, <1>2, <1>7 DEF WriteBranch, KindsFit, Writes, Goto, Raise
<1>8. CASE \/ Pause \/ CopyFile \/ WriteManifest \/ SetLifecycle
           \/ Plan \/ Unlink \/ WriteBack
  BY <1>2, <1>8 DEF Pause, CopyFile, WriteManifest, SetLifecycle, Plan, Unlink,
     WriteBack, Writes, Goto, Raise, AfterCapture, AfterCycle, AfterFull
<1> QED
  BY <1>2, <1>3, <1>5, <1>6, <1>7, <1>8, AgentWaitsForTheEnd

LEMMA WorkspaceStep == AgentWaits = TRUE /\ WInv /\ [Next]_vars => WInv'
<1>1. ASSUME AgentWaits = TRUE, WInv, Next PROVE WInv'
  <2>1. IInv /\ ParentsAreDirs /\ Evident /\ AsPlanned
    BY <1>1 DEF WInv
  <2> QED
    BY <1>1, <2>1, StepInv, ParentsStep, EvidentStep, AsPlannedStep, RestoredStep DEF WInv
<1>2. ASSUME WInv, UNCHANGED vars PROVE WInv'
  <2>1. IInv'
    BY <1>2, StepInv DEF WInv
  <2>2. ParentsAreDirs' /\ RestoredIsTarget'
    BY <1>2 DEF WInv, vars, ParentsAreDirs, Present, RestoredIsTarget, Whole, Intact,
                Entries, ManifestOf, InSnapshot
  <2>3. Evident' /\ AsPlanned'
    BY <1>2 DEF WInv, vars, Evident, AsPlanned, HasEvidence, Present, Extra, Expected,
                Entries, Intact, ManifestOf, InSnapshot
  <2> QED
    BY <2>1, <2>2, <2>3 DEF WInv
<1> QED
  BY <1>1, <1>2

LEMMA WorkspaceInvariant ==
    ASSUME AgentWaits = TRUE
    PROVE  Spec => []WInv
<1>1. WInv /\ [Next]_vars => WInv'
  BY WorkspaceStep
<1> QED
  BY <1>1, WorkspaceInit, PTL DEF Spec

(* A rollback or a restore that reports leaves the workspace as the        *)
(* snapshot it names has it, whatever the workspace was before and         *)
(* whatever had broken off earlier, as long as the agent waits for it.     *)
THEOREM RestoreReachesTarget ==
    ASSUME AgentWaits = TRUE
    PROVE  Spec => []RestoredIsTarget
<1>1. WInv => RestoredIsTarget
  BY DEF WInv
<1> QED
  BY <1>1, WorkspaceInvariant, PTL

LEMMA EvidenceFirstStep ==
    ASSUME WInv, Next, op' # op, NEW p \in Paths, ws[p] # None, ws'[p] # ws[p]
    PROVE  HasEvidence(p)
<1>1. TypeOK /\ Evident /\ p \in Present
  BY DEF WInv, IInv, Present
<1>2. CASE Unlink
  BY <1>1, <1>2 DEF Unlink, Evident
<1>3. CASE WriteBack
  <2>1. p \in op.todo /\ op.at = "write"
    BY <1>1, <1>3 DEF WriteBack, TypeOK
  <2> QED
    BY <1>1, <2>1 DEF Evident
<1>4. CASE Crash
  <2>1. p \in op.todo /\ op.at = "write"
    BY <1>1, <1>4 DEF Crash, TypeOK
  <2> QED
    BY <1>1, <2>1 DEF Evident
<1>5. CASE \/ \E q \in Paths : AgentDeletes(q) \/ \E c \in Contents : AgentWrites(q, c)
           \/ RegisterRun \/ Resume \/ Pause \/ CopyFile \/ WriteManifest
           \/ WriteBranch \/ WriteReport \/ WriteRecord
           \/ SetLifecycle \/ Plan \/ Tidy \/ \E r \in Requests : Begin(r)
  BY <1>5 DEF AgentDeletes, AgentWrites, RegisterRun, Resume, Begin, Pause, CopyFile,
     WriteManifest, WriteBranch, WriteReport, WriteRecord, Writes, SetLifecycle, Plan, Tidy
<1> QED
  BY <1>2, <1>3, <1>4, <1>5 DEF Next

(* A recovery, or a crash in it, overwrites or deletes no file that the    *)
(* full snapshot of its incident does not have, as long as the agent waits *)
(* for it.                                                                 *)
THEOREM EvidenceComesFirst ==
    ASSUME AgentWaits = TRUE
    PROVE  Spec => EvidenceFirst
<1>1. WInv /\ [Next]_vars =>
         [op' # op => \A p \in Paths :
             ws[p] # None /\ ws'[p] # ws[p] => HasEvidence(p)]_vars
  BY EvidenceFirstStep
<1> QED
  BY <1>1, WorkspaceInvariant, PTL DEF Spec, EvidenceFirst

-----------------------------------------------------------------------------
(***************************************************************************)
(* Where the host keeps its files, which StorageLayout models.  Two paths  *)
(* meet exactly when they agree as far as both go; so it is enough that    *)
(* the paths of two artifacts differ in one segment that both have.        *)
(***************************************************************************)
(* Any word, the host's own named: that a string literal is one of STRING  *)
(* is not a fact the provers have.                                         *)
Word ==
    STRING \cup
        {"", "json", "jsonl", "projects", "glassboxes", "experiments", "runs",
         "records", "manifests", "audit", "evidence", "logs", "exports",
         "snapshots", "incidents", "mirrors", "proofs", "backups", "run",
         "start", "reproducibility", "ledger", "brokered", "full", "log",
         "bundle", "items", "manifest", "cycles", "link", "files", "report",
         "git", "branches", "bundles", "incident", "snapshot"}

Segment == Seq(Word) \X Word

Agree(p, q) == \A i \in 1 .. Len(p) : i \in 1 .. Len(q) => p[i] = q[i]

LEMMA WithinAgree ==
    ASSUME NEW S, NEW p \in Seq(S), NEW q \in Seq(S)
    PROVE  IsWithin(p, q) <=> Len(q) < Len(p) /\ Agree(p, q)
<1> DEFINE part == SubSeq(p, 1, Len(q))
<1>1. Len(p) \in Nat /\ Len(q) \in Nat
  OBVIOUS
<1>2. ASSUME Len(q) < Len(p)
      PROVE  /\ part \in Seq(S) /\ Len(part) = Len(q)
             /\ \A i \in 1 .. Len(q) : part[i] = p[i]
  <2>1. \A i \in 1 .. Len(q) : p[i] \in S
    BY <1>1, <1>2, ElementOfSeq
  <2>2. Len(part) = IF 1 <= Len(q) THEN Len(q) - 1 + 1 ELSE 0
    BY <1>1, <2>1, SubSeqProperties
  <2>3. part \in Seq(S)
    BY <1>1, <2>1, SubSeqProperties
  <2>4. \A i \in 1 .. Len(q) - 1 + 1 : part[i] = p[1 + i - 1]
    BY <1>1, <2>1, SubSeqProperties
  <2> HIDE DEF part
  <2>5. Len(part) = Len(q)
    BY <1>1, <2>2
  <2>6. \A i \in 1 .. Len(q) : i \in 1 .. Len(q) - 1 + 1 /\ 1 + i - 1 = i
    BY <1>1
  <2> QED
    BY <2>3, <2>4, <2>5, <2>6
<1> HIDE DEF part
<1>3. ASSUME Len(q) < Len(p), part = q PROVE Agree(p, q)
  BY <1>1, <1>2, <1>3 DEF Agree
<1>4. ASSUME Len(q) < Len(p), Agree(p, q) PROVE part = q
  <2>1. \A i \in 1 .. Len(q) : i \in 1 .. Len(p)
    BY <1>1, <1>4
  <2>2. \A i \in 1 .. Len(q) : part[i] = q[i]
    BY <1>2, <1>4, <2>1 DEF Agree
  <2> QED
    BY <1>2, <1>4, <2>2, SeqEqual
<1> QED
  BY <1>3, <1>4 DEF IsWithin, part

LEMMA MeetingIsAgreeing ==
    ASSUME NEW S, NEW p \in Seq(S), NEW q \in Seq(S)
    PROVE  Meets(p, q) <=> Agree(p, q)
<1>1. Agree(p, q) <=> Agree(q, p)
  BY DEF Agree
<1>2. p = q => Agree(p, q)
  BY DEF Agree
<1>3. ASSUME Agree(p, q), Len(p) = Len(q) PROVE p = q
  BY <1>3, SeqEqual DEF Agree
<1>4. Len(q) < Len(p) \/ Len(p) < Len(q) \/ Len(p) = Len(q)
  OBVIOUS
<1> QED
  BY <1>1, <1>2, <1>3, <1>4, WithinAgree DEF Meets

LEMMA AgreeBehind ==
    ASSUME NEW S, NEW s \in Seq(S), NEW t \in Seq(S), Len(s) = Len(t),
           NEW p \in Seq(S), NEW q \in Seq(S), Agree(s \o p, t \o q)
    PROVE  s = t /\ Agree(p, q)
<1> DEFINE u == s \o p
           v == t \o q
           n == Len(s)
<1>1. /\ Len(u) = Len(s) + Len(p)
      /\ \A i \in 1 .. Len(s) + Len(p) :
            u[i] = IF i <= Len(s) THEN s[i] ELSE p[i - Len(s)]
  BY ConcatProperties
<1>2. /\ Len(v) = Len(t) + Len(q)
      /\ \A i \in 1 .. Len(t) + Len(q) :
            v[i] = IF i <= Len(t) THEN t[i] ELSE q[i - Len(t)]
  BY ConcatProperties
<1>3. Agree(u, v)
  OBVIOUS
<1>4. n \in Nat /\ Len(p) \in Nat /\ Len(q) \in Nat /\ Len(s) = n /\ Len(t) = n
  OBVIOUS
<1> HIDE DEF u, v, n
<1>5. ASSUME NEW i \in 1 .. n PROVE s[i] = t[i]
  <2>1. i \in 1 .. Len(u) /\ i \in 1 .. Len(v) /\ u[i] = s[i] /\ v[i] = t[i]
    BY <1>1, <1>2, <1>4
  <2> QED
    BY <1>3, <2>1 DEF Agree
<1>6. ASSUME NEW i \in 1 .. Len(p), i \in 1 .. Len(q) PROVE p[i] = q[i]
  <2>1. /\ n + i \in 1 .. n + Len(p) /\ n + i \in 1 .. n + Len(q)
        /\ ~(n + i <= n) /\ (n + i) - n = i
    BY <1>4, <1>6
  <2>2. u[n + i] = p[i] /\ v[n + i] = q[i]
    BY <1>1, <1>2, <1>4, <2>1
  <2>3. n + i \in 1 .. Len(u) /\ n + i \in 1 .. Len(v)
    BY <1>1, <1>2, <1>4, <2>1
  <2> QED
    BY <1>3, <2>2, <2>3 DEF Agree
<1>7. s = t
  BY <1>4, <1>5, SeqEqual
<1> QED
  BY <1>6, <1>7 DEF Agree

-----------------------------------------------------------------------------
(* Ids, names and segments *)

LEMMA OneElement ==
    ASSUME NEW S, NEW x \in S
    PROVE  <<x>> \in Seq(S) /\ Len(<<x>>) = 1 /\ <<x>>[1] = x
OBVIOUS

LEMMA IdsTyped ==
    ASSUME LayoutConstants, NEW id \in Ids \cup SnapshotIds
    PROVE  /\ id \in Seq(Word) /\ id # <<>>
           /\ IncidentId(id) \in Seq(Word)
           /\ IsReadable(IncidentId(id), "incident")
           /\ FullSnapshotId(id) \in Seq(Word)
<1>1. id \in Seq(Word) /\ id # <<>>
  <2>1. id \in Seq(STRING) /\ id # <<>>
    BY DEF LayoutConstants
  <2>2. STRING \subseteq Word
    BY DEF Word
  <2> QED
    BY <2>1, <2>2, SeqMonotonic
<1>2. Len(id) \in Nat \ {0}
  BY <1>1, EmptySeq
<1>3. /\ <<"incident">> \o id \in Seq(Word)
      /\ Len(<<"incident">> \o id) = 1 + Len(id)
      /\ (<<"incident">> \o id)[1] = "incident"
  <2>1. <<"incident">> \in Seq(Word) /\ Len(<<"incident">>) = 1
        /\ <<"incident">>[1] = "incident"
    <3>1. "incident" \in Word
      BY DEF Word
    <3> QED
      BY <3>1, OneElement
  <2> DEFINE prefix == <<"incident">>
  <2>2. prefix \in Seq(Word) /\ Len(prefix) = 1 /\ prefix[1] = "incident"
    BY <2>1
  <2> HIDE DEF prefix
  <2>3. /\ prefix \o id \in Seq(Word)
        /\ Len(prefix \o id) = Len(prefix) + Len(id)
        /\ \A i \in 1 .. Len(prefix) + Len(id) : (prefix \o id)[i] =
              IF i <= Len(prefix) THEN prefix[i] ELSE id[i - Len(prefix)]
    BY <1>1, <2>2, ConcatProperties
  <2>4. (prefix \o id)[1] = "incident"
    BY <1>2, <2>2, <2>3
  <2> QED
    BY <2>2, <2>3, <2>4 DEF prefix
<1>4. /\ IncidentId(id) \in Seq(Word)
      /\ IsReadable(IncidentId(id), "incident")
  <2> DEFINE longer == <<"incident">> \o id
  <2>1. longer \in Seq(Word) /\ Len(longer) > 1 /\ Head(longer) = "incident"
    BY <1>2, <1>3
  <2> HIDE DEF longer
  <2>2. IncidentId(id) =
           IF IsReadable(id, "incident") THEN id ELSE longer
    BY DEF IncidentId, NormalizeReadableId, longer
  <2> QED
    BY <1>1, <2>1, <2>2 DEF IsReadable
<1>5. FullSnapshotId(id) \in Seq(Word)
  <2> DEFINE incident == IncidentId(id)
  <2>1. incident \in Seq(Word) /\ incident # <<>>
    BY <1>4, EmptySeq DEF IsReadable
  <2> HIDE DEF incident
  <2>2. Tail(incident) \in Seq(Word)
    BY <2>1, HeadTailProperties
  <2>3. <<"snapshot">> \in Seq(Word)
    <3>1. "snapshot" \in Word
      BY DEF Word
    <3> QED
      BY <3>1, OneElement
  <2>4. <<"snapshot">> \o Tail(incident) \in Seq(Word)
    BY <2>2, <2>3, ConcatProperties
  <2> QED
    BY <2>4 DEF incident, FullSnapshotId
<1> QED
  BY <1>1, <1>4, <1>5

LEMMA NamesTyped ==
    ASSUME LayoutConstants, NEW m \in Names, NEW n \in Names
    PROVE  m \in Seq(Segment) /\ (Agree(m, n) => m = n)
<1>1. m \in Seq(Segment) /\ n \in Seq(Segment)
  <2>1. m \in Seq(Seq(STRING) \X STRING) /\ n \in Seq(Seq(STRING) \X STRING)
    BY DEF LayoutConstants
  <2>2. STRING \subseteq Word
    BY DEF Word
  <2>3. Seq(STRING) \subseteq Seq(Word)
    BY <2>2, SeqMonotonic
  <2>4. Seq(STRING) \X STRING \subseteq Segment
    BY <2>2, <2>3 DEF Segment
  <2> QED
    BY <2>1, <2>4, SeqMonotonic
<1> QED
  BY <1>1, MeetingIsAgreeing DEF LayoutConstants, NamesApart

LEMMA SegmentsTyped ==
    /\ \A id \in Seq(Word) : Dir(id) \in Segment
    /\ \A id \in Seq(Word) : \A ext \in Word : File(id, ext) \in Segment
<1>1. "" \in Word
  BY DEF Word
<1>2. ASSUME NEW id \in Seq(Word), NEW ext \in Word
      PROVE  <<id, ext>> \in Seq(Word) \X Word
  BY <1>2
<1> QED
  BY <1>1, <1>2 DEF Dir, File, Segment, NoExt

LEMMA SegmentsDiffer ==
    ASSUME NEW id, NEW other, NEW ext
    PROVE  /\ Dir(id) = Dir(other) <=> id = other
           /\ File(id, ext) = File(other, ext) <=> id = other
           /\ ext # "" => Dir(id) # File(other, ext)
BY DEF Dir, File, NoExt

LEMMA ArtifactParts ==
    ASSUME NEW a \in Artifact
    PROVE  /\ a = [kind |-> a.kind, run |-> a.run, id |-> a.id, name |-> a.name]
           /\ a.run \in Runs
           /\ a.kind \in RunKinds \cup IdKinds \cup FileKinds
                            \cup {"full manifest", "full file"}
           /\ a.kind \in RunKinds => a.id = <<>> /\ a.name = <<>>
           /\ a.kind \in IdKinds => a.id \in Ids /\ a.name = <<>>
           /\ a.kind \in FileKinds => a.id \in Ids /\ a.name \in Names
           /\ a.kind = "full manifest" => a.id \in SnapshotIds /\ a.name = <<>>
           /\ a.kind = "full file" => a.id \in SnapshotIds /\ a.name \in Names
<1>1. CASE a \in [kind : RunKinds, run : Runs, id : {<<>>}, name : {<<>>}]
  BY <1>1 DEF RunKinds, IdKinds, FileKinds
<1>2. CASE a \in [kind : IdKinds, run : Runs, id : Ids, name : {<<>>}]
  BY <1>2 DEF RunKinds, IdKinds, FileKinds
<1>3. CASE a \in [kind : FileKinds, run : Runs, id : Ids, name : Names]
  BY <1>3 DEF RunKinds, IdKinds, FileKinds
<1>4. CASE a \in [kind : {"full manifest"}, run : Runs, id : SnapshotIds, name : {<<>>}]
  BY <1>4 DEF RunKinds, IdKinds, FileKinds
<1>5. CASE a \in [kind : {"full file"}, run : Runs, id : SnapshotIds, name : Names]
  BY <1>5 DEF RunKinds, IdKinds, FileKinds
<1> QED
  BY <1>1, <1>2, <1>3, <1>4, <1>5 DEF Artifact

LEMMA SameArtifact ==
    ASSUME NEW a \in Artifact, NEW b \in Artifact,
           a.kind = b.kind, a.run = b.run, a.id = b.id, a.name = b.name
    PROVE  a = b
<1>1. /\ a = [kind |-> a.kind, run |-> a.run, id |-> a.id, name |-> a.name]
      /\ b = [kind |-> b.kind, run |-> b.run, id |-> b.id, name |-> b.name]
  BY ArtifactParts
<1> QED
  BY <1>1, Zenon

LEMMA AgreeAt ==
    ASSUME NEW S, NEW p \in Seq(S), NEW q \in Seq(S), Agree(p, q),
           NEW i \in Nat \ {0}, i <= Len(p), i <= Len(q)
    PROVE  p[i] = q[i]
BY DEF Agree

-----------------------------------------------------------------------------
(* Places of artifacts *)

LEMMA FewElements ==
    ASSUME NEW S, NEW x \in S, NEW y \in S, NEW z \in S
    PROVE  /\ <<x, y>> \in Seq(S) /\ Len(<<x, y>>) = 2
           /\ <<x, y, z>> \in Seq(S) /\ Len(<<x, y, z>>) = 3
OBVIOUS

LEMMA HostSegments ==
    ASSUME NEW word \in Word
    PROVE  /\ Dir(<<word>>) \in Segment
           /\ \A ext \in Word : File(<<word>>, ext) \in Segment
BY OneElement, SegmentsTyped

SnapshotKind ==
    {"cycle manifest", "cycle file", "full manifest", "full file",
     "incident manifest", "incident file"}

Top(a) == IF a.kind \in {"cycle manifest", "cycle file"} THEN "cycles" ELSE "full"

SnapshotId(a) ==
    IF a.kind \in {"incident manifest", "incident file"}
    THEN FullSnapshotId(a.id) ELSE a.id

Held(a) ==
    IF a.kind \in {"cycle file", "full file", "incident file"}
    THEN SnapshotFile(a.name) ELSE SnapshotManifest

LEMMA SnapshotPlace ==
    ASSUME LayoutConstants, NEW a \in Artifact,
           a.kind \in SnapshotKind
    PROVE  /\ <<Dir(<<Top(a)>>), Dir(SnapshotId(a))>> \in Seq(Segment)
           /\ Held(a) \in Seq(Segment)
           /\ Place(a) =
                 <<Dir(<<Top(a)>>), Dir(SnapshotId(a))>> \o Held(a)
           /\ a.kind \in {"full manifest", "full file"} => a.id \in SnapshotIds
           /\ a.kind \notin {"full manifest", "full file"} => a.id \in Ids
           /\ a.kind \in {"cycle file", "full file", "incident file"} =>
                 /\ a.name \in Names
                 /\ <<Dir(<<"files">>)>> \in Seq(Segment)
                 /\ Held(a) = <<Dir(<<"files">>)>> \o a.name
                 /\ Len(Held(a)) >= 1 /\ Held(a)[1] = Dir(<<"files">>)
           /\ a.kind \notin {"cycle file", "full file", "incident file"} =>
                 /\ a.name = <<>>
                 /\ Held(a) = <<File(<<"manifest">>, "json")>>
<1>1. /\ a.kind \in {"full manifest", "full file"} => a.id \in SnapshotIds
      /\ a.kind \notin {"full manifest", "full file"} => a.id \in Ids
      /\ a.kind \in {"cycle file", "full file", "incident file"} => a.name \in Names
      /\ a.kind \notin {"cycle file", "full file", "incident file"} => a.name = <<>>
  BY ArtifactParts DEF SnapshotKind, IdKinds, FileKinds
<1>2. SnapshotId(a) \in Seq(Word)
  BY <1>1, IdsTyped DEF SnapshotId
<1>3. Top(a) \in Word
  BY DEF Top, Word
<1>4. <<Dir(<<Top(a)>>), Dir(SnapshotId(a))>> \in Seq(Segment)
  BY <1>2, <1>3, HostSegments, SegmentsTyped, FewElements
<1>5. "files" \in Word /\ "manifest" \in Word /\ "json" \in Word
  BY DEF Word
<1>6. /\ <<File(<<"manifest">>, "json")>> \in Seq(Segment)
      /\ <<Dir(<<"files">>)>> \in Seq(Segment)
  BY <1>5, HostSegments, OneElement
<1>7. ASSUME a.kind \in {"cycle file", "full file", "incident file"}
      PROVE  /\ Held(a) = <<Dir(<<"files">>)>> \o a.name
             /\ Held(a) \in Seq(Segment) /\ Len(Held(a)) >= 1
             /\ Held(a)[1] = Dir(<<"files">>)
  <2> DEFINE d == Dir(<<"files">>)
             s == <<d>>
  <2>1. Held(a) = s \o a.name
    BY <1>7 DEF Held, SnapshotFile
  <2>2. a.name \in Seq(Segment) /\ Len(a.name) \in Nat
    <3>1. a.name \in Seq(Segment)
      BY <1>1, <1>7, NamesTyped
    <3> QED
      BY <3>1, LenProperties
  <2>3. s \in Seq(Segment) /\ Len(s) = 1 /\ s[1] = d
    BY <1>6, OneElement
  <2> HIDE DEF s, d
  <2>4. /\ s \o a.name \in Seq(Segment)
        /\ Len(s \o a.name) = Len(s) + Len(a.name)
        /\ \A i \in 1 .. Len(s) + Len(a.name) : (s \o a.name)[i] =
              IF i <= Len(s) THEN s[i] ELSE (a.name)[i - Len(s)]
    BY <2>2, <2>3, ConcatProperties
  <2>5. Len(Held(a)) >= 1 /\ Held(a)[1] = d
    BY <2>1, <2>2, <2>3, <2>4
  <2> QED
    BY <2>1, <2>4, <2>5 DEF s, d
<1>8. ASSUME a.kind \notin {"cycle file", "full file", "incident file"}
      PROVE  /\ Held(a) = <<File(<<"manifest">>, "json")>>
             /\ Held(a) \in Seq(Segment)
  BY <1>6, <1>8 DEF Held, SnapshotManifest
<1>9. Place(a) =
         <<Dir(<<Top(a)>>), Dir(SnapshotId(a))>> \o Held(a)
  BY DEF SnapshotKind, Place, Top, SnapshotId, Held, CycleSnapshot,
     FullSnapshot
<1> QED
  BY <1>1, <1>4, <1>6, <1>7, <1>8, <1>9

LEMMA SameKind ==
    ASSUME NEW k \in SnapshotKind, NEW l \in SnapshotKind,
           k \in {"cycle file", "full file", "incident file"}
              <=> l \in {"cycle file", "full file", "incident file"},
           k \in {"cycle manifest", "cycle file"}
              <=> l \in {"cycle manifest", "cycle file"},
           k \in {"incident manifest", "incident file"}
              <=> l \in {"incident manifest", "incident file"}
    PROVE  k = l
<1>1. CASE k = "cycle manifest"
  BY <1>1 DEF SnapshotKind
<1>2. CASE k = "cycle file"
  BY <1>2 DEF SnapshotKind
<1>3. CASE k = "full manifest"
  BY <1>3 DEF SnapshotKind
<1>4. CASE k = "full file"
  BY <1>4 DEF SnapshotKind
<1>5. CASE k = "incident manifest"
  BY <1>5 DEF SnapshotKind
<1>6. CASE k = "incident file"
  BY <1>6 DEF SnapshotKind
<1> QED
  BY <1>1, <1>2, <1>3, <1>4, <1>5, <1>6 DEF SnapshotKind

LEMMA SnapshotsDiffer ==
    ASSUME LayoutConstants,
           NEW a \in Artifact, a.kind \in SnapshotKind,
           NEW b \in Artifact, b.kind \in SnapshotKind,
           Agree(Place(a), Place(b))
    PROVE  a.kind = b.kind /\ a.id = b.id /\ a.name = b.name
<1> DEFINE s == <<Dir(<<Top(a)>>), Dir(SnapshotId(a))>>
           t == <<Dir(<<Top(b)>>), Dir(SnapshotId(b))>>
<1>1. s = t /\ Agree(Held(a), Held(b))
  <2>1. s \in Seq(Segment) /\ t \in Seq(Segment) /\ Len(s) = Len(t)
    BY SnapshotPlace
  <2>2. Place(a) = s \o Held(a) /\ Place(b) = t \o Held(b)
    BY SnapshotPlace
  <2>3. Held(a) \in Seq(Segment) /\ Held(b) \in Seq(Segment)
    BY SnapshotPlace
  <2> HIDE DEF s, t
  <2> QED
    BY <2>1, <2>2, <2>3, AgreeBehind
<1>2. Top(a) = Top(b) /\ SnapshotId(a) = SnapshotId(b)
  <2>1. <<Top(a)>> = <<Top(b)>> /\ SnapshotId(a) = SnapshotId(b)
    BY <1>1, SegmentsDiffer
  <2> QED
    BY <2>1
<1>3. ASSUME NEW x \in Artifact, NEW y \in Artifact,
             x.kind \in SnapshotKind, y.kind \in SnapshotKind,
             Agree(Held(x), Held(y)),
             x.kind \in {"cycle file", "full file", "incident file"}
      PROVE  /\ y.kind \in {"cycle file", "full file", "incident file"}
             /\ x.name = y.name
  <2>1. /\ Len(Held(x)) >= 1 /\ Held(x)[1] = Dir(<<"files">>)
        /\ Held(x) \in Seq(Segment) /\ Held(y) \in Seq(Segment)
    BY <1>3, SnapshotPlace
  <2>2. CASE y.kind \notin {"cycle file", "full file", "incident file"}
    <3> DEFINE m == File(<<"manifest">>, "json")
    <3>1. Held(y) = <<m>>
      BY <1>3, <2>2, SnapshotPlace
    <3>2. Len(Held(y)) = 1 /\ Held(y)[1] = m
      <4> HIDE DEF m
      <4> QED
        BY <3>1
    <3>3. Held(x)[1] = m
      <4> HIDE DEF m
      <4>1. 1 \in Nat \ {0} /\ 1 <= Len(Held(x)) /\ 1 <= Len(Held(y))
        BY <2>1, <3>2
      <4> QED
        BY <1>3, <2>1, <3>2, <4>1, AgreeAt, ZenonT(30)
    <3>4. m # Dir(<<"files">>)
      BY SegmentsDiffer
    <3> QED
      BY <2>1, <3>3, <3>4
  <2>3. CASE y.kind \in {"cycle file", "full file", "incident file"}
    <3> DEFINE d == <<Dir(<<"files">>)>>
    <3>1. /\ d \in Seq(Segment)
          /\ Held(x) = d \o x.name /\ Held(y) = d \o y.name
          /\ x.name \in Names /\ y.name \in Names
      BY <1>3, <2>3, SnapshotPlace
    <3>2. x.name \in Seq(Segment) /\ y.name \in Seq(Segment)
      BY <3>1, NamesTyped
    <3> HIDE DEF d
    <3>3. Agree(d \o x.name, d \o y.name)
      BY <1>3, <3>1
    <3>4. Agree(x.name, y.name)
      BY <3>1, <3>2, <3>3, AgreeBehind
    <3> QED
      BY <2>3, <3>1, <3>4, NamesTyped
  <2> QED
    BY <2>2, <2>3
<1>4. Agree(Held(b), Held(a))
  BY <1>1 DEF Agree
<1>5. /\ a.kind \in {"cycle file", "full file", "incident file"}
            <=> b.kind \in {"cycle file", "full file", "incident file"}
      /\ a.name = b.name
  BY <1>1, <1>3, <1>4, SnapshotPlace
<1>6. /\ a.kind \in {"full manifest", "full file"} => a.id \in SnapshotIds
      /\ a.kind \notin {"full manifest", "full file"} => a.id \in Ids
      /\ b.kind \in {"full manifest", "full file"} => b.id \in SnapshotIds
      /\ b.kind \notin {"full manifest", "full file"} => b.id \in Ids
  BY SnapshotPlace
<1>7. /\ \A x, y \in Ids :
            FullSnapshotId(x) = FullSnapshotId(y) => x = y
      /\ \A x \in Ids : FullSnapshotId(x) \notin SnapshotIds
  BY DEF LayoutConstants, SnapshotsApart
<1>8. /\ a.kind \in {"cycle manifest", "cycle file"}
            <=> b.kind \in {"cycle manifest", "cycle file"}
      /\ a.kind \in {"incident manifest", "incident file"}
            <=> b.kind \in {"incident manifest", "incident file"}
  BY <1>2, <1>6, <1>7 DEF Top, SnapshotId, SnapshotKind
<1>9. a.id = b.id
  BY <1>2, <1>6, <1>7, <1>8 DEF SnapshotId
<1>10. a.kind = b.kind
  BY <1>5, <1>8, SameKind
<1> QED
  BY <1>5, <1>9, <1>10

LEMMA OneAgrees ==
    ASSUME NEW x, NEW y, Agree(<<x>>, <<y>>)
    PROVE  x = y
<1>1. /\ 1 \in 1 .. Len(<<x>>) /\ 1 \in 1 .. Len(<<y>>)
      /\ <<x>>[1] = x /\ <<y>>[1] = y
  OBVIOUS
<1> QED
  BY <1>1 DEF Agree

LEMMA FirstAgrees ==
    ASSUME NEW x, NEW y1, NEW y2, Agree(<<x>>, <<y1, y2>>)
    PROVE  x = y1
<1>1. /\ 1 \in 1 .. Len(<<x>>) /\ 1 \in 1 .. Len(<<y1, y2>>)
      /\ <<x>>[1] = x /\ <<y1, y2>>[1] = y1
  OBVIOUS
<1> QED
  BY <1>1 DEF Agree

LEMMA PairsAgree ==
    ASSUME NEW x1, NEW x2, NEW y1, NEW y2, Agree(<<x1, x2>>, <<y1, y2>>)
    PROVE  x1 = y1 /\ x2 = y2
<1>1. /\ 1 \in 1 .. Len(<<x1, x2>>) /\ 2 \in 1 .. Len(<<x1, x2>>)
      /\ 1 \in 1 .. Len(<<y1, y2>>) /\ 2 \in 1 .. Len(<<y1, y2>>)
      /\ <<x1, x2>>[1] = x1 /\ <<x1, x2>>[2] = x2
      /\ <<y1, y2>>[1] = y1 /\ <<y1, y2>>[2] = y2
  OBVIOUS
<1> QED
  BY <1>1 DEF Agree

LEMMA LastAgrees ==
    ASSUME NEW x1, NEW x2, NEW x3, NEW y1, NEW y2, NEW y3,
           Agree(<<x1, x2, x3>>, <<y1, y2, y3>>)
    PROVE  x3 = y3
<1>1. /\ 3 \in 1 .. Len(<<x1, x2, x3>>) /\ 3 \in 1 .. Len(<<y1, y2, y3>>)
      /\ <<x1, x2, x3>>[3] = x3 /\ <<y1, y2, y3>>[3] = y3
  OBVIOUS
<1> QED
  BY <1>1 DEF Agree

(* Files that a directory of its own keeps apart from any other's.         *)
LEMMA FilesInside ==
    ASSUME LayoutConstants, NEW word \in Word,
           NEW id \in Ids, NEW other \in Ids, NEW m \in Names, NEW n \in Names,
           Agree(<<Dir(<<word>>), Dir(id)>> \o m,
                 <<Dir(<<word>>), Dir(other)>> \o n)
    PROVE  id = other /\ m = n
<1> DEFINE s == <<Dir(<<word>>), Dir(id)>>
           t == <<Dir(<<word>>), Dir(other)>>
<1>1. s \in Seq(Segment) /\ Len(s) = 2
  BY HostSegments, SegmentsTyped, IdsTyped, FewElements
<1>2. t \in Seq(Segment) /\ Len(t) = 2
  BY HostSegments, SegmentsTyped, IdsTyped, FewElements
<1>3. m \in Seq(Segment) /\ n \in Seq(Segment)
  BY NamesTyped
<1>4. s = t /\ Agree(m, n)
  <2>1. Agree(s \o m, t \o n)
    OBVIOUS
  <2> HIDE DEF s, t
  <2> QED
    BY <1>1, <1>2, <1>3, <2>1, AgreeBehind
<1>5. Dir(id) = Dir(other)
  BY <1>4
<1> QED
  BY <1>4, <1>5, NamesTyped, SegmentsDiffer

(* A file beside such directories.                                         *)
LEMMA FileBeside ==
    ASSUME LayoutConstants, NEW word \in Word, NEW id \in Ids,
           NEW m \in Names, NEW f \in Segment
    PROVE  Agree(<<Dir(<<word>>), f>>,
                 <<Dir(<<word>>), Dir(id)>> \o m)
              => f = Dir(id)
<1> DEFINE d == Dir(<<word>>)
           e == Dir(id)
           s == <<d, f>>
           t == <<d, e>>
<1>1. d \in Segment /\ e \in Segment
  BY HostSegments, SegmentsTyped, IdsTyped
<1>2. m \in Seq(Segment)
  BY NamesTyped
<1> HIDE DEF d, e
<1>3. /\ s \in Seq(Segment) /\ Len(s) = 2 /\ s[2] = f
      /\ t \in Seq(Segment) /\ Len(t) = 2 /\ t[2] = e
  BY <1>1, FewElements
<1> HIDE DEF s, t
<1>4. /\ t \o m \in Seq(Segment) /\ Len(t \o m) = Len(t) + Len(m)
      /\ \A i \in 1 .. Len(t) + Len(m) :
            (t \o m)[i] = IF i <= Len(t) THEN t[i] ELSE m[i - Len(t)]
  BY <1>2, <1>3, ConcatProperties
<1>5. Len(m) \in Nat
  BY <1>2, LenProperties
<1>6. 2 \in 1 .. Len(t \o m) /\ (t \o m)[2] = e /\ 2 \in 1 .. Len(s)
  BY <1>3, <1>4, <1>5
<1>7. Agree(s, t \o m) => f = e
  BY <1>3, <1>6 DEF Agree
<1> QED
  BY <1>7 DEF d, e, s, t

(* The kinds of one tree.                                                  *)
TreeKinds ==
    {{"run record", "cycle record"}, {"log", "log bundle"},
     {"export", "export manifest"}, {"incident", "incident report"},
     SnapshotKind, {"run manifest"}, {"ledger"}, {"cycle link"}, {"branch"},
     {"proof"}, {"proof backup"}}

LEMMA TreesApart ==
    ASSUME NEW k \in RunKinds \cup IdKinds \cup FileKinds
                        \cup {"full manifest", "full file"},
           NEW l \in RunKinds \cup IdKinds \cup FileKinds
                        \cup {"full manifest", "full file"},
           Tree(k) = Tree(l)
    PROVE  \E kinds \in TreeKinds : k \in kinds /\ l \in kinds
<1> USE DEF RunKinds, IdKinds, FileKinds
<1> DEFINE Together(kinds) == k \in kinds => l \in kinds
<1>1. Together({"run record", "cycle record"})
  BY DEF Tree
<1>2. Together({"log", "log bundle"})
  BY DEF Tree
<1>3. Together({"export", "export manifest"})
  BY DEF Tree
<1>4. Together({"incident", "incident report"})
  BY DEF Tree
<1>5. Together(SnapshotKind)
  BY DEF Tree, SnapshotKind
<1>6. Together({"run manifest"})
  BY DEF Tree
<1>7. Together({"ledger"})
  BY DEF Tree
<1>8. Together({"cycle link"})
  BY DEF Tree
<1>9. Together({"branch"})
  BY DEF Tree
<1>10. Together({"proof"})
  BY DEF Tree
<1>11. Together({"proof backup"})
  BY DEF Tree
<1>12. \E kinds \in TreeKinds : k \in kinds
  BY DEF TreeKinds, SnapshotKind
<1> QED
  BY <1>1, <1>2, <1>3, <1>4, <1>5, <1>6, <1>7, <1>8, <1>9, <1>10, <1>11, <1>12 DEF TreeKinds

LEMMA FewSegments ==
    /\ \A x \in Segment : <<x>> \in Seq(Segment)
    /\ \A x, y \in Segment : <<x, y>> \in Seq(Segment)
    /\ \A x, y, z \in Segment : <<x, y, z>> \in Seq(Segment)
BY FewElements, OneElement

LEMMA PlaceTyped ==
    ASSUME LayoutConstants, NEW a \in Artifact
    PROVE  Place(a) \in Seq(Segment)
<1>1. \A word \in Word :
         /\ Dir(<<word>>) \in Segment
         /\ \A ext \in Word : File(<<word>>, ext) \in Segment
  BY HostSegments
<1>2. \A word, other, third \in Word :
         <<word, other>> \in Seq(Word) /\ <<word, other, third>> \in Seq(Word)
  BY FewElements
<1>3. {"run", "start", "reproducibility", "ledger", "brokered", "full", "log",
       "bundle", "items", "manifest", "cycles", "audit", "link", "report",
       "git", "branches", "bundles", "proofs", "json", "jsonl"} \subseteq Word
  BY DEF Word
<1>4. /\ File(<<"run", "start", "reproducibility">>, "json") \in Segment
      /\ File(<<"full", "log", "bundle">>, "jsonl") \in Segment
      /\ File(<<"full", "log", "bundle">>, "json") \in Segment
  BY <1>2, <1>3, SegmentsTyped
<1>5. ASSUME NEW id \in Ids
      PROVE  /\ Dir(id) \in Segment
             /\ File(id, "json") \in Segment
             /\ File(id \o <<"audit", "link">>, "json") \in Segment
  <2>1. id \in Seq(Word) /\ <<"audit", "link">> \in Seq(Word) /\ "json" \in Word
    BY <1>2, <1>3, IdsTyped
  <2>2. id \o <<"audit", "link">> \in Seq(Word)
    BY <2>1, ConcatProperties
  <2> QED
    BY <2>1, <2>2, SegmentsTyped
<1>6. ASSUME NEW id \in Ids, NEW name \in Names, NEW word \in Word
      PROVE  <<Dir(<<word>>), Dir(id)>> \o name \in Seq(Segment)
  <2>1. <<Dir(<<word>>), Dir(id)>> \in Seq(Segment)
    BY <1>1, <1>5, FewElements
  <2>2. name \in Seq(Segment)
    BY NamesTyped
  <2> QED
    BY <2>1, <2>2, ConcatProperties
<1>7. CASE a.kind \in SnapshotKind
  <2> DEFINE s == <<Dir(<<Top(a)>>), Dir(SnapshotId(a))>>
  <2>1. /\ s \in Seq(Segment) /\ Held(a) \in Seq(Segment)
        /\ Place(a) = s \o Held(a)
    BY <1>7, SnapshotPlace
  <2> HIDE DEF s
  <2> QED
    BY <2>1, ConcatProperties
<1>8. CASE a.kind \in {"run record", "run manifest", "ledger"}
  <2>1. Place(a) \in {<<File(<<"run">>, "json")>>,
           <<File(<<"run", "start", "reproducibility">>, "json")>>,
           <<File(<<"ledger">>, "jsonl")>>}
    BY <1>8 DEF Place
  <2> QED
    BY <1>1, <1>3, <1>4, <2>1, FewSegments
<1>9. CASE a.kind \in {"log", "log bundle", "export manifest"}
  <2> DEFINE f == File(<<"full", "log", "bundle">>, "jsonl")
             g == File(<<"full", "log", "bundle">>, "json")
             h == File(<<"manifest">>, "jsonl")
             d == Dir(<<"brokered">>)
             e == Dir(<<"items">>)
  <2>1. Place(a) \in {<<d, f>>, <<d, g>>, <<e, h>>}
    BY <1>9 DEF Place
  <2>2. {d, e, f, g, h} \subseteq Segment
    BY <1>1, <1>3, <1>4
  <2> HIDE DEF d, e, f, g, h
  <2> QED
    BY <2>1, <2>2, FewSegments
<1>10. CASE a.kind \in {"cycle record", "cycle link", "incident",
                        "incident report", "branch"}
  <2> DEFINE f == File(a.id, "json")
             g == File(a.id \o <<"audit", "link">>, "json")
             h == File(<<"report">>, "json")
             c == Dir(<<"cycles">>)
             d == Dir(a.id)
             r == Dir(<<"git">>)
             t == Dir(<<"branches">>)
  <2>1. a.id \in Ids
    BY <1>10, ArtifactParts DEF IdKinds
  <2>2. Place(a) \in {<<c, f>>, <<c, g>>, <<f>>, <<d, h>>, <<r, t, f>>}
    BY <1>10 DEF Place
  <2>3. {c, d, f, g, h, r, t} \subseteq Segment
    BY <1>1, <1>3, <1>5, <2>1
  <2> HIDE DEF c, d, f, g, h, r, t
  <2> QED
    BY <2>2, <2>3, FewSegments
<1>11. CASE a.kind \in {"export", "proof", "proof backup"}
  <2>1. a.id \in Ids /\ a.name \in Names
    BY <1>11, ArtifactParts DEF FileKinds
  <2>2. Place(a) \in {
           <<Dir(<<word>>), Dir(a.id)>> \o a.name :
              word \in {"items", "bundles", "proofs"}}
    BY <1>11 DEF Place
  <2> QED
    BY <1>3, <1>6, <2>1, <2>2
<1> QED
  BY <1>7, <1>8, <1>9, <1>10, <1>11, ArtifactParts DEF RunKinds, IdKinds,
     FileKinds, SnapshotKind

LEMMA OwnPlace ==
    ASSUME LayoutConstants,
           NEW a \in Artifact, NEW b \in Artifact,
           Tree(a.kind) = Tree(b.kind),
           Agree(Place(a), Place(b))
    PROVE  a.kind = b.kind /\ a.id = b.id /\ a.name = b.name
<1>1. PICK kinds \in TreeKinds : a.kind \in kinds /\ b.kind \in kinds
  BY ArtifactParts, TreesApart
<1>2. Agree(Place(b), Place(a))
  BY DEF Agree
<1>3. CASE kinds = SnapshotKind
  BY <1>1, <1>3, SnapshotsDiffer
<1>4. CASE kinds = {"run manifest"} \/ kinds = {"ledger"}
  <2>1. a.kind = b.kind /\ a.kind \in {"run manifest", "ledger"}
    <3>1. CASE kinds = {"run manifest"}
      BY <1>1, <3>1
    <3>2. CASE kinds = {"ledger"}
      BY <1>1, <3>2
    <3> QED
      BY <1>4, <3>1, <3>2
  <2> QED
    BY <2>1, ArtifactParts DEF RunKinds
<1>5. CASE kinds = {"run record", "cycle record"}
  <2>1. ASSUME NEW x \in Artifact, NEW y \in Artifact,
               x.kind = "run record", y.kind = "cycle record",
               Agree(Place(x), Place(y))
        PROVE  FALSE
    <3>1. /\ Place(x) = <<File(<<"run">>, "json")>>
          /\ Place(y) =
                <<Dir(<<"cycles">>), File(y.id, "json")>>
      BY <2>1 DEF Place
    <3>2. File(<<"run">>, "json") = Dir(<<"cycles">>)
      BY <2>1, <3>1, FirstAgrees
    <3> QED
      BY <3>2, SegmentsDiffer
  <2>2. CASE a.kind = "run record" /\ b.kind = "run record"
    BY <2>2, ArtifactParts DEF RunKinds
  <2>3. CASE a.kind = "cycle record" /\ b.kind = "cycle record"
    <3>1. /\ Place(a) =
                <<Dir(<<"cycles">>), File(a.id, "json")>>
          /\ Place(b) =
                <<Dir(<<"cycles">>), File(b.id, "json")>>
      BY <2>3 DEF Place
    <3>2. File(a.id, "json") = File(b.id, "json")
      BY <3>1, PairsAgree
    <3>3. a.name = <<>> /\ b.name = <<>>
      BY <2>3, ArtifactParts DEF IdKinds
    <3> QED
      BY <2>3, <3>2, <3>3, SegmentsDiffer
  <2> QED
    BY <1>1, <1>2, <1>5, <2>1, <2>2, <2>3
<1>6. CASE kinds = {"log", "log bundle"}
  <2>1. ASSUME NEW x \in Artifact, NEW y \in Artifact,
               x.kind = "log", y.kind = "log bundle",
               Agree(Place(x), Place(y))
        PROVE  FALSE
    <3> DEFINE f == File(<<"full", "log", "bundle">>, "jsonl")
               g == File(<<"full", "log", "bundle">>, "json")
               d == Dir(<<"brokered">>)
    <3>1. Place(x) = <<d, f>> /\ Place(y) = <<d, g>>
      BY <2>1 DEF Place
    <3>2. f = g
      <4> HIDE DEF d, f, g
      <4>1. Agree(<<d, f>>, <<d, g>>)
        BY <2>1, <3>1
      <4> QED
        BY <4>1, PairsAgree
    <3> QED
      BY <3>2 DEF File
  <2> QED
    BY <1>1, <1>2, <1>6, <2>1, ArtifactParts DEF RunKinds
<1>7. CASE kinds = {"incident", "incident report"}
  <2>1. ASSUME NEW x \in Artifact, NEW y \in Artifact,
               x.kind = "incident", y.kind = "incident report",
               Agree(Place(x), Place(y))
        PROVE  FALSE
    <3>1. /\ Place(x) = <<File(x.id, "json")>>
          /\ Place(y) =
                <<Dir(y.id), File(<<"report">>, "json")>>
      BY <2>1 DEF Place
    <3>2. File(x.id, "json") = Dir(y.id)
      BY <2>1, <3>1, FirstAgrees
    <3> QED
      BY <3>2, SegmentsDiffer
  <2>2. a.name = <<>> /\ b.name = <<>>
    BY <1>1, <1>7, ArtifactParts DEF IdKinds
  <2>3. CASE a.kind = "incident" /\ b.kind = "incident"
    <3>1. /\ Place(a) = <<File(a.id, "json")>>
          /\ Place(b) = <<File(b.id, "json")>>
      BY <2>3 DEF Place
    <3>2. File(a.id, "json") = File(b.id, "json")
      BY <3>1, OneAgrees
    <3> QED
      BY <2>2, <2>3, <3>2, SegmentsDiffer
  <2>4. CASE a.kind = "incident report" /\ b.kind = "incident report"
    <3>1. /\ Place(a) =
                <<Dir(a.id), File(<<"report">>, "json")>>
          /\ Place(b) =
                <<Dir(b.id), File(<<"report">>, "json")>>
      BY <2>4 DEF Place
    <3>2. Dir(a.id) = Dir(b.id)
      BY <3>1, PairsAgree
    <3> QED
      BY <2>2, <2>4, <3>2, SegmentsDiffer
  <2> QED
    BY <1>1, <1>2, <1>7, <2>1, <2>3, <2>4
<1>8. CASE kinds = {"branch"}
  <2>1. /\ Place(a) = <<Dir(<<"git">>), Dir(<<"branches">>),
              File(a.id, "json")>>
        /\ Place(b) = <<Dir(<<"git">>), Dir(<<"branches">>),
              File(b.id, "json")>>
    BY <1>1, <1>8 DEF Place
  <2>2. File(a.id, "json") = File(b.id, "json")
    BY <2>1, LastAgrees
  <2>3. a.name = <<>> /\ b.name = <<>>
    BY <1>1, <1>8, ArtifactParts DEF IdKinds
  <2> QED
    BY <1>1, <1>8, <2>2, <2>3, SegmentsDiffer
<1>9. CASE kinds = {"cycle link"}
  <2> DEFINE l == <<"audit", "link">>
  <2>1. /\ Place(a) =
              <<Dir(<<"cycles">>), File(a.id \o l, "json")>>
        /\ Place(b) =
              <<Dir(<<"cycles">>), File(b.id \o l, "json")>>
    BY <1>1, <1>9 DEF Place
  <2>2. File(a.id \o l, "json") = File(b.id \o l, "json")
    BY <2>1, PairsAgree
  <2>3. a.id \o l = b.id \o l
    BY <2>2, SegmentsDiffer
  <2>4. /\ a.id \in Ids /\ b.id \in Ids
        /\ a.name = <<>> /\ b.name = <<>>
    BY <1>1, <1>9, ArtifactParts DEF IdKinds
  <2>5. a.id \in Seq(Word) /\ b.id \in Seq(Word)
    BY <2>4, IdsTyped
  <2>6. l \in Seq(Word)
    <3>1. "audit" \in Word /\ "link" \in Word
      BY DEF Word
    <3> QED
      BY <3>1, FewElements
  <2> HIDE DEF l
  <2>7. a.id = b.id
    BY <2>3, <2>5, <2>6, ConcatSimplifications
  <2> QED
    BY <1>1, <1>9, <2>4, <2>7
<1>10. CASE kinds = {"proof"} \/ kinds = {"proof backup"}
  <2>1. PICK word \in {"bundles", "proofs"} :
           /\ Place(a) =
                 <<Dir(<<word>>), Dir(a.id)>> \o a.name
           /\ Place(b) =
                 <<Dir(<<word>>), Dir(b.id)>> \o b.name
    BY <1>1, <1>10 DEF Place
  <2>2. /\ a.id \in Ids /\ a.name \in Names
        /\ b.id \in Ids /\ b.name \in Names
    BY <1>1, <1>10, ArtifactParts DEF FileKinds
  <2>3. word \in Word
    BY DEF Word
  <2>4. a.id = b.id /\ a.name = b.name
    BY <2>1, <2>2, <2>3, FilesInside
  <2>5. a.kind = b.kind
    <3>1. CASE kinds = {"proof"}
      BY <1>1, <3>1
    <3>2. CASE kinds = {"proof backup"}
      BY <1>1, <3>2
    <3> QED
      BY <1>10, <3>1, <3>2
  <2> QED
    BY <2>4, <2>5
<1>11. CASE kinds = {"export", "export manifest"}
  <2>1. "items" \in Word /\ "manifest" \in Word /\ "jsonl" \in Word
    BY DEF Word
  <2>2. ASSUME NEW x \in Artifact, NEW y \in Artifact,
               x.kind = "export manifest", y.kind = "export",
               Agree(Place(x), Place(y))
        PROVE  FALSE
    <3> DEFINE f == File(<<"manifest">>, "jsonl")
    <3>1. /\ Place(x) = <<Dir(<<"items">>), f>>
          /\ Place(y) =
                <<Dir(<<"items">>), Dir(y.id)>> \o y.name
      BY <2>2 DEF Place
    <3>2. y.id \in Ids /\ y.name \in Names
      BY <2>2, ArtifactParts DEF FileKinds
    <3>3. f \in Segment
      BY <2>1, HostSegments
    <3>4. f = Dir(y.id)
      <4> HIDE DEF f
      <4> QED
        BY <2>1, <2>2, <3>1, <3>2, <3>3, FileBeside
    <3> QED
      BY <3>4, SegmentsDiffer
  <2>3. CASE a.kind = "export manifest" /\ b.kind = "export manifest"
    BY <2>3, ArtifactParts DEF RunKinds
  <2>4. CASE a.kind = "export" /\ b.kind = "export"
    <3>1. /\ Place(a) =
                <<Dir(<<"items">>), Dir(a.id)>> \o a.name
          /\ Place(b) =
                <<Dir(<<"items">>), Dir(b.id)>> \o b.name
      BY <2>4 DEF Place
    <3>2. /\ a.id \in Ids /\ a.name \in Names
          /\ b.id \in Ids /\ b.name \in Names
      BY <2>4, ArtifactParts DEF FileKinds
    <3>3. a.id = b.id /\ a.name = b.name
      BY <2>1, <3>1, <3>2, FilesInside
    <3> QED
      BY <2>4, <3>3
  <2> QED
    BY <1>1, <1>2, <1>11, <2>2, <2>3, <2>4
<1> QED
  BY <1>1, <1>3, <1>4, <1>5, <1>6, <1>7, <1>8, <1>9, <1>10, <1>11 DEF TreeKinds

-----------------------------------------------------------------------------
(* Paths *)

LEMMA RunsTyped ==
    ASSUME LayoutConstants, NEW r \in Runs
    PROVE  /\ RunSegments(r) \in Seq(Segment)
           /\ Len(RunSegments(r)) = 8
           /\ r = [project |-> r.project, glassbox |-> r.glassbox,
                   experiment |-> r.experiment, run |-> r.run]
<1>1. r \in [project : Seq(STRING), glassbox : Seq(STRING),
             experiment : Seq(STRING), run : Seq(STRING)]
  BY DEF LayoutConstants
<1>2. Seq(STRING) \subseteq Seq(Word)
  BY SeqMonotonic DEF Word
<1>3. {"projects", "glassboxes", "experiments", "runs"} \subseteq Word
  BY DEF Word
<1> DEFINE p == Dir(<<"projects">>)
           g == Dir(<<"glassboxes">>)
           e == Dir(<<"experiments">>)
           d == Dir(<<"runs">>)
           s == Dir(r.project)
           t == Dir(r.glassbox)
           u == Dir(r.experiment)
           v == Dir(r.run)
<1>4. {p, g, e, d} \subseteq Segment
  BY <1>3, HostSegments
<1>5. {s, t, u, v} \subseteq Segment
  BY <1>1, <1>2, SegmentsTyped
<1>6. RunSegments(r) = <<p, s, g, t, e, u, d, v>>
  BY DEF RunSegments
<1> HIDE DEF p, g, e, d, s, t, u, v
<1>7. /\ <<p, s, g, t, e, u, d, v>> \in Seq(Segment)
      /\ Len(<<p, s, g, t, e, u, d, v>>) = 8
  BY <1>4, <1>5
<1>8. r = [project |-> r.project, glassbox |-> r.glassbox,
           experiment |-> r.experiment, run |-> r.run]
  BY <1>1
<1> QED
  BY <1>6, <1>7, <1>8

LEMMA RunsDiffer ==
    ASSUME LayoutConstants, NEW r \in Runs, NEW q \in Runs,
           RunSegments(r) = RunSegments(q)
    PROVE  r = q
<1>1. /\ Dir(r.project) = Dir(q.project)
      /\ Dir(r.glassbox) = Dir(q.glassbox)
      /\ Dir(r.experiment) = Dir(q.experiment)
      /\ Dir(r.run) = Dir(q.run)
  BY DEF RunSegments
<1>2. /\ r.project = q.project /\ r.glassbox = q.glassbox
      /\ r.experiment = q.experiment /\ r.run = q.run
  BY <1>1, SegmentsDiffer
<1> QED
  BY <1>2, RunsTyped

LEMMA TreesTyped ==
    ASSUME NEW a \in Artifact
    PROVE  <<Dir(<<Tree(a.kind)>>)>> \in Seq(Segment)
<1>1. Tree(a.kind) \in Word
  BY ArtifactParts DEF Tree, RunKinds, IdKinds, FileKinds, Word
<1> QED
  BY <1>1, HostSegments, FewSegments

LEMMA PathsDiffer ==
    ASSUME LayoutConstants,
           NEW a \in Artifact, NEW b \in Artifact,
           Meets(Path(a), Path(b))
    PROVE  a = b
<1> DEFINE s == <<Dir(<<Tree(a.kind)>>)>>
           t == <<Dir(<<Tree(b.kind)>>)>>
           u == RunSegments(a.run)
           v == RunSegments(b.run)
           p == Place(a)
           q == Place(b)
<1>1. /\ s \in Seq(Segment) /\ t \in Seq(Segment)
      /\ Len(s) = Len(t)
  BY TreesTyped
<1>2. a.run \in Runs /\ b.run \in Runs
  BY ArtifactParts
<1>3. /\ u \in Seq(Segment) /\ v \in Seq(Segment)
      /\ Len(u) = Len(v)
  BY <1>2, RunsTyped
<1>4. p \in Seq(Segment) /\ q \in Seq(Segment)
  BY PlaceTyped
<1>5. /\ Path(a) = (s \o u) \o p
      /\ Path(b) = (t \o v) \o q
  BY DEF Path
<1>6. s = t /\ u = v /\ Agree(p, q)
  <2> HIDE DEF s, t, u, v, p, q
  <2>1. /\ s \o u \in Seq(Segment) /\ Len(s \o u) = Len(s) + Len(u)
        /\ t \o v \in Seq(Segment) /\ Len(t \o v) = Len(t) + Len(v)
    BY <1>1, <1>3, ConcatProperties
  <2> DEFINE su == s \o u
             tv == t \o v
  <2>2. su \in Seq(Segment) /\ tv \in Seq(Segment) /\ Len(su) = Len(tv)
    BY <1>1, <1>3, <2>1
  <2>3. Meets(su \o p, tv \o q)
    BY <1>5
  <2>4. su = tv /\ Agree(p, q)
    <3> HIDE DEF su, tv
    <3>1. su \o p \in Seq(Segment) /\ tv \o q \in Seq(Segment)
      BY <1>4, <2>2, ConcatProperties
    <3>2. Agree(su \o p, tv \o q)
      BY <2>3, <3>1, MeetingIsAgreeing
    <3> QED
      BY <1>4, <2>2, <3>2, AgreeBehind
  <2>5. Agree(su, tv)
    BY <2>4 DEF Agree
  <2>6. s = t /\ Agree(u, v)
    BY <1>1, <1>3, <2>5, AgreeBehind
  <2>7. u = v
    BY <1>3, <2>6, SeqEqual DEF Agree
  <2> QED
    BY <2>4, <2>6, <2>7
<1>7. Tree(a.kind) = Tree(b.kind)
  <2>1. <<Tree(a.kind)>> = <<Tree(b.kind)>>
    BY <1>6, SegmentsDiffer
  <2> QED
    BY <2>1
<1>8. a.run = b.run
  BY <1>2, <1>6, RunsDiffer
<1>9. a.kind = b.kind /\ a.id = b.id /\ a.name = b.name
  BY <1>6, <1>7, OwnPlace
<1> QED
  BY <1>8, <1>9, SameArtifact

-----------------------------------------------------------------------------
(* What is written *)

LayoutInv == LayoutTypeOK /\ TakenIsOwn

LEMMA IncidentsReadable ==
    ASSUME LayoutConstants, NEW a \in Artifact,
           a.kind \in {"incident", "incident report"}
    PROVE  IsReadable(IncidentId(a.id), "incident")
<1>1. a.id \in Ids
  BY ArtifactParts DEF IdKinds
<1> QED
  BY <1>1, IdsTyped

LEMMA LayoutHolds == LayoutSpec => []LayoutInv
<1>1. LayoutInit => LayoutInv
  BY DEF LayoutInit, LayoutInv, LayoutTypeOK, TakenIsOwn
<1>2. LayoutInv /\ [LayoutNext]_layoutVars => LayoutInv'
  <2> SUFFICES ASSUME LayoutInv, [LayoutNext]_layoutVars PROVE LayoutInv'
    OBVIOUS
  <2> USE DEF LayoutInv, LayoutTypeOK, TakenIsOwn
  <2>1. ASSUME NEW a \in Artifact, Write(a) PROVE LayoutInv'
    <3>1. written' = written \cup {a} /\ met' = {}
      BY <2>1 DEF Write
    <3>2. \A b \in written' : b.kind \in {"incident", "incident report"} =>
             IsReadable(IncidentId(b.id), "incident")
      BY <2>1, <3>1, LayoutAssumption, IncidentsReadable
    <3> QED
      BY <2>1, <3>1, <3>2
  <2>2. ASSUME NEW a \in Artifact, Meet(a) PROVE LayoutInv'
    <3>1. Taken(a) /\ met' = {a} /\ written' = written
      BY <2>2 DEF Meet
    <3>2. PICK b \in written : Meets(Path(a), Path(b))
      BY <3>1 DEF Taken
    <3>3. a = b
      BY <2>2, <3>2, LayoutAssumption, PathsDiffer
    <3> QED
      BY <2>2, <3>1, <3>2, <3>3
  <2>3. CASE UNCHANGED layoutVars
    BY <2>3 DEF layoutVars
  <2> QED
    BY <2>1, <2>2, <2>3 DEF LayoutNext
<1> QED
  BY <1>1, <1>2, PTL DEF LayoutSpec

(* What the host has written are its own artifacts, and its incidents have *)
(* ids that begin with the word incident (storage/ids.py).                 *)
THEOREM LayoutTypeCorrect == LayoutSpec => []LayoutTypeOK
<1>1. LayoutInv => LayoutTypeOK
  BY DEF LayoutInv
<1> QED
  BY <1>1, LayoutHolds, PTL

(* Whatever the runs, the ids and the workspace's files are called, no two *)
(* artifacts of the host have one path, nor one a path under the other's:  *)
(* a path that is taken is taken by the artifact itself (StoragePaths).    *)
THEOREM PathsAreTheirOwn == LayoutSpec => []TakenIsOwn
<1>1. LayoutInv => TakenIsOwn
  BY DEF LayoutInv
<1> QED
  BY <1>1, LayoutHolds, PTL

=============================================================================
