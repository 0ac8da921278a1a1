------------------------------ MODULE RunView -------------------------------
(***************************************************************************)
(* Where a run stands, and where its pages say it stands: the cycles and   *)
(* incidents on record, the runtime session and the workspace, and the     *)
(* dashboard that reads QueryService twice for one page view.  Operators   *)
(* act on what they were shown.                                            *)
(*                                                                         *)
(* Cycles are numbered.  A recovery is taken in the steps of               *)
(* RecoveryController that the session or a page can tell apart; Recovery  *)
(* has its files.  What unlocks a command is in ControlPlane.  A cycle     *)
(* that was stopped counts as rejected: neither is accepted.               *)
(***************************************************************************)
EXTENDS Naturals, Sequences, FiniteSets

CONSTANTS
    Nothing,        \* Python's None
    MayFail,        \* TRUE: a capture, a restore or a report may raise
    MayCrash,       \* TRUE: the host may stop and be started again
    MaxRecords      \* bound on the cycles of the run, for TLC

VARIABLES
    cycles,     \* gate_decision of each cycle on record
    incidents,  \* the incidents on record, with their reports, oldest first
    captured,   \* the cycles that have a snapshot of their own
    session,    \* the RuntimeSession, none before it is registered
    workspace,  \* the cycle whose files the workspace holds
    recovery,   \* the recovery under way
    view,       \* what the dashboard has loaded
    settled     \* history: how many cycles there were when a rollback was
                \* reported that the session still stands by

viewVars == <<cycles, incidents, captured, session, workspace, recovery, view, settled>>

Decisions == {"accepted", "rejected"}
Kinds == {"branch", "rollback", "restore"}
Cycle == 1 .. MaxRecords
CycleOrNone == Cycle \cup {Nothing}
Session == [state : {"active", "paused"}, target : CycleOrNone, snapshot : CycleOrNone]
Incident == [cycle : Cycle, kind : Kinds, target : CycleOrNone]
Recovery == [at : {"capture", "lifecycle", "workspace", "report"},
             kind : Kinds, cycle : Cycle, target : CycleOrNone]
Shown == [stable : CycleOrNone, target : CycleOrNone, open : SUBSET Cycle]
View == [summary : Shown \cup {Nothing}, detail : Shown \cup {Nothing},
         selected : CycleOrNone]

RunViewConstants ==
    /\ Nothing \notin Nat \cup Session
    /\ {MayFail, MayCrash} \subseteq BOOLEAN
    /\ MaxRecords \in Nat

ASSUME RunViewAssumption == RunViewConstants

ViewTypeOK ==
    /\ cycles \in Seq(Decisions) /\ Len(cycles) <= MaxRecords
    /\ incidents \in Seq(Incident)
    /\ captured \subseteq Cycle
    /\ session \in Session \cup {Nothing}
    /\ workspace \in 0 .. MaxRecords
    /\ recovery \in Recovery \cup {Nothing}
    /\ view \in View
    /\ settled \in CycleOrNone

Registered == [state |-> "active", target |-> Nothing, snapshot |-> Nothing]
NothingLoaded == [summary |-> Nothing, detail |-> Nothing, selected |-> Nothing]

ViewInit ==
    /\ cycles = <<>> /\ incidents = <<>> /\ captured = {}
    /\ session = Registered
    /\ workspace = 0
    /\ recovery = Nothing
    /\ view = NothingLoaded
    /\ settled = Nothing

-----------------------------------------------------------------------------
(* QueryService *)

AcceptedCycles == {n \in DOMAIN cycles : cycles[n] = "accepted"}

(* Mutant: the decision is not looked at. *)
LastCycle(S) ==
    IF S \cap DOMAIN cycles = {} THEN Nothing
    ELSE CHOOSE n \in S \cap DOMAIN cycles : \A m \in S \cap DOMAIN cycles : m <= n

(* _last_stable_cycle, of the cycles that it is given. *)
LastStableCycle(S) ==
    IF S \cap AcceptedCycles = {} THEN Nothing
    ELSE CHOOSE n \in S \cap AcceptedCycles : \A m \in S \cap AcceptedCycles : m <= n

(* Reports are known by their places among the incidents. *)
ReportsOf(n) == {i \in DOMAIN incidents : incidents[i].cycle = n}

CyclesOf(reports) == {incidents[i].cycle : i \in reports}

FirstOf(reports) == CHOOSE i \in reports : \A j \in reports : i <= j

(* _rollback_target: that of the session, of the first report that has     *)
(* one, or else the last stable cycle.                                     *)
RollbackTarget(stable, reports) ==
    LET targeting == {i \in reports : incidents[i].target # Nothing} IN
    IF session.target # Nothing THEN session.target
    ELSE IF targeting # {} THEN incidents[FirstOf(targeting)].target
    ELSE stable

(* build_run_summary *)
RunSummary ==
    LET stable == LastStableCycle(DOMAIN cycles) IN
    [stable |-> stable,
     target |-> RollbackTarget(stable, DOMAIN incidents),
     open |-> CyclesOf(DOMAIN incidents)]

(* build_cycle_detail and _reversibility_view, where the rollback target   *)
(* goes before the last stable cycle.                                      *)
CycleDetail(n) ==
    LET stable == LastStableCycle({n})
        target == RollbackTarget(stable, ReportsOf(n))
    IN  [stable |-> IF target # Nothing THEN target ELSE stable,
         target |-> target,
         open |-> CyclesOf(ReportsOf(n))]

(* Mutant: the latest cycle is taken when there is none. *)
LoadLatest ==
    /\ session # Nothing
    /\ view' = [summary |-> RunSummary, detail |-> Nothing, selected |-> Len(cycles)]
    /\ UNCHANGED <<cycles, incidents, captured, session, workspace, recovery, settled>>

(* DashboardController.load: the summary, then the selected cycle, by      *)
(* default the latest.                                                     *)
LoadRunSummary ==
    /\ session # Nothing
    /\ view' = [summary |-> RunSummary, detail |-> Nothing,
                selected |-> IF cycles = <<>> THEN Nothing ELSE Len(cycles)]
    /\ UNCHANGED <<cycles, incidents, captured, session, workspace, recovery, settled>>

SelectCycle(n) ==
    /\ view.summary # Nothing /\ view.detail = Nothing /\ view.selected # Nothing
    /\ view' = [view EXCEPT !.selected = n]
    /\ UNCHANGED <<cycles, incidents, captured, session, workspace, recovery, settled>>

(* Mutant: the summary is read after the detail. *)
LoadDetailFirst ==
    /\ session # Nothing
    /\ view.summary # Nothing /\ view.selected # Nothing
    /\ view' = [view EXCEPT !.summary = RunSummary,
                            !.detail = IF view.detail = Nothing
                                       THEN CycleDetail(view.selected)
                                       ELSE view.detail]
    /\ UNCHANGED <<cycles, incidents, captured, session, workspace, recovery, settled>>

LoadCycleDetail ==
    /\ session # Nothing
    /\ view.summary # Nothing /\ view.detail = Nothing /\ view.selected # Nothing
    /\ view' = [view EXCEPT !.detail = CycleDetail(view.selected)]
    /\ UNCHANGED <<cycles, incidents, captured, session, workspace, recovery, settled>>

-----------------------------------------------------------------------------
(* The run, and its session *)

(* The agent finishes a cycle and the host records it; an accepted one is  *)
(* captured, to be rolled back to.                                         *)
RecordCycle(decision) ==
    /\ session # Nothing /\ session.state = "active" /\ recovery = Nothing
    /\ Len(cycles) < MaxRecords
    /\ cycles' = Append(cycles, decision)
    /\ workspace' = Len(cycles')
    /\ captured' = captured \cup (IF decision = "accepted" THEN {Len(cycles')} ELSE {})
    /\ UNCHANGED <<incidents, session, recovery, view, settled>>

SetSession(s) ==
    /\ session' = s
    /\ settled' = Nothing

(* InMemoryOrchestratorRuntime.resume and reset *)
Resume ==
    /\ session # Nothing /\ session.state = "paused" /\ recovery = Nothing
    /\ session' = [session EXCEPT !.state = "active"]
    /\ UNCHANGED <<cycles, incidents, captured, workspace, recovery, view, settled>>

Reset ==
    /\ session # Nothing /\ recovery = Nothing
    /\ SetSession(Registered)
    /\ UNCHANGED <<cycles, incidents, captured, workspace, recovery, view>>

RolledBackTo(n) == [state |-> "active", target |-> n, snapshot |-> Nothing]

(* DashboardController._build_command: the target is the selected cycle,   *)
(* here one that the operator was shown as accepted.                       *)
CommandRollback ==
    /\ session # Nothing /\ recovery = Nothing
    /\ view.detail # Nothing /\ view.selected \in AcceptedCycles
    /\ SetSession(RolledBackTo(view.selected))
    /\ UNCHANGED <<cycles, incidents, captured, workspace, recovery, view>>

-----------------------------------------------------------------------------
(* RecoveryController *)

(* The rollback targets on the pages. *)
ShownTargets ==
    {v.target : v \in {view.summary, view.detail} \ {Nothing}} \ {Nothing}

(* branch_and_continue, manual_rollback, kill_and_restore of the latest    *)
(* cycle: pause.                                                           *)
BeginRecovery(kind, target) ==
    /\ session # Nothing /\ recovery = Nothing
    /\ cycles # <<>> /\ cycles[Len(cycles)] = "rejected"
    /\ CASE kind = "branch" -> target = Nothing
         [] kind = "rollback" -> target \in ShownTargets
         [] kind = "restore" -> target \in captured
    /\ session' = [session EXCEPT !.state = "paused"]
    /\ recovery' = [at |-> "capture", kind |-> kind, cycle |-> Len(cycles),
                    target |-> target]
    /\ UNCHANGED <<cycles, incidents, captured, workspace, view, settled>>

Goto(at) == recovery' = [recovery EXCEPT !.at = at]

(* _capture_failure_snapshots, refused for a cycle that has one. *)
CaptureFailure ==
    /\ recovery # Nothing /\ recovery.at = "capture"
    /\ captured' = captured \cup {recovery.cycle}
    /\ IF recovery.cycle \in captured THEN recovery' = Nothing
       ELSE Goto(IF recovery.kind = "branch" THEN "report" ELSE "lifecycle")
    /\ UNCHANGED <<cycles, incidents, session, workspace, view, settled>>

(* InMemoryOrchestratorRuntime.rollback and restore.  The snapshot that    *)
(* kill_and_restore passes is the full one that it has just captured.      *)
MoveSession ==
    /\ recovery # Nothing /\ recovery.at = "lifecycle"
    /\ SetSession(IF recovery.kind = "rollback" THEN RolledBackTo(recovery.target)
                  ELSE [state |-> "active", target |-> Nothing,
                        snapshot |-> recovery.cycle])
    /\ Goto("workspace")
    /\ UNCHANGED <<cycles, incidents, captured, workspace, view>>

(* Mutant: the files of the failing cycle are put back. *)
RestoreFailing ==
    /\ recovery # Nothing /\ recovery.at = "workspace"
    /\ workspace' = recovery.cycle
    /\ Goto("report")
    /\ UNCHANGED <<cycles, incidents, captured, session, view, settled>>

(* restore_cycle_snapshot and restore_snapshot *)
RestoreWorkspace ==
    /\ recovery # Nothing /\ recovery.at = "workspace"
    /\ workspace' = recovery.target
    /\ Goto("report")
    /\ UNCHANGED <<cycles, incidents, captured, session, view, settled>>

(* _write_incident_bundle: only a rollback reports a rollback target. *)
WriteIncident ==
    /\ recovery # Nothing /\ recovery.at = "report"
    /\ incidents' =
          Append(incidents,
                 [cycle |-> recovery.cycle, kind |-> recovery.kind,
                  target |-> IF recovery.kind = "rollback" THEN recovery.target
                             ELSE Nothing])
    /\ recovery' = Nothing
    /\ settled' = IF recovery.kind = "rollback" THEN recovery.cycle ELSE settled
    /\ UNCHANGED <<cycles, captured, session, workspace, view>>

(* A step raises; a capture that broke off leaves its files. *)
RecoveryRaises ==
    /\ MayFail /\ recovery # Nothing
    /\ recovery' = Nothing
    /\ captured' = captured \cup
          (IF recovery.at = "capture" THEN {recovery.cycle} ELSE {})
    /\ UNCHANGED <<cycles, incidents, session, workspace, view, settled>>

-----------------------------------------------------------------------------

(* The session is in memory, and the recovery is over. *)
Crash ==
    /\ MayCrash /\ session # Nothing
    /\ session' = Nothing /\ recovery' = Nothing
    /\ UNCHANGED <<cycles, incidents, captured, workspace, view, settled>>

RegisterRun ==
    /\ session = Nothing
    /\ SetSession(Registered)
    /\ UNCHANGED <<cycles, incidents, captured, workspace, recovery, view>>

ViewNext ==
    \/ LoadRunSummary \/ LoadCycleDetail
    \/ \E n \in DOMAIN cycles : SelectCycle(n)
    \/ \E d \in Decisions : RecordCycle(d)
    \/ Resume \/ Reset \/ CommandRollback
    \/ \E kind \in Kinds, target \in CycleOrNone : BeginRecovery(kind, target)
    \/ CaptureFailure \/ MoveSession \/ RestoreWorkspace \/ WriteIncident
    \/ RecoveryRaises
    \/ Crash \/ RegisterRun

ViewSpec == ViewInit /\ [][ViewNext]_viewVars

-----------------------------------------------------------------------------
(* Properties *)

(* No page leads an operator astray: a cycle that is shown as the last     *)
(* stable one or as the rollback target was accepted, however often the    *)
(* run was rolled back, restored, reset or restarted since, and though     *)
(* operators roll back to what the pages show.                             *)
StableWasAccepted ==
    /\ \A v \in {view.summary, view.detail} \ {Nothing} :
          {v.stable, v.target} \subseteq AcceptedCycles \cup {Nothing}
    /\ session # Nothing => session.target \in AcceptedCycles \cup {Nothing}

(* The two reads of a page view are not atomic, but their order is right:  *)
(* a row with an incident never opens on a cycle without one.              *)
IncidentIsDetailed ==
    view.detail # Nothing /\ view.selected \in view.summary.open =>
        view.selected \in view.detail.open

(* After a rollback that was reported, until the next cycle, the session   *)
(* says whose files the workspace holds, unless it was moved, or lost with *)
(* the host, since.                                                        *)
RolledBackIsRestored ==
    session # Nothing /\ settled = Len(cycles) =>
        session.target # Nothing /\ workspace = session.target

=============================================================================
