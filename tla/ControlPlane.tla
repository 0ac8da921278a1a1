---------------------------- MODULE ControlPlane ----------------------------
(***************************************************************************)
(* The host control plane: HostOrchestratorService.execute_command with    *)
(* the dispatcher, the approval service, the in-memory runtime and the     *)
(* per-run audit ledger it composes, and the lifecycle calls that recovery *)
(* makes on the service without a command.                                 *)
(*                                                                         *)
(* A call is one invocation, made by one thread.  The service holds no     *)
(* lock, and the API's routes are plain functions that FastAPI runs in a   *)
(* thread pool, so a step of a call is one access to shared state: one     *)
(* dictionary of the service, or one event appended to a ledger file.      *)
(* (AuditLedger.tla opens the append up.)                                  *)
(***************************************************************************)
EXTENDS Naturals, Sequences, FiniteSets

CONSTANTS
    Runs,      \* run scopes
    Calls,     \* invocations; each carries one command, with its own id
    Modes,     \* the modes a mode switch may ask for, Obs among them
    Obs,       \* OBSERVATION_ONLY_MODE
    Contexts,  \* mode_context values operators pass
    Cycles,    \* cycle ids a rollback may name
    Commands,  \* the commands callers submit
    None,      \* Python's None
    Threads,   \* how many calls the host serves at once
    MayFail,   \* TRUE: an append to a ledger may raise an I/O error
    MayCrash   \* TRUE: the host process may stop and be started again

CanonicalActions == {"observe", "mode switch", "pause", "resume",
                     "branch", "clone", "reset", "rollback"}
ControlActions == CanonicalActions \ {"observe", "mode switch"}
RecoveryActions == {"pause", "rollback", "restore"}
ApprovalRequired == {"mode switch"}

CommandEnvelope ==
    [by      : {"operator", "recovery"},
     action  : CanonicalActions \cup {"restore"},
     run     : Runs,
     context : Contexts,
     target  : Modes \cup {None},
     clone   : Runs \cup {None},
     cycle   : Cycles \cup {None}]

RuntimeSession == [state : {"active", "paused"}, mode : Modes]

ASSUME ControlAssumption ==
    /\ Obs \in Modes
    /\ None \notin Runs \cup Calls \cup Modes \cup Cycles
    /\ None \notin Commands \cup RuntimeSession
    /\ Commands \subseteq CommandEnvelope
    /\ \A k \in Commands :
          /\ (k.target # None) <=> (k.action = "mode switch")
          /\ k.by = "operator" => k.action \in CanonicalActions
          /\ k.by = "recovery" => k.action \in RecoveryActions
    /\ Threads \in Nat \ {0} /\ IsFiniteSet(Calls)
    /\ MayFail \in BOOLEAN /\ MayCrash \in BOOLEAN

VARIABLES
    sessions,   \* runtime._sessions: a session per registered run
    receipts,   \* service._active_mode_switch_receipts: the call that was
                \* issued the receipt, which stands for its receipt_id
    approvals,  \* approvals._records: status of the record a call opened
    ledger,     \* the events of each run's ledger file, oldest first
    pc,         \* where each call is
    cmd,        \* the command it carries
    ctx,        \* its DispatchContext: the mode and the receipt it captured
    held        \* the session it read (and, once written, the one it wrote)

vars == <<sessions, receipts, approvals, ledger, pc, cmd, ctx, held>>

Finished == {"returned", "denied", "raised", "lost"}
Locations == {"idle", "context", "request", "refuse", "refused", "approval",
              "approve", "start", "read", "write", "fail", "remember",
              "complete"} \cup Finished

EventTypes == {"requested", "approval_requested", "approved", "started",
               "completed", "failed"}
AuditEvent == [type : EventTypes, call : Calls]
DispatchContext == [mode : Modes \cup {None}, receipt : Calls \cup {None}]

NoContext == [mode |-> None, receipt |-> None]
FreshSession == [state |-> "active", mode |-> Obs]

TypeOK ==
    /\ sessions \in [Runs -> RuntimeSession \cup {None}]
    /\ receipts \in [Runs -> Calls \cup {None}]
    /\ approvals \in [Calls -> {"none", "requested", "approved"}]
    /\ ledger \in [Runs -> Seq(AuditEvent)]
    /\ pc \in [Calls -> Locations]
    /\ cmd \in [Calls -> Commands \cup {None}]
    /\ ctx \in [Calls -> DispatchContext]
    /\ held \in [Calls -> RuntimeSession \cup {None}]

Init ==
    /\ sessions = [r \in Runs |-> None]
    /\ receipts = [r \in Runs |-> None]
    /\ approvals = [c \in Calls |-> "none"]
    /\ ledger = [r \in Runs |-> <<>>]
    /\ pc = [c \in Calls |-> "idle"]
    /\ cmd = [c \in Calls |-> None]
    /\ ctx = [c \in Calls |-> NoContext]
    /\ held = [c \in Calls |-> None]

InFlight(c) == pc[c] \notin {"idle"} \cup Finished
ThreadIsFree == Cardinality({c \in Calls : InFlight(c)}) < Threads

Goto(c, location) == pc' = [pc EXCEPT ![c] = location]

-----------------------------------------------------------------------------
(* Registration and the start of a call *)

(* service.register_run: a second registration raises and changes nothing. *)
RegisterRun(r) ==
    /\ ThreadIsFree
    /\ sessions[r] = None
    /\ sessions' = [sessions EXCEPT ![r] = FreshSession]
    /\ UNCHANGED <<receipts, approvals, ledger, pc, cmd, ctx, held>>

(* execute_command down to the session read of _dispatch_context; a run    *)
(* without a session is a KeyError before anything is recorded.            *)
Submit(c, k) ==
    /\ pc[c] = "idle" /\ ThreadIsFree /\ k.by = "operator"
    /\ cmd' = [cmd EXCEPT ![c] = k]
    /\ \/ /\ sessions[k.run] = None
          /\ Goto(c, "raised")
          /\ UNCHANGED ctx
       \/ /\ sessions[k.run] # None
          /\ ctx' = [ctx EXCEPT ![c].mode = sessions[k.run].mode]
          /\ Goto(c, "context")
    /\ UNCHANGED <<sessions, receipts, approvals, ledger, held>>

(* RecoveryController calls pause, rollback or restore on the service: the *)
(* runtime operation alone, with no dispatch, no event and no receipt.     *)
CallRuntime(c, k) ==
    /\ pc[c] = "idle" /\ ThreadIsFree /\ k.by = "recovery"
    /\ cmd' = [cmd EXCEPT ![c] = k]
    /\ Goto(c, "read")
    /\ UNCHANGED <<sessions, receipts, approvals, ledger, ctx, held>>

(* Mutant: a receipt that unlocks its run in every mode context. *)
IsActiveInAnyContext(t, run, mode, context) ==
    cmd[t].run = run /\ cmd[t].target = mode

(* ModeSwitchReceipt.is_active_for, of the receipt issued to call t; an    *)
(* issued receipt always has status "active".                              *)
IsActiveFor(t, run, mode, context) ==
    /\ cmd[t].run = run
    /\ cmd[t].context = context
    /\ cmd[t].target = mode

(* DispatchContext.control_is_unlocked_for *)
ControlIsUnlockedFor(t, run, mode, context) ==
    /\ t # None
    /\ mode # Obs
    /\ IsActiveFor(t, run, mode, context)

(* Mutant: clone is not gated. *)
DeniedUnlessClone(k, mode, t) ==
    /\ k.action \in ControlActions \ {"clone"}
    /\ ~ControlIsUnlockedFor(t, k.run, mode, k.context)

(* CommandDispatcher._deny_reason *)
Denied(k, mode, t) ==
    /\ k.action \in ControlActions
    /\ ~ControlIsUnlockedFor(t, k.run, mode, k.context)

(* The receipt read of _dispatch_context, and CommandDispatcher.dispatch.  *)
(* The dispatcher is built for this one call, so its idempotency cache is  *)
(* empty: the command's idempotency_key plays no part.                     *)
Dispatch(c) ==
    LET t == receipts[cmd[c].run] IN
    /\ pc[c] = "context"
    /\ ctx' = [ctx EXCEPT ![c].receipt = t]
    /\ \/ Denied(cmd[c], ctx[c].mode, t) /\ Goto(c, "refuse")
       \/ ~Denied(cmd[c], ctx[c].mode, t) /\ Goto(c, "request")
    /\ UNCHANGED <<sessions, receipts, approvals, ledger, cmd, held>>

-----------------------------------------------------------------------------
(* The events of a call *)

(* Mutant: an I/O error of the ledger is swallowed. *)
RecordOrSkip(c, type, next) ==
    /\ Goto(c, next)
    /\ \/ ledger' = [ledger EXCEPT ![cmd[c].run] =
                        Append(@, [type |-> type, call |-> c])]
       \/ MayFail /\ UNCHANGED ledger

(* ApprovalService._record_event: the event is in the ledger and the call  *)
(* goes on, or the append raises and the error leaves execute_command.     *)
Record(c, type, next) ==
    \/ /\ ledger' = [ledger EXCEPT ![cmd[c].run] =
                        Append(@, [type |-> type, call |-> c])]
       /\ Goto(c, next)
    \/ /\ MayFail
       /\ Goto(c, "raised")
       /\ UNCHANGED ledger

RecordRefused(c) ==
    /\ pc[c] = "refuse"
    /\ Record(c, "requested", "refused")
    /\ UNCHANGED <<sessions, receipts, approvals, cmd, ctx, held>>

RecordDenied(c) ==
    /\ pc[c] = "refused"
    /\ Record(c, "failed", "denied")
    /\ UNCHANGED <<sessions, receipts, approvals, cmd, ctx, held>>

RequiresApproval(c) == cmd[c].action \in ApprovalRequired

RecordRequest(c) ==
    /\ pc[c] = "request"
    /\ Record(c, "requested",
              IF RequiresApproval(c) THEN "approval" ELSE "start")
    /\ UNCHANGED <<sessions, receipts, approvals, cmd, ctx, held>>

(* The rest of record_request: the record is stored before its event. *)
RequestApproval(c) ==
    /\ pc[c] = "approval"
    /\ approvals' = [approvals EXCEPT ![c] = "requested"]
    /\ Record(c, "approval_requested", "approve")
    /\ UNCHANGED <<sessions, receipts, cmd, ctx, held>>

(* Mutant: the call goes on when the event "approved" cannot be written. *)
ApproveAnyway(c) ==
    /\ pc[c] = "approve"
    /\ approvals[c] = "requested"
    /\ approvals' = [approvals EXCEPT ![c] = "approved"]
    /\ \/ Record(c, "approved", "start")
       \/ MayFail /\ Goto(c, "start") /\ UNCHANGED ledger
    /\ UNCHANGED <<sessions, receipts, cmd, ctx, held>>

(* ApprovalService.approve, with the receipt it issues; execute_command    *)
(* approves its own request at once.                                       *)
Approve(c) ==
    /\ pc[c] = "approve"
    /\ approvals[c] = "requested"
    /\ approvals' = [approvals EXCEPT ![c] = "approved"]
    /\ Record(c, "approved", "start")
    /\ UNCHANGED <<sessions, receipts, cmd, ctx, held>>

(* _require_approved_record *)
HasApprovedRecord(c) == RequiresApproval(c) => approvals[c] = "approved"

RecordStarted(c) ==
    /\ pc[c] = "start"
    /\ HasApprovedRecord(c)
    /\ Record(c, "started", "read")
    /\ UNCHANGED <<sessions, receipts, approvals, cmd, ctx, held>>

(* Mutant: the error of the runtime leaves without an event. *)
FailSilently(c) ==
    /\ pc[c] = "fail"
    /\ Goto(c, "raised")
    /\ UNCHANGED <<sessions, receipts, approvals, ledger, cmd, ctx, held>>

RecordFailed(c) ==
    /\ pc[c] = "fail"
    /\ HasApprovedRecord(c)
    /\ Record(c, "failed", "raised")
    /\ UNCHANGED <<sessions, receipts, approvals, cmd, ctx, held>>

RecordCompleted(c) ==
    /\ pc[c] = "complete"
    /\ HasApprovedRecord(c)
    /\ Record(c, "completed", "returned")
    /\ UNCHANGED <<sessions, receipts, approvals, cmd, ctx, held>>

-----------------------------------------------------------------------------
(* The runtime: every operation reads the session, then replaces it *)

(* What _apply_runtime_command and the runtime raise before any write. *)
RuntimeRaises(k) ==
    \/ sessions[k.run] = None
    \/ k.action \in {"observe", "branch"}
    \/ k.action = "rollback" /\ k.cycle = None
    \/ k.action = "clone" /\ (k.clone \in Runs => sessions[k.clone] # None)

ReadSession(c) ==
    LET k == cmd[c] IN
    /\ pc[c] = "read"
    /\ \/ /\ RuntimeRaises(k)
          /\ Goto(c, IF k.by = "operator" THEN "fail" ELSE "raised")
          /\ UNCHANGED held
       \/ /\ ~RuntimeRaises(k)
          /\ held' = [held EXCEPT ![c] = sessions[k.run]]
          /\ Goto(c, "write")
    /\ UNCHANGED <<sessions, receipts, approvals, ledger, cmd, ctx>>

(* The fields that the control plane reads back, of the replaced session. *)
Updated(k, session) ==
    CASE k.action = "mode switch" -> [session EXCEPT !.mode = k.target]
      [] k.action = "pause"       -> [session EXCEPT !.state = "paused"]
      [] k.action = "resume"      -> [session EXCEPT !.state = "active"]
      [] k.action = "clone"       -> session
      [] OTHER                    -> FreshSession

WriteSession(c) ==
    LET k == cmd[c]
        updated == Updated(k, held[c]) IN
    /\ pc[c] = "write"
    /\ sessions' = [r \in Runs |->
                       CASE r = k.run -> updated
                         [] r # k.run /\ k.action = "clone" /\ r = k.clone
                              -> FreshSession
                         [] OTHER -> sessions[r]]
    /\ held' = [held EXCEPT ![c] = updated]
    /\ Goto(c, IF k.by = "operator" THEN "remember" ELSE "returned")
    /\ UNCHANGED <<receipts, approvals, ledger, cmd, ctx>>

(* Mutant: every command but a mode switch drops the receipt. *)
RememberModeSwitchOnly(c) ==
    /\ pc[c] = "remember"
    /\ receipts' = [receipts EXCEPT ![cmd[c].run] =
                       IF cmd[c].action = "mode switch" THEN c ELSE None]
    /\ Goto(c, "complete")
    /\ UNCHANGED <<sessions, approvals, ledger, cmd, ctx, held>>

(* _remember_control_receipt *)
RememberReceipt(c) ==
    LET run == cmd[c].run IN
    /\ pc[c] = "remember"
    /\ \/ /\ cmd[c].action = "mode switch"
          /\ receipts' = [receipts EXCEPT ![run] = c]
       \/ /\ cmd[c].action # "mode switch"
          /\ held[c].mode = Obs
          /\ receipts' = [receipts EXCEPT ![run] = None]
       \/ /\ cmd[c].action # "mode switch"
          /\ held[c].mode # Obs
          /\ UNCHANGED receipts
    /\ Goto(c, "complete")
    /\ UNCHANGED <<sessions, approvals, ledger, cmd, ctx, held>>

-----------------------------------------------------------------------------
(* The process stops: what it kept in memory is gone, the ledgers are not. *)
Crash ==
    /\ MayCrash
    /\ \E r \in Runs : sessions[r] # None
    /\ sessions' = [r \in Runs |-> None]
    /\ receipts' = [r \in Runs |-> None]
    /\ approvals' = [c \in Calls |-> "none"]
    /\ pc' = [c \in Calls |-> IF InFlight(c) THEN "lost" ELSE pc[c]]
    /\ ctx' = [c \in Calls |-> NoContext]
    /\ held' = [c \in Calls |-> None]
    /\ UNCHANGED <<ledger, cmd>>

Step(c) ==
    \/ Dispatch(c)
    \/ RecordRefused(c) \/ RecordDenied(c)
    \/ RecordRequest(c) \/ RequestApproval(c) \/ Approve(c)
    \/ RecordStarted(c)
    \/ ReadSession(c) \/ WriteSession(c)
    \/ RecordFailed(c)
    \/ RememberReceipt(c) \/ RecordCompleted(c)

Next ==
    \/ \E r \in Runs : RegisterRun(r)
    \/ \E c \in Calls : Step(c)
    \/ \E c \in Calls, k \in Commands : Submit(c, k) \/ CallRuntime(c, k)
    \/ Crash

Spec == Init /\ [][Next]_vars

(* A call is straight-line code of one thread: it does not stop between    *)
(* two of its steps for ever.  Nothing is assumed of callers or of disks.  *)
Fairness == \A c \in Calls : WF_vars(Step(c))

FairSpec == Spec /\ Fairness

-----------------------------------------------------------------------------
(* Properties *)

(* The types of the events of a ledger that are call c's, in order: after  *)
(* each event, and of them all.                                            *)
TypesAfter(events, c) ==
    LET types[n \in 0 .. Len(events)] ==
            IF n = 0 THEN <<>>
            ELSE IF events[n].call = c THEN Append(types[n - 1], events[n].type)
                 ELSE types[n - 1]
    IN  types

TypesOf(events, c) == TypesAfter(events, c)[Len(events)]

(* What a call left in the ledger of its run. *)
Trail(c) == TypesOf(ledger[cmd[c].run], c)

Lifecycle(k) ==
    IF k.action \in ApprovalRequired
    THEN <<"requested", "approval_requested", "approved", "started">>
    ELSE <<"requested", "started">>

IsAPrefix(s, t) == Len(s) <= Len(t) /\ s = SubSeq(t, 1, Len(s))

IsOperatorCall(c) == cmd[c] # None /\ cmd[c].by = "operator"

(* What the caller is told is what the ledger says.  A call that returned  *)
(* has its whole lifecycle on record, up to "completed"; a denied one has  *)
(* exactly "requested" and "failed"; one that raised never shows           *)
(* "completed", and unless a disk failed it shows nothing (unknown run) or *)
(* a full lifecycle up to "failed"; and whatever stops a call, its trail   *)
(* is a prefix of a legal one.  Events go to no other run's ledger.        *)
ReplyMatchesLedger ==
    \A c \in Calls : IsOperatorCall(c) =>
        LET trail == Trail(c)
            life == Lifecycle(cmd[c])
        IN  /\ pc[c] = "returned" => trail = Append(life, "completed")
            /\ pc[c] = "denied" => trail = <<"requested", "failed">>
            /\ pc[c] = "raised" =>
                  /\ \A i \in DOMAIN trail : trail[i] # "completed"
                  /\ MayFail \/ trail \in {<<>>, Append(life, "failed")}
            /\ \/ IsAPrefix(trail, Append(life, "completed"))
               \/ IsAPrefix(trail, Append(life, "failed"))
               \/ trail = <<"requested", "failed">>
            /\ \A r \in Runs \ {cmd[c].run} : TypesOf(ledger[r], c) = <<>>

(* An approved mode switch that covers command k, at place j of run r's    *)
(* ledger: same run, same mode context, a mode that is not Obs.            *)
ApprovalCovers(r, j, k) ==
    LET e == ledger[r][j] IN
    /\ e.type = "approved"
    /\ cmd[e.call].action = "mode switch"
    /\ cmd[e.call].run = r
    /\ cmd[e.call].context = k.context
    /\ cmd[e.call].target # Obs

(* No control command starts unless the ledger of its own run already      *)
(* holds the approval of a mode switch, out of observation-only mode, in   *)
(* the command's mode context.  So neither another run's unlock (the       *)
(* source of a clone, say) nor another context's ever lets one through,    *)
(* however calls interleave and whatever fails or is restarted.            *)
StartedUnderApproval ==
    \A r \in Runs : \A i \in 1 .. Len(ledger[r]) :
        LET e == ledger[r][i] IN
        e.type = "started" /\ cmd[e.call].action \in ControlActions =>
            \E j \in 1 .. i - 1 : ApprovalCovers(r, j, cmd[e.call])

(* The receipt the service holds for a run was issued for that run, to a   *)
(* mode switch this process approved (a restart forgets both) and whose    *)
(* approval is in the run's ledger; a clone has none of its source's.      *)
ReceiptIsApproved ==
    \A r \in Runs : receipts[r] # None =>
        LET t == receipts[r] IN
        /\ approvals[t] = "approved"
        /\ cmd[t].action = "mode switch" /\ cmd[t].run = r
        /\ \E j \in 1 .. Len(ledger[r]) :
              ledger[r][j] = [type |-> "approved", call |-> t]

(* A run is out of observation-only mode only under the receipt of a mode  *)
(* switch to the very mode it is in (the receipt is stored one step after  *)
(* the session).                                                           *)
ModeBackedByReceipt ==
    \A r \in Runs :
        /\ sessions[r] # None
        /\ sessions[r].mode # Obs
        /\ \A c \in Calls : pc[c] = "remember" => cmd[c].run # r
        => /\ receipts[r] # None
           /\ cmd[receipts[r]].target = sessions[r].mode

Applies(c) == pc[c] = "write" /\ pc'[c] # "write" /\ pc'[c] # "lost"

(* The receipt run r holds unlocks it, now, for commands in this context.  *)
Unlocked(r, context) ==
    /\ sessions[r].mode # Obs
    /\ receipts[r] # None
    /\ cmd[receipts[r]].target = sessions[r].mode
    /\ cmd[receipts[r]].context = context

(* A control command changes a session only while the run is unlocked for  *)
(* it: the decision the dispatcher took is still right when it is applied. *)
ControlAppliesOnlyWhileUnlocked ==
    [][\A c \in Calls :
          /\ Applies(c)
          /\ cmd[c].by = "operator" /\ cmd[c].action \in ControlActions
          => Unlocked(cmd[c].run, cmd[c].context)]_vars

(* Every event "started" is followed by the call's "completed" or          *)
(* "failed", unless a disk or the process failed under the call.           *)
StartedIsClosed ==
    \A c \in Calls :
        (pc[c] = "read") ~>
            \/ pc[c] = "lost" \/ (MayFail /\ pc[c] = "raised")
            \/ IsOperatorCall(c) /\ Len(Trail(c)) = Len(Lifecycle(cmd[c])) + 1
            \/ ~IsOperatorCall(c) /\ pc[c] \in Finished

=============================================================================
