------------------------------ MODULE ReadModel ------------------------------
(***************************************************************************)
(* What QueryService shows of a run's control state: a projection of the   *)
(* run's audit events and of its session, over the control plane as it     *)
(* runs.  Surfaces render it and offer the actions it lists; whether such  *)
(* an action is allowed is up to the dispatcher, which looks elsewhere.    *)
(*                                                                         *)
(* Events are shown in the order of their occurred_at, which callers give  *)
(* each by a clock of its own; the order of the ledger is another.         *)
(***************************************************************************)
EXTENDS ControlPlane

CONSTANTS
    OccurredAt,   \* the occurred_at that a caller gives with its command,
    ApprovedAt,   \* and its approval_occurred_at, if there is one
    LastTime      \* no clock is beyond it

ASSUME ClockAssumption ==
    /\ LastTime \in Nat
    /\ {OccurredAt, ApprovedAt} \subseteq [Calls -> 0 .. LastTime]

(* _RECOVERY_ACTIONS, the last of them first. *)
RecoveryOrder == <<"rollback", "reset", "clone", "branch">>

Happened(r) == 1 .. Len(ledger[r])

ActionOf(e) == cmd[e.call].action

(* occurred_at of an event: from the approval on, lifecycle_timestamp.     *)
EventTime(e) ==
    IF e.type \in {"requested", "approval_requested"} \/ pc[e.call] = "denied"
    THEN OccurredAt[e.call] ELSE ApprovedAt[e.call]

(* The order of the events on the pages, which keeps that of the ledger    *)
(* for events of one time.                                                 *)
NotAfter(r, i, j) ==
    LET before == EventTime(ledger[r][i])
        after == EventTime(ledger[r][j])
    IN  before < after \/ (before = after /\ i <= j)

(* Mutant: an approved switch is active once its command has completed. *)
ActiveOnceCompleted == {"completed"}

(* _MODE_SWITCH_ACTIVE_STATUSES *)
ActiveStatuses == {"approved", "started", "completed"}

(* The events that carry the receipt of mode switch t: those from its      *)
(* approval on.                                                            *)
ReceiptEvents(r, t) ==
    {i \in Happened(r) :
        /\ ledger[r][i].call = t
        /\ ActionOf(ledger[r][i]) = "mode switch"
        /\ ledger[r][i].type \in {"approved", "started", "completed", "failed"}}

(* The receipts _active_mode_switch_receipt may choose.  No event has the  *)
(* target mode in its details, so the current mode stands in for it and    *)
(* always agrees with itself; the event "approved" has the mode context.   *)
ActiveReceipts(r) ==
    {t \in Calls :
        LET types == {ledger[r][i].type : i \in ReceiptEvents(r, t)}
        IN  types \cap ActiveStatuses # {} /\ "approved" \in types}

(* Mutant: the oldest receipt is chosen. *)
OldestFirst(r, t, u) ==
    \A j \in ReceiptEvents(r, u) :
        \E i \in ReceiptEvents(r, t) : NotAfter(r, i, j)

(* Receipts are gone through from the one whose first event is the last.   *)
Precedes(r, t, u) ==
    \A i \in ReceiptEvents(r, t) :
        \E j \in ReceiptEvents(r, u) : NotAfter(r, j, i)

(* _active_mode_switch_receipt: the receipts shown, none or one. *)
Shown(r) ==
    LET receiptGroups == ActiveReceipts(r)
    IN  {t \in receiptGroups : \A u \in receiptGroups : Precedes(r, t, u)}

AvailableActions(r) ==
    IF Shown(r) # {} THEN CanonicalActions ELSE {"observe", "mode switch"}

(* latest_command_receipts[action]: the type of the last event, if any. *)
LatestReceipt(r, action) ==
    {ledger[r][i].type : i \in
        {j \in Happened(r) :
            /\ ActionOf(ledger[r][j]) = action
            /\ \A k \in Happened(r) :
                  ActionOf(ledger[r][k]) = action => NotAfter(r, k, j)}}

(* _approval_status: what a mode switch has come to. *)
ApprovalStatus(r) ==
    LET latest == LatestReceipt(r, "mode switch") IN
    CASE Shown(r) # {} \/ latest = {"approved"} -> "approved"
      [] Shown(r) = {} /\ latest \in {{"requested"}, {"approval_requested"}}
            -> "requested"
      [] OTHER -> "not-requested"

(* _latest_recovery_receipt: of the last recovery action that has one. *)
LatestRecovery(r) ==
    UNION {LatestReceipt(r, RecoveryOrder[i]) : i \in
              {j \in DOMAIN RecoveryOrder :
                  \A k \in 1 .. j - 1 : LatestReceipt(r, RecoveryOrder[k]) = {}}}

(* _observation_mode_state, of a run without an incident. *)
ObservationModeState(r) ==
    LET recovery == LatestRecovery(r) IN
    CASE Shown(r) # {} -> "mode-switch active"
      [] Shown(r) = {} /\ ApprovalStatus(r) = "requested" -> "mode-switch requested"
      [] Shown(r) = {} /\ ApprovalStatus(r) # "requested" ->
            CASE sessions[r].state = "paused" -> "paused"
              [] sessions[r].state # "paused" /\ recovery = {"started"}
                    -> "recovery executing"
              [] sessions[r].state # "paused" /\ recovery = {"completed"}
                    -> "recovery completed"
              [] OTHER -> IF sessions[r].mode = Obs THEN "observation-only"
                          ELSE "mode-switch active"

-----------------------------------------------------------------------------
(* Properties *)

AllIsQuiet == \A c \in Calls : ~InFlight(c)

(* Control is never hidden: a run that is unlocked, in whatever context,   *)
(* is shown as such, with all its actions and with a receipt, whatever     *)
(* failed, was restarted or is still on its way, and whatever clocks say.  *)
UnlockedIsOffered ==
    \A r \in Runs, context \in Contexts :
        sessions[r] # None /\ Unlocked(r, context) =>
            /\ ObservationModeState(r) = "mode-switch active"
            /\ AvailableActions(r) = CanonicalActions
            /\ Shown(r) # {}

(* While no call is on its way, the receipt shown of a run that holds one  *)
(* is that one, or that of a later switch which failed after its approval: *)
(* two stores that are written apart, and one of which outlives the        *)
(* process, agree on which of a run's switches is the last.                *)
ShownIsHeld ==
    AllIsQuiet =>
        \A r \in Runs : receipts[r] # None =>
            /\ Shown(r) # {}
            /\ \A t \in Shown(r) :
                  \/ t = receipts[r]
                  \/ pc[t] = "raised" /\ Precedes(r, t, receipts[r])

=============================================================================
