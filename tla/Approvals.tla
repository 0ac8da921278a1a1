----------------------------- MODULE Approvals ------------------------------
(***************************************************************************)
(* ApprovalService with all its operations, called by several operators:   *)
(* request, approve, reject, and the lifecycle events that need an         *)
(* approved record.  (ControlPlane has the path of execute_command, which  *)
(* approves its own requests at once.)                                     *)
(*                                                                         *)
(* The service takes no lock.  A step of an operation is one access to the *)
(* records or one append to the ledger, which is atomic here:              *)
(* AuditLedger opens it up.                                                *)
(***************************************************************************)
EXTENDS Naturals, Sequences, FiniteSets

CONSTANTS
    Operators,  \* callers; each runs one operation after the other
    Approvals,  \* approval ids, each drawn by one record_request
    Commands,   \* command ids
    CommandOf,  \* the command that an approval is requested for
    Gated,      \* the commands whose action requires an approval
    None,       \* Python's None
    Serial,     \* TRUE: an operation ends before the next one begins
    MayFail,    \* TRUE: an append to the ledger may raise an I/O error
    MayCrash,   \* TRUE: the host may stop and be started again
    MaxEvents,  \* bound on the length of the ledger, for TLC,
    MaxFree     \* and on the events in it of commands that are not gated

Decisions == {"approved", "rejected"}
Lifecycle == {"started", "completed", "failed"}
EventTypes == {"requested", "approval_requested"} \cup Decisions \cup Lifecycle

AuditEvent ==
    [type : EventTypes, command : Commands, approval : Approvals \cup {None}]

ASSUME ApprovalAssumption ==
    /\ CommandOf \in [Approvals -> Commands]
    /\ Gated \subseteq Commands
    /\ None \notin Approvals \cup AuditEvent
    /\ Serial \in BOOLEAN /\ MayFail \in BOOLEAN /\ MayCrash \in BOOLEAN
    /\ MaxEvents \in Nat /\ MaxFree \in Nat

VARIABLES
    status,  \* of the record in _records, "none" before there is one
    ledger,  \* the events on record, oldest first
    pc,      \* where each operator's operation is
    event    \* the event it is about to record

vars == <<status, ledger, pc, event>>

Locations == {"idle", "request", "open", "decide", "record"}
Statuses == {"none", "requested", "forgotten"} \cup Decisions

TypeOK ==
    /\ status \in [Approvals -> Statuses]
    /\ ledger \in Seq(AuditEvent)
    /\ pc \in [Operators -> Locations]
    /\ event \in [Operators -> AuditEvent \cup {None}]

Init ==
    /\ status = [a \in Approvals |-> "none"]
    /\ ledger = <<>>
    /\ pc = [o \in Operators |-> "idle"]
    /\ event = [o \in Operators |-> None]

Entry(type, command, approval) ==
    [type |-> type, command |-> command, approval |-> approval]

Begin(o, location, entry) ==
    /\ pc[o] = "idle"
    /\ Serial => \A p \in Operators : pc[p] = "idle"
    /\ pc' = [pc EXCEPT ![o] = location]
    /\ event' = [event EXCEPT ![o] = entry]

(* _record_event, of an append that succeeds. *)
Record(entry) ==
    /\ Len(ledger) < MaxEvents
    /\ entry.command \notin Gated =>
          Cardinality({i \in DOMAIN ledger : ledger[i].command \notin Gated}) < MaxFree
    /\ ledger' = Append(ledger, entry)

Return(o) ==
    /\ pc' = [pc EXCEPT ![o] = "idle"]
    /\ event' = [event EXCEPT ![o] = None]

-----------------------------------------------------------------------------
(* record_request: of a command that needs no approval it records one      *)
(* event; of one that does, the record is stored and a second one follows. *)

RequestFreely(o, k) ==
    /\ k \notin Gated
    /\ Begin(o, "record", Entry("requested", k, None))
    /\ UNCHANGED <<status, ledger>>

RequestApproval(o, a) ==
    /\ status[a] = "none"
    /\ CommandOf[a] \in Gated
    /\ \A p \in Operators : pc[p] # "idle" => event[p].approval # a
    /\ Begin(o, "request", Entry("approval_requested", CommandOf[a], a))
    /\ UNCHANGED <<status, ledger>>

RecordRequest(o) ==
    /\ pc[o] = "request"
    /\ Record(Entry("requested", event[o].command, None))
    /\ pc' = [pc EXCEPT ![o] = "open"]
    /\ UNCHANGED <<status, event>>

StoreRequest(o) ==
    /\ pc[o] = "open"
    /\ status' = [status EXCEPT ![event[o].approval] = "requested"]
    /\ pc' = [pc EXCEPT ![o] = "record"]
    /\ UNCHANGED <<ledger, event>>

-----------------------------------------------------------------------------
(* approve and reject *)

(* record_request has returned the id: its last event is on record. *)
IsKnown(a) ==
    \E i \in DOMAIN ledger :
        ledger[i] = Entry("approval_requested", CommandOf[a], a)

(* Mutant: a record may be decided again. *)
RedecideApproval(o, a, decision) ==
    /\ IsKnown(a)
    /\ status[a] \in {"requested"} \cup Decisions
    /\ Begin(o, "decide", Entry(decision, CommandOf[a], a))
    /\ UNCHANGED <<status, ledger>>

(* The check of approve and reject; an unknown approval is a KeyError, one *)
(* that is resolved a ValueError.                                          *)
DecideApproval(o, a, decision) ==
    /\ IsKnown(a)
    /\ status[a] = "requested"
    /\ Begin(o, "decide", Entry(decision, CommandOf[a], a))
    /\ UNCHANGED <<status, ledger>>

(* The record is replaced, then the decision goes on record. *)
StoreDecision(o) ==
    /\ pc[o] = "decide"
    /\ status' = [status EXCEPT ![event[o].approval] = event[o].type]
    /\ pc' = [pc EXCEPT ![o] = "record"]
    /\ UNCHANGED <<ledger, event>>

-----------------------------------------------------------------------------
(* record_started, record_completed, record_failed *)

(* Mutant: a record that is not rejected will do. *)
RequireNoRejection(k, a) ==
    k \in Gated =>
        a # None /\ CommandOf[a] = k /\ status[a] \in {"requested", "approved"}

(* _require_approved_record *)
RequireApprovedRecord(k, a) ==
    k \in Gated => a # None /\ CommandOf[a] = k /\ status[a] = "approved"

RecordLifecycle(o, k, a, type) ==
    /\ RequireApprovedRecord(k, a)
    /\ Begin(o, "record", Entry(type, k, a))
    /\ UNCHANGED <<status, ledger>>

-----------------------------------------------------------------------------

(* The last event of an operation, which then returns. *)
RecordEvent(o) ==
    /\ pc[o] = "record"
    /\ Record(event[o])
    /\ Return(o)
    /\ UNCHANGED status

(* An append raises an I/O error, which leaves the operation. *)
AppendRaises(o) ==
    /\ MayFail
    /\ pc[o] \in {"request", "record"}
    /\ Return(o)
    /\ UNCHANGED <<status, ledger>>

(* The records are in memory. *)
Crash ==
    /\ MayCrash
    /\ status' = [a \in Approvals |->
                     IF status[a] = "none" THEN "none" ELSE "forgotten"]
    /\ pc' = [o \in Operators |-> "idle"]
    /\ event' = [o \in Operators |-> None]
    /\ UNCHANGED ledger

Next ==
    \/ Crash
    \/ \E o \in Operators :
          \/ RecordRequest(o) \/ StoreRequest(o) \/ StoreDecision(o)
          \/ RecordEvent(o) \/ AppendRaises(o)
          \/ \E k \in Commands : RequestFreely(o, k)
          \/ \E a \in Approvals : RequestApproval(o, a)
          \/ \E a \in Approvals, d \in Decisions : DecideApproval(o, a, d)
          \/ \E k \in Commands, a \in Approvals \cup {None},
                type \in Lifecycle : RecordLifecycle(o, k, a, type)

Spec == Init /\ [][Next]_vars

-----------------------------------------------------------------------------
(* Properties *)

IsAct(e) == e.type \in Lifecycle /\ e.command \in Gated

(* One operation at a time, an approval is decided once, and is acted on   *)
(* only if it was approved, whatever fails and whenever the host stops:    *)
(* the service implements DecideOnce.                                      *)
Promise == INSTANCE DecideOnce WITH
    decision <- [a \in Approvals |->
                    IF status[a] \in {"none", "requested"} THEN "open"
                    ELSE status[a]],
    acted <- {ledger[i].approval : i \in {j \in DOMAIN ledger : IsAct(ledger[j])}}

IsDecideOnce == Promise!Spec

(* Nobody can read two stories from the ledger: an approval has at most    *)
(* one decision on record, after its request, and the lifecycle events of  *)
(* a gated command carry an approval of that command, never a rejected one.*)
LedgerTellsOneStory ==
    \A i, j \in DOMAIN ledger :
        LET d == ledger[i]
            e == ledger[j]
        IN  /\ IsAct(e) => e.approval # None /\ CommandOf[e.approval] = e.command
            /\ d.approval = e.approval /\ d.type \in Decisions =>
                  /\ e.type \in Decisions => i = j
                  /\ e.type = "approval_requested" => j < i
                  /\ IsAct(e) => d.type = "approved"

=============================================================================
