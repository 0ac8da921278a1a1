-------------------------- MODULE Approvals_proofs --------------------------
(* Proofs about Approvals, for any number of operators and approvals and a *)
(* ledger of any length.                                                   *)
EXTENDS Approvals, SequenceTheorems, TLAPS

(* One operation at a time. *)
Alone ==
    \A o, p \in Operators : pc[o] # "idle" /\ pc[p] # "idle" => o = p

Undecided(a) ==
    \A i \in DOMAIN ledger :
        ledger[i].approval = a => ledger[i].type \notin Decisions

(* What the record says while an operation is under way. *)
OperationFits(o) ==
    LET e == event[o]
        a == e.approval
    IN  /\ pc[o] = "idle" <=> e = None
        /\ pc[o] \in {"request", "open"} =>
              /\ e.type = "approval_requested" /\ a \in Approvals
              /\ status[a] = "none"
        /\ pc[o] = "decide" =>
              /\ e.type \in Decisions /\ a \in Approvals
              /\ status[a] = "requested"
        /\ pc[o] = "record" =>
              /\ e.type = "approval_requested" =>
                    a \in Approvals /\ status[a] = "requested" /\ Undecided(a)
              /\ e.type \in Decisions =>
                    a \in Approvals /\ status[a] = e.type /\ Undecided(a)
              /\ IsAct(e) =>
                    /\ a \in Approvals /\ CommandOf[a] = e.command
                    /\ status[a] = "approved"

OperationsFit == \A o \in Operators : OperationFits(o)

(* What the record says of the events on record. *)
LedgerFits ==
    \A i \in DOMAIN ledger :
        LET e == ledger[i]
            a == e.approval
        IN  /\ e.type \in Decisions =>
                  a \in Approvals /\ status[a] \in {e.type, "forgotten"}
            /\ IsAct(e) =>
                  /\ a \in Approvals /\ CommandOf[a] = e.command
                  /\ status[a] \in {"approved", "forgotten"}

ApprovalInv ==
    TypeOK /\ Alone /\ OperationsFit /\ LedgerFits /\ LedgerTellsOneStory

-----------------------------------------------------------------------------

LEMMA EntryType ==
    ASSUME NEW t \in EventTypes, NEW k \in Commands,
           NEW a \in Approvals \cup {None}
    PROVE  /\ Entry(t, k, a) \in AuditEvent /\ Entry(t, k, a) # None
           /\ Entry(t, k, a).type = t /\ Entry(t, k, a).command = k
           /\ Entry(t, k, a).approval = a
<1>1. Entry(t, k, a) \in AuditEvent
  BY DEF Entry, AuditEvent
<1> QED
  BY <1>1, ApprovalAssumption DEF Entry

LEMMA EventFields ==
    ASSUME NEW e \in AuditEvent
    PROVE  /\ e.type \in EventTypes /\ e.command \in Commands
           /\ e.approval \in Approvals \cup {None} /\ e # None
  BY ApprovalAssumption DEF AuditEvent

LEMMA TypeStep == TypeOK /\ OperationsFit /\ [Next]_vars => TypeOK'
<1> SUFFICES ASSUME TypeOK, OperationsFit, [Next]_vars PROVE TypeOK'
  OBVIOUS
<1> USE DEF TypeOK, Begin, Return
<1>1. CASE Crash
  BY <1>1 DEF Crash, Statuses, Locations
<1>2. ASSUME NEW o \in Operators, RecordRequest(o) PROVE TypeOK'
  <2>1. event[o] \in AuditEvent
    BY <1>2 DEF RecordRequest, OperationsFit, OperationFits
  <2>2. Entry("requested", event[o].command, None) \in AuditEvent
    BY <2>1, EventFields, EntryType DEF EventTypes
  <2> QED
    BY <1>2, <2>2 DEF RecordRequest, Record, Locations
<1>3. ASSUME NEW o \in Operators, StoreRequest(o) PROVE TypeOK'
  BY <1>3 DEF StoreRequest, Statuses, Locations
<1>4. ASSUME NEW o \in Operators, StoreDecision(o) PROVE TypeOK'
  <2>1. event[o].type \in Decisions
    BY <1>4 DEF StoreDecision, OperationsFit, OperationFits
  <2> QED
    BY <1>4, <2>1 DEF StoreDecision, Statuses, Locations
<1>5. ASSUME NEW o \in Operators, RecordEvent(o) PROVE TypeOK'
  <2>1. event[o] \in AuditEvent
    BY <1>5 DEF RecordEvent, OperationsFit, OperationFits
  <2> QED
    BY <1>5, <2>1 DEF RecordEvent, Record, Locations
<1>6. ASSUME NEW o \in Operators, AppendRaises(o) PROVE TypeOK'
  BY <1>6 DEF AppendRaises, Locations
<1>7. ASSUME NEW o \in Operators, NEW k \in Commands, RequestFreely(o, k)
      PROVE  TypeOK'
  BY <1>7, EntryType DEF RequestFreely, Locations, EventTypes
<1>8. ASSUME NEW o \in Operators, NEW a \in Approvals, RequestApproval(o, a)
      PROVE  TypeOK'
  <2>1. CommandOf[a] \in Commands
    BY ApprovalAssumption
  <2> QED
    BY <1>8, <2>1, EntryType DEF RequestApproval, Locations, EventTypes
<1>9. ASSUME NEW o \in Operators, NEW a \in Approvals, NEW d \in Decisions,
             DecideApproval(o, a, d)
      PROVE  TypeOK'
  <2>1. CommandOf[a] \in Commands
    BY ApprovalAssumption
  <2> QED
    BY <1>9, <2>1, EntryType DEF DecideApproval, Locations, EventTypes
<1>10. ASSUME NEW o \in Operators, NEW k \in Commands,
              NEW a \in Approvals \cup {None}, NEW type \in Lifecycle,
              RecordLifecycle(o, k, a, type)
       PROVE  TypeOK'
  BY <1>10, EntryType DEF RecordLifecycle, Locations, EventTypes
<1>11. CASE UNCHANGED vars
  BY <1>11 DEF vars
<1> QED
  BY <1>1, <1>2, <1>3, <1>4, <1>5, <1>6, <1>7, <1>8, <1>9, <1>10, <1>11
     DEF Next

LEMMA AloneStep == Serial /\ TypeOK /\ Alone /\ [Next]_vars => Alone'
<1> SUFFICES ASSUME Serial, TypeOK, Alone, [Next]_vars PROVE Alone'
  OBVIOUS
<1>1. ASSUME NEW o \in Operators, NEW l, NEW e, Begin(o, l, e) PROVE Alone'
  BY <1>1 DEF Begin, TypeOK, Alone
<1>2. ASSUME NEW o \in Operators, NEW l, pc[o] # "idle",
             pc' = [pc EXCEPT ![o] = l]
      PROVE  Alone'
  BY <1>2 DEF TypeOK, Alone
<1>3. CASE Crash
  BY <1>3 DEF Crash, Alone
<1>4. CASE UNCHANGED vars
  BY <1>4 DEF vars, Alone
<1>5. ASSUME NEW o \in Operators,
             \/ RecordRequest(o) \/ StoreRequest(o) \/ StoreDecision(o)
             \/ RecordEvent(o) \/ AppendRaises(o)
      PROVE  Alone'
  BY <1>2, <1>5 DEF RecordRequest, StoreRequest, StoreDecision, RecordEvent,
                    AppendRaises, Return
<1> QED
  BY <1>1, <1>3, <1>4, <1>5
     DEF Next, RequestFreely, RequestApproval, DecideApproval, RecordLifecycle

(* What an append changes: one event more, at the end. *)
LEMMA LedgerGrows ==
    ASSUME TypeOK, NEW e \in AuditEvent, Record(e)
    PROVE  LET n == Len(ledger) + 1 IN
           /\ n \in Nat /\ DOMAIN ledger = 1 .. n - 1 /\ DOMAIN ledger' = 1 .. n
           /\ ledger'[n] = e
           /\ \A i \in 1 .. n - 1 : ledger'[i] = ledger[i] /\ i # n
<1>1. ledger \in Seq(AuditEvent) /\ ledger' = Append(ledger, e)
  BY DEF TypeOK, Record
<1> QED
  BY <1>1, AppendProperties

(* The steps that leave the ledger alone. *)
Silent(o) ==
    \/ StoreRequest(o) \/ StoreDecision(o) \/ AppendRaises(o)
    \/ \E k \in Commands : RequestFreely(o, k)
    \/ \E a \in Approvals : RequestApproval(o, a)
    \/ \E a \in Approvals, d \in Decisions : DecideApproval(o, a, d)
    \/ \E k \in Commands, a \in Approvals \cup {None}, type \in Lifecycle :
          RecordLifecycle(o, k, a, type)

LEMMA NextCases ==
    ASSUME [Next]_vars
    PROVE  \/ UNCHANGED vars \/ Crash
           \/ \E o \in Operators :
                 Silent(o) \/ RecordRequest(o) \/ RecordEvent(o)
  BY DEF Next, Silent

(* Every other operator is idle, and stays so. *)
LEMMA OthersIdle ==
    ASSUME ApprovalInv, Alone', NEW o \in Operators,
           pc[o] # "idle" \/ pc'[o] # "idle",
           \A p \in Operators \ {o} : pc'[p] = pc[p] /\ event'[p] = event[p]
    PROVE  \A p \in Operators \ {o} : OperationFits(p)'
<1>1. ASSUME NEW p \in Operators \ {o} PROVE pc'[p] = "idle" /\ event'[p] = None
  BY <1>1 DEF ApprovalInv, Alone, OperationsFit, OperationFits
<1> QED
  BY <1>1 DEF OperationFits

LEMMA SilentFits ==
    ASSUME ApprovalInv, TypeOK', Alone', NEW o \in Operators, Silent(o)
    PROVE  OperationsFit' /\ LedgerFits'
<1>0. TypeOK /\ OperationsFit /\ LedgerFits /\ OperationFits(o)
  BY DEF ApprovalInv, OperationsFit
<1>1. \A p \in Operators \ {o} : pc'[p] = pc[p] /\ event'[p] = event[p]
  BY <1>0 DEF Silent, StoreRequest, StoreDecision, AppendRaises, Return,
              RequestFreely, RequestApproval, DecideApproval,
              RecordLifecycle, Begin, TypeOK
<1>2. ledger' = ledger
  BY DEF Silent, StoreRequest, StoreDecision, AppendRaises,
         RequestFreely, RequestApproval, DecideApproval, RecordLifecycle
<1>3. pc[o] # "idle" \/ pc'[o] # "idle"
  BY <1>0 DEF Silent, StoreRequest, StoreDecision, AppendRaises,
              RequestFreely, RequestApproval, DecideApproval,
              RecordLifecycle, Begin, TypeOK
<1>4. \A p \in Operators \ {o} : OperationFits(p)'
  BY <1>1, <1>3, OthersIdle
<1>5. ASSUME NEW a \in Approvals, status[a] \in {"none", "requested"}
      PROVE  Undecided(a)
  BY <1>0, <1>5 DEF LedgerFits, Undecided, Decisions
<1>6. CASE StoreRequest(o)
  <2>1. /\ pc[o] = "open" /\ pc'[o] = "record" /\ event' = event
        /\ status' = [status EXCEPT ![event[o].approval] = "requested"]
    BY <1>0, <1>6 DEF StoreRequest, TypeOK
  <2>2. /\ event[o].type = "approval_requested"
        /\ event[o].approval \in Approvals
        /\ status[event[o].approval] = "none"
    BY <1>0, <2>1 DEF OperationFits
  <2>3. OperationFits(o)'
    BY <1>0, <1>2, <1>5, <2>1, <2>2
       DEF OperationFits, TypeOK, IsAct, Lifecycle, Decisions, Undecided
  <2>4. LedgerFits'
    BY <1>0, <1>2, <2>1, <2>2 DEF LedgerFits, IsAct, TypeOK, Decisions
  <2> QED
    BY <1>4, <2>3, <2>4 DEF OperationsFit
<1>7. CASE StoreDecision(o)
  <2>1. /\ pc[o] = "decide" /\ pc'[o] = "record" /\ event' = event
        /\ status' = [status EXCEPT ![event[o].approval] = event[o].type]
    BY <1>0, <1>7 DEF StoreDecision, TypeOK
  <2>2. /\ event[o].type \in Decisions /\ event[o].approval \in Approvals
        /\ status[event[o].approval] = "requested"
    BY <1>0, <2>1 DEF OperationFits
  <2>3. OperationFits(o)'
    BY <1>0, <1>2, <1>5, <2>1, <2>2
       DEF OperationFits, TypeOK, IsAct, Lifecycle, Decisions, Undecided
  <2>4. LedgerFits'
    BY <1>0, <1>2, <2>1, <2>2 DEF LedgerFits, IsAct, TypeOK, Decisions
  <2> QED
    BY <1>4, <2>3, <2>4 DEF OperationsFit
<1>8. ASSUME status' = status, OperationFits(o)'
      PROVE  OperationsFit' /\ LedgerFits'
  BY <1>0, <1>2, <1>4, <1>8 DEF OperationsFit, LedgerFits, IsAct
<1>9. CASE AppendRaises(o)
  <2>1. pc'[o] = "idle" /\ event'[o] = None /\ status' = status
    BY <1>0, <1>9 DEF AppendRaises, Return, TypeOK
  <2> QED
    BY <1>8, <2>1 DEF OperationFits
<1>10. ASSUME NEW l \in {"request", "decide", "record"}, NEW t \in EventTypes,
              NEW k \in Commands, NEW a \in Approvals \cup {None},
              Begin(o, l, Entry(t, k, a)), status' = status,
              l = "request" => t = "approval_requested" /\ a \in Approvals
                               /\ status[a] = "none",
              l = "decide" => t \in Decisions /\ a \in Approvals
                              /\ status[a] = "requested",
              l = "record" => /\ t \notin Decisions \cup {"approval_requested"}
                              /\ t \in Lifecycle /\ k \in Gated =>
                                    /\ a \in Approvals /\ CommandOf[a] = k
                                    /\ status[a] = "approved"
       PROVE  OperationsFit' /\ LedgerFits'
  <2>1. pc'[o] = l /\ event'[o] = Entry(t, k, a)
    BY <1>0, <1>10 DEF Begin, TypeOK
  <2>2. /\ event'[o] # None /\ event'[o].type = t
        /\ event'[o].command = k /\ event'[o].approval = a
    BY <1>10, <2>1, EntryType
  <2>3. OperationFits(o)'
    BY <1>10, <2>1, <2>2 DEF OperationFits, IsAct
  <2> QED
    BY <1>8, <1>10, <2>3
<1>11. ASSUME NEW k \in Commands, RequestFreely(o, k)
       PROVE  OperationsFit' /\ LedgerFits'
  BY <1>10, <1>11 DEF RequestFreely, EventTypes, Decisions, Lifecycle
<1>12. ASSUME NEW a \in Approvals, RequestApproval(o, a)
       PROVE  OperationsFit' /\ LedgerFits'
  BY <1>10, <1>12, ApprovalAssumption DEF RequestApproval, EventTypes
<1>13. ASSUME NEW a \in Approvals, NEW d \in Decisions, DecideApproval(o, a, d)
       PROVE  OperationsFit' /\ LedgerFits'
  BY <1>10, <1>13, ApprovalAssumption DEF DecideApproval, EventTypes
<1>14. ASSUME NEW k \in Commands, NEW a \in Approvals \cup {None},
              NEW type \in Lifecycle, RecordLifecycle(o, k, a, type)
       PROVE  OperationsFit' /\ LedgerFits'
  BY <1>10, <1>14 DEF RecordLifecycle, RequireApprovedRecord, EventTypes,
                      Lifecycle, Decisions
<1> QED
  BY <1>6, <1>7, <1>9, <1>11, <1>12, <1>13, <1>14 DEF Silent

(* An appended event is one that the records agree with. *)
Fits(e) ==
    LET a == e.approval IN
    /\ e.type = "approval_requested" => a \in Approvals /\ Undecided(a)
    /\ e.type \in Decisions =>
          a \in Approvals /\ status[a] = e.type /\ Undecided(a)
    /\ IsAct(e) =>
          /\ a \in Approvals /\ CommandOf[a] = e.command
          /\ status[a] = "approved"

LEMMA AppendFits ==
    ASSUME ApprovalInv, NEW e \in AuditEvent, Record(e), status' = status,
           Fits(e)
    PROVE  LedgerFits' /\ LedgerTellsOneStory'
<1> DEFINE n == Len(ledger) + 1
<1>1. /\ n \in Nat /\ DOMAIN ledger = 1 .. n - 1 /\ DOMAIN ledger' = 1 .. n
      /\ ledger'[n] = e
      /\ \A i \in 1 .. n - 1 : ledger'[i] = ledger[i] /\ i # n
  BY LedgerGrows DEF ApprovalInv
<1>2. \A i \in DOMAIN ledger' : i = n \/ i \in DOMAIN ledger
  BY <1>1
<1> HIDE DEF n
<1>3. LedgerFits'
  BY <1>1, <1>2 DEF ApprovalInv, LedgerFits, Fits, IsAct
<1>4. ASSUME NEW i \in DOMAIN ledger', NEW j \in DOMAIN ledger'
      PROVE  LET d == ledger'[i]
                 f == ledger'[j]
             IN  /\ IsAct(f) =>
                       f.approval # None /\ CommandOf[f.approval] = f.command
                 /\ d.approval = f.approval /\ d.type \in Decisions =>
                       /\ f.type \in Decisions => i = j
                       /\ f.type = "approval_requested" => j < i
                       /\ IsAct(f) => d.type = "approved"
  <2>1. CASE i # n /\ j # n
    BY <1>1, <1>2, <2>1 DEF ApprovalInv, LedgerTellsOneStory
  <2>2. CASE i = n /\ j = n
    BY <1>1, <2>2, ApprovalAssumption
       DEF Fits, IsAct, Decisions, Lifecycle
  <2>3. CASE i # n /\ j = n
    <3>1. i \in DOMAIN ledger /\ ledger'[i] = ledger[i] /\ ledger'[j] = e
      BY <1>1, <1>2, <2>3
    <3>2. ledger[i].type \in Decisions =>
             /\ ledger[i].approval \in Approvals
             /\ status[ledger[i].approval] \in {ledger[i].type, "forgotten"}
      BY <3>1 DEF ApprovalInv, LedgerFits
    <3>3. ledger[i].approval = e.approval /\ ledger[i].type \in Decisions =>
             e.type \notin Decisions \cup {"approval_requested"}
      BY <3>1 DEF Fits, Undecided
    <3> QED
      BY <3>1, <3>2, <3>3, ApprovalAssumption DEF Fits, IsAct
  <2>4. CASE i = n /\ j # n
    <3>1. j \in DOMAIN ledger /\ ledger'[j] = ledger[j] /\ ledger'[i] = e /\ j < i
      BY <1>1, <1>2, <2>4
    <3>2. IsAct(ledger[j]) =>
             /\ ledger[j].approval \in Approvals
             /\ CommandOf[ledger[j].approval] = ledger[j].command
             /\ status[ledger[j].approval] \in {"approved", "forgotten"}
      BY <3>1 DEF ApprovalInv, LedgerFits
    <3>3. ledger[j].approval = e.approval /\ e.type \in Decisions =>
             ledger[j].type \notin Decisions
      BY <3>1 DEF Fits, Undecided
    <3> QED
      BY <3>1, <3>2, <3>3, ApprovalAssumption DEF Fits, Decisions
  <2> QED
    BY <2>1, <2>2, <2>3, <2>4
<1> QED
  BY <1>3, <1>4 DEF LedgerTellsOneStory, IsAct

LEMMA RequestFits ==
    ASSUME ApprovalInv, Alone', NEW o \in Operators, RecordRequest(o)
    PROVE  OperationsFit' /\ LedgerFits' /\ LedgerTellsOneStory'
<1> DEFINE e == Entry("requested", event[o].command, None)
<1>1. event[o] \in AuditEvent /\ OperationFits(o) /\ TypeOK
  BY DEF ApprovalInv, TypeOK, RecordRequest, OperationsFit, OperationFits
<1>2. e \in AuditEvent /\ e.type = "requested"
  BY <1>1, EventFields, EntryType DEF EventTypes
<1>3. Record(e) /\ status' = status
  BY DEF RecordRequest
<1>4. Fits(e)
  BY <1>2 DEF Fits, IsAct, Decisions, Lifecycle
<1> HIDE DEF e
<1>5. LedgerFits' /\ LedgerTellsOneStory'
  BY <1>2, <1>3, <1>4, AppendFits
<1>6. /\ event' = event /\ pc[o] = "request" /\ pc'[o] = "open"
      /\ \A p \in Operators \ {o} : pc'[p] = pc[p]
  BY <1>1 DEF RecordRequest, TypeOK
<1>7. OperationFits(o)'
  BY <1>1, <1>3, <1>6 DEF OperationFits
<1> QED
  BY <1>5, <1>6, <1>7, OthersIdle DEF OperationsFit

LEMMA EventFits ==
    ASSUME ApprovalInv, Alone', NEW o \in Operators, RecordEvent(o)
    PROVE  OperationsFit' /\ LedgerFits' /\ LedgerTellsOneStory'
<1>1. event[o] \in AuditEvent /\ OperationFits(o) /\ TypeOK
  BY DEF ApprovalInv, TypeOK, RecordEvent, OperationsFit, OperationFits
<1>2. Fits(event[o])
  BY <1>1 DEF Fits, OperationFits, RecordEvent
<1>3. LedgerFits' /\ LedgerTellsOneStory'
  BY <1>1, <1>2, AppendFits DEF RecordEvent
<1>4. /\ pc[o] = "record" /\ pc'[o] = "idle" /\ event'[o] = None
      /\ \A p \in Operators \ {o} : pc'[p] = pc[p] /\ event'[p] = event[p]
  BY <1>1 DEF RecordEvent, Return, TypeOK
<1>5. OperationFits(o)'
  BY <1>4 DEF OperationFits
<1> QED
  BY <1>3, <1>4, <1>5, OthersIdle DEF OperationsFit

LEMMA InvStep == Serial /\ ApprovalInv /\ [Next]_vars => ApprovalInv'
<1> SUFFICES ASSUME Serial, ApprovalInv, [Next]_vars
             PROVE  OperationsFit' /\ LedgerFits' /\ LedgerTellsOneStory'
  BY TypeStep, AloneStep DEF ApprovalInv
<1>0. TypeOK' /\ Alone' /\ TypeOK
  BY TypeStep, AloneStep DEF ApprovalInv
<1>1. CASE UNCHANGED vars
  BY <1>1 DEF vars, ApprovalInv, OperationsFit, OperationFits, LedgerFits,
              LedgerTellsOneStory, Undecided, IsAct
<1>2. CASE Crash
  <2>1. ledger' = ledger /\ \A p \in Operators : pc'[p] = "idle"
                                               /\ event'[p] = None
    BY <1>2 DEF Crash
  <2>2. OperationsFit'
    BY <2>1 DEF OperationsFit, OperationFits
  <2>3. ASSUME NEW a \in Approvals, status[a] # "none"
        PROVE  status'[a] = "forgotten"
    BY <1>2, <2>3 DEF Crash
  <2>4. LedgerFits'
    <3> SUFFICES ASSUME NEW i \in DOMAIN ledger
                 PROVE  LET e == ledger[i]
                            a == e.approval
                        IN  /\ e.type \in Decisions =>
                                  a \in Approvals
                                  /\ status'[a] \in {e.type, "forgotten"}
                            /\ IsAct(e) =>
                                  /\ a \in Approvals
                                  /\ CommandOf[a] = e.command
                                  /\ status'[a] \in {"approved", "forgotten"}
      BY <2>1 DEF LedgerFits, IsAct
    <3> QED
      BY <2>3 DEF ApprovalInv, LedgerFits, Decisions
  <2>5. LedgerTellsOneStory'
    BY <2>1 DEF ApprovalInv, LedgerTellsOneStory, IsAct
  <2> QED
    BY <2>2, <2>4, <2>5
<1>3. ASSUME NEW o \in Operators, Silent(o)
      PROVE  OperationsFit' /\ LedgerFits' /\ LedgerTellsOneStory'
  <2>1. ledger' = ledger
    BY <1>3 DEF Silent, StoreRequest, StoreDecision, AppendRaises,
           RequestFreely, RequestApproval, DecideApproval, RecordLifecycle
  <2>2. LedgerTellsOneStory'
    BY <2>1 DEF ApprovalInv, LedgerTellsOneStory, IsAct
  <2> QED
    BY <1>0, <1>3, <2>2, SilentFits
<1>4. ASSUME NEW o \in Operators, RecordRequest(o)
      PROVE  OperationsFit' /\ LedgerFits' /\ LedgerTellsOneStory'
  BY <1>0, <1>4, RequestFits
<1>5. ASSUME NEW o \in Operators, RecordEvent(o)
      PROVE  OperationsFit' /\ LedgerFits' /\ LedgerTellsOneStory'
  BY <1>0, <1>5, EventFits
<1> QED
  BY <1>1, <1>2, <1>3, <1>4, <1>5, NextCases

LEMMA InvHolds ==
    ASSUME Serial
    PROVE  Spec => []ApprovalInv
<1>1. Init => ApprovalInv
  BY DEF Init, ApprovalInv, TypeOK, Alone, OperationsFit, OperationFits,
         LedgerFits, LedgerTellsOneStory, Locations, Statuses
<1>2. ApprovalInv /\ [Next]_vars => ApprovalInv'
  BY InvStep
<1> QED
  BY <1>1, <1>2, PTL DEF Spec

(* One operation at a time, an approval has one decision on record, and    *)
(* what is recorded of its command is recorded under an approval of it.    *)
THEOREM OneStory ==
    ASSUME Serial
    PROVE  Spec => [](TypeOK /\ LedgerTellsOneStory)
<1>1. ApprovalInv => TypeOK /\ LedgerTellsOneStory
  BY DEF ApprovalInv
<1> QED
  BY <1>1, InvHolds, PTL

-----------------------------------------------------------------------------
(* The service implements DecideOnce *)

decisionBar ==
    [a \in Approvals |->
        IF status[a] \in {"none", "requested"} THEN "open" ELSE status[a]]

actedBar ==
    {ledger[i].approval : i \in {j \in DOMAIN ledger : IsAct(ledger[j])}}

LEMMA RefinedStep ==
    ASSUME Serial, ApprovalInv, [Next]_vars
    PROVE  Promise!Next \/ UNCHANGED <<decisionBar, actedBar>>
<1>0. TypeOK /\ OperationsFit
  BY DEF ApprovalInv
<1>1. CASE UNCHANGED vars
  BY <1>1 DEF vars, decisionBar, actedBar, IsAct
<1>2. CASE Crash
  <2> DEFINE held == {a \in Approvals : status[a] # "none"}
  <2>1. actedBar' = actedBar
    BY <1>2 DEF Crash, actedBar, IsAct
  <2>2. decisionBar' = [a \in Approvals |->
                          IF a \in held THEN "forgotten" ELSE decisionBar[a]]
    BY <1>2 DEF Crash, decisionBar
  <2>3. held \in SUBSET Approvals
    OBVIOUS
  <2> HIDE DEF held
  <2> QED
    BY <2>1, <2>2, <2>3 DEF Promise!Next, Promise!Forget, decisionBar, actedBar
<1>3. ASSUME NEW o \in Operators, StoreDecision(o)
      PROVE  Promise!Next
  <2> DEFINE a == event[o].approval
  <2>1. /\ a \in Approvals /\ status[a] = "requested"
        /\ event[o].type \in {"approved", "rejected"}
    BY <1>0, <1>3 DEF StoreDecision, OperationsFit, OperationFits, Decisions
  <2>2. status' = [status EXCEPT ![a] = event[o].type] /\ ledger' = ledger
    BY <1>3 DEF StoreDecision
  <2>3. decisionBar' = [decisionBar EXCEPT ![a] = event[o].type]
        /\ decisionBar[a] = "open" /\ actedBar' = actedBar
    BY <1>0, <2>1, <2>2 DEF decisionBar, actedBar, IsAct, TypeOK
  <2> QED
    BY <2>1, <2>3 DEF Promise!Next, Promise!Decide, decisionBar, actedBar
<1>4. ASSUME NEW o \in Operators, Silent(o), ~StoreDecision(o)
      PROVE  UNCHANGED <<decisionBar, actedBar>>
  <2>1. ledger' = ledger
    BY <1>4 DEF Silent, StoreRequest, AppendRaises,
           RequestFreely, RequestApproval, DecideApproval, RecordLifecycle
  <2>2. CASE StoreRequest(o)
    <3>1. /\ event[o].approval \in Approvals
          /\ status[event[o].approval] = "none"
          /\ status' = [status EXCEPT ![event[o].approval] = "requested"]
      BY <1>0, <2>2 DEF StoreRequest, OperationsFit, OperationFits
    <3> QED
      BY <1>0, <2>1, <3>1 DEF decisionBar, actedBar, IsAct, TypeOK
  <2>3. CASE ~StoreRequest(o)
    <3>1. status' = status
      BY <1>4, <2>3 DEF Silent, AppendRaises, RequestFreely, RequestApproval,
                        DecideApproval, RecordLifecycle
    <3> QED
      BY <2>1, <3>1 DEF decisionBar, actedBar, IsAct
  <2> QED
    BY <2>2, <2>3
<1>5. ASSUME NEW e \in AuditEvent, Record(e), status' = status
      PROVE  /\ decisionBar' = decisionBar
             /\ IsAct(e) => actedBar' = actedBar \cup {e.approval}
             /\ ~IsAct(e) => actedBar' = actedBar
  <2> DEFINE n == Len(ledger) + 1
  <2>1. /\ n \in Nat /\ DOMAIN ledger = 1 .. n - 1 /\ DOMAIN ledger' = 1 .. n
        /\ ledger'[n] = e
        /\ \A i \in 1 .. n - 1 : ledger'[i] = ledger[i] /\ i # n
    BY <1>0, <1>5, LedgerGrows
  <2>2. DOMAIN ledger' = DOMAIN ledger \cup {n}
    BY <2>1
  <2> HIDE DEF n
  <2>3. decisionBar' = decisionBar
    BY <1>5 DEF decisionBar
  <2>4. actedBar' = {ledger'[i].approval :
                        i \in {j \in DOMAIN ledger' : IsAct(ledger'[j])}}
    BY DEF actedBar, IsAct
  <2>5. ASSUME IsAct(e)
        PROVE  actedBar' = actedBar \cup {e.approval}
    <3> DEFINE acts == {j \in DOMAIN ledger : IsAct(ledger[j])}
    <3>1. {j \in DOMAIN ledger' : IsAct(ledger'[j])} = acts \cup {n}
      BY <2>1, <2>2, <2>5, SMTT(20)
    <3>2. \A i \in acts : ledger'[i] = ledger[i]
      BY <2>1
    <3> DEFINE approvals == {ledger[i].approval : i \in acts}
    <3>3. actedBar = approvals
      BY DEF actedBar
    <3>4. actedBar' = {ledger'[i].approval : i \in acts \cup {n}}
      BY <2>4, <3>1
    <3> HIDE DEF acts
    <3>5. {ledger'[i].approval : i \in acts \cup {n}} =
             approvals \cup {ledger'[n].approval}
      BY <3>2
    <3> QED
      BY <2>1, <3>3, <3>4, <3>5
  <2>6. ~IsAct(e) => actedBar' = actedBar
    BY <2>1, <2>2, <2>4 DEF actedBar
  <2> QED
    BY <2>3, <2>5, <2>6
<1>6. ASSUME NEW o \in Operators, RecordRequest(o)
      PROVE  UNCHANGED <<decisionBar, actedBar>>
  <2> DEFINE e == Entry("requested", event[o].command, None)
  <2>1. event[o] \in AuditEvent
    BY <1>0, <1>6 DEF RecordRequest, TypeOK, OperationsFit, OperationFits
  <2>2. e \in AuditEvent /\ e.type = "requested"
    BY <2>1, EventFields, EntryType DEF EventTypes
  <2>3. Record(e) /\ status' = status
    BY <1>6 DEF RecordRequest
  <2> HIDE DEF e
  <2>4. ~IsAct(e)
    BY <2>2 DEF IsAct, Lifecycle
  <2> QED
    BY <1>5, <2>2, <2>3, <2>4
<1>7. ASSUME NEW o \in Operators, RecordEvent(o)
      PROVE  Promise!Next \/ UNCHANGED <<decisionBar, actedBar>>
  <2>1. /\ event[o] \in AuditEvent /\ OperationFits(o) /\ pc[o] = "record"
        /\ Record(event[o]) /\ status' = status
    BY <1>0, <1>7 DEF RecordEvent, TypeOK, OperationsFit, OperationFits
  <2>2. CASE IsAct(event[o])
    <3> DEFINE a == event[o].approval
    <3>1. a \in Approvals /\ status[a] = "approved"
      BY <2>1, <2>2 DEF OperationFits
    <3>2. /\ decisionBar[a] = "approved" /\ decisionBar' = decisionBar
          /\ actedBar' = actedBar \cup {a}
      BY <1>5, <2>1, <2>2, <3>1 DEF decisionBar
    <3> QED
      BY <3>1, <3>2 DEF Promise!Next, Promise!Act, decisionBar, actedBar
  <2>3. CASE ~IsAct(event[o])
    BY <1>5, <2>1, <2>3
  <2> QED
    BY <2>2, <2>3
<1> QED
  BY <1>1, <1>2, <1>3, <1>4, <1>6, <1>7, NextCases

(* One operation at a time, the approval service implements DecideOnce.    *)
THEOREM ServiceDecidesOnce ==
    ASSUME Serial
    PROVE  Spec => IsDecideOnce
<1>1. Init => Promise!Init
  BY DEF Init, Promise!Init
<1>2. ApprovalInv /\ [Next]_vars => [Promise!Next]_(Promise!vars)
  BY RefinedStep DEF Promise!vars, decisionBar, actedBar
<1> QED
  BY <1>1, <1>2, InvHolds, PTL DEF Spec, IsDecideOnce, Promise!Spec

=============================================================================
