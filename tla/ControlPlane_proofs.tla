------------------------ MODULE ControlPlane_proofs ------------------------
(***************************************************************************)
(* Theorems about ControlPlane and about ReadModel, its pages, for every   *)
(* number of runs, calls, threads and contexts.                            *)
(***************************************************************************)
EXTENDS ReadModel, SequenceTheorems, FiniteSetTheorems, WellFoundedInduction,
        TLAPS

(***************************************************************************)
(* Typing.  TypeOK is inductive with two facts about the calls' locals:    *)
(* a call that has begun carries a command, and one that is past its read  *)
(* of the session holds what it read.                                      *)
(***************************************************************************)
Begun(c) == pc[c] # "idle"

CallsCarryCommands == \A c \in Calls : Begun(c) <=> cmd[c] # None

WritersHoldSessions ==
    \A c \in Calls : pc[c] \in {"write", "remember"} => held[c] # None

TypeInv == TypeOK /\ CallsCarryCommands /\ WritersHoldSessions

LEMMA TypeInit == Init => TypeInv
<1> SUFFICES ASSUME Init PROVE TypeInv
  OBVIOUS
<1> USE DEF Init
<1>1. sessions \in [Runs -> RuntimeSession \cup {None}]
      /\ receipts \in [Runs -> Calls \cup {None}]
      /\ approvals \in [Calls -> {"none", "requested", "approved"}]
  OBVIOUS
<1>2. ledger \in [Runs -> Seq(AuditEvent)]
  OBVIOUS
<1>3. pc \in [Calls -> Locations] /\ cmd \in [Calls -> Commands \cup {None}]
  BY DEF Locations
<1>4. NoContext \in DispatchContext
  BY DEF NoContext, DispatchContext
<1>5. ctx \in [Calls -> DispatchContext]
      /\ held \in [Calls -> RuntimeSession \cup {None}]
  BY <1>4
<1>6. CallsCarryCommands /\ WritersHoldSessions
  BY DEF CallsCarryCommands, WritersHoldSessions, Begun
<1> QED
  BY <1>1, <1>2, <1>3, <1>5, <1>6 DEF TypeInv, TypeOK

(* What typing says of a command, a session and an updated session. *)
LEMMA CommandTypes ==
    ASSUME NEW k \in Commands
    PROVE  /\ k # None
           /\ k.run \in Runs /\ k.context \in Contexts
           /\ k.target \in Modes \cup {None}
           /\ k.clone \in Runs \cup {None}
           /\ k.action = "mode switch" => k.target \in Modes
           /\ k.by \in {"operator", "recovery"}
BY ControlAssumption DEF CommandEnvelope

LEMMA UpdatedType ==
    ASSUME NEW k \in Commands, NEW s \in RuntimeSession
    PROVE  Updated(k, s) \in RuntimeSession
<1>1. FreshSession \in RuntimeSession
  BY ControlAssumption DEF FreshSession, RuntimeSession
<1> QED
  BY <1>1, CommandTypes DEF Updated, RuntimeSession

(* One event appended to one ledger keeps the ledgers typed. *)
LEMMA RecordType ==
    ASSUME TypeInv, NEW c \in Calls, Begun(c), NEW type \in EventTypes,
           NEW next \in Locations, next # "idle", Record(c, type, next),
           next \notin {"write", "remember"}
    PROVE  /\ ledger' \in [Runs -> Seq(AuditEvent)]
           /\ pc' \in [Calls -> Locations]
           /\ \A d \in Calls : pc'[d] # "idle" <=> pc[d] # "idle"
           /\ \A d \in Calls : pc'[d] \in {"write", "remember"}
                                 => pc[d] = pc'[d]
<1>1. [type |-> type, call |-> c] \in AuditEvent
  BY DEF AuditEvent
<1>2. cmd[c] \in Commands
  BY DEF TypeInv, TypeOK, CallsCarryCommands
<1>3. cmd[c].run \in Runs
  BY <1>2, CommandTypes
<1>4. ledger[cmd[c].run] \in Seq(AuditEvent)
  BY <1>3 DEF TypeInv, TypeOK
<1>5. Append(ledger[cmd[c].run], [type |-> type, call |-> c]) \in Seq(AuditEvent)
  BY <1>1, <1>4
<1>6. ledger' \in [Runs -> Seq(AuditEvent)]
  BY <1>3, <1>5 DEF Record, TypeInv, TypeOK
<1>7. \E l \in {next, "raised"} : Goto(c, l)
  BY DEF Record
<1> QED
  BY <1>6, <1>7 DEF Goto, TypeInv, TypeOK, Locations, Finished, Begun

LEMMA TypeStep == TypeInv /\ [Next]_vars => TypeInv'
<1> SUFFICES ASSUME TypeInv, [Next]_vars PROVE TypeInv'
  OBVIOUS
<1> USE DEF Begun
<1>1. ASSUME NEW r \in Runs, RegisterRun(r) PROVE TypeInv'
  <2>1. FreshSession \in RuntimeSession
    BY ControlAssumption DEF FreshSession, RuntimeSession
  <2> QED
    BY <1>1, <2>1 DEF RegisterRun, TypeInv, TypeOK, CallsCarryCommands,
       WritersHoldSessions
<1>2. ASSUME NEW c \in Calls, NEW k \in Commands, Submit(c, k) PROVE TypeInv'
  <2>1. k # None /\ k.run \in Runs
    BY CommandTypes
  <2>2. ctx' \in [Calls -> DispatchContext]
    <3>1. CASE sessions[k.run] = None
      BY <1>2, <3>1 DEF Submit, TypeInv, TypeOK
    <3>2. CASE sessions[k.run] # None
      <4>1. sessions[k.run] \in RuntimeSession
        BY <2>1, <3>2 DEF TypeInv, TypeOK
      <4>2. sessions[k.run].mode \in Modes
        BY <4>1 DEF RuntimeSession
      <4>3. ctx' = [ctx EXCEPT ![c].mode = sessions[k.run].mode]
        BY <1>2, <3>2 DEF Submit
      <4>4. ctx \in [Calls -> DispatchContext]
        BY DEF TypeInv, TypeOK
      <4> QED
        BY <4>2, <4>3, <4>4 DEF DispatchContext
    <3> QED
      BY <3>1, <3>2
  <2>3. pc' \in [Calls -> Locations] /\ cmd' \in [Calls -> Commands \cup {None}]
    BY <1>2 DEF Submit, Goto, TypeInv, TypeOK, Locations, Finished
  <2>4. CallsCarryCommands' /\ WritersHoldSessions'
    BY <1>2, <2>1 DEF Submit, Goto, TypeInv, TypeOK, CallsCarryCommands,
       WritersHoldSessions
  <2> QED
    BY <1>2, <2>2, <2>3, <2>4 DEF Submit, TypeInv, TypeOK
<1>3. ASSUME NEW c \in Calls, NEW k \in Commands, CallRuntime(c, k)
      PROVE TypeInv'
  <2>1. k # None
    BY CommandTypes
  <2> QED
    BY <1>3, <2>1 DEF CallRuntime, Goto, TypeInv, TypeOK, Locations, Finished,
       CallsCarryCommands, WritersHoldSessions
<1>4. ASSUME NEW c \in Calls, Dispatch(c) PROVE TypeInv'
  <2>1. cmd[c] \in Commands /\ cmd[c].run \in Runs
    BY <1>4, CommandTypes DEF Dispatch, TypeInv, TypeOK, CallsCarryCommands
  <2>2. ctx' \in [Calls -> DispatchContext]
    BY <1>4, <2>1, ZenonT(30) DEF Dispatch, TypeInv, TypeOK, DispatchContext
  <2>3. pc' \in [Calls -> Locations] /\ CallsCarryCommands'
        /\ WritersHoldSessions'
    BY <1>4 DEF Dispatch, Goto, TypeInv, TypeOK, Locations, Finished,
       CallsCarryCommands, WritersHoldSessions
  <2> QED
    BY <1>4, <2>2, <2>3 DEF Dispatch, TypeInv, TypeOK
<1>5. ASSUME NEW c \in Calls,
             \/ RecordRefused(c) \/ RecordDenied(c)
             \/ RecordRequest(c) \/ RequestApproval(c) \/ Approve(c)
             \/ RecordStarted(c) \/ RecordFailed(c) \/ RecordCompleted(c)
      PROVE TypeInv'
  <2>1. \E type \in EventTypes :
        \E next \in Locations \ {"idle", "write", "remember"} :
           Begun(c) /\ Record(c, type, next)
    BY <1>5 DEF RecordRefused, RecordDenied, RecordRequest, RequestApproval,
       Approve, RecordStarted, RecordFailed, RecordCompleted, EventTypes,
       Locations, Finished
  <2>2. /\ ledger' \in [Runs -> Seq(AuditEvent)]
        /\ pc' \in [Calls -> Locations]
        /\ \A d \in Calls : pc'[d] # "idle" <=> pc[d] # "idle"
        /\ \A d \in Calls : pc'[d] \in {"write", "remember"} => pc[d] = pc'[d]
    BY <2>1, RecordType
  <2>3. approvals' \in [Calls -> {"none", "requested", "approved"}]
        /\ UNCHANGED <<sessions, receipts, cmd, ctx, held>>
    BY <1>5 DEF RecordRefused, RecordDenied, RecordRequest, RequestApproval,
       Approve, RecordStarted, RecordFailed, RecordCompleted, TypeInv, TypeOK
  <2> QED
    BY <2>2, <2>3 DEF TypeInv, TypeOK, CallsCarryCommands, WritersHoldSessions
<1>6. ASSUME NEW c \in Calls, ReadSession(c) PROVE TypeInv'
  <2>1. cmd[c] \in Commands /\ cmd[c].run \in Runs
    BY <1>6, CommandTypes DEF ReadSession, TypeInv, TypeOK, CallsCarryCommands
  <2>2. CASE RuntimeRaises(cmd[c])
    BY <1>6, <2>2 DEF ReadSession, Goto, TypeInv, TypeOK, Locations, Finished,
       CallsCarryCommands, WritersHoldSessions
  <2>3. CASE ~RuntimeRaises(cmd[c])
    <3>1. sessions[cmd[c].run] \in RuntimeSession
          /\ sessions[cmd[c].run] # None
      BY <2>1, <2>3 DEF RuntimeRaises, TypeInv, TypeOK
    <3> QED
      BY <1>6, <2>3, <3>1 DEF ReadSession, Goto, TypeInv, TypeOK, Locations,
         Finished, CallsCarryCommands, WritersHoldSessions
  <2> QED
    BY <2>2, <2>3
<1>7. ASSUME NEW c \in Calls, WriteSession(c) PROVE TypeInv'
  <2> DEFINE updated == Updated(cmd[c], held[c])
  <2>1. cmd[c] \in Commands /\ cmd[c].run \in Runs
    BY <1>7, CommandTypes DEF WriteSession, TypeInv, TypeOK, CallsCarryCommands
  <2>2. held[c] \in RuntimeSession
    BY <1>7 DEF WriteSession, TypeInv, TypeOK, WritersHoldSessions
  <2>3. updated \in RuntimeSession /\ FreshSession \in RuntimeSession
    BY <2>1, <2>2, UpdatedType, ControlAssumption DEF FreshSession,
       RuntimeSession
  <2>4. sessions' \in [Runs -> RuntimeSession \cup {None}]
    BY <1>7, <2>3 DEF WriteSession, TypeInv, TypeOK
  <2>5. updated # None
    BY <2>3, ControlAssumption
  <2>6. held' = [held EXCEPT ![c] = updated]
        /\ \E l \in {"remember", "returned"} : pc' = [pc EXCEPT ![c] = l]
    BY <1>7 DEF WriteSession, Goto
  <2> QED
    BY <1>7, <2>3, <2>4, <2>5, <2>6 DEF WriteSession, TypeInv, TypeOK,
       Locations, Finished, CallsCarryCommands, WritersHoldSessions
<1>8. ASSUME NEW c \in Calls, RememberReceipt(c) PROVE TypeInv'
  BY <1>8 DEF RememberReceipt, Goto, TypeInv, TypeOK, Locations, Finished,
     CallsCarryCommands, WritersHoldSessions
<1>9. CASE Crash
  BY <1>9, ControlAssumption DEF Crash, InFlight, TypeInv, TypeOK, Locations,
     Finished, DispatchContext, NoContext, CallsCarryCommands,
     WritersHoldSessions
<1>10. CASE UNCHANGED vars
  BY <1>10 DEF vars, TypeInv, TypeOK, CallsCarryCommands, WritersHoldSessions
<1> QED
  BY <1>1, <1>2, <1>3, <1>4, <1>5, <1>6, <1>7, <1>8, <1>9, <1>10
     DEF Next, Step

LEMMA TypeInvariant == Spec => []TypeInv
BY TypeInit, TypeStep, PTL DEF Spec

(* The control plane's state is well typed. *)
THEOREM TypeCorrect == Spec => []TypeOK
<1>1. TypeInv => TypeOK
  BY DEF TypeInv
<1> QED
  BY <1>1, TypeInvariant, PTL

-----------------------------------------------------------------------------
(***************************************************************************)
(* Approval.  A control command is started only under an approval because  *)
(*   - what a receipt, a captured context or a call past its approval      *)
(*     refers to is an approval that is on record (HasApproval),           *)
(*   - a control command the dispatcher let through captured a receipt     *)
(*     that unlocks it (Cleared), and                                      *)
(*   - ledgers only grow and a call keeps its command (Grows), so what is  *)
(*     on record stays there, a crash included.                            *)
(***************************************************************************)
HasApproval(t) ==
    /\ cmd[t] # None
    /\ cmd[t].action = "mode switch"
    /\ \E j \in 1 .. Len(ledger[cmd[t].run]) :
          ledger[cmd[t].run][j] = [type |-> "approved", call |-> t]

EventsAreOwn ==
    \A r \in Runs : \A i \in 1 .. Len(ledger[r]) :
        LET c == ledger[r][i].call IN cmd[c] # None /\ cmd[c].run = r

NoEarlyRecord ==
    \A c \in Calls :
        pc[c] \in {"idle", "context", "request", "approval"}
            => approvals[c] = "none"

ReceiptsIssued ==
    \A r \in Runs : receipts[r] # None =>
        /\ HasApproval(receipts[r])
        /\ cmd[receipts[r]].run = r
        /\ approvals[receipts[r]] = "approved"

CapturesIssued ==
    \A c \in Calls : ctx[c].receipt # None => HasApproval(ctx[c].receipt)

PastApproval ==
    \A c \in Calls :
        /\ pc[c] \in {"start", "read", "write", "fail", "remember", "complete"}
        /\ cmd[c].action = "mode switch"
        => HasApproval(c) /\ approvals[c] = "approved"

Cleared ==
    \A c \in Calls :
        /\ pc[c] \in {"request", "approval", "approve", "start"}
        /\ cmd[c].action \in ControlActions
        => ControlIsUnlockedFor(ctx[c].receipt, cmd[c].run, ctx[c].mode,
                                cmd[c].context)

SafetyInv ==
    /\ TypeInv
    /\ EventsAreOwn
    /\ NoEarlyRecord
    /\ ReceiptsIssued
    /\ CapturesIssued
    /\ PastApproval
    /\ Cleared
    /\ StartedUnderApproval

LEMMA SafetyInit == Init => SafetyInv
<1> SUFFICES ASSUME Init PROVE SafetyInv
  OBVIOUS
<1>1. TypeInv
  BY TypeInit
<1>2. \A r \in Runs : Len(ledger[r]) = 0
  BY DEF Init
<1>3. EventsAreOwn /\ StartedUnderApproval
  BY <1>2 DEF EventsAreOwn, StartedUnderApproval
<1>4. NoEarlyRecord /\ ReceiptsIssued /\ CapturesIssued /\ PastApproval
      /\ Cleared
  BY DEF Init, NoContext, NoEarlyRecord, ReceiptsIssued, CapturesIssued,
     PastApproval, Cleared
<1> QED
  BY <1>1, <1>3, <1>4 DEF SafetyInv

LEMMA EventTyped ==
    ASSUME TypeInv, NEW r \in Runs, NEW i \in 1 .. Len(ledger[r])
    PROVE  ledger[r][i].type \in EventTypes /\ ledger[r][i].call \in Calls
<1>1. ledger[r] \in Seq(AuditEvent)
  BY DEF TypeInv, TypeOK
<1>2. ledger[r][i] \in AuditEvent
  BY <1>1
<1> QED
  BY <1>2 DEF AuditEvent

(* What Append leaves at the end of a sequence. *)
LEMMA AppendLast ==
    ASSUME NEW S, NEW s \in Seq(S), NEW e \in S
    PROVE  /\ Len(s) + 1 \in 1 .. Len(Append(s, e))
           /\ Append(s, e)[Len(s) + 1] = e
<1>1. Len(s) \in Nat /\ Len(Append(s, e)) = Len(s) + 1
  OBVIOUS
<1>2. Append(s, e)[Len(s) + 1] = e
  OBVIOUS
<1> QED
  BY <1>1, <1>2

(* The effect of a recorded event on the ledgers. *)
LEMMA RecordEffect ==
    ASSUME TypeInv, NEW c \in Calls, Begun(c), NEW type \in EventTypes,
           NEW next, Record(c, type, next)
    PROVE  /\ \A r \in Runs :
                 /\ Len(ledger[r]) <= Len(ledger'[r])
                 /\ \A i \in 1 .. Len(ledger[r]) : ledger'[r][i] = ledger[r][i]
           /\ \A r \in Runs : \A i \in 1 .. Len(ledger'[r]) :
                 \/ i \in 1 .. Len(ledger[r])
                 \/ /\ i = Len(ledger[r]) + 1
                    /\ r = cmd[c].run
                    /\ ledger'[r][i] = [type |-> type, call |-> c]
<1> DEFINE run == cmd[c].run
           event == [type |-> type, call |-> c]
<1>1. run \in Runs
  BY CommandTypes DEF TypeInv, TypeOK, CallsCarryCommands, Begun
<1>2. \A r \in Runs : ledger[r] \in Seq(AuditEvent)
  BY DEF TypeInv, TypeOK
<1>3. event \in AuditEvent
  BY DEF AuditEvent
<1>4. CASE UNCHANGED ledger
  BY <1>2, <1>4
<1>5. CASE ledger' = [ledger EXCEPT ![run] = Append(@, event)]
  <2>1. \A r \in Runs : ledger'[r] = IF r = run THEN Append(ledger[r], event)
                                               ELSE ledger[r]
    BY <1>1, <1>5 DEF TypeInv, TypeOK
  <2>2. \A r \in Runs :
           /\ Len(Append(ledger[r], event)) = Len(ledger[r]) + 1
           /\ \A i \in 1 .. Len(ledger[r]) + 1 :
                 Append(ledger[r], event)[i] =
                    IF i = Len(ledger[r]) + 1 THEN event ELSE ledger[r][i]
    BY <1>2, <1>3
  <2>3. ASSUME NEW r \in Runs
        PROVE  /\ Len(ledger[r]) <= Len(ledger'[r])
               /\ \A i \in 1 .. Len(ledger[r]) : ledger'[r][i] = ledger[r][i]
               /\ \A i \in 1 .. Len(ledger'[r]) :
                     \/ i \in 1 .. Len(ledger[r])
                     \/ /\ i = Len(ledger[r]) + 1
                        /\ r = run
                        /\ ledger'[r][i] = event
    <3> HIDE DEF event
    <3>1. Len(ledger[r]) \in Nat
      BY <1>2
    <3>2. CASE r = run
      <4> DEFINE n == Len(ledger[r])
                 longer == Append(ledger[r], event)
      <4>1. Len(longer) = n + 1
            /\ \A i \in 1 .. n + 1 :
                  longer[i] = IF i = n + 1 THEN event ELSE ledger[r][i]
        BY <2>2
      <4>2. ledger'[r] = longer
        BY <2>1, <3>2
      <4> HIDE DEF n, longer
      <4>3. n \in Nat
        BY <3>1 DEF n
      <4>4. n <= Len(longer) /\ \A i \in 1 .. n : longer[i] = ledger[r][i]
        BY <4>1, <4>3
      <4>5. ASSUME NEW i \in 1 .. Len(longer)
            PROVE  i \in 1 .. n \/ (i = n + 1 /\ longer[i] = event)
        <5>1. i \in 1 .. n + 1
          BY <4>1
        <5>2. i \in 1 .. n \/ i = n + 1
          BY <4>3, <5>1
        <5> QED
          BY <4>1, <5>1, <5>2
      <4> QED
        BY <3>2, <4>2, <4>4, <4>5 DEF n
    <3>3. CASE r # run
      BY <2>1, <3>1, <3>3
    <3> QED
      BY <3>2, <3>3
  <2> QED
    BY <2>3
<1> QED
  BY <1>4, <1>5 DEF Record

(* Every step that records an event, seen from its call. *)
LEMMA RecordSteps ==
    ASSUME NEW c \in Calls,
           \/ RecordRefused(c) \/ RecordDenied(c)
           \/ RecordRequest(c) \/ RequestApproval(c) \/ Approve(c)
           \/ RecordStarted(c) \/ RecordFailed(c) \/ RecordCompleted(c)
    PROVE  /\ Begun(c)
           /\ \E type \in EventTypes, next \in Locations :
                 /\ Record(c, type, next)
                 /\ type = "started" => pc[c] = "start"
           /\ UNCHANGED <<sessions, receipts, cmd, ctx, held>>
BY DEF RecordRefused, RecordDenied, RecordRequest, RequestApproval, Approve,
   RecordStarted, RecordFailed, RecordCompleted, EventTypes, Locations,
   Finished, Begun

(* Ledgers only grow, one event at a time, and commands stay. *)
LEMMA Grows ==
    ASSUME TypeInv, [Next]_vars
    PROVE  /\ \A c \in Calls : cmd[c] # None => cmd'[c] = cmd[c]
           /\ \A r \in Runs :
                 /\ Len(ledger[r]) <= Len(ledger'[r])
                 /\ \A i \in 1 .. Len(ledger[r]) : ledger'[r][i] = ledger[r][i]
           /\ \A r \in Runs : \A i \in 1 .. Len(ledger'[r]) :
                 \/ i \in 1 .. Len(ledger[r])
                 \/ \E c \in Calls :
                       /\ Begun(c)
                       /\ r = cmd[c].run
                       /\ i = Len(ledger[r]) + 1
                       /\ ledger'[r][i].call = c
                       /\ ledger'[r][i].type = "started" => pc[c] = "start"
<1>1. CASE \E c \in Calls :
             \/ RecordRefused(c) \/ RecordDenied(c)
             \/ RecordRequest(c) \/ RequestApproval(c) \/ Approve(c)
             \/ RecordStarted(c) \/ RecordFailed(c) \/ RecordCompleted(c)
  <2>1. PICK c \in Calls, type \in EventTypes, next \in Locations :
             /\ Begun(c) /\ Record(c, type, next)
             /\ type = "started" => pc[c] = "start"
             /\ UNCHANGED cmd
    BY <1>1, RecordSteps
  <2>2. /\ \A r \in Runs :
              /\ Len(ledger[r]) <= Len(ledger'[r])
              /\ \A i \in 1 .. Len(ledger[r]) : ledger'[r][i] = ledger[r][i]
        /\ \A r \in Runs : \A i \in 1 .. Len(ledger'[r]) :
              \/ i \in 1 .. Len(ledger[r])
              \/ /\ i = Len(ledger[r]) + 1
                 /\ r = cmd[c].run
                 /\ ledger'[r][i] = [type |-> type, call |-> c]
    BY <2>1, RecordEffect
  <2> QED
    BY <2>1, <2>2
<1>2. CASE /\ UNCHANGED ledger
           /\ \A c \in Calls : cmd[c] # None => cmd'[c] = cmd[c]
  <2>1. \A r \in Runs : Len(ledger[r]) \in Nat
    BY DEF TypeInv, TypeOK
  <2> QED
    BY <1>2, <2>1
<1>3. ASSUME NEW c \in Calls, NEW k \in Commands,
             Submit(c, k) \/ CallRuntime(c, k)
      PROVE  UNCHANGED ledger /\ \A d \in Calls : cmd[d] # None => cmd'[d] = cmd[d]
  BY <1>3 DEF Submit, CallRuntime, TypeInv, TypeOK, CallsCarryCommands, Begun
<1>4. ASSUME NEW c \in Calls,
             \/ Dispatch(c) \/ ReadSession(c) \/ WriteSession(c)
             \/ RememberReceipt(c)
      PROVE  UNCHANGED <<ledger, cmd>>
  BY <1>4 DEF Dispatch, ReadSession, WriteSession, RememberReceipt
<1>5. ASSUME NEW r \in Runs, RegisterRun(r) PROVE UNCHANGED <<ledger, cmd>>
  BY <1>5 DEF RegisterRun
<1>6. Crash \/ UNCHANGED vars => UNCHANGED <<ledger, cmd>>
  BY DEF Crash, vars
<1> QED
  BY <1>1, <1>2, <1>3, <1>4, <1>5, <1>6 DEF Next, Step

LEMMA ApprovalStays ==
    ASSUME TypeInv, [Next]_vars, NEW t \in Calls, HasApproval(t)
    PROVE  HasApproval(t)' /\ cmd'[t] = cmd[t]
<1>1. cmd'[t] = cmd[t]
  BY Grows DEF HasApproval
<1>2. cmd[t].run \in Runs
  BY CommandTypes DEF HasApproval, TypeInv, TypeOK
<1>3. Len(ledger[cmd[t].run]) <= Len(ledger'[cmd[t].run])
      /\ \A i \in 1 .. Len(ledger[cmd[t].run]) :
            ledger'[cmd[t].run][i] = ledger[cmd[t].run][i]
  BY <1>2, Grows
<1>4. Len(ledger[cmd[t].run]) \in Nat /\ Len(ledger'[cmd[t].run]) \in Nat
  BY <1>2, TypeStep DEF TypeInv, TypeOK
<1>5. PICK j \in 1 .. Len(ledger[cmd[t].run]) :
           ledger[cmd[t].run][j] = [type |-> "approved", call |-> t]
  BY DEF HasApproval
<1>6. /\ j \in 1 .. Len(ledger'[cmd'[t].run])
      /\ ledger'[cmd'[t].run][j] = [type |-> "approved", call |-> t]
  BY <1>1, <1>3, <1>4, <1>5
<1> QED
  BY <1>1, <1>6 DEF HasApproval

LEMMA EventsAreOwnStep ==
    ASSUME TypeInv, EventsAreOwn, [Next]_vars
    PROVE  EventsAreOwn'
<1> SUFFICES ASSUME NEW r \in Runs, NEW i \in 1 .. Len(ledger'[r])
             PROVE  /\ cmd'[ledger'[r][i].call] # None
                    /\ cmd'[ledger'[r][i].call].run = r
  BY DEF EventsAreOwn
<1>1. CASE i \in 1 .. Len(ledger[r])
  <2>1. ledger'[r][i] = ledger[r][i]
    BY <1>1, Grows
  <2>2. ledger[r][i].call \in Calls
    BY <1>1, EventTyped
  <2> QED
    BY <1>1, <2>1, <2>2, Grows DEF EventsAreOwn
<1>2. CASE i \notin 1 .. Len(ledger[r])
  <2>1. PICK c \in Calls : Begun(c) /\ r = cmd[c].run /\ ledger'[r][i].call = c
    BY <1>2, Grows
  <2>2. cmd[c] # None
    BY <2>1 DEF TypeInv, CallsCarryCommands
  <2> QED
    BY <2>1, <2>2, Grows
<1> QED
  BY <1>1, <1>2

LEMMA StartedStep ==
    ASSUME SafetyInv, [Next]_vars
    PROVE  StartedUnderApproval'
<1> USE DEF SafetyInv
<1> SUFFICES ASSUME NEW r \in Runs, NEW i \in 1 .. Len(ledger'[r]),
                    ledger'[r][i].type = "started",
                    cmd'[ledger'[r][i].call].action \in ControlActions
             PROVE  \E j \in 1 .. i - 1 :
                       ApprovalCovers(r, j, cmd[ledger[r][i].call])'
  BY DEF StartedUnderApproval
<1>1. ledger[r] \in Seq(AuditEvent) /\ Len(ledger[r]) \in Nat
  BY DEF TypeInv, TypeOK
<1>2. \A j \in 1 .. Len(ledger[r]) :
         /\ ledger'[r][j] = ledger[r][j]
         /\ cmd'[ledger[r][j].call] = cmd[ledger[r][j].call]
  <2>1. \A j \in 1 .. Len(ledger[r]) : ledger[r][j].call \in Calls
    BY EventTyped
  <2> QED
    BY <2>1, Grows DEF EventsAreOwn
<1>3. CASE i \in 1 .. Len(ledger[r])
  <2>1. PICK j \in 1 .. i - 1 : ApprovalCovers(r, j, cmd[ledger[r][i].call])
    BY <1>2, <1>3 DEF StartedUnderApproval
  <2>2. j \in 1 .. Len(ledger[r])
    BY <1>1, <1>3
  <2>3. ApprovalCovers(r, j, cmd[ledger[r][i].call])'
    BY <1>2, <1>3, <2>1, <2>2 DEF ApprovalCovers
  <2> QED
    BY <2>3
<1>4. CASE i \notin 1 .. Len(ledger[r])
  <2>1. PICK c \in Calls :
             /\ Begun(c) /\ r = cmd[c].run /\ i = Len(ledger[r]) + 1
             /\ ledger'[r][i].call = c /\ pc[c] = "start"
    BY <1>4, Grows
  <2>2. cmd[c] # None /\ cmd'[c] = cmd[c]
    BY <2>1, Grows DEF TypeInv, CallsCarryCommands
  <2> DEFINE t == ctx[c].receipt
  <2>3. /\ t # None /\ ctx[c].mode # Obs
        /\ cmd[t].run = r /\ cmd[t].context = cmd[c].context
        /\ cmd[t].target = ctx[c].mode
    BY <2>1, <2>2 DEF Cleared, ControlIsUnlockedFor, IsActiveFor
  <2>4. t \in Calls /\ HasApproval(t)
    BY <2>3 DEF CapturesIssued, TypeInv, TypeOK, DispatchContext
  <2>5. cmd'[t] = cmd[t]
    BY <2>4, Grows DEF HasApproval
  <2>6. PICK j \in 1 .. Len(ledger[r]) :
             ledger[r][j] = [type |-> "approved", call |-> t]
    BY <2>3, <2>4 DEF HasApproval
  <2>7. ApprovalCovers(r, j, cmd[ledger[r][i].call])'
    <3>1. ledger'[r][j] = [type |-> "approved", call |-> t]
      BY <1>2, <2>6
    <3>2. cmd'[t].action = "mode switch"
      BY <2>4, <2>5 DEF HasApproval
    <3>3. cmd'[ledger'[r][i].call] = cmd[c]
      BY <2>1, <2>2
    <3>4. /\ ledger'[r][j].type = "approved" /\ ledger'[r][j].call = t
          /\ cmd'[t].run = r /\ cmd'[t].context = cmd[c].context
          /\ cmd'[t].target # Obs
      BY <2>3, <2>5, <3>1
    <3> HIDE DEF t
    <3> QED
      BY <3>2, <3>3, <3>4 DEF ApprovalCovers
  <2>8. j \in 1 .. i - 1
    BY <1>1, <2>1
  <2> QED
    BY <2>7, <2>8
<1> QED
  BY <1>3, <1>4

(* A call's place, command, record and locals change only by a step of its *)
(* own, unless the process stops.                                          *)
LEMMA Moves ==
    ASSUME TypeInv, [Next]_vars, ~Crash, NEW c \in Calls
    PROVE  \/ Step(c)
           \/ \E k \in Commands : Submit(c, k) \/ CallRuntime(c, k)
           \/ /\ pc'[c] = pc[c] /\ cmd'[c] = cmd[c] /\ ctx'[c] = ctx[c]
              /\ held'[c] = held[c] /\ approvals'[c] = approvals[c]
<1> DEFINE Still == /\ pc'[c] = pc[c] /\ cmd'[c] = cmd[c] /\ ctx'[c] = ctx[c]
                    /\ held'[c] = held[c] /\ approvals'[c] = approvals[c]
<1> USE DEF TypeInv, TypeOK
<1>1. ASSUME NEW d \in Calls \ {c}, NEW k \in Commands,
             Submit(d, k) \/ CallRuntime(d, k)
      PROVE  Still
  BY <1>1 DEF Submit, CallRuntime, Goto
<1>2. ASSUME NEW d \in Calls \ {c},
             \/ Dispatch(d) \/ ReadSession(d) \/ WriteSession(d)
             \/ RememberReceipt(d)
      PROVE  Still
  BY <1>2 DEF Dispatch, ReadSession, WriteSession, RememberReceipt, Goto
<1>3. ASSUME NEW d \in Calls \ {c},
             \/ RecordRefused(d) \/ RecordDenied(d) \/ RecordRequest(d)
             \/ RecordStarted(d) \/ RecordFailed(d) \/ RecordCompleted(d)
             \/ RequestApproval(d) \/ Approve(d)
      PROVE  Still
  BY <1>3 DEF RecordRefused, RecordDenied, RecordRequest, RecordStarted,
     RecordFailed, RecordCompleted, RequestApproval, Approve, Record, Goto
<1>4. ASSUME NEW r \in Runs, RegisterRun(r) PROVE Still
  BY <1>4 DEF RegisterRun
<1>5. UNCHANGED vars => Still
  BY DEF vars
<1> QED
  BY <1>1, <1>2, <1>3, <1>4, <1>5 DEF Next, Step

LEMMA NoEarlyRecordStep ==
    ASSUME TypeInv, NoEarlyRecord, [Next]_vars
    PROVE  NoEarlyRecord'
<1> USE DEF NoEarlyRecord, TypeInv, TypeOK
<1>1. ASSUME NEW r \in Runs, RegisterRun(r) PROVE NoEarlyRecord'
  BY <1>1 DEF RegisterRun
<1>2. ASSUME NEW c \in Calls, NEW k \in Commands,
             Submit(c, k) \/ CallRuntime(c, k)
      PROVE NoEarlyRecord'
  BY <1>2 DEF Submit, CallRuntime, Goto
<1>3. ASSUME NEW c \in Calls,
             \/ Dispatch(c) \/ ReadSession(c) \/ WriteSession(c)
             \/ RememberReceipt(c)
      PROVE NoEarlyRecord'
  BY <1>3 DEF Dispatch, ReadSession, WriteSession, RememberReceipt, Goto
<1>4. ASSUME NEW c \in Calls,
             \/ RecordRefused(c) \/ RecordDenied(c) \/ RecordRequest(c)
             \/ RecordStarted(c) \/ RecordFailed(c) \/ RecordCompleted(c)
      PROVE NoEarlyRecord'
  BY <1>4 DEF RecordRefused, RecordDenied, RecordRequest, RecordStarted,
     RecordFailed, RecordCompleted, Record, Goto
<1>5. ASSUME NEW c \in Calls, RequestApproval(c) \/ Approve(c)
      PROVE NoEarlyRecord'
  BY <1>5 DEF RequestApproval, Approve, Record, Goto
<1>6. Crash => NoEarlyRecord'
  BY DEF Crash
<1>7. UNCHANGED vars => NoEarlyRecord'
  BY DEF vars
<1> QED
  BY <1>1, <1>2, <1>3, <1>4, <1>5, <1>6, <1>7 DEF Next, Step

(* An approved record of a past approval stays, but for a crash. *)
LEMMA ReceiptsIssuedStep ==
    ASSUME SafetyInv, [Next]_vars
    PROVE  ReceiptsIssued'
<1> USE DEF SafetyInv
<1> SUFFICES ASSUME NEW r \in Runs, receipts'[r] # None
             PROVE  /\ HasApproval(receipts[r])'
                    /\ cmd'[receipts'[r]].run = r
                    /\ approvals'[receipts'[r]] = "approved"
  BY DEF ReceiptsIssued
<1>1. CASE receipts'[r] = receipts[r] /\ ~Crash
  <2>1. PICK t \in Calls : /\ t = receipts[r] /\ HasApproval(t)
                           /\ cmd[t].run = r /\ approvals[t] = "approved"
    BY <1>1 DEF ReceiptsIssued, TypeInv, TypeOK
  <2>2. HasApproval(t)' /\ cmd'[t] = cmd[t]
    BY <2>1, ApprovalStays
  <2>3. approvals'[t] = "approved"
    <3>1. ASSUME NEW c \in Calls, RequestApproval(c) \/ Approve(c)
          PROVE  approvals'[t] = "approved"
      BY <2>1, <3>1 DEF RequestApproval, Approve, NoEarlyRecord, TypeInv, TypeOK
    <3>2. ASSUME NEW c \in Calls,
                 \/ RecordRefused(c) \/ RecordDenied(c) \/ RecordRequest(c)
                 \/ RecordStarted(c) \/ RecordFailed(c) \/ RecordCompleted(c)
                 \/ Dispatch(c) \/ ReadSession(c) \/ WriteSession(c)
                 \/ RememberReceipt(c)
          PROVE  UNCHANGED approvals
      BY <3>2 DEF RecordRefused, RecordDenied, RecordRequest, RecordStarted,
         RecordFailed, RecordCompleted, Dispatch, ReadSession, WriteSession,
         RememberReceipt
    <3>3. ASSUME NEW c \in Calls, NEW k \in Commands,
                 Submit(c, k) \/ CallRuntime(c, k)
          PROVE  UNCHANGED approvals
      BY <3>3 DEF Submit, CallRuntime
    <3>4. ASSUME NEW q \in Runs, RegisterRun(q) PROVE UNCHANGED approvals
      BY <3>4 DEF RegisterRun
    <3> QED
      BY <1>1, <2>1, <3>1, <3>2, <3>3, <3>4 DEF Next, Step, vars
  <2> QED
    BY <1>1, <2>1, <2>2, <2>3 DEF HasApproval
<1>2. CASE receipts'[r] # receipts[r] /\ ~Crash
  <2>1. PICK c \in Calls : RememberReceipt(c)
    BY <1>2 DEF Next, Step, vars, RegisterRun, Submit, CallRuntime, Dispatch,
       RecordRefused, RecordDenied, RecordRequest, RequestApproval, Approve,
       RecordStarted, RecordFailed, RecordCompleted, ReadSession, WriteSession
  <2>2. receipts'[r] = c /\ cmd[c].action = "mode switch" /\ r = cmd[c].run
        /\ pc[c] = "remember" /\ UNCHANGED <<approvals, cmd>>
    BY <1>2, <2>1 DEF RememberReceipt, TypeInv, TypeOK
  <2>3. HasApproval(c) /\ approvals[c] = "approved"
    BY <2>2 DEF PastApproval
  <2>4. HasApproval(c)'
    BY <2>3, ApprovalStays
  <2> QED
    BY <2>2, <2>3, <2>4 DEF HasApproval
<1>3. CASE Crash
  BY <1>3 DEF Crash
<1> QED
  BY <1>1, <1>2, <1>3

LEMMA CapturesIssuedStep ==
    ASSUME SafetyInv, [Next]_vars
    PROVE  CapturesIssued'
<1> USE DEF SafetyInv
<1> SUFFICES ASSUME NEW c \in Calls, ctx'[c].receipt # None
             PROVE  HasApproval(ctx[c].receipt)'
  BY DEF CapturesIssued
<1>1. CASE ctx'[c].receipt = ctx[c].receipt
  <2>1. PICK t \in Calls : t = ctx[c].receipt /\ HasApproval(t)
    BY <1>1 DEF CapturesIssued, TypeInv, TypeOK, DispatchContext
  <2>2. HasApproval(t)'
    BY <2>1, ApprovalStays
  <2> QED
    BY <1>1, <2>1, <2>2 DEF HasApproval
<1>2. CASE ctx'[c].receipt # ctx[c].receipt
  <2>1. ~Crash
    BY DEF Crash, NoContext
  <2>2. ASSUME NEW d \in Calls, NEW k \in Commands, Submit(d, k)
        PROVE  ctx'[c].receipt = ctx[c].receipt
    BY <2>2 DEF Submit, TypeInv, TypeOK, DispatchContext
  <2>3. PICK d \in Calls : Dispatch(d)
    BY <1>2, <2>1, <2>2 DEF Next, Step, vars, RegisterRun, CallRuntime,
       RecordRefused, RecordDenied, RecordRequest, RequestApproval, Approve,
       RecordStarted, RecordFailed, RecordCompleted, ReadSession,
       WriteSession, RememberReceipt
  <2> DEFINE run == cmd[d].run
  <2>4. run \in Runs
    BY <2>3, CommandTypes DEF Dispatch, TypeInv, TypeOK, CallsCarryCommands,
       Begun
  <2>5. ctx'[c].receipt = receipts[run]
    BY <1>2, <2>3 DEF Dispatch, TypeInv, TypeOK, DispatchContext
  <2>6. PICK t \in Calls : t = receipts[run] /\ HasApproval(t)
    BY <2>4, <2>5 DEF ReceiptsIssued, TypeInv, TypeOK
  <2>7. HasApproval(t)'
    BY <2>6, ApprovalStays
  <2> QED
    BY <2>5, <2>6, <2>7 DEF HasApproval
<1> QED
  BY <1>1, <1>2

LEMMA PastApprovalStep ==
    ASSUME SafetyInv, [Next]_vars
    PROVE  PastApproval'
<1> USE DEF SafetyInv
<1> DEFINE Past == {"start", "read", "write", "fail", "remember", "complete"}
<1> SUFFICES ASSUME NEW c \in Calls, pc'[c] \in Past,
                    cmd'[c].action = "mode switch"
             PROVE  HasApproval(c)' /\ approvals'[c] = "approved"
  BY DEF PastApproval
<1>1. ~Crash
  BY DEF Crash, InFlight, Finished, TypeInv, TypeOK
<1>2. ASSUME NEW k \in Commands, Submit(c, k) PROVE FALSE
  BY <1>2 DEF Submit, Goto, TypeInv, TypeOK
<1>3. ASSUME NEW k \in Commands, CallRuntime(c, k) PROVE FALSE
  <2>1. k.action # "mode switch"
    BY <1>3, ControlAssumption DEF CallRuntime, RecoveryActions
  <2> QED
    BY <1>3, <2>1 DEF CallRuntime, TypeInv, TypeOK
<1>4. CASE /\ pc[c] \in Past /\ cmd'[c] = cmd[c]
           /\ approvals'[c] = approvals[c]
  BY <1>4, ApprovalStays DEF PastApproval
<1>5. CASE Approve(c)
  <2>1. pc'[c] = "start" => Record(c, "approved", "start") /\ Begun(c)
    BY <1>5 DEF Approve, Begun
  <2>2. pc'[c] = "start" /\ UNCHANGED cmd /\ approvals'[c] = "approved"
    BY <1>5 DEF Approve, Record, Goto, TypeInv, TypeOK
  <2>3. cmd[c] # None /\ cmd[c].run \in Runs
    BY <2>1, <2>2, CommandTypes DEF TypeInv, TypeOK, CallsCarryCommands
  <2>4. ledger' = [ledger EXCEPT ![cmd[c].run] =
                      Append(@, [type |-> "approved", call |-> c])]
    BY <1>5, <2>2 DEF Approve, Record, Goto, TypeInv, TypeOK
  <2> DEFINE event == [type |-> "approved", call |-> c]
             old == ledger[cmd[c].run]
  <2>5. ledger'[cmd[c].run] = Append(old, event)
    BY <2>3, <2>4 DEF TypeInv, TypeOK
  <2>6. old \in Seq(AuditEvent) /\ event \in AuditEvent
    BY <2>3 DEF TypeInv, TypeOK, AuditEvent, EventTypes
  <2> HIDE DEF event, old
  <2>7. /\ Len(old) + 1 \in 1 .. Len(Append(old, event))
        /\ Append(old, event)[Len(old) + 1] = event
    BY <2>6, AppendLast
  <2>8. \E j \in 1 .. Len(ledger'[cmd[c].run]) : ledger'[cmd[c].run][j] = event
    BY <2>5, <2>7
  <2> QED
    BY <2>2, <2>3, <2>8 DEF HasApproval, event
<1>6. CASE RecordRequest(c)
  <2>1. cmd[c].action \in ApprovalRequired /\ UNCHANGED cmd
    BY <1>6 DEF RecordRequest, ApprovalRequired
  <2> QED
    BY <1>6, <2>1 DEF RecordRequest, RequiresApproval, Record, Goto,
       TypeInv, TypeOK
<1>7. CASE \/ Dispatch(c) \/ RecordRefused(c) \/ RecordDenied(c)
           \/ RequestApproval(c) \/ RecordFailed(c) \/ RecordCompleted(c)
  BY <1>7 DEF Dispatch, RecordRefused, RecordDenied, RequestApproval,
     RecordFailed, RecordCompleted, Record, Goto, TypeInv, TypeOK
<1>8. CASE \/ RecordStarted(c) \/ ReadSession(c) \/ WriteSession(c)
           \/ RememberReceipt(c)
  <2>1. pc[c] \in Past /\ UNCHANGED <<cmd, approvals>>
    BY <1>8 DEF RecordStarted, ReadSession, WriteSession, RememberReceipt
  <2> QED
    BY <1>4, <2>1
<1> QED
  BY <1>1, <1>2, <1>3, <1>4, <1>5, <1>6, <1>7, <1>8, Moves DEF Step

LEMMA ClearedStep ==
    ASSUME SafetyInv, [Next]_vars
    PROVE  Cleared'
<1> USE DEF SafetyInv
<1> DEFINE Going == {"request", "approval", "approve", "start"}
<1> SUFFICES ASSUME NEW c \in Calls, pc'[c] \in Going,
                    cmd'[c].action \in ControlActions
             PROVE  ControlIsUnlockedFor(ctx[c].receipt, cmd[c].run,
                                         ctx[c].mode, cmd[c].context)'
  BY DEF Cleared
<1>1. ~Crash
  BY DEF Crash, InFlight, Finished, TypeInv, TypeOK
<1>2. ASSUME NEW k \in Commands, Submit(c, k) \/ CallRuntime(c, k)
      PROVE  FALSE
  BY <1>2 DEF Submit, CallRuntime, Goto, TypeInv, TypeOK
<1>3. CASE pc[c] \in Going /\ cmd'[c] = cmd[c] /\ ctx'[c] = ctx[c]
  <2>1. ControlIsUnlockedFor(ctx[c].receipt, cmd[c].run, ctx[c].mode,
                             cmd[c].context)
    BY <1>3 DEF Cleared
  <2>2. PICK t \in Calls : t = ctx[c].receipt /\ HasApproval(t)
    BY <2>1 DEF ControlIsUnlockedFor, CapturesIssued, TypeInv, TypeOK,
       DispatchContext
  <2>3. cmd'[t] = cmd[t]
    BY <2>2, Grows DEF HasApproval
  <2> QED
    BY <1>3, <2>1, <2>2, <2>3 DEF ControlIsUnlockedFor, IsActiveFor
<1>4. CASE Dispatch(c)
  <2> DEFINE t == receipts[cmd[c].run]
  <2>1. ~Denied(cmd[c], ctx[c].mode, t) /\ UNCHANGED cmd
    BY <1>4 DEF Dispatch, Goto, TypeInv, TypeOK
  <2>2. ctx'[c].receipt = t /\ ctx'[c].mode = ctx[c].mode
    BY <1>4 DEF Dispatch, TypeInv, TypeOK, DispatchContext
  <2> QED
    BY <2>1, <2>2 DEF Denied, ControlIsUnlockedFor, IsActiveFor
<1>5. CASE RecordRequest(c) \/ RequestApproval(c) \/ Approve(c)
  <2>1. pc[c] \in Going /\ UNCHANGED <<cmd, ctx>>
    BY <1>5 DEF RecordRequest, RequestApproval, Approve
  <2> QED
    BY <1>3, <2>1
<1>6. CASE \/ RecordRefused(c) \/ RecordDenied(c) \/ RecordStarted(c)
           \/ RecordFailed(c) \/ RecordCompleted(c) \/ ReadSession(c)
           \/ WriteSession(c) \/ RememberReceipt(c)
  BY <1>6 DEF RecordRefused, RecordDenied, RecordStarted, RecordFailed,
     RecordCompleted, ReadSession, WriteSession, RememberReceipt, Record,
     Goto, TypeInv, TypeOK
<1> QED
  BY <1>1, <1>2, <1>3, <1>4, <1>5, <1>6, Moves DEF Step

LEMMA SafetyInvariant == Spec => []SafetyInv
<1>1. SafetyInv /\ [Next]_vars => SafetyInv'
  BY TypeStep, EventsAreOwnStep, NoEarlyRecordStep, ReceiptsIssuedStep,
     CapturesIssuedStep, PastApprovalStep, ClearedStep, StartedStep
     DEF SafetyInv
<1> QED
  BY <1>1, SafetyInit, PTL DEF Spec

(* However calls interleave, whatever appends fail and whenever the        *)
(* process stops, no control command starts before the ledger of its run   *)
(* holds an approved mode switch in its context.                           *)
THEOREM ControlIsApproved == Spec => []StartedUnderApproval
<1>1. SafetyInv => StartedUnderApproval
  BY DEF SafetyInv
<1> QED
  BY <1>1, SafetyInvariant, PTL

(* A receipt the service holds is one it issued to an approved mode switch *)
(* of the very run, with the approval on record.                           *)
THEOREM ReceiptsAreApproved == Spec => []ReceiptIsApproved
<1>1. SafetyInv => ReceiptIsApproved
  <2> SUFFICES ASSUME SafetyInv, NEW r \in Runs, receipts[r] # None
               PROVE  LET t == receipts[r] IN
                      /\ approvals[t] = "approved"
                      /\ cmd[t].action = "mode switch" /\ cmd[t].run = r
                      /\ \E j \in 1 .. Len(ledger[r]) :
                            ledger[r][j] = [type |-> "approved", call |-> t]
    BY DEF ReceiptIsApproved
  <2>1. /\ HasApproval(receipts[r])
        /\ cmd[receipts[r]].run = r
        /\ approvals[receipts[r]] = "approved"
    BY DEF SafetyInv, ReceiptsIssued
  <2> QED
    BY <2>1 DEF HasApproval
<1> QED
  BY <1>1, SafetyInvariant, PTL

-----------------------------------------------------------------------------
(***************************************************************************)
(* One call at a time (Threads = 1): with no other call on its way,        *)
(*   - what a call has read stays so (ContextIsCurrent, HeldIsCurrent),    *)
(*   - what the dispatcher decided stays right (DecisionHolds), and        *)
(*   - session and receipt of a run agree but between the two writes of a  *)
(*     mode switch (ModeIsBacked).                                         *)
(* Of several threads none of this is true: see the README.                *)
(***************************************************************************)
OneAtATime == \A c, d \in Calls : InFlight(c) /\ InFlight(d) => c = d

ContextIsCurrent ==
    \A c \in Calls : pc[c] = "context" =>
        /\ sessions[cmd[c].run] # None
        /\ ctx[c].mode = sessions[cmd[c].run].mode

HeldIsCurrent ==
    \A c \in Calls : pc[c] \in {"write", "remember"} =>
        held[c] = sessions[cmd[c].run]

DecisionHolds ==
    \A c \in Calls :
        /\ pc[c] \in {"request", "approval", "approve", "start", "read", "write"}
        /\ cmd[c].by = "operator" /\ cmd[c].action \in ControlActions
        => Unlocked(cmd[c].run, cmd[c].context)

SwitchIsApplied ==
    \A c \in Calls : pc[c] = "remember" /\ cmd[c].action = "mode switch" =>
        held[c].mode = cmd[c].target

(* A mode switch of run r has yet to store its receipt. *)
Switching(r) ==
    \E c \in Calls :
        pc[c] = "remember" /\ cmd[c].action = "mode switch" /\ cmd[c].run = r

ModeIsBacked ==
    \A r \in Runs : sessions[r] # None /\ sessions[r].mode # Obs =>
        \/ Switching(r)
        \/ receipts[r] # None /\ cmd[receipts[r]].target = sessions[r].mode

SerialInv ==
    /\ SafetyInv
    /\ OneAtATime /\ ContextIsCurrent /\ HeldIsCurrent
    /\ DecisionHolds /\ SwitchIsApplied /\ ModeIsBacked

LEMMA SerialInit == Init => SerialInv
BY SafetyInit DEF Init, SerialInv, OneAtATime, ContextIsCurrent, HeldIsCurrent,
   DecisionHolds, SwitchIsApplied, ModeIsBacked, InFlight

LEMMA NobodyElse ==
    ASSUME Threads = 1, ThreadIsFree
    PROVE  \A c \in Calls : ~InFlight(c)
<1> DEFINE S == {c \in Calls : InFlight(c)}
<1>1. IsFiniteSet(S)
  BY ControlAssumption, FS_Subset
<1>2. Cardinality(S) \in Nat /\ Cardinality(S) < 1
  BY <1>1, FS_CardinalityType DEF ThreadIsFree
<1>3. Cardinality(S) = 0
  BY <1>2
<1>4. S = {}
  BY <1>1, <1>3, FS_EmptySet
<1> QED
  BY <1>4

(* The step of a call that is on its way leaves it alone on its way. *)
LEMMA StillAlone ==
    ASSUME TypeInv, OneAtATime, NEW c \in Calls, InFlight(c),
           \A d \in Calls \ {c} : pc'[d] = pc[d]
    PROVE  /\ OneAtATime'
           /\ \A d \in Calls \ {c} : ~InFlight(d) /\ ~InFlight(d)'
BY DEF OneAtATime, InFlight

(* What no session, receipt or command changes, and no locals but those of *)
(* call c, which is alone.                                                 *)
LEMMA RecordsKeepSerial ==
    ASSUME SerialInv, NEW c \in Calls,
           \/ RecordRefused(c) \/ RecordDenied(c)
           \/ RecordRequest(c) \/ RequestApproval(c) \/ Approve(c)
           \/ RecordStarted(c) \/ RecordFailed(c) \/ RecordCompleted(c)
    PROVE  /\ OneAtATime' /\ ContextIsCurrent' /\ HeldIsCurrent'
           /\ DecisionHolds' /\ SwitchIsApplied' /\ ModeIsBacked'
<1> DEFINE Going == {"request", "approval", "approve", "start", "read", "write"}
<1>1. TypeInv /\ OneAtATime
  BY DEF SerialInv, SafetyInv
<1>2. /\ UNCHANGED <<sessions, receipts, cmd, ctx, held>>
      /\ \A d \in Calls \ {c} : pc'[d] = pc[d]
      /\ InFlight(c) /\ pc[c] # "remember"
      /\ pc'[c] \in Locations \ {"context", "write", "remember"}
      /\ pc'[c] \in Going => pc[c] \in Going
  <2>1. pc \in [Calls -> Locations]
    BY <1>1 DEF TypeInv, TypeOK
  <2>2. /\ UNCHANGED <<sessions, receipts, cmd, ctx, held>>
        /\ pc[c] \in {"refuse", "refused", "request", "approval", "approve",
                      "start", "fail", "complete"}
        /\ \E next \in Locations \ {"context", "write", "remember"} :
              /\ pc' = [pc EXCEPT ![c] = next]
              /\ next \in Going => pc[c] \in Going
    BY DEF RecordRefused, RecordDenied, RecordRequest, RequestApproval, Approve,
       RecordStarted, RecordFailed, RecordCompleted, Record, Goto, Locations,
       Finished
  <2> QED
    BY <2>1, <2>2 DEF InFlight, Finished
<1>3. OneAtATime' /\ \A d \in Calls \ {c} : ~InFlight(d) /\ ~InFlight(d)'
  BY <1>1, <1>2, StillAlone
<1>4. \A d \in Calls \ {c} : pc'[d] \in {"idle"} \cup Finished
  BY <1>3 DEF InFlight
<1>5. ContextIsCurrent' /\ HeldIsCurrent' /\ SwitchIsApplied'
  BY <1>2, <1>4 DEF ContextIsCurrent, HeldIsCurrent, SwitchIsApplied, Finished
<1>6. DecisionHolds'
  <2> SUFFICES ASSUME NEW d \in Calls, pc'[d] \in Going,
                      cmd[d].by = "operator", cmd[d].action \in ControlActions
               PROVE  Unlocked(cmd[d].run, cmd[d].context)'
    BY <1>2 DEF DecisionHolds
  <2>1. d = c /\ pc[c] \in Going
    BY <1>2, <1>4 DEF Finished
  <2>2. Unlocked(cmd[d].run, cmd[d].context)
    BY <2>1 DEF SerialInv, DecisionHolds
  <2> QED
    BY <1>2, <2>2 DEF Unlocked
<1>7. ASSUME NEW r \in Runs PROVE Switching(r)' <=> Switching(r)
  BY <1>2 DEF Switching
<1>8. ModeIsBacked'
  BY <1>2, <1>7 DEF SerialInv, ModeIsBacked
<1> QED
  BY <1>3, <1>5, <1>6, <1>8

(* A receipt that is held keeps its command. *)
LEMMA HeldReceipt ==
    ASSUME SafetyInv, [Next]_vars, NEW r \in Runs, receipts[r] # None
    PROVE  receipts[r] \in Calls /\ cmd'[receipts[r]] = cmd[receipts[r]]
<1>1. TypeInv /\ ReceiptsIssued
  BY DEF SafetyInv
<1>2. PICK t \in Calls : t = receipts[r] /\ cmd[t] # None
  <2>1. receipts[r] \in Calls
    BY <1>1 DEF TypeInv, TypeOK
  <2>2. cmd[receipts[r]] # None
    BY <1>1 DEF ReceiptsIssued, HasApproval
  <2> QED
    BY <2>1, <2>2
<1>3. TypeInv
  BY <1>1
<1>4. cmd'[t] = cmd[t]
  BY <1>2, <1>3, Grows
<1> QED
  BY <1>2, <1>4

(* A call that begins finds none on its way. *)
LEMMA BeginningsKeepSerial ==
    ASSUME Threads = 1, SerialInv, [Next]_vars,
           \/ \E r \in Runs : RegisterRun(r)
           \/ \E c \in Calls, k \in Commands : Submit(c, k) \/ CallRuntime(c, k)
    PROVE  /\ OneAtATime' /\ ContextIsCurrent' /\ HeldIsCurrent'
           /\ DecisionHolds' /\ SwitchIsApplied' /\ ModeIsBacked'
<1>1. TypeInv /\ SafetyInv
  BY DEF SerialInv, SafetyInv
<1>2. \A c \in Calls : pc[c] \in {"idle"} \cup Finished
  BY NobodyElse DEF RegisterRun, Submit, CallRuntime, InFlight
<1>3. ASSUME NEW r \in Runs PROVE ~Switching(r)
  BY <1>2 DEF Switching, Finished
<1>4. ASSUME NEW r \in Runs, sessions[r] # None, sessions[r].mode # Obs
      PROVE  /\ receipts[r] # None
             /\ cmd'[receipts[r]].target = sessions[r].mode
  BY <1>1, <1>3, <1>4, HeldReceipt DEF SerialInv, ModeIsBacked
<1>5. ASSUME NEW r \in Runs, RegisterRun(r)
      PROVE  /\ OneAtATime' /\ ContextIsCurrent' /\ HeldIsCurrent'
             /\ DecisionHolds' /\ SwitchIsApplied' /\ ModeIsBacked'
  <2>1. pc' = pc /\ receipts' = receipts /\ cmd' = cmd
    BY <1>5 DEF RegisterRun
  <2>2. \A q \in Runs : sessions'[q] = IF q = r THEN FreshSession ELSE sessions[q]
    BY <1>1, <1>5 DEF RegisterRun, TypeInv, TypeOK
  <2>3. ModeIsBacked'
    BY <1>4, <2>1, <2>2 DEF ModeIsBacked, FreshSession
  <2>4. OneAtATime' /\ ContextIsCurrent' /\ HeldIsCurrent'
        /\ DecisionHolds' /\ SwitchIsApplied'
    BY <1>2, <2>1 DEF OneAtATime, ContextIsCurrent, HeldIsCurrent,
       DecisionHolds, SwitchIsApplied, InFlight, Finished
  <2> QED
    BY <2>3, <2>4
<1>6. ASSUME NEW c \in Calls, NEW k \in Commands, Submit(c, k) \/ CallRuntime(c, k)
      PROVE  /\ OneAtATime' /\ ContextIsCurrent' /\ HeldIsCurrent'
             /\ DecisionHolds' /\ SwitchIsApplied' /\ ModeIsBacked'
  <2>1. /\ UNCHANGED <<sessions, receipts>> /\ cmd'[c] = k
        /\ \A d \in Calls \ {c} : pc'[d] = pc[d]
    BY <1>1, <1>6 DEF Submit, CallRuntime, Goto, TypeInv, TypeOK
  <2>2. ModeIsBacked'
    BY <1>4, <2>1 DEF ModeIsBacked
  <2>3. \A d \in Calls \ {c} : pc'[d] \in {"idle"} \cup Finished
    BY <1>2, <2>1
  <2>4. OneAtATime'
    BY <2>3 DEF OneAtATime, InFlight
  <2>5. \/ pc'[c] = "raised"
        \/ /\ pc'[c] = "context" /\ sessions[k.run] # None
           /\ ctx'[c].mode = sessions[k.run].mode
        \/ pc'[c] = "read" /\ k.by = "recovery"
    BY <1>1, <1>6 DEF Submit, CallRuntime, Goto, TypeInv, TypeOK, DispatchContext
  <2>6. ContextIsCurrent' /\ HeldIsCurrent' /\ DecisionHolds' /\ SwitchIsApplied'
    BY <2>1, <2>3, <2>5 DEF ContextIsCurrent, HeldIsCurrent, DecisionHolds,
       SwitchIsApplied, Finished
  <2> QED
    BY <2>2, <2>4, <2>6
<1> QED
  BY <1>5, <1>6

LEMMA DispatchKeepsSerial ==
    ASSUME SerialInv, NEW c \in Calls, Dispatch(c)
    PROVE  /\ OneAtATime' /\ ContextIsCurrent' /\ HeldIsCurrent'
           /\ DecisionHolds' /\ SwitchIsApplied' /\ ModeIsBacked'
<1>1. TypeInv /\ OneAtATime
  BY DEF SerialInv, SafetyInv
<1>2. /\ UNCHANGED <<sessions, receipts, cmd, held>>
      /\ pc[c] = "context" /\ pc'[c] \in {"refuse", "request"}
      /\ \A d \in Calls \ {c} : pc'[d] = pc[d]
      /\ pc'[c] = "request" =>
            ~Denied(cmd[c], ctx[c].mode, receipts[cmd[c].run])
  BY <1>1 DEF Dispatch, Goto, TypeInv, TypeOK
<1>3. OneAtATime' /\ \A d \in Calls \ {c} : ~InFlight(d) /\ ~InFlight(d)'
  <2>1. InFlight(c)
    BY <1>2 DEF InFlight, Finished
  <2> QED
    BY <1>1, <1>2, <2>1, StillAlone
<1>4. \A d \in Calls \ {c} : pc'[d] \in {"idle"} \cup Finished
  BY <1>3 DEF InFlight
<1>5. ContextIsCurrent' /\ HeldIsCurrent' /\ SwitchIsApplied'
  BY <1>2, <1>4 DEF ContextIsCurrent, HeldIsCurrent, SwitchIsApplied, Finished
<1>6. ASSUME pc'[c] = "request", cmd[c].action \in ControlActions
      PROVE  Unlocked(cmd[c].run, cmd[c].context)
  <2>1. ControlIsUnlockedFor(receipts[cmd[c].run], cmd[c].run, ctx[c].mode,
                             cmd[c].context)
    BY <1>2, <1>6 DEF Denied
  <2>2. ctx[c].mode = sessions[cmd[c].run].mode
    BY <1>2 DEF SerialInv, ContextIsCurrent
  <2> QED
    BY <2>1, <2>2 DEF ControlIsUnlockedFor, IsActiveFor, Unlocked
<1>7. DecisionHolds'
  <2> SUFFICES ASSUME NEW d \in Calls,
                      pc'[d] \in {"request", "approval", "approve", "start",
                                  "read", "write"},
                      cmd[d].by = "operator", cmd[d].action \in ControlActions
               PROVE  Unlocked(cmd[d].run, cmd[d].context)'
    BY <1>2 DEF DecisionHolds
  <2>1. d = c /\ pc'[c] = "request"
    BY <1>2, <1>4 DEF Finished
  <2>2. Unlocked(cmd[d].run, cmd[d].context)
    BY <1>6, <2>1
  <2> QED
    BY <1>2, <2>2 DEF Unlocked
<1>8. ASSUME NEW r \in Runs PROVE Switching(r)' <=> Switching(r)
  BY <1>2 DEF Switching
<1>9. ModeIsBacked'
  BY <1>2, <1>8 DEF SerialInv, ModeIsBacked
<1> QED
  BY <1>3, <1>5, <1>7, <1>9

LEMMA ReadKeepsSerial ==
    ASSUME SerialInv, NEW c \in Calls, ReadSession(c)
    PROVE  /\ OneAtATime' /\ ContextIsCurrent' /\ HeldIsCurrent'
           /\ DecisionHolds' /\ SwitchIsApplied' /\ ModeIsBacked'
<1>1. TypeInv /\ OneAtATime
  BY DEF SerialInv, SafetyInv
<1>2. /\ UNCHANGED <<sessions, receipts, cmd, ctx>>
      /\ pc[c] = "read" /\ pc'[c] \in {"fail", "raised", "write"}
      /\ \A d \in Calls \ {c} : pc'[d] = pc[d]
      /\ pc'[c] = "write" => held'[c] = sessions[cmd[c].run]
  BY <1>1 DEF ReadSession, Goto, TypeInv, TypeOK
<1>3. OneAtATime' /\ \A d \in Calls \ {c} : ~InFlight(d) /\ ~InFlight(d)'
  <2>1. InFlight(c)
    BY <1>2 DEF InFlight, Finished
  <2> QED
    BY <1>1, <1>2, <2>1, StillAlone
<1>4. \A d \in Calls \ {c} : pc'[d] \in {"idle"} \cup Finished
  BY <1>3 DEF InFlight
<1>5. ContextIsCurrent' /\ HeldIsCurrent' /\ SwitchIsApplied'
  BY <1>2, <1>4 DEF ContextIsCurrent, HeldIsCurrent, SwitchIsApplied, Finished
<1>6. DecisionHolds'
  <2> SUFFICES ASSUME NEW d \in Calls,
                      pc'[d] \in {"request", "approval", "approve", "start",
                                  "read", "write"},
                      cmd[d].by = "operator", cmd[d].action \in ControlActions
               PROVE  Unlocked(cmd[d].run, cmd[d].context)'
    BY <1>2 DEF DecisionHolds
  <2>1. d = c
    BY <1>4 DEF Finished
  <2>2. Unlocked(cmd[d].run, cmd[d].context)
    BY <1>2, <2>1 DEF SerialInv, DecisionHolds
  <2> QED
    BY <1>2, <2>2 DEF Unlocked
<1>7. ASSUME NEW r \in Runs PROVE Switching(r)' <=> Switching(r)
  BY <1>2 DEF Switching
<1>8. ModeIsBacked'
  BY <1>2, <1>7 DEF SerialInv, ModeIsBacked
<1> QED
  BY <1>3, <1>5, <1>6, <1>8

(* Only a mode switch leaves its run in another mode than Obs that it was  *)
(* not in before, and then its receipt is the next thing it writes.        *)
LEMMA WriteKeepsSerial ==
    ASSUME SerialInv, NEW c \in Calls, WriteSession(c)
    PROVE  /\ OneAtATime' /\ ContextIsCurrent' /\ HeldIsCurrent'
           /\ DecisionHolds' /\ SwitchIsApplied' /\ ModeIsBacked'
<1> DEFINE run == cmd[c].run
           updated == Updated(cmd[c], held[c])
<1>1. TypeInv /\ OneAtATime
  BY DEF SerialInv, SafetyInv
<1>2. cmd[c] \in Commands /\ run \in Runs /\ held[c] \in RuntimeSession
  BY <1>1, CommandTypes DEF WriteSession, TypeInv, TypeOK, CallsCarryCommands,
     WritersHoldSessions, Begun
<1>3. /\ UNCHANGED <<receipts, cmd, ctx>> /\ pc[c] = "write"
      /\ pc'[c] = IF cmd[c].by = "operator" THEN "remember" ELSE "returned"
      /\ \A d \in Calls \ {c} : pc'[d] = pc[d]
      /\ held'[c] = updated
      /\ sessions'[run] = updated
      /\ \A r \in Runs \ {run} : sessions'[r] \in {FreshSession, sessions[r]}
  BY <1>1, <1>2 DEF WriteSession, Goto, TypeInv, TypeOK
<1>4. OneAtATime' /\ \A d \in Calls \ {c} : ~InFlight(d) /\ ~InFlight(d)'
  <2>1. InFlight(c)
    BY <1>3 DEF InFlight, Finished
  <2> QED
    BY <1>1, <1>3, <2>1, StillAlone
<1>5. \A d \in Calls \ {c} : pc'[d] \in {"idle"} \cup Finished
  BY <1>4 DEF InFlight
<1>6. held[c] = sessions[run]
  BY <1>3 DEF SerialInv, HeldIsCurrent
<1>7. ContextIsCurrent' /\ HeldIsCurrent' /\ DecisionHolds'
  <2> HIDE DEF updated
  <2> QED
    BY <1>3, <1>5 DEF ContextIsCurrent, HeldIsCurrent, DecisionHolds, Finished
<1>8. CASE cmd[c].action = "mode switch"
  <2>1. updated.mode = cmd[c].target
    BY <1>2, <1>8 DEF Updated, RuntimeSession
  <2>2. cmd[c].by = "operator"
    BY <1>2, <1>8, ControlAssumption DEF CommandEnvelope, RecoveryActions
  <2>3. Switching(run)'
    BY <1>3, <1>8, <2>2 DEF Switching
  <2> HIDE DEF updated
  <2>4. SwitchIsApplied'
    BY <1>3, <1>5, <2>1 DEF SwitchIsApplied, Finished
  <2>5. ASSUME NEW r \in Runs, Switching(r) PROVE FALSE
    BY <1>3, <1>4, <2>5 DEF Switching, InFlight, Finished
  <2>6. ModeIsBacked'
    BY <1>3, <2>3, <2>5 DEF SerialInv, ModeIsBacked, FreshSession
  <2> QED
    BY <1>4, <1>7, <2>4, <2>6
<1>9. CASE cmd[c].action # "mode switch"
  <2>1. updated.mode \in {held[c].mode, Obs}
    BY <1>2, <1>9 DEF Updated, RuntimeSession, FreshSession
  <2>2. held[c] # None
    BY <1>2, ControlAssumption
  <2> HIDE DEF updated
  <2>3. SwitchIsApplied'
    BY <1>3, <1>5, <1>9 DEF SwitchIsApplied, Finished
  <2>4. ASSUME NEW r \in Runs, Switching(r) PROVE FALSE
    BY <1>3, <1>4, <2>4 DEF Switching, InFlight, Finished
  <2>5. ASSUME NEW r \in Runs, sessions'[r].mode # Obs, sessions'[r] # None
        PROVE  /\ receipts[r] # None
               /\ cmd[receipts[r]].target = sessions'[r].mode
    <3>1. sessions[r] # None /\ sessions'[r].mode = sessions[r].mode
      BY <1>3, <1>6, <2>1, <2>2, <2>5 DEF FreshSession
    <3> QED
      BY <2>4, <2>5, <3>1 DEF SerialInv, ModeIsBacked
  <2>6. ModeIsBacked'
    BY <1>3, <2>5 DEF ModeIsBacked
  <2> QED
    BY <1>4, <1>7, <2>3, <2>6
<1> QED
  BY <1>8, <1>9

LEMMA RememberKeepsSerial ==
    ASSUME SerialInv, NEW c \in Calls, RememberReceipt(c)
    PROVE  /\ OneAtATime' /\ ContextIsCurrent' /\ HeldIsCurrent'
           /\ DecisionHolds' /\ SwitchIsApplied' /\ ModeIsBacked'
<1> DEFINE run == cmd[c].run
<1>1. TypeInv /\ OneAtATime
  BY DEF SerialInv, SafetyInv
<1>2. /\ UNCHANGED <<sessions, cmd, ctx, held>>
      /\ pc[c] = "remember" /\ pc'[c] = "complete"
      /\ \A d \in Calls \ {c} : pc'[d] = pc[d]
      /\ \A r \in Runs \ {run} : receipts'[r] = receipts[r]
  BY <1>1 DEF RememberReceipt, Goto, TypeInv, TypeOK
<1>3. run \in Runs /\ c # None
  <2>1. cmd[c] \in Commands
    BY <1>1, <1>2 DEF TypeInv, TypeOK, CallsCarryCommands, Begun
  <2>2. None \notin Calls
    BY ControlAssumption
  <2> QED
    BY <2>1, <2>2, CommandTypes
<1>4. \/ cmd[c].action = "mode switch" /\ receipts'[run] = c
      \/ cmd[c].action # "mode switch" /\ held[c].mode = Obs
      \/ cmd[c].action # "mode switch" /\ receipts'[run] = receipts[run]
  BY <1>1, <1>3 DEF RememberReceipt, TypeInv, TypeOK
<1>5. OneAtATime' /\ \A d \in Calls \ {c} : ~InFlight(d) /\ ~InFlight(d)'
  <2>1. InFlight(c)
    BY <1>2 DEF InFlight, Finished
  <2> QED
    BY <1>1, <1>2, <2>1, StillAlone
<1>6. \A d \in Calls \ {c} : pc[d] = pc'[d] /\ pc'[d] \in {"idle"} \cup Finished
  BY <1>2, <1>5 DEF InFlight
<1>7. held[c] = sessions[run]
  BY <1>2 DEF SerialInv, HeldIsCurrent
<1>8. ASSUME NEW r \in Runs, sessions[r] # None, sessions[r].mode # Obs
      PROVE  receipts'[r] # None /\ cmd[receipts'[r]].target = sessions[r].mode
  <2>1. Switching(r) => r = run /\ cmd[c].action = "mode switch"
    BY <1>6 DEF Switching, Finished
  <2>2. CASE Switching(r)
    <3>1. cmd[c].target = sessions[run].mode
      BY <1>2, <1>7, <2>1, <2>2 DEF SerialInv, SwitchIsApplied
    <3> QED
      BY <1>3, <1>4, <2>1, <2>2, <3>1
  <2>3. CASE ~Switching(r)
    <3>1. receipts[r] # None /\ cmd[receipts[r]].target = sessions[r].mode
      BY <1>8, <2>3 DEF SerialInv, ModeIsBacked
    <3>2. r = run => cmd[c].action # "mode switch"
      BY <1>2, <2>3 DEF Switching
    <3>3. receipts'[r] = receipts[r]
      BY <1>2, <1>4, <1>7, <1>8, <3>2
    <3> QED
      BY <3>1, <3>3
  <2> QED
    BY <2>2, <2>3
<1>9. ModeIsBacked'
  BY <1>2, <1>8 DEF ModeIsBacked
<1>10. ContextIsCurrent' /\ HeldIsCurrent' /\ DecisionHolds' /\ SwitchIsApplied'
  BY <1>2, <1>6 DEF ContextIsCurrent, HeldIsCurrent, DecisionHolds,
     SwitchIsApplied, Finished
<1> QED
  BY <1>5, <1>9, <1>10

LEMMA SerialStep ==
    ASSUME Threads = 1, SerialInv, SafetyInv', [Next]_vars
    PROVE  SerialInv'
<1> DEFINE Kept == /\ OneAtATime' /\ ContextIsCurrent' /\ HeldIsCurrent'
                   /\ DecisionHolds' /\ SwitchIsApplied' /\ ModeIsBacked'
<1>1. TypeInv
  BY DEF SerialInv, SafetyInv
<1>2. Crash => Kept
  <2> SUFFICES ASSUME Crash PROVE Kept
    OBVIOUS
  <2>1. \A c \in Calls : pc'[c] \in {"idle"} \cup Finished
    BY <1>1 DEF Crash, InFlight, Finished
  <2>2. \A r \in Runs : sessions'[r] = None
    BY DEF Crash
  <2> QED
    BY <2>1, <2>2 DEF OneAtATime, ContextIsCurrent, HeldIsCurrent,
       DecisionHolds, SwitchIsApplied, ModeIsBacked, InFlight, Finished
<1>3. UNCHANGED vars => Kept
  <2> SUFFICES ASSUME UNCHANGED vars PROVE Kept
    OBVIOUS
  <2> USE DEF vars
  <2>1. OneAtATime' /\ ContextIsCurrent' /\ HeldIsCurrent' /\ SwitchIsApplied'
    BY DEF SerialInv, OneAtATime, ContextIsCurrent, HeldIsCurrent,
       SwitchIsApplied, InFlight
  <2>2. DecisionHolds'
    BY DEF SerialInv, DecisionHolds, Unlocked
  <2>3. ModeIsBacked'
    BY DEF SerialInv, ModeIsBacked, Switching
  <2> QED
    BY <2>1, <2>2, <2>3
<1>4. CASE \/ \E r \in Runs : RegisterRun(r)
           \/ \E c \in Calls, k \in Commands : Submit(c, k) \/ CallRuntime(c, k)
  BY <1>4, BeginningsKeepSerial DEF SerialInv
<1>5. ASSUME NEW c \in Calls, Step(c) PROVE Kept
  BY <1>5, DispatchKeepsSerial, RecordsKeepSerial, ReadKeepsSerial,
     WriteKeepsSerial, RememberKeepsSerial DEF Step
<1>6. Kept
  BY <1>2, <1>3, <1>4, <1>5, BeginningsKeepSerial DEF Next
<1> QED
  BY <1>6 DEF SerialInv

LEMMA SerialInvariant == ASSUME Threads = 1 PROVE Spec => []SerialInv
<1>1. SerialInv /\ SafetyInv' /\ [Next]_vars => SerialInv'
  BY SerialStep
<1> QED
  BY <1>1, SerialInit, SafetyInvariant, PTL DEF Spec

(* Of a host that serves one call at a time: a run is out of observation-  *)
(* only mode only under the receipt of a switch to the mode it is in.      *)
THEOREM ModeHasItsReceipt ==
    ASSUME Threads = 1
    PROVE  Spec => []ModeBackedByReceipt
<1>1. SerialInv => ModeBackedByReceipt
  BY DEF SerialInv, ModeIsBacked, Switching, ModeBackedByReceipt
<1> QED
  BY <1>1, SerialInvariant, PTL

(* And no control command changes a session of a run that is not, at that  *)
(* very step, unlocked for it.                                             *)
THEOREM ControlIsAppliedUnlocked ==
    ASSUME Threads = 1
    PROVE  Spec => ControlAppliesOnlyWhileUnlocked
<1>1. SerialInv =>
        \A c \in Calls :
           /\ Applies(c)
           /\ cmd[c].by = "operator" /\ cmd[c].action \in ControlActions
           => Unlocked(cmd[c].run, cmd[c].context)
  BY DEF SerialInv, DecisionHolds, Applies
<1> QED
  BY <1>1, SerialInvariant, PTL DEF ControlAppliesOnlyWhileUnlocked

-----------------------------------------------------------------------------
(***************************************************************************)
(* What a call leaves in the ledger.  TypesAfter is recursive: that the    *)
(* recursion has a solution, and that one event more goes on from where    *)
(* the events before it have come to, is shown of a least place at which   *)
(* it would not.                                                           *)
(***************************************************************************)
LEMMA LeastOf ==
    ASSUME NEW S, S \subseteq Nat, S # {}
    PROVE  \E m \in S : \A k \in S : m <= k
<1>1. PICK m \in S : \A k \in S : <<k, m>> \notin OpToRel(<, Nat)
  BY NatLessThanWellFounded, WFMin
<1>2. ASSUME NEW k \in S PROVE m <= k
  <2>1. <<k, m>> \in Nat \X Nat /\ m \in Nat /\ k \in Nat
    OBVIOUS
  <2>2. ~(k < m)
    BY <1>1, <2>1 DEF OpToRel
  <2> QED
    BY <2>1, <2>2
<1> QED
  BY <1>2

Follows(types, events, c, m) ==
    types = [n \in 0 .. m |->
                IF n = 0 THEN <<>>
                ELSE IF events[n].call = c
                     THEN Append(types[n - 1], events[n].type)
                     ELSE types[n - 1]]

LEMMA TypesExist ==
    ASSUME NEW events, NEW c, NEW m \in Nat
    PROVE  \E types : Follows(types, events, c, m)
<1> DEFINE Bad == {n \in Nat : \A types : ~Follows(types, events, c, n)}
<1>1. SUFFICES ASSUME Bad # {} PROVE FALSE
  OBVIOUS
<1>2. PICK n \in Bad : \A k \in Bad : n <= k
  <2>1. Bad \subseteq Nat
    OBVIOUS
  <2> HIDE DEF Bad
  <2> QED
    BY <1>1, <2>1, LeastOf
<1>3. n \in Nat /\ \A types : ~Follows(types, events, c, n)
  BY <1>2
<1>4. CASE n = 0
  <2> DEFINE types == [k \in 0 .. 0 |-> <<>>]
  <2>1. Follows(types, events, c, 0)
    BY DEF Follows
  <2> QED
    BY <1>3, <1>4, <2>1
<1>5. CASE n # 0
  <2>1. n - 1 \in Nat /\ n - 1 \notin Bad
    BY <1>2, <1>3, <1>5
  <2>2. PICK before : Follows(before, events, c, n - 1)
    BY <2>1
  <2> DEFINE last == IF events[n].call = c
                     THEN Append(before[n - 1], events[n].type)
                     ELSE before[n - 1]
             types == [k \in 0 .. n |-> IF k = n THEN last ELSE before[k]]
  <2>3. /\ \A k \in 0 .. n - 1 : types[k] = before[k]
        /\ types[n] = last
    BY <1>3
  <2>4. \A k \in 0 .. n - 1 :
           before[k] = IF k = 0 THEN <<>>
                       ELSE IF events[k].call = c
                            THEN Append(before[k - 1], events[k].type)
                            ELSE before[k - 1]
    BY <2>2 DEF Follows
  <2> HIDE DEF last
  <2>5. ASSUME NEW k \in 0 .. n
        PROVE  (IF k = n THEN last ELSE before[k])
                  = IF k = 0 THEN <<>>
                    ELSE IF events[k].call = c
                         THEN Append(types[k - 1], events[k].type)
                         ELSE types[k - 1]
    <3>1. CASE k = n
      <4>1. types[k - 1] = before[n - 1] /\ k # 0
        BY <1>3, <1>5, <2>3, <3>1
      <4> QED
        BY <3>1, <4>1 DEF last
    <3>2. CASE k # n
      <4>1. k \in 0 .. n - 1 /\ (k # 0 => types[k - 1] = before[k - 1])
        BY <1>3, <2>3, <3>2
      <4> QED
        BY <2>4, <3>2, <4>1
    <3> QED
      BY <3>1, <3>2
  <2>6. Follows(types, events, c, n)
    BY <2>5 DEF Follows
  <2> QED
    BY <1>3, <2>6
<1> QED
  BY <1>4, <1>5

LEMMA TypesFollow ==
    ASSUME NEW events, Len(events) \in Nat, NEW c
    PROVE  Follows(TypesAfter(events, c), events, c, Len(events))
<1>1. TypesAfter(events, c)
        = CHOOSE types : Follows(types, events, c, Len(events))
  BY DEF TypesAfter, Follows
<1> QED
  BY <1>1, TypesExist

LEMMA FollowsOn ==
    ASSUME NEW events, NEW c, NEW m \in Nat, NEW types,
           Follows(types, events, c, m)
    PROVE  /\ types[0] = <<>>
           /\ \A i \in 1 .. m :
                 types[i] = IF events[i].call = c
                            THEN Append(types[i - 1], events[i].type)
                            ELSE types[i - 1]
<1>1. \A i \in 0 .. m :
         types[i] = IF i = 0 THEN <<>>
                    ELSE IF events[i].call = c
                         THEN Append(types[i - 1], events[i].type)
                         ELSE types[i - 1]
  BY DEF Follows
<1>2. 0 \in 0 .. m /\ \A i \in 1 .. m : i \in 0 .. m /\ i # 0
  OBVIOUS
<1> QED
  BY <1>1, <1>2

LEMMA NoEventsNoTypes ==
    ASSUME NEW c
    PROVE  TypesOf(<<>>, c) = <<>>
<1>1. Len(<<>>) = 0
  OBVIOUS
<1>2. Follows(TypesAfter(<<>>, c), <<>>, c, 0)
  BY <1>1, TypesFollow
<1>3. TypesAfter(<<>>, c)[0] = <<>>
  BY <1>2 DEF Follows
<1> QED
  BY <1>1, <1>3 DEF TypesOf

(* One event more: it counts for its own call alone. *)
LEMMA TypesGrow ==
    ASSUME NEW events \in Seq(AuditEvent), NEW e \in AuditEvent, NEW c
    PROVE  TypesOf(Append(events, e), c)
              = IF e.call = c THEN Append(TypesOf(events, c), e.type)
                ELSE TypesOf(events, c)
<1> DEFINE more == Append(events, e)
           n == Len(events)
           old == TypesAfter(events, c)
           new == TypesAfter(more, c)
<1>1. /\ n \in Nat /\ Len(more) = n + 1
      /\ \A i \in 1 .. n : more[i] = events[i]
      /\ more[n + 1] = e
  BY AppendProperties, LenProperties
<1>2. Follows(old, events, c, n) /\ Follows(new, more, c, n + 1)
  <2>1. Follows(old, events, c, n)
    BY <1>1, TypesFollow
  <2> HIDE DEF more, n
  <2>2. Len(more) \in Nat
    BY <1>1
  <2>3. Follows(new, more, c, Len(more))
    BY <2>2, TypesFollow
  <2> QED
    BY <1>1, <2>1, <2>3
<1> HIDE DEF more, n, old, new
<1>3. /\ old[0] = <<>> /\ new[0] = <<>>
      /\ \A i \in 1 .. n : old[i] = IF events[i].call = c
                                    THEN Append(old[i - 1], events[i].type)
                                    ELSE old[i - 1]
      /\ \A i \in 1 .. n + 1 : new[i] = IF more[i].call = c
                                        THEN Append(new[i - 1], more[i].type)
                                        ELSE new[i - 1]
  <2>1. n + 1 \in Nat
    BY <1>1
  <2>2. old[0] = <<>> /\ \A i \in 1 .. n : old[i] =
           IF events[i].call = c THEN Append(old[i - 1], events[i].type)
           ELSE old[i - 1]
    BY <1>1, <1>2, FollowsOn
  <2>3. new[0] = <<>> /\ \A i \in 1 .. n + 1 : new[i] =
           IF more[i].call = c THEN Append(new[i - 1], more[i].type)
           ELSE new[i - 1]
    BY <1>2, <2>1, FollowsOn, SMTT(20)
  <2> QED
    BY <2>2, <2>3
<1> DEFINE Bad == {i \in 0 .. n : old[i] # new[i]}
<1>4. Bad = {}
  <2> SUFFICES ASSUME Bad # {} PROVE FALSE
    OBVIOUS
  <2>1. PICK i \in Bad : \A k \in Bad : i <= k
    <3>1. Bad \subseteq Nat
      BY <1>1
    <3> HIDE DEF Bad
    <3> QED
      BY <3>1, LeastOf
  <2>2. i \in 1 .. n /\ i - 1 \in 0 .. n /\ i - 1 \notin Bad
    BY <1>1, <1>3, <2>1
  <2>3. old[i - 1] = new[i - 1] /\ more[i] = events[i]
    BY <1>1, <2>2
  <2>4. i \in 1 .. n + 1
    BY <1>1, <2>2
  <2>5. old[i] = new[i]
    BY <1>3, <2>2, <2>3, <2>4
  <2> QED
    BY <2>1, <2>5
<1>5. old[n] = new[n]
  BY <1>1, <1>4
<1>6. new[n + 1] = IF e.call = c THEN Append(new[n], e.type) ELSE new[n]
  <2>1. n + 1 \in 1 .. n + 1 /\ (n + 1) - 1 = n
    BY <1>1
  <2> QED
    BY <1>1, <1>3, <2>1
<1> QED
  BY <1>1, <1>5, <1>6 DEF TypesOf, more, n, old, new

(* The first events of a sequence, and those of one that goes on. *)
LEMMA FirstOnes ==
    ASSUME NEW S, NEW s \in Seq(S), NEW n \in 0 .. Len(s), NEW e \in S
    PROVE  /\ SubSeq(s, 1, n) \in Seq(S) /\ Len(SubSeq(s, 1, n)) = n
           /\ \A i \in 1 .. n : SubSeq(s, 1, n)[i] = s[i]
           /\ SubSeq(Append(s, e), 1, n) = SubSeq(s, 1, n)
           /\ n < Len(s) => Append(SubSeq(s, 1, n), s[n + 1]) = SubSeq(s, 1, n + 1)
<1>1. Len(s) \in Nat /\ n \in Nat /\ \A i \in 1 .. Len(s) : s[i] \in S
  BY LenProperties, ElementOfSeq
<1>2. /\ SubSeq(s, 1, n) \in Seq(S) /\ Len(SubSeq(s, 1, n)) = n
      /\ \A i \in 1 .. n : SubSeq(s, 1, n)[i] = s[i]
  <2>1. \A i \in 1 .. n : s[i] \in S
    BY <1>1
  <2>2. /\ SubSeq(s, 1, n) \in Seq(S)
        /\ Len(SubSeq(s, 1, n)) = IF 1 <= n THEN n - 1 + 1 ELSE 0
        /\ \A i \in 1 .. n - 1 + 1 : SubSeq(s, 1, n)[i] = s[1 + i - 1]
    BY <1>1, <2>1, SubSeqProperties
  <2> QED
    BY <1>1, <2>2
<1>3. SubSeq(Append(s, e), 1, n) = SubSeq(s, 1, n)
  <2> DEFINE t == Append(s, e)
  <2>1. \A i \in 1 .. n : t[i] = s[i]
    BY <1>1, AppendProperties
  <2> HIDE DEF t
  <2>2. \A i \in 1 .. n : t[i] \in S
    BY <1>1, <2>1
  <2>3. /\ SubSeq(t, 1, n) \in Seq(S)
        /\ Len(SubSeq(t, 1, n)) = IF 1 <= n THEN n - 1 + 1 ELSE 0
        /\ \A i \in 1 .. n - 1 + 1 : SubSeq(t, 1, n)[i] = t[1 + i - 1]
    BY <1>1, <2>2, SubSeqProperties
  <2>4. Len(SubSeq(t, 1, n)) = n /\ \A i \in 1 .. n : SubSeq(t, 1, n)[i] = s[i]
    BY <1>1, <2>1, <2>3
  <2>5. SubSeq(t, 1, n) = SubSeq(s, 1, n)
    BY <1>2, <2>3, <2>4, SeqEqual
  <2> QED
    BY <2>5 DEF t
<1>4. ASSUME n < Len(s)
      PROVE  Append(SubSeq(s, 1, n), s[n + 1]) = SubSeq(s, 1, n + 1)
  <2> DEFINE t == SubSeq(s, 1, n)
             x == s[n + 1]
             u == SubSeq(s, 1, n + 1)
  <2>1. x \in S /\ n + 1 \in Int
    BY <1>1, <1>4
  <2>2. /\ u \in Seq(S) /\ Len(u) = n + 1
        /\ \A i \in 1 .. n + 1 : u[i] = s[i]
    <3>1. \A i \in 1 .. n + 1 : s[i] \in S
      BY <1>1, <1>4
    <3>2. /\ u \in Seq(S)
          /\ Len(u) = IF 1 <= n + 1 THEN n + 1 - 1 + 1 ELSE 0
          /\ \A i \in 1 .. n + 1 - 1 + 1 : u[i] = s[1 + i - 1]
      BY <2>1, <3>1, SubSeqProperties
    <3> QED
      BY <1>1, <3>2
  <2>3. t \in Seq(S) /\ Len(t) = n /\ \A i \in 1 .. n : t[i] = s[i]
    BY <1>2
  <2> HIDE DEF t, x, u
  <2>4. /\ Append(t, x) \in Seq(S) /\ Len(Append(t, x)) = n + 1
        /\ \A i \in 1 .. n : Append(t, x)[i] = t[i]
        /\ Append(t, x)[n + 1] = x
    BY <2>1, <2>3, AppendProperties
  <2>5. \A i \in 1 .. n + 1 : Append(t, x)[i] = u[i]
    BY <1>1, <2>2, <2>3, <2>4 DEF x
  <2>6. Append(t, x) = u
    BY <2>2, <2>4, <2>5, SeqEqual
  <2> QED
    BY <2>6 DEF t, x, u
<1> QED
  BY <1>2, <1>3, <1>4

(* What a command leaves, if nothing stops it and it is let through. *)
LEMMA Lifecycles ==
    ASSUME NEW k
    PROVE  LET life == Lifecycle(k)
               n == Len(life)
           IN  /\ life \in Seq(EventTypes)
               /\ n = IF k.action \in ApprovalRequired THEN 4 ELSE 2
               /\ life[1] = "requested" /\ life[n] = "started"
               /\ k.action \in ApprovalRequired =>
                     life[2] = "approval_requested" /\ life[3] = "approved"
               /\ \A i \in 1 .. n : life[i] # "completed"
<1>1. CASE k.action \in ApprovalRequired
  BY <1>1 DEF Lifecycle, EventTypes
<1>2. CASE k.action \notin ApprovalRequired
  BY <1>2 DEF Lifecycle, EventTypes
<1> QED
  BY <1>1, <1>2

(* The first events of a lifecycle, by number. *)
FirstOf(k, n) == SubSeq(Lifecycle(k), 1, n)

LEMMA LifecyclesBegin ==
    ASSUME NEW k
    PROVE  LET life == Lifecycle(k) IN
           /\ FirstOf(k, 0) = <<>>
           /\ FirstOf(k, 1) = <<"requested">>
           /\ FirstOf(k, Len(life)) = life
           /\ \A n \in 0 .. Len(life) : n < Len(life) =>
                 Append(FirstOf(k, n), life[n + 1]) = FirstOf(k, n + 1)
<1> DEFINE life == Lifecycle(k)
<1>1. life \in Seq(EventTypes) /\ Len(life) \in {2, 4} /\ life[1] = "requested"
  BY Lifecycles
<1>2. "requested" \in EventTypes
  BY DEF EventTypes
<1> HIDE DEF life
<1>3. SubSeq(life, 1, Len(life)) = life
  BY <1>1, SubSeqFull
<1>4. SubSeq(life, 1, 0) = <<>>
  BY SubSeqEmpty
<1>5. \A n \in 0 .. Len(life) : n < Len(life) =>
         Append(SubSeq(life, 1, n), life[n + 1]) = SubSeq(life, 1, n + 1)
  BY <1>1, <1>2, FirstOnes
<1>6. SubSeq(life, 1, 1) = <<"requested">>
  <2>1. 0 \in 0 .. Len(life) /\ 0 < Len(life) /\ 0 + 1 = 1
    BY <1>1
  <2>2. Append(SubSeq(life, 1, 0), life[1]) = SubSeq(life, 1, 1)
    BY <1>5, <2>1
  <2>3. Append(<<>>, "requested") = <<"requested">>
    OBVIOUS
  <2> QED
    BY <1>1, <1>4, <2>2, <2>3
<1> QED
  BY <1>3, <1>4, <1>5, <1>6 DEF FirstOf, life

(* The trail of an operator's call, by where the call is. *)
Fits(c) ==
    LET life == Lifecycle(cmd[c])
        trail == Trail(c)
    IN
    /\ pc[c] # "idle"
    /\ pc[c] \in {"context", "refuse", "request"} => trail = <<>>
    /\ pc[c] = "refused" => trail = <<"requested">>
    /\ pc[c] = "denied" => trail = <<"requested", "failed">>
    /\ pc[c] = "approval" => RequiresApproval(c) /\ trail = FirstOf(cmd[c], 1)
    /\ pc[c] = "approve" => RequiresApproval(c) /\ trail = FirstOf(cmd[c], 2)
    /\ pc[c] = "start" => trail = FirstOf(cmd[c], Len(life) - 1)
    /\ pc[c] \in {"read", "write", "fail", "remember", "complete"} => trail = life
    /\ pc[c] = "returned" => trail = Append(life, "completed")
    /\ pc[c] = "raised" =>
          \/ trail = Append(life, "failed")
          \/ \E n \in 0 .. Len(life) :
                trail = FirstOf(cmd[c], n) /\ (MayFail \/ n = 0)
    /\ pc[c] = "lost" => \E n \in 0 .. Len(life) : trail = FirstOf(cmd[c], n)

TrailsFit == \A c \in Calls : IsOperatorCall(c) => Fits(c)

TrailsAreOwn ==
    \A c \in Calls, r \in Runs :
        TypesOf(ledger[r], c) # <<>> => IsOperatorCall(c) /\ cmd[c].run = r

(* A call of the recovery is the runtime operation alone. *)
RecoveryKeepsOut ==
    \A c \in Calls :
        IsOperatorCall(c) \/ pc[c] \in {"idle", "read", "write"} \cup Finished

TrailInv == TypeInv /\ TrailsFit /\ TrailsAreOwn /\ RecoveryKeepsOut

LEMMA TrailInit == Init => TrailInv
<1> SUFFICES ASSUME Init PROVE TrailInv
  OBVIOUS
<1>1. TypeInv
  BY TypeInit
<1>2. \A r \in Runs : ledger[r] = <<>>
  BY DEF Init
<1>3. TrailsAreOwn
  BY <1>2, NoEventsNoTypes DEF TrailsAreOwn
<1> QED
  BY <1>1, <1>3 DEF TrailInv, TrailsFit, RecoveryKeepsOut, IsOperatorCall, Init

(* What recording an event does to the trails, to that of its call alone. *)
LEMMA RecordTrail ==
    ASSUME TypeInv, NEW c \in Calls, Begun(c), NEW type \in EventTypes,
           NEW next, Record(c, type, next)
    PROVE  /\ \A d \in Calls \ {c} : pc'[d] = pc[d]
           /\ \A d \in Calls, r \in Runs : d # c \/ r # cmd[c].run =>
                 TypesOf(ledger'[r], d) = TypesOf(ledger[r], d)
           /\ \/ /\ pc'[c] = next
                 /\ TypesOf(ledger'[cmd[c].run], c) = Append(Trail(c), type)
              \/ /\ MayFail /\ pc'[c] = "raised"
                 /\ TypesOf(ledger'[cmd[c].run], c) = Trail(c)
<1> DEFINE run == cmd[c].run
           e == [type |-> type, call |-> c]
<1>1. cmd[c] \in Commands /\ run \in Runs
  BY CommandTypes DEF TypeInv, TypeOK, CallsCarryCommands
<1>2. e \in AuditEvent /\ e.call = c /\ e.type = type
  BY DEF AuditEvent
<1>3. ledger[run] \in Seq(AuditEvent)
  BY <1>1 DEF TypeInv, TypeOK
<1>4. \A d \in Calls \ {c} : pc'[d] = pc[d]
  BY DEF Record, Goto, TypeInv, TypeOK
<1>5. CASE MayFail /\ Goto(c, "raised") /\ UNCHANGED ledger
  BY <1>4, <1>5 DEF Goto, TypeInv, TypeOK, Trail
<1>6. CASE /\ ledger' = [ledger EXCEPT ![run] = Append(@, e)]
           /\ Goto(c, next)
  <2>1. /\ pc'[c] = next /\ ledger'[run] = Append(ledger[run], e)
        /\ \A r \in Runs \ {run} : ledger'[r] = ledger[r]
    BY <1>1, <1>6 DEF Goto, TypeInv, TypeOK
  <2> HIDE DEF e, run
  <2>2. ASSUME NEW d
        PROVE  TypesOf(ledger'[run], d)
                  = IF c = d THEN Append(TypesOf(ledger[run], d), type)
                    ELSE TypesOf(ledger[run], d)
    <3> DEFINE events == ledger[run]
    <3>1. events \in Seq(AuditEvent) /\ e \in AuditEvent
      BY <1>2, <1>3
    <3> HIDE DEF events
    <3>2. TypesOf(Append(events, e), d)
            = IF e.call = d THEN Append(TypesOf(events, d), e.type)
              ELSE TypesOf(events, d)
      BY <3>1, TypesGrow
    <3> QED
      BY <1>2, <2>1, <3>2 DEF events
  <2>3. TypesOf(ledger'[run], c) = Append(Trail(c), type)
    BY <2>2 DEF Trail, run
  <2>4. \A d \in Calls, r \in Runs : d # c \/ r # run =>
           TypesOf(ledger'[r], d) = TypesOf(ledger[r], d)
    BY <2>1, <2>2
  <2> QED
    BY <1>4, <2>1, <2>3, <2>4, Zenon DEF run
<1> QED
  BY <1>5, <1>6 DEF Record

LEMMA FitsStill ==
    ASSUME NEW c \in Calls, Fits(c), pc'[c] = pc[c], cmd'[c] = cmd[c],
           TypesOf(ledger'[cmd[c].run], c) = Trail(c)
    PROVE  Fits(c)'
<1>1. Trail(c)' = Trail(c)
  BY DEF Trail
<1> QED
  BY <1>1 DEF Fits, RequiresApproval

(* A call that raised when it recorded an event: its trail is as it was. *)
LEMMA FitsRaised ==
    ASSUME NEW c \in Calls, MayFail, pc'[c] = "raised", cmd'[c] = cmd[c],
           TypesOf(ledger'[cmd[c].run], c) = Trail(c),
           \E n \in 0 .. Len(Lifecycle(cmd[c])) : Trail(c) = FirstOf(cmd[c], n)
    PROVE  Fits(c)'
<1>1. Trail(c)' = Trail(c)
  BY DEF Trail
<1> QED
  BY <1>1 DEF Fits

LEMMA TwoEvents ==
    ASSUME NEW a, NEW b
    PROVE  Append(<<a>>, b) = <<a, b>>
<1> DEFINE one == <<a>>
           two == <<a, b>>
           both == Append(one, b)
<1>1. one \in Seq({a, b}) /\ Len(one) = 1 /\ one[1] = a /\ b \in {a, b}
  OBVIOUS
<1>2. two \in Seq({a, b}) /\ Len(two) = 2 /\ two[1] = a /\ two[2] = b
  OBVIOUS
<1> HIDE DEF one, two
<1>3. both \in Seq({a, b}) /\ Len(both) = 2 /\ both[1] = a /\ both[2] = b
  <2> DEFINE S == {a, b}
  <2>1. one \in Seq(S) /\ b \in S
    BY <1>1
  <2> HIDE DEF S
  <2>2. /\ both \in Seq(S) /\ Len(both) = Len(one) + 1
        /\ \A i \in 1 .. Len(one) : both[i] = one[i]
        /\ both[Len(one) + 1] = b
    BY <2>1, AppendProperties
  <2>3. Len(one) = 1 /\ Len(one) + 1 = 2 /\ 1 \in 1 .. Len(one)
    BY <1>1
  <2> QED
    BY <1>1, <2>2, <2>3 DEF S
<1> HIDE DEF both
<1>4. \A i \in 1 .. Len(both) : both[i] = two[i]
  BY <1>2, <1>3
<1>5. both = two
  BY <1>2, <1>3, <1>4, SeqEqual
<1> QED
  BY <1>5 DEF one, two, both

(* A call that recorded the event that its trail goes on with. *)
LEMMA RecordFits ==
    ASSUME TypeInv, NEW c \in Calls, Fits(c),
           \/ RecordRefused(c) \/ RecordDenied(c)
           \/ RecordRequest(c) \/ RequestApproval(c) \/ Approve(c)
           \/ RecordStarted(c) \/ RecordFailed(c) \/ RecordCompleted(c)
    PROVE  Fits(c)'
<1> DEFINE k == cmd[c]
           life == Lifecycle(k)
           n == Len(life)
           trail == Trail(c)
           new == TypesOf(ledger'[k.run], c)
<1>1. cmd' = cmd
  BY DEF RecordRefused, RecordDenied, RecordRequest, RequestApproval, Approve,
     RecordStarted, RecordFailed, RecordCompleted
<1>2. Trail(c)' = new
  BY <1>1 DEF Trail
<1>3. /\ n = IF RequiresApproval(c) THEN 4 ELSE 2
      /\ life[1] = "requested" /\ life[n] = "started"
      /\ RequiresApproval(c) => life[2] = "approval_requested"
                                /\ life[3] = "approved"
  BY Lifecycles DEF RequiresApproval
<1>4. /\ FirstOf(k, 0) = <<>>
      /\ FirstOf(k, 1) = <<"requested">>
      /\ FirstOf(k, n) = life
      /\ \A i \in 0 .. n : i < n => Append(FirstOf(k, i), life[i + 1])
                                       = FirstOf(k, i + 1)
  BY LifecyclesBegin
<1>5. ASSUME NEW type \in EventTypes, NEW next, Record(c, type, next), Begun(c)
      PROVE  \/ pc'[c] = next /\ new = Append(trail, type)
             \/ MayFail /\ pc'[c] = "raised" /\ new = trail
  BY <1>5, RecordTrail
<1>6. ASSUME MayFail, pc'[c] = "raised", new = trail,
             \E i \in 0 .. n : trail = FirstOf(k, i)
      PROVE  Fits(c)'
  BY <1>1, <1>6, FitsRaised
<1>7. RequiresApproval(c)' <=> RequiresApproval(c)
  BY <1>1 DEF RequiresApproval
<1> USE DEF EventTypes, Begun
<1>8. CASE RecordRefused(c)
  <2>1. trail = <<>> /\ pc[c] = "refuse"
    BY <1>8 DEF RecordRefused, Fits
  <2>2. trail = FirstOf(k, 0) /\ 0 \in 0 .. n
    BY <1>3, <1>4, <2>1
  <2>3. CASE pc'[c] = "refused" /\ new = Append(trail, "requested")
    <3>1. new = <<"requested">>
      BY <2>1, <2>3
    <3> QED
      BY <1>2, <2>3, <3>1 DEF Fits
  <2> QED
    BY <1>5, <1>6, <1>8, <2>1, <2>2, <2>3 DEF RecordRefused
<1>9. CASE RecordDenied(c)
  <2>1. trail = <<"requested">> /\ pc[c] = "refused"
    BY <1>9 DEF RecordDenied, Fits
  <2>2. trail = FirstOf(k, 1) /\ 1 \in 0 .. n
    BY <1>3, <1>4, <2>1
  <2>3. CASE pc'[c] = "denied" /\ new = Append(trail, "failed")
    <3>1. new = <<"requested", "failed">>
      BY <2>1, <2>3, TwoEvents
    <3> QED
      BY <1>2, <2>3, <3>1 DEF Fits
  <2> QED
    BY <1>5, <1>6, <1>9, <2>1, <2>2, <2>3 DEF RecordDenied
<1>10. CASE RecordRequest(c)
  <2>1. trail = <<>> /\ pc[c] = "request"
    BY <1>10 DEF RecordRequest, Fits
  <2>2. trail = FirstOf(k, 0) /\ 0 \in 0 .. n
    BY <1>3, <1>4, <2>1
  <2>3. Append(trail, "requested") = FirstOf(k, 1)
    BY <1>4, <2>1
  <2>4. CASE /\ pc'[c] = IF RequiresApproval(c) THEN "approval" ELSE "start"
             /\ new = Append(trail, "requested")
    BY <1>1, <1>2, <1>3, <1>7, <2>3, <2>4 DEF Fits
  <2> QED
    BY <1>5, <1>6, <1>10, <2>1, <2>2, <2>4 DEF RecordRequest
<1>11. CASE RequestApproval(c)
  <2>1. trail = FirstOf(k, 1) /\ RequiresApproval(c) /\ pc[c] = "approval"
    BY <1>11 DEF RequestApproval, Fits
  <2>2. 1 \in 0 .. n /\ n = 4
    BY <1>3, <2>1
  <2>3. Append(trail, "approval_requested") = FirstOf(k, 2)
    <3>1. 1 < n /\ 1 + 1 = 2
      BY <2>2
    <3>2. Append(FirstOf(k, 1), life[2]) = FirstOf(k, 2)
      BY <1>4, <2>2, <3>1
    <3> QED
      BY <1>3, <2>1, <3>2
  <2>4. CASE pc'[c] = "approve" /\ new = Append(trail, "approval_requested")
    BY <1>1, <1>2, <1>7, <2>1, <2>3, <2>4 DEF Fits
  <2> QED
    BY <1>5, <1>6, <1>11, <2>1, <2>2, <2>4 DEF RequestApproval
<1>12. CASE Approve(c)
  <2>1. trail = FirstOf(k, 2) /\ RequiresApproval(c) /\ pc[c] = "approve"
    BY <1>12 DEF Approve, Fits
  <2>2. 2 \in 0 .. n /\ n = 4
    BY <1>3, <2>1
  <2>3. Append(trail, "approved") = FirstOf(k, 3)
    <3>1. 2 < n /\ 2 + 1 = 3
      BY <2>2
    <3>2. Append(FirstOf(k, 2), life[3]) = FirstOf(k, 3)
      BY <1>4, <2>2, <3>1
    <3> QED
      BY <1>3, <2>1, <3>2
  <2>4. CASE pc'[c] = "start" /\ new = Append(trail, "approved")
    BY <1>1, <1>2, <2>2, <2>3, <2>4 DEF Fits
  <2> QED
    BY <1>5, <1>6, <1>12, <2>1, <2>2, <2>4 DEF Approve
<1>13. CASE RecordStarted(c)
  <2>1. trail = FirstOf(k, n - 1) /\ pc[c] = "start"
    BY <1>13 DEF RecordStarted, Fits
  <2>2. n - 1 \in 0 .. n /\ n - 1 < n /\ (n - 1) + 1 = n
    BY <1>3
  <2>3. Append(trail, "started") = life
    BY <1>3, <1>4, <2>1, <2>2
  <2>4. CASE pc'[c] = "read" /\ new = Append(trail, "started")
    BY <1>1, <1>2, <2>3, <2>4 DEF Fits
  <2> QED
    BY <1>5, <1>6, <1>13, <2>1, <2>2, <2>4 DEF RecordStarted
<1>14. CASE RecordFailed(c)
  <2>1. trail = life /\ pc[c] = "fail"
    BY <1>14 DEF RecordFailed, Fits
  <2>2. trail = FirstOf(k, n) /\ n \in 0 .. n
    BY <1>3, <1>4, <2>1
  <2>3. CASE pc'[c] = "raised" /\ new = Append(trail, "failed")
    BY <1>1, <1>2, <2>1, <2>3 DEF Fits
  <2> QED
    BY <1>5, <1>6, <1>14, <2>1, <2>2, <2>3 DEF RecordFailed
<1>15. CASE RecordCompleted(c)
  <2>1. trail = life /\ pc[c] = "complete"
    BY <1>15 DEF RecordCompleted, Fits
  <2>2. trail = FirstOf(k, n) /\ n \in 0 .. n
    BY <1>3, <1>4, <2>1
  <2>3. CASE pc'[c] = "returned" /\ new = Append(trail, "completed")
    BY <1>1, <1>2, <2>1, <2>3 DEF Fits
  <2> QED
    BY <1>5, <1>6, <1>15, <2>1, <2>2, <2>3 DEF RecordCompleted
<1> QED
  BY <1>8, <1>9, <1>10, <1>11, <1>12, <1>13, <1>14, <1>15

LEMMA RecordKeepsTrails ==
    ASSUME TrailInv, NEW c \in Calls,
           \/ RecordRefused(c) \/ RecordDenied(c)
           \/ RecordRequest(c) \/ RequestApproval(c) \/ Approve(c)
           \/ RecordStarted(c) \/ RecordFailed(c) \/ RecordCompleted(c)
    PROVE  TrailsFit' /\ TrailsAreOwn' /\ RecoveryKeepsOut'
<1>1. TypeInv /\ TrailsFit /\ TrailsAreOwn /\ RecoveryKeepsOut
  BY DEF TrailInv
<1>2. cmd' = cmd
  BY DEF RecordRefused, RecordDenied, RecordRequest, RequestApproval, Approve,
     RecordStarted, RecordFailed, RecordCompleted
<1>3. IsOperatorCall(c)
  BY <1>1 DEF RecoveryKeepsOut, Finished, RecordRefused, RecordDenied,
     RecordRequest, RequestApproval, Approve, RecordStarted, RecordFailed,
     RecordCompleted
<1>4. PICK type \in EventTypes, next \in Locations :
         Record(c, type, next) /\ Begun(c)
  BY RecordSteps
<1>5. /\ \A d \in Calls \ {c} : pc'[d] = pc[d]
      /\ \A d \in Calls, r \in Runs : d # c \/ r # cmd[c].run =>
            TypesOf(ledger'[r], d) = TypesOf(ledger[r], d)
  BY <1>1, <1>4, RecordTrail
<1>6. \A d \in Calls : IsOperatorCall(d)' <=> IsOperatorCall(d)
  BY <1>2 DEF IsOperatorCall
<1>7. TrailsFit'
  <2> SUFFICES ASSUME NEW d \in Calls, IsOperatorCall(d) PROVE Fits(d)'
    BY <1>6 DEF TrailsFit
  <2>1. Fits(d)
    BY <1>1 DEF TrailsFit
  <2>2. CASE d = c
    BY <1>1, <2>1, <2>2, RecordFits
  <2>3. CASE d # c
    <3>1. cmd[d].run \in Runs
      BY <1>1, CommandTypes DEF IsOperatorCall, TypeInv, TypeOK
    <3>2. TypesOf(ledger'[cmd[d].run], d) = Trail(d)
      BY <1>5, <2>3, <3>1 DEF Trail
    <3>3. pc'[d] = pc[d] /\ cmd'[d] = cmd[d]
      BY <1>2, <1>5, <2>3
    <3> QED
      BY <2>1, <3>2, <3>3, FitsStill
  <2> QED
    BY <2>2, <2>3
<1>8. TrailsAreOwn'
  <2> SUFFICES ASSUME NEW d \in Calls, NEW r \in Runs,
                      TypesOf(ledger'[r], d) # <<>>
               PROVE  IsOperatorCall(d)' /\ cmd'[d].run = r
    BY DEF TrailsAreOwn
  <2>1. CASE d = c /\ r = cmd[c].run
    BY <1>2, <1>3, <1>6, <2>1
  <2>2. CASE d # c \/ r # cmd[c].run
    <3>1. TypesOf(ledger[r], d) # <<>>
      BY <1>5, <2>2
    <3>2. IsOperatorCall(d) /\ cmd[d].run = r
      BY <1>1, <3>1 DEF TrailsAreOwn
    <3> QED
      BY <1>2, <1>6, <3>2
  <2> QED
    BY <2>1, <2>2
<1>9. RecoveryKeepsOut'
  <2> SUFFICES ASSUME NEW d \in Calls, ~IsOperatorCall(d)
               PROVE  pc'[d] \in {"idle", "read", "write"} \cup Finished
    BY <1>6 DEF RecoveryKeepsOut
  <2>1. d # c
    BY <1>3
  <2> QED
    BY <1>1, <1>5, <2>1 DEF RecoveryKeepsOut
<1> QED
  BY <1>7, <1>8, <1>9

(* What writes no event, and gives no call another command. *)
LEMMA OthersKeepTrails ==
    ASSUME TrailInv, UNCHANGED ledger,
           \A d \in Calls : cmd[d] # None => cmd'[d] = cmd[d],
           NEW S \in SUBSET Calls,
           \A d \in Calls \ S : pc'[d] = pc[d] /\ cmd'[d] = cmd[d],
           \A d \in S :
              /\ IsOperatorCall(d)' => Fits(d)'
              /\ \/ IsOperatorCall(d)'
                 \/ pc'[d] \in {"idle", "read", "write"} \cup Finished
    PROVE  TrailsFit' /\ TrailsAreOwn' /\ RecoveryKeepsOut'
<1>1. TrailsFit /\ TrailsAreOwn /\ RecoveryKeepsOut
  BY DEF TrailInv
<1>2. \A d \in Calls : IsOperatorCall(d) => IsOperatorCall(d)'
  BY DEF IsOperatorCall
<1>3. \A d \in Calls \ S : IsOperatorCall(d)' <=> IsOperatorCall(d)
  BY DEF IsOperatorCall
<1>4. TrailsFit'
  <2> SUFFICES ASSUME NEW d \in Calls \ S, IsOperatorCall(d)' PROVE Fits(d)'
    BY DEF TrailsFit
  <2>1. Fits(d)
    BY <1>1, <1>3 DEF TrailsFit
  <2>2. TypesOf(ledger'[cmd[d].run], d) = Trail(d)
    BY DEF Trail
  <2> QED
    BY <2>1, <2>2, FitsStill
<1>5. TrailsAreOwn'
  <2> SUFFICES ASSUME NEW d \in Calls, NEW r \in Runs,
                      TypesOf(ledger'[r], d) # <<>>
               PROVE  IsOperatorCall(d)' /\ cmd'[d].run = r
    BY DEF TrailsAreOwn
  <2>1. IsOperatorCall(d) /\ cmd[d].run = r
    BY <1>1 DEF TrailsAreOwn
  <2>2. cmd'[d] = cmd[d]
    BY <2>1 DEF IsOperatorCall
  <2> QED
    BY <1>2, <2>1, <2>2
<1>6. RecoveryKeepsOut'
  <2> SUFFICES ASSUME NEW d \in Calls \ S, ~IsOperatorCall(d)
               PROVE  pc'[d] \in {"idle", "read", "write"} \cup Finished
    BY <1>3 DEF RecoveryKeepsOut
  <2> QED
    BY <1>1 DEF RecoveryKeepsOut
<1> QED
  BY <1>4, <1>5, <1>6

LEMMA TrailStep ==
    ASSUME TrailInv, [Next]_vars
    PROVE  TrailInv'
<1> DEFINE Kept == TrailsFit' /\ TrailsAreOwn' /\ RecoveryKeepsOut'
           Away == {"idle", "read", "write"} \cup Finished
<1>1. TypeInv /\ TrailsFit /\ TrailsAreOwn /\ RecoveryKeepsOut
  BY DEF TrailInv
<1>2. TypeInv'
  BY <1>1, TypeStep
<1>3. \A d \in Calls : cmd[d] # None => cmd'[d] = cmd[d]
  BY <1>1, Grows
<1>4. CASE UNCHANGED <<ledger, pc, cmd>>
  <2> DEFINE S == {}
  <2>1. S \in SUBSET Calls /\ UNCHANGED ledger
        /\ \A d \in Calls \ S : pc'[d] = pc[d] /\ cmd'[d] = cmd[d]
    BY <1>4
  <2>2. \A d \in S : /\ IsOperatorCall(d)' => Fits(d)'
                     /\ IsOperatorCall(d)' \/ pc'[d] \in Away
    OBVIOUS
  <2> HIDE DEF S
  <2>3. Kept
    BY <1>3, <2>1, <2>2, OthersKeepTrails
  <2> QED
    BY <1>2, <2>3 DEF TrailInv
<1>5. ASSUME NEW c \in Calls, UNCHANGED ledger,
             \A d \in Calls \ {c} : pc'[d] = pc[d] /\ cmd'[d] = cmd[d],
             IsOperatorCall(c)' => Fits(c)',
             IsOperatorCall(c)' \/ pc'[c] \in Away
      PROVE  Kept
  <2>1. {c} \in SUBSET Calls
    OBVIOUS
  <2>2. \A d \in {c} : /\ IsOperatorCall(d)' => Fits(d)'
                       /\ IsOperatorCall(d)' \/ pc'[d] \in Away
    BY <1>5
  <2> QED
    BY <1>3, <1>5, <2>1, <2>2, OthersKeepTrails
<1>6. ASSUME NEW c \in Calls, NEW k \in Commands, Submit(c, k) \/ CallRuntime(c, k)
      PROVE  Kept
  <2>1. /\ UNCHANGED ledger /\ cmd[c] = None /\ cmd'[c] = k
        /\ \A d \in Calls \ {c} : pc'[d] = pc[d] /\ cmd'[d] = cmd[d]
        /\ \/ pc'[c] \in {"raised", "context"} /\ k.by = "operator"
           \/ pc'[c] = "read" /\ k.by = "recovery"
    BY <1>1, <1>6 DEF Submit, CallRuntime, Goto, TypeInv, TypeOK,
       CallsCarryCommands, Begun
  <2>2. k.run \in Runs /\ k # None /\ k.by \in {"operator", "recovery"}
    BY CommandTypes
  <2>3. Trail(c)' = <<>>
    BY <1>1, <2>1, <2>2 DEF Trail, TrailsAreOwn, IsOperatorCall
  <2>4. FirstOf(k, 0) = <<>> /\ 0 \in 0 .. Len(Lifecycle(k))
    BY LifecyclesBegin, Lifecycles
  <2>5. IsOperatorCall(c)' <=> k.by = "operator"
    BY <2>1, <2>2 DEF IsOperatorCall
  <2>6. k.by = "operator" => Fits(c)'
    BY <2>1, <2>3, <2>4 DEF Fits
  <2>7. k.by # "operator" => pc'[c] \in Away
    BY <2>1
  <2> QED
    BY <1>5, <2>1, <2>5, <2>6, <2>7
<1>7. ASSUME NEW c \in Calls,
             \/ Dispatch(c) \/ ReadSession(c) \/ WriteSession(c)
             \/ RememberReceipt(c)
      PROVE  Kept
  <2>1. /\ UNCHANGED <<ledger, cmd>> /\ \A d \in Calls \ {c} : pc'[d] = pc[d]
        /\ \/ pc[c] = "context" /\ pc'[c] \in {"refuse", "request"}
           \/ /\ pc[c] = "read"
              /\ \/ pc'[c] = "write"
                 \/ pc'[c] = IF cmd[c].by = "operator" THEN "fail" ELSE "raised"
           \/ /\ pc[c] = "write"
              /\ pc'[c] = IF cmd[c].by = "operator" THEN "remember" ELSE "returned"
           \/ pc[c] = "remember" /\ pc'[c] = "complete"
    BY <1>1, <1>7 DEF Dispatch, ReadSession, WriteSession, RememberReceipt, Goto,
       TypeInv, TypeOK
  <2>2. IsOperatorCall(c)' <=> IsOperatorCall(c)
    BY <2>1 DEF IsOperatorCall
  <2>3. Trail(c)' = Trail(c)
    BY <2>1 DEF Trail
  <2>4. IsOperatorCall(c) => cmd[c].by = "operator" /\ Fits(c)
    BY <1>1 DEF IsOperatorCall, TrailsFit
  <2>5. IsOperatorCall(c) => Fits(c)'
    BY <2>1, <2>3, <2>4 DEF Fits
  <2>6. ~IsOperatorCall(c) => pc'[c] \in Away
    <3>1. cmd[c] # None
      BY <1>1, <2>1 DEF TypeInv, CallsCarryCommands, Begun
    <3> QED
      BY <1>1, <2>1, <3>1 DEF RecoveryKeepsOut, IsOperatorCall, Finished
  <2> QED
    BY <1>5, <2>1, <2>2, <2>5, <2>6
<1>8. CASE Crash
  <2>1. UNCHANGED <<ledger, cmd>>
        /\ \A d \in Calls : pc'[d] = IF InFlight(d) THEN "lost" ELSE pc[d]
    BY <1>8 DEF Crash
  <2> DEFINE S == {d \in Calls : InFlight(d)}
  <2>2. \A d \in Calls \ S : pc'[d] = pc[d] /\ cmd'[d] = cmd[d]
    BY <2>1
  <2>3. ASSUME NEW d \in S, IsOperatorCall(d)' PROVE Fits(d)'
    <3> DEFINE life == Lifecycle(cmd[d])
               n == Len(life)
    <3>1. Trail(d)' = Trail(d) /\ pc'[d] = "lost" /\ cmd'[d] = cmd[d]
      BY <2>1 DEF Trail
    <3>2. Fits(d) /\ InFlight(d)
      BY <1>1, <2>1, <2>3 DEF TrailsFit, IsOperatorCall
    <3>3. /\ FirstOf(cmd[d], 0) = <<>>
          /\ FirstOf(cmd[d], 1) = <<"requested">>
          /\ FirstOf(cmd[d], n) = life
      BY LifecyclesBegin
    <3>4. n = IF RequiresApproval(d) THEN 4 ELSE 2
      BY Lifecycles DEF RequiresApproval
    <3>5. 0 \in 0 .. n /\ 1 \in 0 .. n /\ n - 1 \in 0 .. n /\ n \in 0 .. n
          /\ 2 \in 0 .. n
      BY <3>4
    <3>6. pc[d] \in Locations \ ({"idle"} \cup Finished)
      BY <1>1, <3>2 DEF InFlight, TypeInv, TypeOK
    <3> HIDE DEF life, n
    <3>7. \E i \in 0 .. n : Trail(d) = FirstOf(cmd[d], i)
      BY <3>2, <3>3, <3>5, <3>6 DEF Fits, Locations, life, n
    <3> QED
      BY <3>1, <3>7 DEF Fits, life, n
  <2>4. \A d \in S : pc'[d] \in Away
    BY <2>1 DEF Finished
  <2>5. S \in SUBSET Calls
    OBVIOUS
  <2>6. \A d \in S : /\ IsOperatorCall(d)' => Fits(d)'
                     /\ IsOperatorCall(d)' \/ pc'[d] \in Away
    BY <2>3, <2>4
  <2> HIDE DEF S
  <2>7. Kept
    BY <1>3, <2>1, <2>2, <2>5, <2>6, OthersKeepTrails
  <2> QED
    BY <1>2, <2>7 DEF TrailInv
<1>9. ASSUME NEW c \in Calls, Step(c) PROVE Kept
  BY <1>7, <1>9, RecordKeepsTrails DEF Step
<1>10. \A r \in Runs : RegisterRun(r) => UNCHANGED <<ledger, pc, cmd>>
  BY DEF RegisterRun
<1>11. UNCHANGED vars => UNCHANGED <<ledger, pc, cmd>>
  BY DEF vars
<1>12. Kept => TrailInv'
  BY <1>2 DEF TrailInv
<1> HIDE DEF Kept
<1> QED
  BY <1>4, <1>6, <1>8, <1>9, <1>10, <1>11, <1>12 DEF Next

LEMMA TrailInvariant == Spec => []TrailInv
<1>1. TrailInv /\ [Next]_vars => TrailInv'
  BY TrailStep
<1> QED
  BY <1>1, TrailInit, PTL DEF Spec

(* A sequence that ends in one event more begins with the one before it.   *)
LEMMA PrefixOfLonger ==
    ASSUME NEW k, NEW n \in 0 .. Len(Lifecycle(k)), NEW e \in EventTypes
    PROVE  IsAPrefix(FirstOf(k, n), Append(Lifecycle(k), e))
<1> DEFINE life == Lifecycle(k)
           longer == Append(life, e)
<1>1. life \in Seq(EventTypes) /\ Len(life) \in Nat
  BY Lifecycles
<1> HIDE DEF life
<1>2. /\ Len(SubSeq(life, 1, n)) = n
      /\ SubSeq(longer, 1, n) = SubSeq(life, 1, n)
  BY <1>1, FirstOnes DEF life
<1>3. Len(longer) = Len(life) + 1
  BY <1>1, AppendProperties
<1>4. n <= Len(longer)
  BY <1>1, <1>3 DEF life
<1> QED
  BY <1>2, <1>4 DEF IsAPrefix, FirstOf, life

LEMMA PrefixOfItself ==
    ASSUME NEW S, NEW s \in Seq(S)
    PROVE  IsAPrefix(s, s)
<1>1. Len(s) \in Nat /\ SubSeq(s, 1, Len(s)) = s
  BY SubSeqFull, LenProperties
<1> QED
  BY <1>1 DEF IsAPrefix

(* However calls interleave, whatever appends fail and whenever the        *)
(* process stops: what a caller is told is what the ledger of the run, and *)
(* no other, says of its call.                                             *)
THEOREM RepliesMatchLedger == Spec => []ReplyMatchesLedger
<1>1. TrailInv => ReplyMatchesLedger
  <2> SUFFICES ASSUME TrailInv, NEW c \in Calls, IsOperatorCall(c)
               PROVE  LET trail == Trail(c)
                          life == Lifecycle(cmd[c])
                      IN  /\ pc[c] = "returned" => trail = Append(life, "completed")
                          /\ pc[c] = "denied" => trail = <<"requested", "failed">>
                          /\ pc[c] = "raised" =>
                                /\ \A i \in DOMAIN trail : trail[i] # "completed"
                                /\ MayFail \/ trail \in {<<>>, Append(life, "failed")}
                          /\ \/ IsAPrefix(trail, Append(life, "completed"))
                             \/ IsAPrefix(trail, Append(life, "failed"))
                             \/ trail = <<"requested", "failed">>
                          /\ \A r \in Runs \ {cmd[c].run} :
                                TypesOf(ledger[r], c) = <<>>
    BY DEF ReplyMatchesLedger
  <2> DEFINE k == cmd[c]
             life == Lifecycle(k)
             n == Len(life)
             trail == Trail(c)
  <2>1. Fits(c) /\ pc[c] \in Locations
    BY DEF TrailInv, TrailsFit, TypeInv, TypeOK
  <2>2. \A r \in Runs \ {k.run} : TypesOf(ledger[r], c) = <<>>
    BY DEF TrailInv, TrailsAreOwn
  <2>3. /\ life \in Seq(EventTypes) /\ n \in Nat
        /\ n = IF RequiresApproval(c) THEN 4 ELSE 2
        /\ \A i \in 1 .. n : life[i] # "completed"
    <3>1. /\ life \in Seq(EventTypes)
          /\ n = IF RequiresApproval(c) THEN 4 ELSE 2
          /\ \A i \in 1 .. n : life[i] # "completed"
      BY Lifecycles DEF RequiresApproval
    <3> HIDE DEF life
    <3> QED
      BY <3>1, LenProperties
  <2>4. /\ FirstOf(k, 0) = <<>>
        /\ FirstOf(k, 1) = <<"requested">>
        /\ FirstOf(k, n) = life
    BY LifecyclesBegin
  <2>5. /\ pc[c] = "returned" => trail = Append(life, "completed")
        /\ pc[c] = "denied" => trail = <<"requested", "failed">>
        /\ pc[c] = "raised" =>
              \/ trail = Append(life, "failed")
              \/ \E i \in 0 .. n : trail = FirstOf(k, i) /\ (MayFail \/ i = 0)
    BY <2>1 DEF Fits
  <2>6. \/ \E i \in 0 .. n : trail = FirstOf(k, i)
        \/ trail = Append(life, "completed") /\ pc[c] = "returned"
        \/ trail = Append(life, "failed")
        \/ trail = <<"requested", "failed">> /\ pc[c] = "denied"
    <3>1. 0 \in 0 .. n /\ 1 \in 0 .. n /\ n - 1 \in 0 .. n /\ n \in 0 .. n
          /\ 2 \in 0 .. n
      BY <2>3
    <3> HIDE DEF life, n
    <3> QED
      BY <2>1, <2>4, <3>1 DEF Fits, Locations, Finished, life, n
  <2> HIDE DEF life, n, trail
  <2>7. \A i \in DOMAIN trail : pc[c] = "raised" => trail[i] # "completed"
    <3> SUFFICES ASSUME pc[c] = "raised", NEW i \in DOMAIN trail
                 PROVE  trail[i] # "completed"
      OBVIOUS
    <3>1. CASE trail = Append(life, "failed")
      <4>1. "failed" \in EventTypes
        BY DEF EventTypes
      <4> DEFINE longer == Append(life, "failed")
      <4>2. /\ longer \in Seq(EventTypes)
            /\ Len(longer) = n + 1
            /\ \A j \in 1 .. n : longer[j] = life[j]
            /\ longer[n + 1] = "failed"
        <5>1. /\ longer \in Seq(EventTypes)
              /\ Len(longer) = Len(life) + 1
              /\ \A j \in 1 .. Len(life) : longer[j] = life[j]
              /\ longer[Len(life) + 1] = "failed"
          BY <2>3, <4>1, AppendProperties
        <5> HIDE DEF longer
        <5> QED
          BY <5>1 DEF n
      <4>3. i \in 1 .. n + 1
        BY <3>1, <4>2, LenProperties
      <4> QED
        BY <2>3, <3>1, <4>2, <4>3
    <3>2. CASE \E j \in 0 .. n : trail = FirstOf(k, j)
      <4>1. PICK j \in 0 .. n : trail = FirstOf(k, j)
        BY <3>2
      <4>2. /\ trail \in Seq(EventTypes) /\ Len(trail) = j
            /\ \A l \in 1 .. j : trail[l] = life[l]
        <5>1. "failed" \in EventTypes
          BY DEF EventTypes
        <5> QED
          BY <2>3, <4>1, <5>1, FirstOnes DEF FirstOf, life, n
      <4>3. i \in 1 .. j
        BY <4>2, LenProperties
      <4> QED
        BY <2>3, <4>2, <4>3
    <3> QED
      BY <2>5, <3>1, <3>2
  <2>8. pc[c] = "raised" => MayFail \/ trail \in {<<>>, Append(life, "failed")}
    BY <2>4, <2>5
  <2>9. \/ IsAPrefix(trail, Append(life, "completed"))
        \/ IsAPrefix(trail, Append(life, "failed"))
        \/ trail = <<"requested", "failed">>
    <3>1. {"completed", "failed"} \subseteq EventTypes
      BY DEF EventTypes
    <3>2. \A e \in EventTypes : Append(life, e) \in Seq(EventTypes)
      BY <2>3, AppendProperties
    <3>3. \A e \in EventTypes : IsAPrefix(Append(life, e), Append(life, e))
      BY <3>2, PrefixOfItself
    <3>4. \A i \in 0 .. n : IsAPrefix(FirstOf(k, i), Append(life, "completed"))
      BY <3>1, PrefixOfLonger DEF life, n
    <3> QED
      BY <2>6, <3>1, <3>3, <3>4
  <2> QED
    BY <2>2, <2>5, <2>7, <2>8, <2>9 DEF life, trail
<1> QED
  BY <1>1, TrailInvariant, PTL

-----------------------------------------------------------------------------
(***************************************************************************)
(* Control is never hidden: the receipt the service holds has its approval *)
(* on record (ReceiptsAreApproved), so a receipt is shown.                 *)
(***************************************************************************)

LEMMA GreatestOf ==
    ASSUME NEW n \in Nat, NEW S, S \subseteq 0 .. n, S # {}
    PROVE  \E m \in S : \A k \in S : k <= m
<1> DEFINE T == {n - k : k \in S}
<1>1. T \subseteq Nat /\ T # {}
  <2>1. \A k \in S : n - k \in Nat
    OBVIOUS
  <2> QED
    BY <2>1
<1>2. PICK d \in T : \A e \in T : d <= e
  BY <1>1, LeastOf
<1>3. PICK m \in S : d = n - m
  OBVIOUS
<1>4. ASSUME NEW k \in S PROVE k <= m
  <2>1. n - m <= n - k
    BY <1>2, <1>3
  <2> QED
    BY <2>1
<1> QED
  BY <1>4

-----------------------------------------------------------------------------
(* The order of the events on the pages *)

LEMMA EventTimes ==
    ASSUME TypeOK, NEW r \in Runs, NEW i \in Happened(r)
    PROVE  EventTime(ledger[r][i]) \in 0 .. LastTime /\ i \in Nat
<1>1. ledger[r] \in Seq(AuditEvent) /\ i \in 1 .. Len(ledger[r])
  BY DEF TypeOK, Happened
<1>2. ledger[r][i].call \in Calls
  <2>1. ledger[r][i] \in AuditEvent
    BY <1>1, ElementOfSeq
  <2> QED
    BY <2>1 DEF AuditEvent
<1>3. /\ OccurredAt[ledger[r][i].call] \in 0 .. LastTime
      /\ ApprovedAt[ledger[r][i].call] \in 0 .. LastTime
  BY <1>2, ClockAssumption
<1>4. i \in Nat
  BY <1>1
<1> QED
  BY <1>3, <1>4 DEF EventTime

LEMMA NotAfterIsTransitive ==
    ASSUME TypeOK, NEW r \in Runs,
           NEW i \in Happened(r), NEW j \in Happened(r), NEW k \in Happened(r),
           NotAfter(r, i, j), NotAfter(r, j, k)
    PROVE  NotAfter(r, i, k)
<1> DEFINE T(l) == EventTime(ledger[r][l])
<1>1. /\ T(i) \in Nat /\ T(j) \in Nat /\ T(k) \in Nat
      /\ i \in Nat /\ j \in Nat /\ k \in Nat
  BY EventTimes, ClockAssumption
<1>2. /\ T(i) < T(j) \/ (T(i) = T(j) /\ i <= j)
      /\ T(j) < T(k) \/ (T(j) = T(k) /\ j <= k)
  BY DEF NotAfter
<1> HIDE DEF T
<1>3. T(i) < T(k) \/ (T(i) = T(k) /\ i <= k)
  BY <1>1, <1>2
<1> QED
  BY <1>3 DEF NotAfter, T

(* Of some events, one is the first and one is the last. *)
LEMMA FirstEvent ==
    ASSUME TypeOK, NEW r \in Runs, NEW S, S \subseteq Happened(r), S # {}
    PROVE  \E m \in S : \A k \in S : NotAfter(r, m, k)
<1> DEFINE T(l) == EventTime(ledger[r][l])
<1>1. \A i \in S : T(i) \in Nat /\ i \in Nat
  BY EventTimes, ClockAssumption
<1> HIDE DEF T
<1> DEFINE times == {T(i) : i \in S}
<1>2. PICK t \in times : \A u \in times : t <= u
  BY <1>1, LeastOf
<1> DEFINE early == {i \in S : T(i) = t}
<1>3. early # {} /\ early \subseteq Nat
  BY <1>1
<1>4. PICK m \in early : \A k \in early : m <= k
  BY <1>3, LeastOf
<1>5. ASSUME NEW k \in S PROVE T(m) < T(k) \/ (T(m) = T(k) /\ m <= k)
  <2>1. T(m) = t /\ T(m) <= T(k) /\ T(m) \in Nat /\ T(k) \in Nat
    BY <1>1, <1>2
  <2>2. T(k) = t => m <= k
    BY <1>4
  <2> QED
    BY <2>1, <2>2
<1> QED
  BY <1>5 DEF NotAfter, T

LEMMA LastEvent ==
    ASSUME TypeOK, NEW r \in Runs, NEW S, S \subseteq Happened(r), S # {}
    PROVE  \E m \in S : \A k \in S : NotAfter(r, k, m)
<1> DEFINE T(l) == EventTime(ledger[r][l])
           n == Len(ledger[r])
<1>1. \A i \in S : T(i) \in 0 .. LastTime /\ i \in 0 .. n
  BY EventTimes DEF Happened
<1>2. n \in Nat /\ LastTime \in Nat
  BY ClockAssumption DEF TypeOK
<1> HIDE DEF T, n
<1> DEFINE times == {T(i) : i \in S}
<1>3. PICK t \in times : \A u \in times : u <= t
  <2>1. times # {} /\ times \subseteq 0 .. LastTime
    BY <1>1
  <2> HIDE DEF times
  <2> QED
    BY <1>2, <2>1, GreatestOf
<1> DEFINE late == {i \in S : T(i) = t}
<1>4. late # {} /\ late \subseteq 0 .. n
  BY <1>1
<1>5. PICK m \in late : \A k \in late : k <= m
  BY <1>2, <1>4, GreatestOf
<1>6. ASSUME NEW k \in S PROVE T(k) < T(m) \/ (T(k) = T(m) /\ k <= m)
  <2>1. T(m) = t /\ T(k) <= T(m) /\ T(m) \in Int /\ T(k) \in Int
    BY <1>1, <1>3
  <2>2. T(k) = t => k <= m
    BY <1>5
  <2> QED
    BY <2>1, <2>2
<1> QED
  BY <1>6 DEF NotAfter, T

(* Of the receipts that may be shown, one is. *)
LEMMA OneIsShown ==
    ASSUME TypeOK, NEW r \in Runs, ActiveReceipts(r) # {}
    PROVE  Shown(r) # {}
<1> DEFINE appeared(u, i) == /\ i \in ReceiptEvents(r, u)
                             /\ \A j \in ReceiptEvents(r, u) : NotAfter(r, i, j)
           places == {i \in Happened(r) :
                        \E u \in ActiveReceipts(r) : appeared(u, i)}
<1>1. ASSUME NEW t PROVE ReceiptEvents(r, t) \subseteq Happened(r)
  BY Zenon DEF ReceiptEvents
<1>2. ASSUME NEW t \in ActiveReceipts(r)
      PROVE  \E i \in Happened(r) : appeared(t, i)
  <2>1. ReceiptEvents(r, t) # {}
    <3>1. "approved" \in {ledger[r][i].type : i \in ReceiptEvents(r, t)}
      BY Zenon DEF ActiveReceipts
    <3> QED
      BY <3>1
  <2>2. PICK i \in ReceiptEvents(r, t) :
           \A j \in ReceiptEvents(r, t) : NotAfter(r, i, j)
    BY <1>1, <2>1, FirstEvent
  <2> QED
    BY <1>1, <2>2
<1>3. places # {} /\ places \subseteq Happened(r)
  BY <1>2
<1>4. PICK m \in places : \A k \in places : NotAfter(r, k, m)
  BY <1>3, LastEvent
<1>5. PICK t \in ActiveReceipts(r) : appeared(t, m)
  BY <1>4
<1>6. ASSUME NEW u \in ActiveReceipts(r) PROVE Precedes(r, t, u)
  <2>1. PICK j \in Happened(r) : appeared(u, j)
    BY <1>2
  <2>2. NotAfter(r, j, m)
    BY <1>4, <2>1
  <2>3. ASSUME NEW i \in ReceiptEvents(r, t) PROVE NotAfter(r, j, i)
    <3>1. NotAfter(r, m, i)
      BY <1>5
    <3>2. i \in Happened(r) /\ m \in Happened(r)
      BY <1>1, <1>3
    <3> QED
      BY <2>2, <3>1, <3>2, NotAfterIsTransitive
  <2> QED
    BY <2>1, <2>3 DEF Precedes
<1> QED
  BY <1>5, <1>6 DEF Shown

(* The receipt that is held is one of those that may be shown. *)
LEMMA HeldIsActive ==
    ASSUME TypeOK, ReceiptIsApproved, NEW r \in Runs, receipts[r] # None
    PROVE  receipts[r] \in ActiveReceipts(r)
<1> DEFINE t == receipts[r]
<1>1. t \in Calls /\ Len(ledger[r]) \in Nat
  BY DEF TypeOK
<1>2. PICK j \in 1 .. Len(ledger[r]) :
         ledger[r][j] = [type |-> "approved", call |-> t]
  BY DEF ReceiptIsApproved
<1>3. cmd[t].action = "mode switch"
  BY DEF ReceiptIsApproved
<1>4. j \in ReceiptEvents(r, t)
  <2>1. ledger[r][j].type = "approved" /\ ledger[r][j].call = t
    BY <1>2
  <2>2. ActionOf(ledger[r][j]) = "mode switch" /\ j \in Happened(r)
    BY <1>3, <2>1 DEF ActionOf, Happened
  <2> QED
    BY <2>1, <2>2 DEF ReceiptEvents
<1>5. "approved" \in {ledger[r][i].type : i \in ReceiptEvents(r, t)}
  BY <1>2, <1>4
<1> QED
  BY <1>1, <1>5 DEF ActiveReceipts, ActiveStatuses

(* A run that is unlocked is shown with all its actions, whatever has      *)
(* failed or was restarted, however calls interleave and whatever the      *)
(* clocks of the callers say.                                              *)
THEOREM ControlIsNeverHidden == Spec => []UnlockedIsOffered
<1>1. TypeOK /\ ReceiptIsApproved => UnlockedIsOffered
  <2> SUFFICES ASSUME TypeOK, ReceiptIsApproved, NEW r \in Runs,
                      receipts[r] # None
               PROVE  Shown(r) # {}
    BY DEF UnlockedIsOffered, Unlocked, AvailableActions, ObservationModeState
  <2> QED
    BY HeldIsActive, OneIsShown
<1> QED
  BY <1>1, TypeCorrect, ReceiptsAreApproved, PTL

-----------------------------------------------------------------------------
(***************************************************************************)
(* The receipt shown is the one held, of a host that serves one call at a  *)
(* time: the last approval in a run's ledger is that of the receipt it     *)
(* holds, or of a switch that has failed or is still on its way            *)
(* (LatestIsHeld), because a call's events are the last ones for as long   *)
(* as it is on its way (InFlightIsLast) and it does not complete without   *)
(* holding the receipt (CompleteHolds).                                    *)
(***************************************************************************)
ReceiptTypes == {"approved", "started", "completed", "failed"}

AskedForSwitches ==
    \A c \in Calls :
        /\ pc[c] \in {"approval", "approve"} => cmd[c].action = "mode switch"
        /\ pc[c] \in {"refuse", "refused"} => cmd[c].action # "mode switch"

ApprovedAreSwitches ==
    \A r \in Runs : \A i \in 1 .. Len(ledger[r]) :
        ledger[r][i].type = "approved" =>
            cmd[ledger[r][i].call].action = "mode switch"

ReceiptsBegin ==
    \A r \in Runs : \A i \in 1 .. Len(ledger[r]) :
        /\ cmd[ledger[r][i].call].action = "mode switch"
        /\ ledger[r][i].type \in ReceiptTypes
        => \E j \in 1 .. Len(ledger[r]) :
              /\ j <= i
              /\ ledger[r][j].type = "approved"
              /\ ledger[r][j].call = ledger[r][i].call

InFlightIsLast ==
    \A c \in Calls : InFlight(c) =>
        \A r \in Runs : \A i, j \in 1 .. Len(ledger[r]) :
            i < j /\ ledger[r][i].call = c => ledger[r][j].call = c

CompleteHolds ==
    \A c \in Calls :
        pc[c] = "complete" /\ cmd[c].action = "mode switch" =>
            receipts[cmd[c].run] = c

LatestIsHeld ==
    \A r \in Runs : receipts[r] # None =>
        \A i, j \in 1 .. Len(ledger[r]) :
            /\ i < j
            /\ ledger[r][i].type = "approved"
            /\ ledger[r][i].call = receipts[r]
            /\ ledger[r][j].type = "approved"
            /\ ledger[r][j].call # receipts[r]
            => pc[ledger[r][j].call] = "raised" \/ InFlight(ledger[r][j].call)

HeldInv ==
    /\ AskedForSwitches /\ ApprovedAreSwitches /\ ReceiptsBegin
    /\ InFlightIsLast /\ CompleteHolds /\ LatestIsHeld

LEMMA HeldInit == Init => HeldInv
<1> SUFFICES ASSUME Init PROVE HeldInv
  OBVIOUS
<1>1. \A r \in Runs : Len(ledger[r]) = 0
  BY DEF Init
<1> QED
  BY <1>1 DEF Init, HeldInv, AskedForSwitches, ApprovedAreSwitches,
     ReceiptsBegin, InFlightIsLast, CompleteHolds, LatestIsHeld

(* A call that begins, or goes on without an event: it ends only by an     *)
(* error, or as one of the recovery.                                       *)
GoesOn(c) ==
    \/ /\ cmd[c] = None /\ pc'[c] \in {"raised", "context", "read"}
    \/ /\ cmd'[c] = cmd[c] /\ InFlight(c)
       /\ \/ pc[c] = "context" /\ pc'[c] \in {"refuse", "request"}
          \/ pc[c] = "read" /\ pc'[c] \in {"write", "fail", "raised"}
          \/ pc[c] = "write" /\ pc'[c] \in {"remember", "returned"}
       /\ pc'[c] = "refuse" => cmd[c].action # "mode switch"
       /\ pc'[c] = "returned" => cmd[c].action # "mode switch"

LEMMA OthersKeepHeld ==
    ASSUME SerialInv, HeldInv, ledger' = ledger, receipts' = receipts, NEW c \in Calls,
           \A d \in Calls \ {c} : pc'[d] = pc[d] /\ cmd'[d] = cmd[d],
           GoesOn(c)
    PROVE  HeldInv'
<1>1. TypeInv /\ EventsAreOwn
  BY DEF SerialInv, SafetyInv
<1>2. ASSUME NEW r \in Runs, NEW i \in 1 .. Len(ledger[r])
      PROVE  /\ ledger[r][i].call \in Calls
             /\ cmd[ledger[r][i].call] # None
             /\ cmd'[ledger[r][i].call] = cmd[ledger[r][i].call]
  <2>1. PICK d \in Calls : d = ledger[r][i].call /\ cmd[d] # None
    BY <1>1, EventTyped DEF EventsAreOwn
  <2>2. cmd'[d] = cmd[d]
    BY <2>1 DEF GoesOn
  <2> QED
    BY <2>1, <2>2
<1>3. AskedForSwitches'
  BY DEF HeldInv, AskedForSwitches, GoesOn
<1>4. ApprovedAreSwitches'
  BY <1>2 DEF HeldInv, ApprovedAreSwitches
<1>5. ReceiptsBegin'
  <2> SUFFICES ASSUME NEW r \in Runs, NEW i \in 1 .. Len(ledger[r]),
                      cmd'[ledger[r][i].call].action = "mode switch",
                      ledger[r][i].type \in ReceiptTypes
               PROVE  \E j \in 1 .. Len(ledger[r]) :
                         /\ j <= i
                         /\ ledger[r][j].type = "approved"
                         /\ ledger[r][j].call = ledger[r][i].call
    BY DEF ReceiptsBegin
  <2>1. cmd[ledger[r][i].call].action = "mode switch"
    BY <1>2
  <2> QED
    BY <2>1, Zenon DEF HeldInv, ReceiptsBegin
<1>6. InFlightIsLast'
  <2> SUFFICES ASSUME NEW d \in Calls, InFlight(d)', NEW r \in Runs,
                      NEW i \in 1 .. Len(ledger[r]), NEW j \in 1 .. Len(ledger[r]),
                      i < j, ledger[r][i].call = d
               PROVE  ledger[r][j].call = d
    BY DEF InFlightIsLast
  <2>1. cmd[d] # None
    BY <1>2
  <2>2. InFlight(d)
    BY <2>1 DEF InFlight, GoesOn
  <2> QED
    BY <2>2 DEF HeldInv, InFlightIsLast
<1>7. CompleteHolds'
  BY DEF HeldInv, CompleteHolds, GoesOn
<1>8. LatestIsHeld'
  <2> SUFFICES ASSUME NEW r \in Runs, receipts[r] # None,
                      NEW i \in 1 .. Len(ledger[r]), NEW j \in 1 .. Len(ledger[r]),
                      i < j, ledger[r][i].type = "approved",
                      ledger[r][i].call = receipts[r],
                      ledger[r][j].type = "approved",
                      ledger[r][j].call # receipts[r]
               PROVE  \/ pc'[ledger[r][j].call] = "raised"
                      \/ InFlight(ledger[r][j].call)'
    BY DEF LatestIsHeld
  <2>1. PICK d \in Calls : d = ledger[r][j].call /\ cmd[d] # None
    BY <1>2
  <2>2. pc[d] = "raised" \/ InFlight(d)
    BY <2>1 DEF HeldInv, LatestIsHeld
  <2>3. cmd[d].action = "mode switch"
    BY <2>1 DEF HeldInv, ApprovedAreSwitches
  <2>4. pc'[d] = "raised" \/ InFlight(d)'
    BY <2>1, <2>2, <2>3 DEF InFlight, Finished, GoesOn
  <2> QED
    BY <2>1, <2>4
<1> QED
  BY <1>3, <1>4, <1>6, <1>7, <1>8, <1>5 DEF HeldInv

(* Where a call that records an event is, and where it goes. *)
LEMMA RecordKinds ==
    ASSUME NEW c \in Calls,
           \/ RecordRefused(c) \/ RecordDenied(c)
           \/ RecordRequest(c) \/ RequestApproval(c) \/ Approve(c)
           \/ RecordStarted(c) \/ RecordFailed(c) \/ RecordCompleted(c)
    PROVE  /\ receipts' = receipts /\ cmd' = cmd /\ InFlight(c) /\ Begun(c)
           /\ \E type \in EventTypes, next \in Locations :
                 /\ Record(c, type, next)
                 /\ type = "approved" => pc[c] = "approve"
                 /\ type \in {"started", "completed", "failed"} =>
                       pc[c] \in {"start", "complete", "fail", "refused"}
                 /\ next \in {"refused", "denied"} => pc[c] \in {"refuse", "refused"}
                 /\ next = "approval" => RequiresApproval(c)
                 /\ next = "approve" => pc[c] = "approval"
                 /\ next = "returned" => pc[c] = "complete"
                 /\ next \notin {"refuse", "complete", "idle", "lost"}
BY DEF RecordRefused, RecordDenied, RecordRequest, RequestApproval, Approve,
   RecordStarted, RecordFailed, RecordCompleted, EventTypes, Locations,
   Finished, Begun, InFlight

LEMMA RecordsKeepHeld ==
    ASSUME SerialInv, HeldInv, NEW c \in Calls,
           \/ RecordRefused(c) \/ RecordDenied(c)
           \/ RecordRequest(c) \/ RequestApproval(c) \/ Approve(c)
           \/ RecordStarted(c) \/ RecordFailed(c) \/ RecordCompleted(c)
    PROVE  HeldInv'
<1>1. TypeInv /\ EventsAreOwn /\ PastApproval /\ OneAtATime
  BY DEF SerialInv, SafetyInv
<1>2. receipts' = receipts /\ cmd' = cmd /\ InFlight(c) /\ Begun(c)
  BY RecordKinds
<1>3. PICK type \in EventTypes, next \in Locations :
         /\ Record(c, type, next)
         /\ type = "approved" => pc[c] = "approve"
         /\ type \in {"started", "completed", "failed"} =>
               pc[c] \in {"start", "complete", "fail", "refused"}
         /\ next \in {"refused", "denied"} => pc[c] \in {"refuse", "refused"}
         /\ next = "approval" => RequiresApproval(c)
         /\ next = "approve" => pc[c] = "approval"
         /\ next = "returned" => pc[c] = "complete"
         /\ next \notin {"refuse", "complete", "idle", "lost"}
  BY RecordKinds
<1>4. /\ \A d \in Calls \ {c} : pc'[d] = pc[d]
      /\ pc'[c] = next \/ pc'[c] = "raised"
  BY <1>1, <1>3 DEF Record, Goto, TypeInv, TypeOK
<1>5. ASSUME NEW r \in Runs
      PROVE  Len(ledger[r]) \in Nat /\ Len(ledger'[r]) \in Nat
  <2>1. TypeOK'
    BY <1>1, TypeStep DEF TypeInv, Next, Step
  <2> QED
    BY <1>1, <2>1 DEF TypeInv, TypeOK
<1>6. /\ \A r \in Runs :
             /\ Len(ledger[r]) <= Len(ledger'[r])
             /\ \A i \in 1 .. Len(ledger[r]) : ledger'[r][i] = ledger[r][i]
      /\ \A r \in Runs : \A i \in 1 .. Len(ledger'[r]) :
             \/ i \in 1 .. Len(ledger[r])
             \/ /\ i = Len(ledger[r]) + 1
                /\ r = cmd[c].run
                /\ ledger'[r][i] = [type |-> type, call |-> c]
  BY <1>1, <1>2, <1>3, RecordEffect
<1>7. ASSUME NEW r \in Runs, NEW i \in 1 .. Len(ledger'[r])
      PROVE  \/ i \in 1 .. Len(ledger[r]) /\ ledger'[r][i] = ledger[r][i]
             \/ /\ i \notin 1 .. Len(ledger[r])
                /\ \A j \in 1 .. Len(ledger'[r]) : j <= i
                /\ r = cmd[c].run
                /\ ledger'[r][i].type = type
                /\ ledger'[r][i].call = c
  <2> DEFINE n == Len(ledger[r])
             m == Len(ledger'[r])
  <2>1. n \in Nat /\ m \in Nat
    BY <1>5
  <2>2. \A j \in 1 .. m : j \in 1 .. n \/ j = n + 1
    BY <1>6
  <2>3. i \in 1 .. n => ledger'[r][i] = ledger[r][i]
    BY <1>6
  <2>4. i \notin 1 .. n => /\ r = cmd[c].run
                          /\ ledger'[r][i] = [type |-> type, call |-> c]
    BY <1>6
  <2> HIDE DEF n, m
  <2>5. i \notin 1 .. n => \A j \in 1 .. m : j <= i
    BY <2>1, <2>2 DEF m
  <2> QED
    BY <2>3, <2>4, <2>5 DEF n, m
<1>8. ASSUME NEW r \in Runs, NEW i \in 1 .. Len(ledger[r])
      PROVE  i \in 1 .. Len(ledger'[r]) /\ ledger'[r][i] = ledger[r][i]
  BY <1>5, <1>6
<1>9. ASSUME NEW r \in Runs, NEW i \in 1 .. Len(ledger'[r]),
             NEW j \in 1 .. Len(ledger[r]), i < j
      PROVE  i \in 1 .. Len(ledger[r])
  BY <1>5, <1>9
<1>10. ASSUME NEW r \in Runs, NEW i \in 1 .. Len(ledger'[r]) PROVE i <= i
  BY <1>5
<1>11. ASSUME NEW e, e = [type |-> "approved", call |-> c]
      PROVE  e.type = "approved" /\ e.call = c
  BY <1>11
<1>12. ASSUME NEW d \in Calls \ {c} PROVE ~InFlight(d) /\ ~InFlight(d)'
  BY <1>1, <1>2, <1>4 DEF OneAtATime, InFlight
<1>13. AskedForSwitches'
  BY <1>2, <1>3, <1>4 DEF HeldInv, AskedForSwitches, RequiresApproval,
     ApprovalRequired
<1>14. type = "approved" => cmd[c].action = "mode switch"
  BY <1>3 DEF HeldInv, AskedForSwitches
<1>15. ApprovedAreSwitches'
  <2> SUFFICES ASSUME NEW r \in Runs, NEW i \in 1 .. Len(ledger'[r]),
                      ledger'[r][i].type = "approved"
               PROVE  cmd[ledger'[r][i].call].action = "mode switch"
    BY <1>2 DEF ApprovedAreSwitches
  <2> QED
    BY <1>7, <1>14, ZenonT(30) DEF HeldInv, ApprovedAreSwitches
<1>16. ReceiptsBegin'
  <2> SUFFICES ASSUME NEW r \in Runs, NEW i \in 1 .. Len(ledger'[r]),
                      cmd[ledger'[r][i].call].action = "mode switch",
                      ledger'[r][i].type \in ReceiptTypes
               PROVE  \E j \in 1 .. Len(ledger'[r]) :
                         /\ j <= i
                         /\ ledger'[r][j].type = "approved"
                         /\ ledger'[r][j].call = ledger'[r][i].call
    BY <1>2 DEF ReceiptsBegin
  <2>1. CASE i \in 1 .. Len(ledger[r])
    <3>1. PICK j \in 1 .. Len(ledger[r]) :
                 /\ j <= i
                 /\ ledger[r][j].type = "approved"
                 /\ ledger[r][j].call = ledger[r][i].call
      <4>1. /\ cmd[ledger[r][i].call].action = "mode switch"
            /\ ledger[r][i].type \in ReceiptTypes
        BY <1>8, <2>1
      <4> QED
        BY <2>1, <4>1, Zenon DEF HeldInv, ReceiptsBegin
    <3> QED
      BY <1>8, <2>1, <3>1
  <2>2. CASE type = "approved" /\ i \notin 1 .. Len(ledger[r])
    <3>1. ledger'[r][i].type = "approved"
      BY <1>7, <2>2
    <3>2. i <= i
      BY <1>10, Zenon
    <3> QED
      BY <3>1, <3>2
  <2>3. CASE type # "approved" /\ i \notin 1 .. Len(ledger[r])
    <3>1. /\ r = cmd[c].run /\ (\A j \in 1 .. Len(ledger'[r]) : j <= i)
          /\ ledger'[r][i].type = type /\ ledger'[r][i].call = c
      BY <1>7, <2>3
    <3>2. cmd[c].action = "mode switch" /\ type \in {"started", "completed", "failed"}
      BY <2>3, <3>1 DEF ReceiptTypes
    <3>3. pc[c] \in {"start", "complete", "fail"}
      BY <1>3, <3>2 DEF HeldInv, AskedForSwitches
    <3>4. PICK j \in 1 .. Len(ledger[r]) :
                 ledger[r][j] = [type |-> "approved", call |-> c]
      BY <1>1, <3>1, <3>2, <3>3 DEF PastApproval, HasApproval
    <3>5. ledger'[r][j].type = "approved" /\ ledger'[r][j].call = c
      <4>1. ledger'[r][j] = [type |-> "approved", call |-> c]
        BY <1>8, <3>4
      <4> QED
        BY <1>11, <4>1, Zenon
    <3>6. j <= i /\ j \in 1 .. Len(ledger'[r])
      BY <1>8, <3>1
    <3> QED
      BY <3>1, <3>5, <3>6
  <2> QED
    BY <2>1, <2>2, <2>3
<1>17. InFlightIsLast'
  <2> SUFFICES ASSUME NEW r \in Runs, InFlight(c)',
                      NEW i \in 1 .. Len(ledger'[r]), NEW j \in 1 .. Len(ledger'[r]),
                      i < j, ledger'[r][i].call = c
               PROVE  ledger'[r][j].call = c
    BY <1>12 DEF InFlightIsLast
  <2>1. CASE j \in 1 .. Len(ledger[r])
    <3>1. i \in 1 .. Len(ledger[r])
      BY <1>9, <2>1
    <3>2. ledger'[r][i] = ledger[r][i] /\ ledger'[r][j] = ledger[r][j]
      BY <1>8, <2>1, <3>1
    <3> QED
      BY <1>2, <2>1, <3>1, <3>2 DEF HeldInv, InFlightIsLast
  <2> QED
    BY <1>7, <2>1
<1>18. CompleteHolds'
  BY <1>2, <1>3, <1>4 DEF HeldInv, CompleteHolds
<1>19. LatestIsHeld'
  <2> SUFFICES ASSUME NEW r \in Runs, receipts[r] # None,
                      NEW i \in 1 .. Len(ledger'[r]), NEW j \in 1 .. Len(ledger'[r]),
                      i < j, ledger'[r][i].type = "approved",
                      ledger'[r][i].call = receipts[r],
                      ledger'[r][j].type = "approved",
                      ledger'[r][j].call # receipts[r]
               PROVE  \/ pc'[ledger'[r][j].call] = "raised"
                      \/ InFlight(ledger[r][j].call)'
    BY <1>2 DEF LatestIsHeld
  <2>1. CASE j \notin 1 .. Len(ledger[r])
    <3>1. ledger'[r][j].call = c /\ type = "approved"
      BY <1>7, <2>1
    <3>2. pc[c] = "approve"
      BY <1>3, <3>1
    <3>3. cmd[c].action = "mode switch"
      BY <1>14, <3>1
    <3>4. next \notin {"denied", "returned"}
      BY <1>3, <3>2
    <3> QED
      BY <1>3, <1>4, <3>1, <3>4 DEF InFlight, Finished
  <2>2. CASE j \in 1 .. Len(ledger[r])
    <3>1. i \in 1 .. Len(ledger[r])
      BY <1>9, <2>2
    <3>2. ledger'[r][i] = ledger[r][i] /\ ledger'[r][j] = ledger[r][j]
      BY <1>8, <2>2, <3>1
    <3>3. PICK d \in Calls : d = ledger[r][j].call /\ cmd[d].run = r
      BY <1>1, <2>2, EventTyped DEF EventsAreOwn
    <3>4. pc[d] = "raised" \/ InFlight(d)
      BY <2>2, <3>1, <3>2, <3>3 DEF HeldInv, LatestIsHeld
    <3>5. cmd[d].action = "mode switch"
      BY <2>2, <3>2, <3>3 DEF HeldInv, ApprovedAreSwitches
    <3>6. CASE d # c
      BY <1>4, <1>12, <3>2, <3>3, <3>4, <3>6
    <3>7. CASE d = c
      <4>1. next # "denied"
        BY <1>3, <3>5, <3>7 DEF HeldInv, AskedForSwitches
      <4>2. next # "returned"
        BY <1>3, <3>2, <3>3, <3>5, <3>7 DEF HeldInv, CompleteHolds
      <4> QED
        BY <1>3, <1>4, <3>2, <3>3, <3>7, <4>1, <4>2 DEF InFlight, Finished
    <3> QED
      BY <3>6, <3>7
  <2> QED
    BY <2>1, <2>2
<1> QED
  BY <1>13, <1>15, <1>16, <1>17, <1>18, <1>19 DEF HeldInv

LEMMA RememberKeepsHeld ==
    ASSUME SerialInv, HeldInv, NEW c \in Calls, RememberReceipt(c)
    PROVE  HeldInv'
<1> DEFINE run == cmd[c].run
<1>1. TypeInv /\ EventsAreOwn /\ OneAtATime
  BY DEF SerialInv, SafetyInv
<1>2. /\ ledger' = ledger /\ cmd' = cmd
      /\ pc[c] = "remember" /\ pc'[c] = "complete" /\ InFlight(c) /\ InFlight(c)'
      /\ \A d \in Calls \ {c} : pc'[d] = pc[d]
      /\ \A r \in Runs \ {run} : receipts'[r] = receipts[r]
  BY <1>1 DEF RememberReceipt, Goto, TypeInv, TypeOK, InFlight, Finished
<1>3. run \in Runs
  BY <1>1, <1>2, CommandTypes, ZenonT(30)
     DEF TypeInv, TypeOK, CallsCarryCommands, Begun
<1>4. \/ cmd[c].action = "mode switch" /\ receipts'[run] = c
      \/ cmd[c].action # "mode switch" /\ receipts'[run] = None
      \/ cmd[c].action # "mode switch" /\ receipts'[run] = receipts[run]
  BY <1>1, <1>3 DEF RememberReceipt, TypeInv, TypeOK
<1>5. ASSUME NEW d \in Calls PROVE InFlight(d)' <=> InFlight(d)
  BY <1>2 DEF InFlight
<1>6. AskedForSwitches' /\ ApprovedAreSwitches' /\ ReceiptsBegin'
  BY <1>2 DEF HeldInv, AskedForSwitches, ApprovedAreSwitches, ReceiptsBegin
<1>7. InFlightIsLast'
  BY <1>2, <1>5 DEF HeldInv, InFlightIsLast
<1>8. CompleteHolds'
  <2> SUFFICES ASSUME NEW d \in Calls, pc'[d] = "complete",
                      cmd[d].action = "mode switch"
               PROVE  receipts'[cmd[d].run] = d
    BY <1>2 DEF CompleteHolds
  <2>1. d = c
    BY <1>1, <1>2 DEF OneAtATime, InFlight, Finished
  <2> QED
    BY <1>4, <2>1
<1>9. LatestIsHeld'
  <2> SUFFICES ASSUME NEW r \in Runs, receipts'[r] # None,
                      NEW i \in 1 .. Len(ledger[r]), NEW j \in 1 .. Len(ledger[r]),
                      i < j, ledger[r][i].type = "approved",
                      ledger[r][i].call = receipts'[r],
                      ledger[r][j].type = "approved",
                      ledger[r][j].call # receipts'[r]
               PROVE  \/ pc'[ledger[r][j].call] = "raised"
                      \/ InFlight(ledger[r][j].call)'
    BY <1>2 DEF LatestIsHeld
  <2>1. receipts'[r] # c
    BY <1>2 DEF HeldInv, InFlightIsLast
  <2>2. receipts'[r] = receipts[r]
    BY <1>2, <1>4, <2>1
  <2>3. PICK d \in Calls : d = ledger[r][j].call
    BY <1>1, EventTyped
  <2>4. pc[d] = "raised" \/ InFlight(d)
    BY <2>2, <2>3 DEF HeldInv, LatestIsHeld
  <2>5. pc'[d] = "raised" \/ InFlight(d)'
    BY <1>2, <1>5, <2>4
  <2> QED
    BY <1>2, <2>3, <2>5
<1> QED
  BY <1>6, <1>7, <1>8, <1>9 DEF HeldInv

LEMMA HeldStep ==
    ASSUME SerialInv, HeldInv, [Next]_vars
    PROVE  HeldInv'
<1>1. TypeInv /\ EventsAreOwn
  BY DEF SerialInv, SafetyInv
<1>2. CASE ledger' = ledger /\ receipts' = receipts /\ pc' = pc /\ cmd' = cmd
  <2>1. AskedForSwitches' /\ ApprovedAreSwitches' /\ ReceiptsBegin'
        /\ CompleteHolds'
    BY <1>2 DEF HeldInv, AskedForSwitches, ApprovedAreSwitches, ReceiptsBegin,
       CompleteHolds
  <2>2. InFlightIsLast' /\ LatestIsHeld'
    BY <1>2 DEF HeldInv, InFlightIsLast, LatestIsHeld, InFlight
  <2> QED
    BY <2>1, <2>2 DEF HeldInv
<1>3. ASSUME NEW c \in Calls, NEW k \in Commands, Submit(c, k) \/ CallRuntime(c, k)
      PROVE  HeldInv'
  <2>1. /\ ledger' = ledger /\ receipts' = receipts /\ cmd[c] = None
        /\ pc'[c] \in {"raised", "context", "read"}
        /\ \A d \in Calls \ {c} : pc'[d] = pc[d] /\ cmd'[d] = cmd[d]
    BY <1>1, <1>3 DEF Submit, CallRuntime, Goto, TypeInv, TypeOK,
       CallsCarryCommands, Begun
  <2> QED
    BY <2>1, OthersKeepHeld DEF GoesOn
<1>4. ASSUME NEW c \in Calls, Dispatch(c) \/ ReadSession(c) \/ WriteSession(c)
      PROVE  HeldInv'
  <2>1. cmd[c] \in Commands
    BY <1>1, <1>4 DEF Dispatch, ReadSession, WriteSession, TypeInv, TypeOK,
       CallsCarryCommands, Begun
  <2>2. cmd[c].by \in {"operator", "recovery"}
        /\ (cmd[c].by = "recovery" => cmd[c].action # "mode switch")
    BY <2>1, ControlAssumption DEF CommandEnvelope, RecoveryActions
  <2>3. /\ ledger' = ledger /\ receipts' = receipts /\ cmd' = cmd /\ InFlight(c)
        /\ \/ pc[c] = "context" /\ pc'[c] \in {"refuse", "request"}
           \/ pc[c] = "read" /\ pc'[c] \in {"write", "fail", "raised"}
           \/ pc[c] = "write" /\ pc'[c] \in {"remember", "returned"}
        /\ pc'[c] = "refuse" => cmd[c].action # "mode switch"
        /\ pc'[c] = "returned" => cmd[c].action # "mode switch"
        /\ \A d \in Calls \ {c} : pc'[d] = pc[d] /\ cmd'[d] = cmd[d]
    BY <1>1, <1>4, <2>2 DEF Dispatch, ReadSession, WriteSession, Goto, Denied,
       ControlActions, TypeInv, TypeOK, InFlight, Finished
  <2> QED
    BY <2>3, OthersKeepHeld DEF GoesOn
<1>5. CASE Crash
  <2>1. ledger' = ledger /\ cmd' = cmd /\ (\A r \in Runs : receipts'[r] = None)
        /\ \A d \in Calls : pc'[d] = IF InFlight(d) THEN "lost" ELSE pc[d]
    BY <1>5 DEF Crash
  <2>2. \A d \in Calls : ~InFlight(d)' /\ pc'[d] \in {"idle"} \cup Finished
    BY <2>1 DEF InFlight, Finished
  <2>3. AskedForSwitches' /\ CompleteHolds'
    BY <2>2 DEF AskedForSwitches, CompleteHolds, Finished
  <2>4. ApprovedAreSwitches' /\ ReceiptsBegin'
    BY <2>1 DEF HeldInv, ApprovedAreSwitches, ReceiptsBegin
  <2>5. InFlightIsLast' /\ LatestIsHeld'
    BY <2>1, <2>2 DEF InFlightIsLast, LatestIsHeld
  <2> QED
    BY <2>3, <2>4, <2>5 DEF HeldInv
<1>6. \A r \in Runs : RegisterRun(r) => ledger' = ledger /\ receipts' = receipts /\ pc' = pc /\ cmd' = cmd
  BY DEF RegisterRun
<1>7. UNCHANGED vars => ledger' = ledger /\ receipts' = receipts /\ pc' = pc /\ cmd' = cmd
  BY DEF vars
<1>8. ASSUME NEW c \in Calls, Step(c) PROVE HeldInv'
  BY <1>4, <1>8, RecordsKeepHeld, RememberKeepsHeld DEF Step
<1> QED
  BY <1>2, <1>3, <1>5, <1>6, <1>7, <1>8 DEF Next

LEMMA HeldInvariant == ASSUME Threads = 1 PROVE Spec => []HeldInv
<1>1. SerialInv /\ HeldInv /\ [Next]_vars => HeldInv'
  BY HeldStep
<1> QED
  BY <1>1, HeldInit, SerialInvariant, PTL DEF Spec

(* The clocks the callers give agree with the order of a run's ledger. *)
ClocksFollowLedger ==
    \A r \in Runs : \A i, j \in Happened(r) :
        i <= j => EventTime(ledger[r][i]) <= EventTime(ledger[r][j])

(* One clock that all callers share, and that does not advance, does so.   *)
LEMMA OneClockFollows ==
    ASSUME TypeOK, NEW now \in 0 .. LastTime,
           \A c \in Calls : OccurredAt[c] = now /\ ApprovedAt[c] = now
    PROVE  ClocksFollowLedger
<1>1. ASSUME NEW r \in Runs, NEW i \in Happened(r)
      PROVE  EventTime(ledger[r][i]) = now
  <2>1. ledger[r] \in Seq(AuditEvent) /\ i \in 1 .. Len(ledger[r])
    BY DEF TypeOK, Happened
  <2>2. ledger[r][i].call \in Calls
    <3>1. ledger[r][i] \in AuditEvent
      BY <2>1, ElementOfSeq
    <3> QED
      BY <3>1 DEF AuditEvent
  <2> QED
    BY <2>2 DEF EventTime
<1>2. now <= now
  BY ClockAssumption
<1> QED
  BY <1>1, <1>2 DEF ClocksFollowLedger

(* Of a host that serves one call at a time, and callers whose clocks do   *)
(* not contradict its ledgers: at rest, the receipt shown of a run that    *)
(* holds one is that one, or that of a later switch that failed after its  *)
(* approval.                                                               *)
THEOREM ShownReceiptIsHeld ==
    ASSUME Threads = 1
    PROVE  Spec => [](ClocksFollowLedger => ShownIsHeld)
<1>1. SerialInv /\ HeldInv /\ ReceiptIsApproved /\ ClocksFollowLedger
        => ShownIsHeld
  <2> SUFFICES ASSUME SerialInv, HeldInv, ReceiptIsApproved, ClocksFollowLedger,
                      AllIsQuiet, NEW r \in Runs, receipts[r] # None
               PROVE  /\ Shown(r) # {}
                      /\ \A t \in Shown(r) :
                            \/ t = receipts[r]
                            \/ pc[t] = "raised" /\ Precedes(r, t, receipts[r])
    BY DEF ShownIsHeld
  <2> DEFINE h == receipts[r]
  <2>1. TypeOK /\ TypeInv /\ EventsAreOwn
    BY DEF SerialInv, SafetyInv, TypeInv
  <2>2. h \in ActiveReceipts(r)
    BY <2>1, HeldIsActive
  <2>3. Shown(r) # {}
    BY <2>1, <2>2, OneIsShown
  <2>4. ASSUME NEW t \in Shown(r), t # h
        PROVE  pc[t] = "raised" /\ Precedes(r, t, h)
    <3>1. Precedes(r, t, h) /\ t \in ActiveReceipts(r)
      BY <2>2 DEF Shown
    <3>2. PICK j \in ReceiptEvents(r, t) : ledger[r][j].type = "approved"
      BY <3>1 DEF ActiveReceipts
    <3>3. /\ j \in Happened(r) /\ ledger[r][j].call = t
          /\ j \in 1 .. Len(ledger[r])
      BY <3>2 DEF ReceiptEvents, Happened
    <3>4. PICK i \in ReceiptEvents(r, h) : NotAfter(r, i, j)
      BY <3>1, <3>2 DEF Precedes
    <3>5. /\ i \in Happened(r) /\ i \in 1 .. Len(ledger[r])
          /\ ledger[r][i].call = h
          /\ cmd[ledger[r][i].call].action = "mode switch"
          /\ ledger[r][i].type \in ReceiptTypes
      BY <3>4 DEF ReceiptEvents, Happened, ReceiptTypes, ActionOf
    <3>6. i \in Nat /\ j \in Nat /\ i <= j
      <4> DEFINE before == EventTime(ledger[r][i])
                 after == EventTime(ledger[r][j])
      <4>1. before \in 0 .. LastTime /\ after \in 0 .. LastTime
            /\ i \in Nat /\ j \in Nat
        BY <2>1, <3>3, <3>5, EventTimes, Zenon
      <4>4. LastTime \in Nat
        BY ClockAssumption
      <4>2. j <= i => after <= before
        BY <3>3, <3>5 DEF ClocksFollowLedger
      <4>3. before < after \/ (before = after /\ i <= j)
        BY <3>4 DEF NotAfter
      <4> HIDE DEF before, after
      <4> QED
        BY <4>1, <4>2, <4>3, <4>4
    <3>7. PICK k \in 1 .. Len(ledger[r]) :
             k <= i /\ ledger[r][k].type = "approved" /\ ledger[r][k].call = h
      BY <3>5, ZenonT(30) DEF HeldInv, ReceiptsBegin
    <3>8. k < j
      <4>1. k # j
        BY <2>4, <3>3, <3>7
      <4>2. k \in Nat
        BY <2>1 DEF TypeOK
      <4> QED
        BY <3>6, <3>7, <4>1, <4>2
    <3>9. pc[t] = "raised" \/ InFlight(t)
      BY <2>4, <3>2, <3>3, <3>7, <3>8 DEF HeldInv, LatestIsHeld
    <3>10. t \in Calls
      BY <3>1 DEF ActiveReceipts
    <3> QED
      BY <3>1, <3>9, <3>10 DEF AllIsQuiet
  <2> QED
    BY <2>3, <2>4
<1> QED
  BY <1>1, HeldInvariant, SerialInvariant, ReceiptsAreApproved, PTL

-----------------------------------------------------------------------------
(***************************************************************************)
(* The whole service against the two abstract specifications its parts     *)
(* implement, however its calls interleave.  No call records an event      *)
(* twice, because it never comes back before the place that records it     *)
(* (PlacesBefore, RecordedIsPast); and no command that needs an approval   *)
(* is refused before it is asked for (RefusedNeedNone).                    *)
(***************************************************************************)
PlacesBefore(type) ==
    {"idle", "context", "request"} \cup
    CASE type = "requested" -> {"refuse"}
      [] type = "approval_requested" -> {"approval"}
      [] type = "approved" -> {"approval", "approve"}
      [] type = "started" -> {"approval", "approve", "start"}
      [] type = "completed" -> {"approval", "approve", "start", "read", "write",
                                "remember", "complete"}
      [] OTHER -> {"approval", "approve", "start", "read", "fail", "refuse",
                   "refused"}

RecordedIsPast ==
    \A r \in Runs : \A i \in 1 .. Len(ledger[r]) :
        pc[ledger[r][i].call] \notin PlacesBefore(ledger[r][i].type)

RefusedNeedNone ==
    \A c \in Calls : pc[c] \in {"refuse", "refused"} => ~RequiresApproval(c)

OnceInv == SafetyInv /\ RecordedIsPast /\ RefusedNeedNone

(* Where a call that records an event is; it then leaves that place. *)
LEMMA RecordPlaces ==
    ASSUME NEW c \in Calls,
           \/ RecordRefused(c) \/ RecordDenied(c)
           \/ RecordRequest(c) \/ RequestApproval(c) \/ Approve(c)
           \/ RecordStarted(c) \/ RecordFailed(c) \/ RecordCompleted(c)
    PROVE  \E type \in EventTypes, next \in Locations :
              /\ Record(c, type, next)
              /\ pc[c] \in PlacesBefore(type)
              /\ next \notin PlacesBefore(type)
              /\ \A other \in EventTypes :
                    next \in PlacesBefore(other) => pc[c] \in PlacesBefore(other)
              /\ type = "failed" => pc[c] \in {"refused", "fail"}
              /\ type = "started" => pc[c] = "start"
              /\ type = "completed" => pc[c] = "complete"
              /\ next = "refused" => pc[c] = "refuse"
              /\ next # "refuse"
BY DEF RecordRefused, RecordDenied, RecordRequest, RequestApproval, Approve,
   RecordStarted, RecordFailed, RecordCompleted, EventTypes, Locations,
   Finished, PlacesBefore

LEMMA NowherePast ==
    ASSUME NEW type
    PROVE  \A place \in Finished : place \notin PlacesBefore(type)
BY DEF PlacesBefore, Finished

(* Only these steps add to a ledger. *)
LEMMA OnlyRecordsAppend ==
    ASSUME [Next]_vars, ledger' # ledger
    PROVE  \E c \in Calls :
              \/ RecordRefused(c) \/ RecordDenied(c)
              \/ RecordRequest(c) \/ RequestApproval(c) \/ Approve(c)
              \/ RecordStarted(c) \/ RecordFailed(c) \/ RecordCompleted(c)
BY DEF Next, Step, RegisterRun, Submit, CallRuntime, Dispatch, ReadSession,
   WriteSession, RememberReceipt, Crash, vars

(* No call ever comes back before such a place. *)
LEMMA NeverBack ==
    ASSUME TypeInv, [Next]_vars, NEW c \in Calls, NEW type \in EventTypes,
           pc'[c] \in PlacesBefore(type)
    PROVE  pc[c] \in PlacesBefore(type)
<1>1. CASE Crash
  BY <1>1, NowherePast DEF Crash, Finished, TypeInv, TypeOK
<1>2. CASE \/ RecordRefused(c) \/ RecordDenied(c)
           \/ RecordRequest(c) \/ RequestApproval(c) \/ Approve(c)
           \/ RecordStarted(c) \/ RecordFailed(c) \/ RecordCompleted(c)
  <2>1. PICK kind \in EventTypes, next \in Locations :
           /\ Record(c, kind, next)
           /\ next \in PlacesBefore(type) => pc[c] \in PlacesBefore(type)
    BY <1>2, RecordPlaces
  <2>2. pc'[c] = next \/ pc'[c] = "raised"
    BY <2>1 DEF Record, Goto, TypeInv, TypeOK
  <2> QED
    BY <2>1, <2>2, NowherePast DEF Finished
<1>3. ASSUME NEW k \in Commands, Submit(c, k) \/ CallRuntime(c, k)
      PROVE  pc[c] \in PlacesBefore(type)
  BY <1>3 DEF Submit, CallRuntime, PlacesBefore
<1>4. CASE Dispatch(c)
  BY <1>4 DEF Dispatch, PlacesBefore
<1>5. CASE ReadSession(c) \/ WriteSession(c) \/ RememberReceipt(c)
  <2>1. \/ pc[c] = "read" /\ pc'[c] \in {"fail", "raised", "write"}
        \/ pc[c] = "write" /\ pc'[c] \in {"remember", "returned"}
        \/ pc[c] = "remember" /\ pc'[c] = "complete"
    BY <1>5 DEF ReadSession, WriteSession, RememberReceipt, Goto, TypeInv, TypeOK
  <2> QED
    BY <2>1, NowherePast DEF PlacesBefore, EventTypes, Finished
<1> QED
  BY <1>1, <1>2, <1>3, <1>4, <1>5, Moves DEF Step

LEMMA RecordsArePast ==
    ASSUME TypeInv, EventsAreOwn, RecordedIsPast, [Next]_vars
    PROVE  RecordedIsPast'
<1> SUFFICES ASSUME NEW r \in Runs, NEW i \in 1 .. Len(ledger'[r])
             PROVE  pc'[ledger'[r][i].call] \notin
                       PlacesBefore(ledger'[r][i].type)
  BY DEF RecordedIsPast
<1>1. CASE i \in 1 .. Len(ledger[r])
  <2>1. ledger'[r][i] = ledger[r][i]
    BY <1>1, Grows
  <2> QED
    BY <1>1, <2>1, EventTyped, NeverBack DEF RecordedIsPast
<1>2. CASE i \notin 1 .. Len(ledger[r])
  <2>1. PICK c \in Calls :
           \/ RecordRefused(c) \/ RecordDenied(c)
           \/ RecordRequest(c) \/ RequestApproval(c) \/ Approve(c)
           \/ RecordStarted(c) \/ RecordFailed(c) \/ RecordCompleted(c)
    BY <1>2, OnlyRecordsAppend
  <2>2. PICK type \in EventTypes, next \in Locations :
           Record(c, type, next) /\ next \notin PlacesBefore(type)
    BY <2>1, RecordPlaces
  <2>3. ledger'[r][i] = [type |-> type, call |-> c]
    <3>1. Begun(c)
      BY <2>1, RecordSteps
    <3> QED
      BY <1>2, <2>2, <3>1, RecordEffect
  <2>4. pc'[c] = next \/ pc'[c] = "raised"
    BY <2>2 DEF Record, Goto, TypeInv, TypeOK
  <2> QED
    BY <2>2, <2>3, <2>4, NowherePast DEF Finished
<1> QED
  BY <1>1, <1>2

LEMMA RefusedNeedNoneStep ==
    ASSUME TypeInv, RefusedNeedNone, [Next]_vars
    PROVE  RefusedNeedNone'
<1> SUFFICES ASSUME NEW c \in Calls, pc'[c] \in {"refuse", "refused"}
             PROVE  ~RequiresApproval(c)'
  BY DEF RefusedNeedNone
<1>1. CASE Crash
  BY <1>1 DEF Crash, InFlight, Finished, TypeInv, TypeOK
<1>2. CASE \/ RecordRefused(c) \/ RecordDenied(c)
           \/ RecordRequest(c) \/ RequestApproval(c) \/ Approve(c)
           \/ RecordStarted(c) \/ RecordFailed(c) \/ RecordCompleted(c)
  <2>1. PICK type \in EventTypes, next \in Locations :
           /\ Record(c, type, next)
           /\ next = "refused" => pc[c] = "refuse"
           /\ next # "refuse"
    BY <1>2, RecordPlaces
  <2>2. pc'[c] = next \/ pc'[c] = "raised"
    BY <2>1 DEF Record, Goto, TypeInv, TypeOK
  <2>3. cmd' = cmd
    BY <1>2, RecordSteps
  <2> QED
    BY <2>1, <2>2, <2>3 DEF RefusedNeedNone, RequiresApproval
<1>3. ASSUME NEW k \in Commands, Submit(c, k) \/ CallRuntime(c, k)
      PROVE  FALSE
  BY <1>3 DEF Submit, CallRuntime, Goto, TypeInv, TypeOK
<1>4. CASE Dispatch(c)
  BY <1>4 DEF Dispatch, Goto, Denied, ControlActions, ApprovalRequired,
     RequiresApproval, TypeInv, TypeOK
<1>5. CASE ReadSession(c) \/ WriteSession(c) \/ RememberReceipt(c)
  BY <1>5 DEF ReadSession, WriteSession, RememberReceipt, Goto, TypeInv, TypeOK
<1>6. CASE pc'[c] = pc[c] /\ cmd'[c] = cmd[c]
  BY <1>6 DEF RefusedNeedNone, RequiresApproval
<1> QED
  BY <1>1, <1>2, <1>3, <1>4, <1>5, <1>6, Moves DEF Step

LEMMA OnceInvariant == Spec => []OnceInv
<1>1. Init => RecordedIsPast /\ RefusedNeedNone
  <2> SUFFICES ASSUME Init PROVE RecordedIsPast /\ RefusedNeedNone
    OBVIOUS
  <2>1. \A r \in Runs : Len(ledger[r]) = 0
    BY DEF Init
  <2> QED
    BY <2>1 DEF Init, RecordedIsPast, RefusedNeedNone
<1>2. SafetyInv /\ RecordedIsPast /\ RefusedNeedNone /\ [Next]_vars
        => RecordedIsPast' /\ RefusedNeedNone'
  BY RecordsArePast, RefusedNeedNoneStep DEF SafetyInv
<1> QED
  BY <1>1, <1>2, SafetyInvariant, PTL DEF Spec, OnceInv

(* The ledger of run r, read as a log of events that never fails.          *)
Log(r) == INSTANCE AppendOnlyLog
    WITH Events <- AuditEvent, Failure <- <<[type |-> "unreadable"]>>,
         MayBreak <- FALSE, log <- ledger[r]

(* Every ledger is an append-only log, to the one event: calls interleave  *)
(* on it, fail and are lost, and no step of them rewrites, drops, reorders *)
(* or repeats an event, or adds two at once.                               *)
THEOREM LedgersAreLogs ==
    ASSUME NEW r \in Runs
    PROVE  Spec => Log(r)!Spec
<1>1. Init => Log(r)!Init
  BY DEF Init, Log!Init
<1>2. OnceInv /\ [Next]_vars => [Log(r)!Next]_(ledger[r])
  <2> SUFFICES ASSUME OnceInv, [Next]_vars, ledger'[r] # ledger[r]
               PROVE  Log(r)!Next
    OBVIOUS
  <2>1. TypeInv /\ EventsAreOwn /\ RecordedIsPast
    BY DEF OnceInv, SafetyInv
  <2>2. PICK c \in Calls :
           \/ RecordRefused(c) \/ RecordDenied(c)
           \/ RecordRequest(c) \/ RequestApproval(c) \/ Approve(c)
           \/ RecordStarted(c) \/ RecordFailed(c) \/ RecordCompleted(c)
    BY OnlyRecordsAppend
  <2>3. PICK type \in EventTypes, next \in Locations :
           Record(c, type, next) /\ pc[c] \in PlacesBefore(type)
    BY <2>2, RecordPlaces
  <2> DEFINE event == [type |-> type, call |-> c]
  <2>4. event \in AuditEvent
    BY DEF AuditEvent
  <2>5. ledger'[r] = Append(ledger[r], event)
    BY <2>1, <2>3 DEF Record, TypeInv, TypeOK
  <2>6. ledger[r] \in Seq(AuditEvent)
    BY <2>1 DEF TypeInv, TypeOK
  <2>7. ASSUME NEW i \in DOMAIN ledger[r] PROVE ledger[r][i] # event
    <3>1. i \in 1 .. Len(ledger[r])
      BY <2>6
    <3> QED
      BY <2>1, <2>3, <3>1 DEF RecordedIsPast
  <2>8. ledger[r] # <<[type |-> "unreadable"]>>
    <3> SUFFICES ASSUME ledger[r] = <<[type |-> "unreadable"]>> PROVE FALSE
      OBVIOUS
    <3>1. 1 \in 1 .. Len(ledger[r]) /\ ledger[r][1].type = "unreadable"
      OBVIOUS
    <3> QED
      BY <2>1, <3>1, EventTyped DEF EventTypes
  <2>9. Log(r)!Join(event)
    BY <2>5, <2>7, <2>8 DEF Log!Join
  <2> QED
    BY <2>4, <2>9 DEF Log!Next
<1> QED
  BY <1>1, <1>2, OnceInvariant, PTL DEF Spec, Log!Spec

(* What the approvals of calls have come to, and the commands with an     *)
(* approval that have a lifecycle event on record.  A call that ended with *)
(* its approval not given, or lost with its process, is never approved.    *)
Decision ==
    [c \in Calls |-> IF approvals[c] = "approved" THEN "approved"
                     ELSE IF pc[c] \in Finished THEN "forgotten"
                     ELSE "open"]

IsActOf(e, c) ==
    e.call = c /\ RequiresApproval(c) /\ e.type \in {"started", "completed", "failed"}

Acted ==
    {c \in Calls : \E r \in Runs : \E i \in 1 .. Len(ledger[r]) :
        IsActOf(ledger[r][i], c)}

Promise == INSTANCE DecideOnce
    WITH Approvals <- Calls, decision <- Decision, acted <- Acted

(* A step that records no act, and leaves each decision or forgets it. *)
LEMMA ForgetOrStay ==
    ASSUME Acted' = Acted,
           \A c \in Calls : Decision'[c] \in {Decision[c], "forgotten"}
    PROVE  Promise!Forget
<1> DEFINE gone == {c \in Calls : Decision'[c] = "forgotten"}
<1>1. Decision' = [c \in Calls |-> IF c \in gone THEN "forgotten" ELSE Decision[c]]
  <2>1. Decision' = [c \in Calls |-> Decision'[c]]
    BY DEF Decision
  <2> QED
    BY <2>1
<1>2. gone \in SUBSET Calls
  OBVIOUS
<1> HIDE DEF gone
<1> QED
  BY <1>1, <1>2 DEF Promise!Forget

(* What a step adds to the acts on record. *)
LEMMA ActsGrow ==
    ASSUME TypeInv, EventsAreOwn, [Next]_vars, NEW c \in Calls, cmd[c] # None
    PROVE  c \in Acted => c \in Acted'
<1> SUFFICES ASSUME c \in Acted PROVE c \in Acted'
  OBVIOUS
<1>1. PICK r \in Runs : \E i \in 1 .. Len(ledger[r]) : IsActOf(ledger[r][i], c)
  BY DEF Acted
<1>2. PICK i \in 1 .. Len(ledger[r]) : IsActOf(ledger[r][i], c)
  BY <1>1
<1>3. ledger'[r][i] = ledger[r][i] /\ cmd'[c] = cmd[c]
  BY Grows
<1>4. i \in 1 .. Len(ledger'[r])
  <2>1. Len(ledger[r]) \in Nat /\ Len(ledger'[r]) \in Nat
    BY TypeStep DEF TypeInv, TypeOK
  <2>2. Len(ledger[r]) <= Len(ledger'[r])
    BY Grows
  <2> QED
    BY <2>1, <2>2
<1> QED
  BY <1>2, <1>3, <1>4 DEF Acted, IsActOf, RequiresApproval

(* An act is new only by the event its own call records. *)
LEMMA ActsAreRecorded ==
    ASSUME TypeInv, EventsAreOwn, [Next]_vars, NEW c \in Calls,
           c \in Acted', c \notin Acted
    PROVE  /\ RequiresApproval(c)
           /\ pc'[c] # pc[c]
           /\ \/ RecordStarted(c) \/ RecordCompleted(c)
              \/ RecordFailed(c) \/ RecordDenied(c)
<1>1. PICK r \in Runs : \E i \in 1 .. Len(ledger'[r]) :
         /\ ledger'[r][i].call = c
         /\ ledger'[r][i].type \in {"started", "completed", "failed"}
         /\ cmd'[c].action \in ApprovalRequired
  BY DEF Acted, IsActOf, RequiresApproval
<1>2. PICK i \in 1 .. Len(ledger'[r]) :
         /\ ledger'[r][i].call = c
         /\ ledger'[r][i].type \in {"started", "completed", "failed"}
         /\ cmd'[c].action \in ApprovalRequired
  BY <1>1
<1>3. i \notin 1 .. Len(ledger[r])
  <2> SUFFICES ASSUME i \in 1 .. Len(ledger[r]) PROVE FALSE
    OBVIOUS
  <2>1. ledger'[r][i] = ledger[r][i]
    BY Grows
  <2>2. cmd[c] # None
    BY <1>2, <2>1 DEF EventsAreOwn
  <2>3. cmd'[c] = cmd[c]
    BY <2>2, Grows
  <2> QED
    BY <1>2, <2>1, <2>3 DEF Acted, IsActOf, RequiresApproval
<1>4. PICK d \in Calls :
         \/ RecordRefused(d) \/ RecordDenied(d)
         \/ RecordRequest(d) \/ RequestApproval(d) \/ Approve(d)
         \/ RecordStarted(d) \/ RecordFailed(d) \/ RecordCompleted(d)
  BY <1>3, OnlyRecordsAppend
<1>5. PICK type \in EventTypes, next \in Locations :
         /\ Record(d, type, next)
         /\ pc[d] \in PlacesBefore(type)
         /\ next \notin PlacesBefore(type)
         /\ type = "failed" => pc[d] \in {"refused", "fail"}
         /\ type = "started" => pc[d] = "start"
         /\ type = "completed" => pc[d] = "complete"
  BY <1>4, RecordPlaces
<1>6. Begun(d) /\ cmd' = cmd
  BY <1>4, RecordSteps
<1>7. ledger'[r][i] = [type |-> type, call |-> d]
  BY <1>3, <1>5, <1>6, RecordEffect
<1>8. d = c /\ type \in {"started", "completed", "failed"}
  BY <1>2, <1>7
<1>9. RecordStarted(c) \/ RecordCompleted(c) \/ RecordFailed(c) \/ RecordDenied(c)
  BY <1>4, <1>5, <1>8 DEF RecordRefused, RecordRequest, RequestApproval, Approve
<1>10. pc'[c] # pc[c]
  BY <1>5, <1>8, NowherePast DEF Record, Goto, TypeInv, TypeOK, Finished
<1> QED
  BY <1>2, <1>6, <1>9, <1>10 DEF RequiresApproval

(* Only an approval decides; every other step leaves the decision of a     *)
(* call or forgets it.                                                     *)
LEMMA DecisionsStay ==
    ASSUME TypeInv, NoEarlyRecord, [Next]_vars, NEW c \in Calls, ~Approve(c)
    PROVE  Decision'[c] \in {Decision[c], "forgotten"}
<1> SUFFICES ASSUME ~(approvals'[c] # "approved" /\ pc'[c] \in Finished)
             PROVE  \/ approvals'[c] = "approved" /\ approvals[c] = "approved"
                    \/ /\ approvals'[c] # "approved" /\ approvals[c] # "approved"
                       /\ pc'[c] \notin Finished /\ pc[c] \notin Finished
  BY DEF Decision
<1>1. CASE Crash
  BY <1>1 DEF Crash, InFlight, NoEarlyRecord, Finished, TypeInv, TypeOK
<1>2. CASE \E k \in Commands : Submit(c, k) \/ CallRuntime(c, k)
  BY <1>2 DEF Submit, CallRuntime, NoEarlyRecord, Finished
<1>3. CASE RequestApproval(c)
  BY <1>3 DEF RequestApproval, NoEarlyRecord, Finished, TypeInv, TypeOK
<1>4. CASE \/ RecordRefused(c) \/ RecordDenied(c) \/ RecordRequest(c)
           \/ RecordStarted(c) \/ RecordFailed(c) \/ RecordCompleted(c)
  BY <1>4 DEF RecordRefused, RecordDenied, RecordRequest, RecordStarted,
     RecordFailed, RecordCompleted, Finished
<1>5. CASE Dispatch(c) \/ ReadSession(c) \/ WriteSession(c) \/ RememberReceipt(c)
  BY <1>5 DEF Dispatch, ReadSession, WriteSession, RememberReceipt, Finished
<1>6. CASE pc'[c] = pc[c] /\ approvals'[c] = approvals[c]
  BY <1>6
<1> QED
  BY <1>1, <1>2, <1>3, <1>4, <1>5, <1>6, Moves DEF Step

LEMMA AnActIsAnAct ==
    ASSUME OnceInv, [Next]_vars, Acted' # Acted
    PROVE  Promise!Next
<1>1. TypeInv /\ EventsAreOwn /\ PastApproval /\ RefusedNeedNone
  BY DEF OnceInv, SafetyInv
<1>2. Acted \subseteq Acted'
  <2>1. \A c \in Acted : c \in Calls /\ cmd[c] # None
    BY <1>1 DEF Acted, IsActOf, EventsAreOwn
  <2> QED
    BY <1>1, <2>1, ActsGrow
<1>3. PICK c \in Calls : c \in Acted' /\ c \notin Acted
  BY <1>2 DEF Acted
<1>4. /\ RequiresApproval(c)
      /\ \/ RecordStarted(c) \/ RecordCompleted(c)
         \/ RecordFailed(c) \/ RecordDenied(c)
  BY <1>1, <1>3, ActsAreRecorded
<1>5. pc[c] \in {"start", "complete", "fail"}
  BY <1>1, <1>4 DEF RefusedNeedNone, RecordStarted, RecordCompleted,
     RecordFailed, RecordDenied
<1>6. approvals[c] = "approved"
  BY <1>1, <1>4, <1>5 DEF PastApproval, RequiresApproval, ApprovalRequired
<1>7. approvals' = approvals /\ \A d \in Calls \ {c} : pc'[d] = pc[d]
  BY <1>1, <1>4 DEF RecordStarted, RecordCompleted, RecordFailed, RecordDenied,
     Record, Goto, TypeInv, TypeOK
<1>8. Decision' = Decision /\ Decision[c] = "approved"
  BY <1>6, <1>7 DEF Decision
<1>9. Acted' = Acted \cup {c}
  <2>1. ASSUME NEW d \in Acted', d \notin Acted PROVE d = c
    <3>1. d \in Calls
      BY DEF Acted
    <3>2. pc'[d] # pc[d]
      BY <1>1, <2>1, <3>1, ActsAreRecorded
    <3> QED
      BY <1>7, <3>1, <3>2
  <2> QED
    BY <1>2, <1>3, <2>1
<1> QED
  BY <1>8, <1>9 DEF Promise!Next, Promise!Act

(* The service decides every approval it opens at most once, and acts on a *)
(* command that needs one only after it was given: over all calls, threads,*)
(* disk errors and restarts.  What a stopped host forgets stays forgotten. *)
THEOREM ControlPlaneDecidesOnce == Spec => Promise!Spec
<1>1. Init => Promise!Init
  <2> SUFFICES ASSUME Init PROVE Promise!Init
    OBVIOUS
  <2>1. \A r \in Runs : Len(ledger[r]) = 0
    BY DEF Init
  <2> QED
    BY <2>1 DEF Init, Promise!Init, Decision, Acted, Finished
<1>2. OnceInv /\ [Next]_vars => [Promise!Next]_(Promise!vars)
  <2> SUFFICES ASSUME OnceInv, [Next]_vars
               PROVE  Promise!Next
    BY DEF Promise!vars
  <2>1. TypeInv /\ NoEarlyRecord
    BY DEF OnceInv, SafetyInv
  <2>2. CASE Acted' # Acted
    BY <2>2, AnActIsAnAct
  <2>3. ASSUME Acted' = Acted, NEW c \in Calls, Approve(c) PROVE Promise!Next
    <3>1. /\ pc[c] = "approve" /\ approvals[c] = "requested"
          /\ approvals'[c] = "approved"
          /\ \A d \in Calls \ {c} : pc'[d] = pc[d] /\ approvals'[d] = approvals[d]
      BY <2>1, <2>3 DEF Approve, Record, Goto, TypeInv, TypeOK
    <3>2. Decision[c] = "open" /\ Decision' = [Decision EXCEPT ![c] = "approved"]
      BY <3>1 DEF Decision, Finished
    <3>3. Promise!Decide(c)
      BY <2>3, <3>2 DEF Promise!Decide
    <3> QED
      BY <3>3 DEF Promise!Next
  <2>4. CASE Acted' = Acted /\ \A c \in Calls : ~Approve(c)
    BY <2>1, <2>4, DecisionsStay, ForgetOrStay DEF Promise!Next
  <2> QED
    BY <2>2, <2>3, <2>4
<1> QED
  BY <1>1, <1>2, OnceInvariant, PTL DEF Spec, Promise!Spec

=============================================================================
