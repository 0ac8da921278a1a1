------------------------- MODULE CycleRunner_proofs -------------------------
(***************************************************************************)
(* Theorems about CycleRunner, for any cycles a sandbox may report, and    *)
(* about RunView, the pages that show a run's cycles and recoveries.       *)
(***************************************************************************)
EXTENDS CycleRunner, RunView, SequenceTheorems, FiniteSetTheorems,
        WellFoundedInduction, TLAPS

(* The types the proofs rest on: the context's stop conditions, which no   *)
(* gate reads, are left out.                                               *)
TypeInv ==
    /\ context.baseline \in Int \cup {NaN, None}
    /\ context.crashes \in Nat
    /\ history \in Seq(RunnerResult)

(* The count tells whether the last cycle, and the last two, crashed.      *)
CrashesAreCounted ==
    LET n == Len(history) IN
    /\ context.crashes >= 1 <=> Crashed(n)
    /\ context.crashes >= 2 <=> Crashed(n) /\ Crashed(n - 1)

RunnerInv ==
    /\ TypeInv
    /\ CrashesAreCounted
    /\ ThirdCrashStops
    /\ BaselineIsLastAccepted
    /\ AcceptedScoresNeverDrop

-----------------------------------------------------------------------------
(* The result a cycle adds to the history. *)
Result(c) ==
    LET evaluation == Evaluate(c, context)
    IN  [cycle |-> c, decision |-> evaluation.decision,
         failed |-> evaluation.failed, stops |-> evaluation.stops,
         milestone |-> NextContext(c, context, evaluation,
                                   Len(history) + 1).stable >= Target]

LEMMA ResultType ==
    ASSUME NEW c \in Cycles
    PROVE  Result(c) \in RunnerResult
<1>1. Evaluate(c, context).decision \in {"accepted", "rejected", "stopped"}
  BY DEF Evaluate
<1>2. StopConditions(c, context) \subseteq StopCodes
  BY DEF StopConditions
<1>3. /\ Evaluate(c, context).stops \subseteq StopCodes
      /\ Evaluate(c, context).failed
            \subseteq {"cycle_execution", "required_tests"}
  BY <1>2 DEF Evaluate, FailedGates
<1> QED
  BY <1>1, <1>3 DEF Result, RunnerResult

LEMMA HistoryGrows ==
    ASSUME TypeInv, NEW c \in Cycles, RunCycle(c)
    PROVE  /\ history' \in Seq(RunnerResult)
           /\ Len(history) \in Nat /\ Len(history') = Len(history) + 1
           /\ history'[Len(history) + 1] = Result(c)
           /\ \A i \in 1 .. Len(history) : history'[i] = history[i]
<1>1. history' = Append(history, Result(c))
  BY DEF RunCycle, Result
<1>2. history \in Seq(RunnerResult)
  BY DEF TypeInv
<1> QED
  BY <1>1, <1>2, ResultType, AppendProperties

(* What of a step the proofs need: the decision, and the next context.     *)
LEMMA StepEffect ==
    ASSUME NEW c \in Cycles, RunCycle(c)
    PROVE  /\ Result(c).cycle = c
           /\ Result(c).stops = StopConditions(c, context)
           /\ Result(c).decision = "accepted"
                 => StopConditions(c, context) = {}
           /\ context'.crashes = IF c.crashed THEN context.crashes + 1 ELSE 0
           /\ context'.baseline = IF Result(c).decision = "accepted"
                                  THEN c.score ELSE context.baseline
  BY DEF RunCycle, Result, Evaluate, NextContext, NextBaseline, NextCrashes

LEMMA Regression ==
    ASSUME NEW c \in Cycles, NEW ctx, StopConditions(c, ctx) = {}
    PROVE  ~(ctx.baseline # None /\ Below(c.score, ctx.baseline))
<1>1. ~Detects("regression_score_drop", c, ctx)
  BY DEF StopConditions, StopCodes
<1> QED
  BY <1>1 DEF Detects

LEMMA RepeatedCrashes ==
    ASSUME NEW c, NEW ctx
    PROVE  "repeated_crashes" \in StopConditions(c, ctx)
              <=> c.crashed /\ ctx.crashes + 1 >= 3
<1>1. "repeated_crashes" \in StopConditions(c, ctx)
         <=> Detects("repeated_crashes", c, ctx)
  BY DEF StopConditions, StopCodes
<1> QED
  BY <1>1 DEF Detects, RepeatedCrashThreshold

-----------------------------------------------------------------------------
LEMMA RunnerInit == Init => RunnerInv
<1> SUFFICES ASSUME Init PROVE RunnerInv
  OBVIOUS
<1>1. history \in Seq(RunnerResult) /\ Len(history) = 0
  BY EmptySeq DEF Init
<1>2. TypeInv
  BY <1>1 DEF Init, TypeInv
<1>3. Accepted = {}
  BY <1>1 DEF Accepted
<1> QED
  BY <1>1, <1>2, <1>3 DEF Init, RunnerInv, CrashesAreCounted, Crashed,
     ThirdCrashStops, BaselineIsLastAccepted, AcceptedScoresNeverDrop

LEMMA CrashesStep ==
    ASSUME RunnerInv, NEW c \in Cycles, RunCycle(c)
    PROVE  CrashesAreCounted' /\ ThirdCrashStops'
<1>1. TypeInv
  BY DEF RunnerInv
<1>2. PICK n \in Nat :
        /\ n = Len(history) /\ Len(history') = n + 1
        /\ history'[n + 1] = Result(c)
        /\ \A i \in 1 .. n : history'[i] = history[i]
  BY <1>1, HistoryGrows
<1>3. c.crashed \in BOOLEAN
  BY RunnerAssumption
<1>4. Crashed(n + 1)' <=> c.crashed
  BY <1>2, StepEffect DEF Crashed
<1>5. \A i \in Int : i <= n => (Crashed(i)' <=> Crashed(i))
  BY <1>2 DEF Crashed
<1>6. CrashesAreCounted'
  <2>1. /\ context.crashes \in Nat
        /\ context.crashes >= 1 <=> Crashed(n)
        /\ context'.crashes = IF c.crashed THEN context.crashes + 1 ELSE 0
    BY <1>1, <1>2, StepEffect DEF RunnerInv, CrashesAreCounted, TypeInv
  <2>2. Crashed(n)' <=> Crashed(n)
    BY <1>5
  <2>3. /\ context'.crashes >= 1 <=> Crashed(n + 1)'
        /\ context'.crashes >= 2 <=> Crashed(n + 1)' /\ Crashed(n)'
    BY <1>4, <2>1, <2>2
  <2> QED
    BY <1>2, <2>3 DEF CrashesAreCounted
<1>7. ThirdCrashStops'
  <2> SUFFICES ASSUME NEW i \in 1 .. n + 1
               PROVE  "repeated_crashes" \in history'[i].stops
                         <=> Crashed(i)' /\ Crashed(i - 1)' /\ Crashed(i - 2)'
    BY <1>2 DEF ThirdCrashStops
  <2>1. CASE i = n + 1
    <3>1. "repeated_crashes" \in history'[i].stops
             <=> c.crashed /\ context.crashes + 1 >= 3
      BY <1>2, <2>1, StepEffect, RepeatedCrashes
    <3>2. context.crashes >= 2 <=> Crashed(n) /\ Crashed(n - 1)
      BY <1>2 DEF RunnerInv, CrashesAreCounted
    <3>3. (Crashed(n)' <=> Crashed(n)) /\ (Crashed(n - 1)' <=> Crashed(n - 1))
      BY <1>5
    <3>4. i = n + 1 /\ i - 1 = n /\ i - 2 = n - 1
      BY <2>1
    <3>5. "repeated_crashes" \in history'[i].stops
             <=> Crashed(n + 1)' /\ Crashed(n)' /\ Crashed(n - 1)'
      BY <1>1, <1>4, <3>1, <3>2, <3>3 DEF TypeInv
    <3> QED
      BY <3>4, <3>5 DEF Crashed
  <2>2. CASE i # n + 1
    <3>1. i \in 1 .. n /\ history'[i] = history[i]
      BY <1>2, <2>2
    <3>2. /\ i \in Int /\ i <= n
          /\ i - 1 \in Int /\ i - 1 <= n
          /\ i - 2 \in Int /\ i - 2 <= n
      BY <1>2, <3>1
    <3>3. Crashed(i)' <=> Crashed(i)
      BY <1>5, <3>2
    <3>4. Crashed(i - 1)' <=> Crashed(i - 1)
      BY <1>5, <3>2
    <3>5. Crashed(i - 2)' <=> Crashed(i - 2)
      BY <1>5, <3>2
    <3>6. "repeated_crashes" \in history[i].stops
             <=> Crashed(i) /\ Crashed(i - 1) /\ Crashed(i - 2)
      BY <1>2, <3>1 DEF RunnerInv, ThirdCrashStops
    <3> QED
      BY <3>1, <3>3, <3>4, <3>5, <3>6
  <2> QED
    BY <2>1, <2>2
<1> QED
  BY <1>6, <1>7

LEMMA ScoresStep ==
    ASSUME RunnerInv, NEW c \in Cycles, RunCycle(c)
    PROVE  BaselineIsLastAccepted' /\ AcceptedScoresNeverDrop'
<1> DEFINE n == Len(history)
<1>1. TypeInv /\ BaselineIsLastAccepted /\ AcceptedScoresNeverDrop
  BY DEF RunnerInv
<1>2. /\ n \in Nat /\ Len(history') = n + 1
      /\ history'[n + 1] = Result(c)
      /\ \A i \in 1 .. n : history'[i] = history[i]
  BY <1>1, HistoryGrows
<1>3. Accepted \subseteq 1 .. n
  BY DEF Accepted
<1>4. ASSUME NEW i \in Accepted
      PROVE  history'[i].cycle.score = history[i].cycle.score
             /\ history[i].cycle \in Cycles
  <2>1. history[i] \in RunnerResult
    BY <1>1, <1>3, ElementOfSeq DEF TypeInv
  <2> QED
    BY <1>2, <1>3, <2>1 DEF RunnerResult
<1>5. CASE Result(c).decision # "accepted"
  <2>1. Accepted' = Accepted /\ context'.baseline = context.baseline
    BY <1>2, <1>5, StepEffect DEF Accepted
  <2> QED
    BY <1>1, <1>2, <1>4, <2>1, SMTT(20) DEF BaselineIsLastAccepted,
       AcceptedScoresNeverDrop
<1>6. CASE Result(c).decision = "accepted"
  <2>1. Accepted' = Accepted \cup {n + 1} /\ context'.baseline = c.score
    BY <1>2, <1>6, StepEffect DEF Accepted
  <2>2. history'[n + 1].cycle.score = c.score
    BY <1>2, StepEffect
  <2>3. BaselineIsLastAccepted'
    BY <1>2, <1>3, <2>1, <2>2 DEF BaselineIsLastAccepted
  <2>4. ASSUME NEW i \in Accepted, c.score # NaN,
               \A k \in Accepted : i <= k => history[k].cycle.score # NaN
        PROVE  history[i].cycle.score <= c.score
    <3>1. PICK l \in Accepted : /\ \A j \in Accepted : j <= l
                                /\ context.baseline = history[l].cycle.score
      BY <1>1 DEF BaselineIsLastAccepted
    <3>2. i <= l /\ i \in Nat /\ l \in Nat
      BY <1>2, <1>3, <3>1
    <3>3. history[i].cycle.score <= history[l].cycle.score
      BY <1>1, <1>2, <1>3, <2>4, <3>1, <3>2 DEF AcceptedScoresNeverDrop
    <3>4. history[i].cycle.score \in Int /\ history[l].cycle.score \in Int
      BY <1>4, <2>4, <3>1, <3>2, RunnerAssumption
    <3>5. c.score \in Int
      BY <2>4, RunnerAssumption
    <3>6. context.baseline # None /\ context.baseline \in Int
      BY <3>1, <3>4, RunnerAssumption
    <3>7. ~Below(c.score, context.baseline)
      BY <1>6, <3>6, StepEffect, Regression
    <3>8. context.baseline <= c.score
      BY <3>5, <3>6, <3>7, RunnerAssumption DEF Below
    <3> QED
      BY <3>1, <3>3, <3>4, <3>5, <3>8
  <2>5. ASSUME NEW i \in Accepted', NEW j \in Accepted', i <= j,
               \A k \in Accepted' :
                  k \in i .. j => history'[k].cycle.score # NaN
        PROVE  history'[i].cycle.score <= history'[j].cycle.score
    <3>0. /\ i \in 1 .. n + 1 /\ j \in 1 .. n + 1
          /\ history'[i].cycle.score # NaN /\ history'[j].cycle.score # NaN
      BY <1>2, <1>3, <2>1, <2>5
    <3>1. CASE i \in Accepted /\ j \in Accepted
      <4>1. \A k \in Accepted : k \in i .. j => history[k].cycle.score # NaN
        BY <1>4, <2>1, <2>5
      <4> QED
        BY <1>1, <1>4, <2>5, <3>1, <4>1 DEF AcceptedScoresNeverDrop
    <3>2. CASE i \in Accepted /\ j = n + 1
      <4>1. c.score # NaN
        BY <2>2, <3>0, <3>2
      <4>2. \A k \in Accepted : i <= k => history[k].cycle.score # NaN
        BY <1>2, <1>3, <1>4, <2>1, <2>5, <3>0, <3>2
      <4>3. history[i].cycle.score <= c.score
        BY <2>4, <3>2, <4>1, <4>2
      <4> QED
        BY <1>4, <2>2, <3>2, <4>3
    <3>3. CASE i = n + 1
      <4>1. j = n + 1
        BY <1>2, <2>5, <3>0, <3>3
      <4>2. c.score \in Int
        BY <2>2, <3>0, <3>3, RunnerAssumption
      <4> QED
        BY <2>2, <3>3, <4>1, <4>2
    <3> QED
      BY <2>1, <3>1, <3>2, <3>3
  <2> QED
    BY <2>3, <2>5 DEF AcceptedScoresNeverDrop
<1> QED
  BY <1>5, <1>6

(* What is said of the context and the history stays when they do. *)
LEMMA Unchanged ==
    ASSUME RunnerInv, UNCHANGED <<context, history>>
    PROVE  RunnerInv'
  BY DEF RunnerInv, TypeInv, CrashesAreCounted, Crashed,
     ThirdCrashStops, BaselineIsLastAccepted, AcceptedScoresNeverDrop, Accepted

LEMMA RunnerStep ==
    ASSUME RunnerInv, [Next]_vars
    PROVE  RunnerInv'
<1>1. CASE UNCHANGED vars
  BY <1>1, Unchanged DEF vars
<1>2. ASSUME NEW c \in Cycles, RunCycle(c) PROVE RunnerInv'
  <2>1. history' \in Seq(RunnerResult)
    BY <1>2, HistoryGrows DEF RunnerInv
  <2>2. context'.baseline \in Int \cup {NaN, None} /\ context'.crashes \in Nat
    BY <1>2, StepEffect, RunnerAssumption DEF RunnerInv, TypeInv
  <2> QED
    BY <1>2, <2>1, <2>2, CrashesStep, ScoresStep DEF RunnerInv, TypeInv
<1>3. ASSUME NEW c \in Cycles, CallbackRaises(c) PROVE RunnerInv'
  BY <1>3, Unchanged DEF CallbackRaises
<1> QED
  BY <1>1, <1>2, <1>3 DEF Next

LEMMA RunnerInvariant == Spec => []RunnerInv
<1>1. RunnerInv /\ [Next]_vars => RunnerInv'
  BY RunnerStep
<1> QED
  BY <1>1, RunnerInit, PTL DEF Spec

(* "repeated_crashes" is found exactly at a third crash in a row. *)
THEOREM RepeatedCrashesAreInARow == Spec => []ThirdCrashStops
<1>1. RunnerInv => ThirdCrashStops
  BY DEF RunnerInv
<1> QED
  BY <1>1, RunnerInvariant, PTL

(* The baseline is always the score of the last accepted cycle. *)
THEOREM BaselineFollowsAcceptance == Spec => []BaselineIsLastAccepted
<1>1. RunnerInv => BaselineIsLastAccepted
  BY DEF RunnerInv
<1> QED
  BY <1>1, RunnerInvariant, PTL

(* The scores of the accepted cycles of a run never drop, but after one    *)
(* that is not a number.                                                   *)
THEOREM NoRegressionIsAccepted == Spec => []AcceptedScoresNeverDrop
<1>1. RunnerInv => AcceptedScoresNeverDrop
  BY DEF RunnerInv
<1> QED
  BY <1>1, RunnerInvariant, PTL

-----------------------------------------------------------------------------
(***************************************************************************)
(* The record of stop conditions.  A sequence lists a set when it has each *)
(* of its elements once; lists of disjoint sets make up a list.            *)
(***************************************************************************)
Lists(s, S) ==
    /\ s \in Seq(Nat \X StopCodes)
    /\ {s[k] : k \in 1 .. Len(s)} = S
    /\ \A k, l \in 1 .. Len(s) : s[k] = s[l] => k = l

LEMMA ConcatLists ==
    ASSUME NEW s, NEW t, NEW S, NEW T, Lists(s, S), Lists(t, T), S \cap T = {}
    PROVE  Lists(s \o t, S \cup T)
<1> DEFINE m == Len(s)
           n == Len(t)
           u == s \o t
<1>1. /\ m \in Nat /\ n \in Nat
      /\ u \in Seq(Nat \X StopCodes) /\ Len(u) = m + n
      /\ \A i \in 1 .. m + n : u[i] = IF i <= m THEN s[i] ELSE t[i - m]
  BY ConcatProperties, LenProperties DEF Lists
<1> HIDE DEF m, n, u
<1>2. /\ \A i \in 1 .. m : s[i] \in S
      /\ \A i \in 1 .. n : t[i] \in T
      /\ \A x \in S : \E i \in 1 .. m : s[i] = x
      /\ \A x \in T : \E i \in 1 .. n : t[i] = x
  BY DEF Lists, m, n
<1>3. ASSUME NEW i \in 1 .. m + n, i > m PROVE i - m \in 1 .. n /\ u[i] = t[i - m]
  BY <1>1, <1>3
<1>4. ASSUME NEW i \in 1 .. m PROVE i \in 1 .. m + n /\ u[i] = s[i]
  BY <1>1
<1>5. ASSUME NEW i \in 1 .. n PROVE m + i \in 1 .. m + n /\ u[m + i] = t[i]
  <2>1. m + i \in 1 .. m + n /\ ~(m + i <= m) /\ (m + i) - m = i
    BY <1>1
  <2> QED
    BY <1>1, <2>1
<1>6. ASSUME NEW k \in 1 .. m + n
      PROVE  (k <= m => u[k] \in S) /\ (k > m => u[k] \in T)
  <2>1. CASE k <= m
    <3>1. k \in 1 .. m /\ ~(k > m)
      BY <1>1, <2>1
    <3> QED
      BY <1>2, <1>4, <3>1
  <2>2. CASE k > m
    <3>1. k - m \in 1 .. n /\ u[k] = t[k - m]
      BY <1>3, <2>2
    <3>2. ~(k <= m)
      BY <1>1, <2>2
    <3> QED
      BY <1>2, <3>1, <3>2
  <2> QED
    BY <1>1, <2>1, <2>2
<1>7. {u[k] : k \in 1 .. m + n} = S \cup T
  <2>1. ASSUME NEW k \in 1 .. m + n PROVE u[k] \in S \cup T
    BY <1>1, <1>6
  <2>2. ASSUME NEW x \in S \cup T PROVE \E k \in 1 .. m + n : u[k] = x
    BY <1>2, <1>4, <1>5
  <2> QED
    BY <2>1, <2>2
<1>8. ASSUME NEW k \in 1 .. m + n, NEW l \in 1 .. m + n, u[k] = u[l]
      PROVE  k = l
  <2>1. CASE k <= m /\ l <= m
    <3>1. k \in 1 .. m /\ l \in 1 .. m /\ s[k] = s[l]
      BY <1>1, <1>8, <2>1
    <3> QED
      BY <3>1 DEF Lists, m
  <2>2. CASE k > m /\ l > m
    <3>1. k - m \in 1 .. n /\ l - m \in 1 .. n /\ t[k - m] = t[l - m]
      BY <1>3, <1>8, <2>2
    <3>2. k - m = l - m
      BY <3>1 DEF Lists, n
    <3> QED
      BY <1>1, <3>2
  <2>3. (k <= m \/ k > m) /\ (l <= m \/ l > m)
    BY <1>1
  <2>4. ~(k <= m /\ l > m) /\ ~(k > m /\ l <= m)
    BY <1>6, <1>8
  <2> QED
    BY <2>1, <2>2, <2>3, <2>4
<1> QED
  BY <1>1, <1>7, <1>8 DEF Lists, u

(* The stop conditions found in a cycle, under its number. *)
LEMMA PersistedLists ==
    ASSUME NEW number \in Nat, NEW stops \in SUBSET StopCodes
    PROVE  Lists(Persisted(number, stops), {number} \X stops)
<1> DEFINE code(k) == CodeOrder[k]
           found(k) == IF code(k) \in stops THEN <<<<number, code(k)>>>> ELSE <<>>
           part(k) == {number} \X ({code(k)} \cap stops)
<1>1. /\ \A k \in 1 .. 6 : code(k) \in StopCodes
      /\ StopCodes = {code(1), code(2), code(3), code(4), code(5), code(6)}
      /\ \A k, l \in 1 .. 6 : code(k) = code(l) => k = l
  BY DEF CodeOrder, StopCodes
<1> HIDE DEF code
<1>2. ASSUME NEW k \in 1 .. 6 PROVE Lists(found(k), part(k))
  <2>1. CASE code(k) \in stops
    <3>1. found(k) = <<<<number, code(k)>>>> /\ part(k) = {<<number, code(k)>>}
      BY <2>1
    <3>2. <<number, code(k)>> \in Nat \X StopCodes
      BY <1>1
    <3> QED
      BY <3>1, <3>2 DEF Lists
  <2>2. CASE code(k) \notin stops
    <3>1. found(k) = <<>> /\ part(k) = {}
      BY <2>2
    <3> QED
      BY <3>1 DEF Lists
  <2> QED
    BY <2>1, <2>2
<1>3. ASSUME NEW k \in 1 .. 6, NEW l \in 1 .. 6, k # l PROVE part(k) \cap part(l) = {}
  BY <1>1, <1>3
<1>4. {number} \X stops
         = part(1) \cup part(2) \cup part(3) \cup part(4) \cup part(5) \cup part(6)
  BY <1>1
<1>5. Persisted(number, stops)
         = found(1) \o found(2) \o found(3) \o found(4) \o found(5) \o found(6)
  BY DEF Persisted, code
<1> HIDE DEF found, part
<1>6. Lists(found(1) \o found(2), part(1) \cup part(2))
  BY <1>2, <1>3, ConcatLists
<1>7. Lists(found(1) \o found(2) \o found(3), part(1) \cup part(2) \cup part(3))
  <2>1. (part(1) \cup part(2)) \cap part(3) = {}
    BY <1>3
  <2> QED
    BY <1>2, <1>6, <2>1, ConcatLists
<1>8. Lists(found(1) \o found(2) \o found(3) \o found(4),
            part(1) \cup part(2) \cup part(3) \cup part(4))
  <2>1. (part(1) \cup part(2) \cup part(3)) \cap part(4) = {}
    BY <1>3
  <2> QED
    BY <1>2, <1>7, <2>1, ConcatLists
<1>9. Lists(found(1) \o found(2) \o found(3) \o found(4) \o found(5),
            part(1) \cup part(2) \cup part(3) \cup part(4) \cup part(5))
  <2>1. (part(1) \cup part(2) \cup part(3) \cup part(4)) \cap part(5) = {}
    BY <1>3
  <2> QED
    BY <1>2, <1>8, <2>1, ConcatLists
<1> QED
  <2>1. (part(1) \cup part(2) \cup part(3) \cup part(4) \cup part(5)) \cap part(6) = {}
    BY <1>3
  <2> QED
    BY <1>2, <1>4, <1>5, <1>9, <2>1, ConcatLists, SMTT(20)

-----------------------------------------------------------------------------
(***************************************************************************)
(* The streak of samples above the threshold.  The recursion has a         *)
(* solution, the distance from the last sample that is not above it; and   *)
(* whatever solves it counts.                                              *)
(***************************************************************************)
LEMMA LeastOf ==
    ASSUME NEW S, S \subseteq Nat, S # {}
    PROVE  \E m \in S : \A k \in S : m <= k
<1>1. PICK m \in S : \A k \in S : <<k, m>> \notin OpToRel(<, Nat)
  BY NatLessThanWellFounded, WFMin
<1>2. ASSUME NEW k \in S PROVE m <= k
  <2>1. <<k, m>> \in Nat \X Nat /\ m \in Nat /\ k \in Nat
    OBVIOUS
  <2>2. ~(k < m)
    BY <1>1, <2>1 DEF OpToRel
  <2> QED
    BY <2>1, <2>2
<1> QED
  BY <1>2

Counts(streak, samples) ==
    streak = [i \in 0 .. Len(samples) |->
                 IF i = 0 THEN 0
                 ELSE IF samples[i] > OveruseThresholdPercent
                      THEN streak[i - 1] + 1 ELSE 0]

LEMMA StreakExists ==
    ASSUME NEW samples \in Seq(Nat)
    PROVE  \E streak : Counts(streak, samples)
<1> DEFINE n == Len(samples)
           Since(i) == {d \in 0 .. i : d = i \/ ~(samples[i - d] > OveruseThresholdPercent)}
           IsLeast(i, d) == d \in Since(i) /\ \A e \in Since(i) : d <= e
           Least(i) == CHOOSE d \in Nat : IsLeast(i, d)
           streak == [i \in 0 .. n |-> Least(i)]
<1>1. n \in Nat
  BY LenProperties
<1>2. ASSUME NEW i \in 0 .. n PROVE Least(i) \in Nat /\ IsLeast(i, Least(i))
  <2>1. i \in Nat /\ i \in Since(i) /\ Since(i) \subseteq Nat
    BY <1>1
  <2>2. \E d \in Nat : IsLeast(i, d)
    BY <2>1, LeastOf
  <2> QED
    BY <2>2
<1>3. ASSUME NEW i \in 0 .. n, NEW d \in Nat, IsLeast(i, d) PROVE Least(i) = d
  <2>1. Least(i) \in Nat /\ IsLeast(i, Least(i))
    BY <1>2
  <2>2. Least(i) <= d /\ d <= Least(i)
    BY <1>3, <2>1
  <2> QED
    BY <2>1, <2>2
<1>4. Least(0) = 0
  BY <1>1, <1>3
<1>5. ASSUME NEW i \in 1 .. n, ~(samples[i] > OveruseThresholdPercent)
      PROVE  Least(i) = 0
  <2>1. IsLeast(i, 0)
    BY <1>1, <1>5
  <2> QED
    BY <1>1, <1>3, <2>1
<1>6. ASSUME NEW i \in 1 .. n, samples[i] > OveruseThresholdPercent
      PROVE  Least(i) = Least(i - 1) + 1
  <2> DEFINE d == Least(i - 1)
  <2>1. i - 1 \in 0 .. n /\ i \in Nat /\ i # 0
    BY <1>1
  <2>2. d \in Nat /\ IsLeast(i - 1, d)
    BY <1>2, <2>1
  <2> HIDE DEF d, Least
  <2>3. d \in 0 .. i - 1 /\ (d = i - 1 \/ ~(samples[(i - 1) - d] > OveruseThresholdPercent))
    BY <2>2
  <2>4. d + 1 \in Since(i)
    <3>1. d + 1 \in 0 .. i /\ (i - 1) - d = i - (d + 1)
      BY <2>1, <2>3
    <3>2. d + 1 = i \/ ~(samples[i - (d + 1)] > OveruseThresholdPercent)
      BY <2>1, <2>3, <3>1
    <3> QED
      BY <3>1, <3>2
  <2>5. ASSUME NEW e \in Since(i) PROVE d + 1 <= e
    <3>1. e \in 0 .. i /\ (e = i \/ ~(samples[i - e] > OveruseThresholdPercent))
      BY <2>5
    <3>2. e # 0
      <4>1. i - 0 = i
        BY <2>1
      <4> QED
        BY <1>6, <2>1, <3>1, <4>1
    <3>3. e - 1 \in 0 .. i - 1 /\ (i - 1) - (e - 1) = i - e
      BY <2>1, <3>1, <3>2, SMTT(20)
    <3>4. e - 1 \in Since(i - 1)
      BY <2>1, <3>1, <3>3
    <3>5. d <= e - 1
      BY <2>2, <3>4
    <3> QED
      BY <2>2, <3>1, <3>5
  <2>6. IsLeast(i, d + 1)
    BY <2>4, <2>5
  <2>7. Least(i) = d + 1
    BY <1>3, <2>1, <2>2, <2>6
  <2> QED
    BY <2>7 DEF d
<1> HIDE DEF Least
<1>7. \A i \in 0 .. n :
         Least(i) = IF i = 0 THEN 0
                    ELSE IF samples[i] > OveruseThresholdPercent
                         THEN streak[i - 1] + 1 ELSE 0
  <2> SUFFICES ASSUME NEW i \in 0 .. n, i # 0
               PROVE  Least(i) = IF samples[i] > OveruseThresholdPercent
                                 THEN streak[i - 1] + 1 ELSE 0
    BY <1>4
  <2>1. i \in 1 .. n /\ i - 1 \in 0 .. n
    BY <1>1
  <2>2. streak[i - 1] = Least(i - 1)
    BY <2>1
  <2> QED
    BY <1>5, <1>6, <2>1, <2>2
<1>8. Counts(streak, samples)
  BY <1>7 DEF Counts
<1> QED
  BY <1>8

LEMMA StreakCounts ==
    ASSUME NEW samples \in Seq(Nat)
    PROVE  Counts(Streak(samples), samples)
<1>1. Streak(samples) = CHOOSE streak : Counts(streak, samples)
  BY DEF Streak, Counts
<1> QED
  BY <1>1, StreakExists

LEMMA StreakType ==
    ASSUME NEW samples \in Seq(Nat), NEW i \in 0 .. Len(samples)
    PROVE  Streak(samples)[i] \in Nat
<1> DEFINE f == Streak(samples)
           n == Len(samples)
           Bad == {k \in 0 .. n : f[k] \notin Nat}
<1>1. n \in Nat
  BY LenProperties
<1>2. /\ f[0] = 0
      /\ \A k \in 1 .. n : f[k] = IF samples[k] > OveruseThresholdPercent
                                  THEN f[k - 1] + 1 ELSE 0
  BY <1>1, StreakCounts DEF Counts
<1>3. SUFFICES ASSUME Bad # {} PROVE FALSE
  OBVIOUS
<1> HIDE DEF f
<1>4. PICK m \in Bad : \A k \in Bad : m <= k
  <2>1. Bad \subseteq Nat
    BY <1>1
  <2> HIDE DEF Bad
  <2> QED
    BY <1>3, <2>1, LeastOf
<1>5. m \in 1 .. n /\ m - 1 \in 0 .. n
  BY <1>1, <1>2, <1>4
<1>6. f[m - 1] \in Nat
  BY <1>4, <1>5
<1>7. f[m] = f[m - 1] + 1 \/ f[m] = 0
  BY <1>2, <1>5
<1> QED
  BY <1>4, <1>6, <1>7

(* Three samples in a row above the threshold are found. *)
LEMMA OveruseIsFound ==
    ASSUME NEW samples \in Seq(Nat), NEW k \in 1 .. Len(samples) - 2,
           \A d \in 0 .. 2 : samples[k + d] > 90
    PROVE  HasSustainedOveruse(samples)
<1> DEFINE f == Streak(samples)
           n == Len(samples)
<1>1. n \in Nat /\ k \in Nat
  BY LenProperties
<1>2. ASSUME NEW i \in 1 .. n, samples[i] > 90 PROVE f[i] = f[i - 1] + 1
  BY <1>1, <1>2, StreakCounts, SMTT(20) DEF Counts, OveruseThresholdPercent
<1>3. f[k - 1] \in Nat
  BY <1>1, StreakType
<1> HIDE DEF f
<1>4. f[k] = f[k - 1] + 1
  <2>1. k + 0 = k /\ k \in 1 .. n
    BY <1>1
  <2> QED
    BY <1>2, <2>1
<1>5. f[k + 1] = f[k] + 1
  <2>1. (k + 1) - 1 = k /\ k + 1 \in 1 .. n /\ samples[k + 1] > 90
    BY <1>1
  <2> QED
    BY <1>2, <2>1
<1>6. f[k + 2] = f[k + 1] + 1
  <2>1. (k + 2) - 1 = k + 1 /\ k + 2 \in 1 .. n /\ samples[k + 2] > 90
    BY <1>1
  <2> QED
    BY <1>2, <2>1
<1>7. k + 2 \in 0 .. n /\ f[k + 2] >= 3
  BY <1>1, <1>3, <1>4, <1>5, <1>6, SMTT(20)
<1> QED
  BY <1>7 DEF HasSustainedOveruse, OveruseSampleCount, f

-----------------------------------------------------------------------------
(* What is asked of a cycle that is accepted. *)
Clean(c) ==
    /\ c.syntax_ok /\ c.tests_ok /\ ~c.crashed
    /\ c.tools \subseteq AllowedTools
    /\ c.log_silence < 60 /\ c.heartbeat_silence < 60
    /\ ~c.limit_breached
    /\ \A s \in {c.cpu, c.memory} : \A k \in 1 .. Len(s) - 2 :
          \E d \in 0 .. 2 : s[k + d] <= 90

LEMMA AcceptedCycle ==
    ASSUME NEW c \in Cycles, NEW ctx, Evaluate(c, ctx).decision = "accepted"
    PROVE  Clean(c)
<1>1. StopConditions(c, ctx) = {} /\ FailedGates(c) = {}
  BY DEF Evaluate
<1>2. /\ ~Detects("forbidden_action_attempt", c, ctx)
      /\ ~Detects("resource_overuse", c, ctx)
      /\ ~Detects("log_silence", c, ctx)
      /\ ~Detects("syntax_failure", c, ctx)
  BY <1>1 DEF StopConditions, StopCodes
<1>3. c.tools \subseteq AllowedTools
  BY <1>2 DEF Detects
<1>4. ~c.limit_breached /\ ~HasSustainedOveruse(c.cpu) /\ ~HasSustainedOveruse(c.memory)
  BY <1>2 DEF Detects
<1>5. c.log_silence < 60 /\ c.heartbeat_silence < 60
  BY <1>2, RunnerAssumption DEF Detects, LogSilenceThresholdSeconds
<1>6. c.syntax_ok
  BY <1>2 DEF Detects
<1>7. ~c.crashed /\ c.tests_ok
  BY <1>1 DEF FailedGates
<1>8. ASSUME NEW s \in {c.cpu, c.memory}, NEW k \in 1 .. Len(s) - 2
      PROVE  \E d \in 0 .. 2 : s[k + d] <= 90
  <2>1. s \in Seq(Nat) /\ ~HasSustainedOveruse(s) /\ Len(s) \in Nat
    BY <1>4, RunnerAssumption, LenProperties
  <2>2. PICK d \in 0 .. 2 : ~(s[k + d] > 90)
    BY <2>1, OveruseIsFound
  <2>3. s[k + d] \in Nat
    <3>1. k + d \in 1 .. Len(s)
      BY <2>1
    <3> QED
      BY <2>1, <3>1, ElementOfSeq
  <2> QED
    BY <2>2, <2>3
<1> QED
  BY <1>3, <1>4, <1>5, <1>6, <1>7, <1>8 DEF Clean

-----------------------------------------------------------------------------
(***************************************************************************)
(* Types, the milestone, the record of stop conditions and the gates.  The *)
(* context's count is how many cycles have been accepted (StableCounts).   *)
(***************************************************************************)
StableCounts == IsFiniteSet(Accepted) /\ context.stable = Cardinality(Accepted)

RecordInv ==
    /\ TypeOK /\ StableCounts
    /\ MilestoneCountsAccepted /\ StopsArePersisted /\ AcceptedIsClean

LEMMA RecordInit == Init => RecordInv
<1> SUFFICES ASSUME Init PROVE RecordInv
  OBVIOUS
<1>1. history = <<>> /\ Len(history) = 0 /\ context.stops = <<>> /\ context.stable = 0
  BY DEF Init
<1>2. <<>> \in Seq(Nat \X StopCodes) /\ <<>> \in Seq(RunnerResult)
  OBVIOUS
<1>3. context \in RunnerContext /\ lost \in 0 .. MaxLost
  BY <1>2, RunnerAssumption DEF Init, RunnerContext
<1>4. Accepted = {}
  BY <1>1 DEF Accepted
<1>5. StopsArePersisted
  BY <1>1 DEF StopsArePersisted
<1> QED
  BY <1>1, <1>2, <1>3, <1>4, <1>5, FS_EmptySet
  DEF RecordInv, TypeOK, StableCounts, MilestoneCountsAccepted, AcceptedIsClean, Init

LEMMA ContextTyped ==
    ASSUME RecordInv, NEW c \in Cycles, RunCycle(c)
    PROVE  /\ context' \in RunnerContext
           /\ context'.stable = IF Result(c).decision = "accepted"
                                THEN context.stable + 1 ELSE context.stable
           /\ context'.stops = context.stops
                                  \o Persisted(Len(history) + 1, Result(c).stops)
           /\ Result(c).milestone <=> context'.stable >= Target
<1>1. /\ context.baseline \in Int \cup {NaN, None} /\ context.crashes \in Nat
      /\ context.stable \in Nat /\ context.stops \in Seq(Nat \X StopCodes)
      /\ Len(history) \in Nat
  BY LenProperties DEF RecordInv, TypeOK, RunnerContext
<1>2. Result(c).stops \in SUBSET StopCodes
  BY ResultType DEF RunnerResult
<1>3. Persisted(Len(history) + 1, Result(c).stops) \in Seq(Nat \X StopCodes)
  BY <1>1, <1>2, PersistedLists DEF Lists
<1>4. context' = [baseline |-> NextBaseline(c, context, Result(c).decision = "accepted"),
                  crashes |-> NextCrashes(c, context),
                  stable |-> NextStable(context, Result(c).decision = "accepted"),
                  stops |-> NextStops(context, Len(history) + 1, Result(c).stops)]
  BY DEF RunCycle, NextContext, Result
<1>5. NextBaseline(c, context, Result(c).decision = "accepted") \in Int \cup {NaN, None}
  BY <1>1, RunnerAssumption DEF NextBaseline
<1>6. NextCrashes(c, context) \in Nat
  BY <1>1 DEF NextCrashes
<1>7. /\ NextStable(context, Result(c).decision = "accepted") \in Nat
      /\ NextStable(context, Result(c).decision = "accepted")
            = IF Result(c).decision = "accepted" THEN context.stable + 1 ELSE context.stable
  BY <1>1 DEF NextStable
<1>8. /\ NextStops(context, Len(history) + 1, Result(c).stops)
            = context.stops \o Persisted(Len(history) + 1, Result(c).stops)
      /\ NextStops(context, Len(history) + 1, Result(c).stops) \in Seq(Nat \X StopCodes)
  BY <1>1, <1>3, ConcatProperties DEF NextStops
<1>9. Result(c).milestone <=> context'.stable >= Target
  BY DEF RunCycle, Result
<1> QED
  BY <1>4, <1>5, <1>6, <1>7, <1>8, <1>9 DEF RunnerContext

LEMMA MilestoneStep ==
    ASSUME RecordInv, NEW c \in Cycles, RunCycle(c)
    PROVE  StableCounts' /\ MilestoneCountsAccepted'
<1> DEFINE n == Len(history)
           a == Result(c).decision = "accepted"
<1>1. TypeInv /\ StableCounts /\ MilestoneCountsAccepted
  BY DEF RecordInv, TypeOK, TypeInv, RunnerContext
<1>2. /\ n \in Nat /\ Len(history') = n + 1
      /\ history'[n + 1] = Result(c)
      /\ \A i \in 1 .. n : history'[i] = history[i]
  BY <1>1, HistoryGrows
<1>3. Accepted \subseteq 1 .. n /\ n + 1 \notin Accepted
  BY <1>2 DEF Accepted
<1>4. Accepted' = IF a THEN Accepted \cup {n + 1} ELSE Accepted
  BY <1>2 DEF Accepted
<1>5. StableCounts'
  <2>1. /\ IsFiniteSet(Accepted) /\ context.stable = Cardinality(Accepted)
        /\ context'.stable = IF a THEN context.stable + 1 ELSE context.stable
    BY <1>1, ContextTyped DEF StableCounts
  <2>2. /\ IsFiniteSet(Accepted \cup {n + 1})
        /\ Cardinality(Accepted \cup {n + 1}) = Cardinality(Accepted) + 1
    BY <1>3, <2>1, FS_AddElement
  <2> HIDE DEF a, n
  <2>3. IsFiniteSet(Accepted') /\ context'.stable = Cardinality(Accepted')
    BY <1>4, <2>1, <2>2
  <2> QED
    BY <2>3 DEF StableCounts
<1>6. ASSUME NEW i \in 1 .. n + 1
      PROVE  history'[i].milestone <=> Cardinality({j \in Accepted' : j <= i}) >= Target
  <2>1. CASE i = n + 1
    <3>1. \A j \in Accepted' : j <= i
      BY <1>2, <1>3, <1>4, <2>1
    <3>2. {j \in Accepted' : j <= i} = Accepted'
      BY <3>1
    <3>3. history'[i].milestone <=> context'.stable >= Target
      BY <1>2, <2>1, ContextTyped
    <3> QED
      BY <1>5, <3>2, <3>3 DEF StableCounts
  <2>2. CASE i \in 1 .. n
    <3>1. {j \in Accepted' : j <= i} = {j \in Accepted : j <= i}
      BY <1>2, <1>3, <1>4, <2>2
    <3> QED
      BY <1>1, <1>2, <2>2, <3>1 DEF MilestoneCountsAccepted
  <2> QED
    BY <1>2, <2>1, <2>2
<1> QED
  BY <1>2, <1>5, <1>6 DEF MilestoneCountsAccepted

LEMMA StopsStep ==
    ASSUME RecordInv, NEW c \in Cycles, RunCycle(c)
    PROVE  StopsArePersisted'
<1> DEFINE n == Len(history)
           old == context.stops
           new == Persisted(n + 1, Result(c).stops)
           S == UNION {{i} \X history[i].stops : i \in 1 .. n}
           T == {n + 1} \X Result(c).stops
<1>1. TypeInv /\ StopsArePersisted /\ old \in Seq(Nat \X StopCodes)
  BY DEF RecordInv, TypeOK, TypeInv, RunnerContext
<1>2. /\ n \in Nat /\ Len(history') = n + 1
      /\ history'[n + 1] = Result(c)
      /\ \A i \in 1 .. n : history'[i] = history[i]
  BY <1>1, HistoryGrows
<1>3. Lists(old, S)
  BY <1>1 DEF StopsArePersisted, Lists
<1>4. Lists(new, T)
  BY <1>2, ResultType, PersistedLists DEF RunnerResult
<1>5. /\ \A x \in S : x[1] \in 1 .. n
      /\ \A x \in T : x[1] = n + 1
  OBVIOUS
<1>6. S \cap T = {}
  BY <1>2, <1>5
<1>7. context'.stops = old \o new
  BY ContextTyped
<1>8. Lists(context'.stops, S \cup T)
  BY <1>3, <1>4, <1>6, <1>7, ConcatLists
<1>9. S \cup T = UNION {{i} \X history'[i].stops : i \in 1 .. n + 1}
  BY <1>2
<1>10. ASSUME NEW k \in 1 .. Len(context'.stops) - 1
       PROVE  context'.stops[k][1] <= context'.stops[k + 1][1]
  <2>1. /\ Len(old) \in Nat /\ Len(new) \in Nat
        /\ Len(context'.stops) = Len(old) + Len(new)
        /\ \A i \in 1 .. Len(old) + Len(new) :
              context'.stops[i] = IF i <= Len(old) THEN old[i] ELSE new[i - Len(old)]
    <3>1. old \in Seq(Nat \X StopCodes) /\ new \in Seq(Nat \X StopCodes)
      BY <1>1, <1>4 DEF Lists
    <3> HIDE DEF old, new
    <3> QED
      BY <1>7, <3>1, ConcatProperties, LenProperties
  <2>2. /\ \A i \in 1 .. Len(old) : old[i] \in S
        /\ \A i \in 1 .. Len(new) : new[i] \in T
    BY <1>3, <1>4 DEF Lists
  <2> HIDE DEF old, new, S, T, n
  <2>3. k \in 1 .. Len(old) + Len(new) /\ k + 1 \in 1 .. Len(old) + Len(new)
    BY <2>1
  <2>4. CASE k + 1 <= Len(old)
    <3>1. k \in 1 .. Len(old) - 1 /\ k <= Len(old)
      BY <2>1, <2>4
    <3>2. context'.stops[k] = old[k] /\ context'.stops[k + 1] = old[k + 1]
      BY <2>1, <2>3, <2>4, <3>1
    <3> QED
      BY <1>1, <3>1, <3>2 DEF StopsArePersisted, old
  <2>5. CASE k + 1 > Len(old)
    <3>1. (k + 1) - Len(old) \in 1 .. Len(new)
      BY <2>1, <2>3, <2>5
    <3>2. context'.stops[k + 1] \in T
      BY <2>1, <2>2, <2>3, <2>5, <3>1, SMTT(20)
    <3>3. context'.stops[k + 1][1] = n + 1
      BY <1>5, <3>2
    <3>4. CASE k <= Len(old)
      <4>1. context'.stops[k] \in S
        BY <2>1, <2>2, <2>3, <3>4
      <4> QED
        BY <1>2, <1>5, <3>3, <4>1
    <3>5. CASE k > Len(old)
      <4>1. k - Len(old) \in 1 .. Len(new)
        BY <2>1, <2>3, <3>5
      <4>2. context'.stops[k] \in T
        BY <2>1, <2>2, <2>3, <3>5, <4>1
      <4> QED
        BY <1>2, <1>5, <3>3, <4>2
    <3> QED
      BY <2>1, <2>3, <3>4, <3>5
  <2> QED
    BY <2>1, <2>3, <2>4, <2>5
<1> QED
  BY <1>2, <1>8, <1>9, <1>10 DEF StopsArePersisted, Lists

LEMMA CleanStep ==
    ASSUME RecordInv, NEW c \in Cycles, RunCycle(c)
    PROVE  AcceptedIsClean'
<1> DEFINE n == Len(history)
<1>1. TypeInv /\ AcceptedIsClean
  BY DEF RecordInv, TypeOK, TypeInv, RunnerContext
<1>2. /\ n \in Nat /\ Len(history') = n + 1
      /\ history'[n + 1] = Result(c)
      /\ \A i \in 1 .. n : history'[i] = history[i]
  BY <1>1, HistoryGrows
<1>3. ASSUME NEW i \in Accepted' PROVE Clean(history'[i].cycle)
  <2>1. i \in 1 .. n + 1 /\ history'[i].decision = "accepted"
    BY <1>2 DEF Accepted
  <2>2. CASE i = n + 1
    <3>1. history'[i].cycle = c /\ Evaluate(c, context).decision = "accepted"
      BY <1>2, <2>1, <2>2 DEF Result
    <3> QED
      BY <3>1, AcceptedCycle
  <2>3. CASE i \in 1 .. n
    <3>1. i \in Accepted /\ history'[i] = history[i]
      BY <1>2, <2>1, <2>3 DEF Accepted
    <3> QED
      BY <1>1, <3>1 DEF AcceptedIsClean, Clean
  <2> QED
    BY <1>2, <2>1, <2>2, <2>3
<1> QED
  BY <1>3 DEF AcceptedIsClean, Clean

LEMMA RecordStep ==
    ASSUME RecordInv, [Next]_vars
    PROVE  RecordInv'
<1>1. ASSUME UNCHANGED <<context, history>>, lost' \in 0 .. MaxLost PROVE RecordInv'
  <2>1. context' = context /\ history' = history
    BY <1>1
  <2>2. Accepted' = Accepted
    BY <2>1 DEF Accepted
  <2>3. TypeOK'
    BY <1>1, <2>1 DEF RecordInv, TypeOK
  <2>4. StableCounts'
    BY <2>1, <2>2 DEF RecordInv, StableCounts
  <2>5. MilestoneCountsAccepted'
    BY <2>1, <2>2 DEF RecordInv, MilestoneCountsAccepted
  <2>6. StopsArePersisted'
    <3>1. StopsArePersisted
      BY DEF RecordInv
    <3> QED
      BY <2>1, <3>1, ZenonT(90) DEF StopsArePersisted
  <2>7. AcceptedIsClean'
    BY <2>1, <2>2 DEF RecordInv, AcceptedIsClean
  <2> QED
    BY <2>3, <2>4, <2>5, <2>6, <2>7 DEF RecordInv
<1>2. CASE UNCHANGED vars
  BY <1>1, <1>2 DEF vars, RecordInv, TypeOK
<1>3. ASSUME NEW c \in Cycles, RunCycle(c) PROVE RecordInv'
  <2>1. TypeInv
    BY DEF RecordInv, TypeOK, TypeInv, RunnerContext
  <2>2. TypeOK'
    BY <1>3, <2>1, HistoryGrows, ContextTyped DEF RecordInv, TypeOK, RunCycle
  <2> QED
    BY <1>3, <2>2, MilestoneStep, StopsStep, CleanStep DEF RecordInv
<1>4. ASSUME NEW c \in Cycles, CallbackRaises(c) PROVE RecordInv'
  <2>1. lost' \in 0 .. MaxLost
    BY <1>4, RunnerAssumption DEF CallbackRaises, RecordInv, TypeOK
  <2> QED
    BY <1>1, <1>4, <2>1 DEF CallbackRaises
<1> QED
  BY <1>2, <1>3, <1>4 DEF Next

LEMMA RecordInvariant == Spec => []RecordInv
<1>1. RecordInv /\ [Next]_vars => RecordInv'
  BY RecordStep
<1> QED
  BY <1>1, RecordInit, PTL DEF Spec

(* Contexts and results are well typed. *)
THEOREM TypeCorrect == Spec => []TypeOK
<1>1. RecordInv => TypeOK
  BY DEF RecordInv
<1> QED
  BY <1>1, RecordInvariant, PTL

(* A result carries the milestone exactly from the Target-th accepted      *)
(* cycle on.                                                               *)
THEOREM MilestoneIsReached == Spec => []MilestoneCountsAccepted
<1>1. RecordInv => MilestoneCountsAccepted
  BY DEF RecordInv
<1> QED
  BY <1>1, RecordInvariant, PTL

(* The context that goes from cycle to cycle has every stop condition of   *)
(* every cycle, once, in the order of the cycles.                          *)
THEOREM StopsStayOnRecord == Spec => []StopsArePersisted
<1>1. RecordInv => StopsArePersisted
  BY DEF RecordInv
<1> QED
  BY <1>1, RecordInvariant, PTL

(* No cycle is accepted with a failed gate, with a silence of a minute or  *)
(* with three samples in a row above the threshold.                        *)
THEOREM AcceptanceIsClean == Spec => []AcceptedIsClean
<1>1. RecordInv => AcceptedIsClean
  BY DEF RecordInv
<1> QED
  BY <1>1, RecordInvariant, PTL

-----------------------------------------------------------------------------
(***************************************************************************)
(* Where the run stands and what its pages say, which RunView models: its  *)
(* cycles are numbered, and count as accepted by their gate decision.      *)
(***************************************************************************)
Stood == AcceptedCycles \cup {Nothing}

(* What is on a page, in a report, in the session or asked for as a        *)
(* rollback target was accepted.                                           *)
TargetsStood ==
    /\ StableWasAccepted
    /\ \A i \in DOMAIN incidents : incidents[i].target \in Stood
    /\ recovery # Nothing /\ recovery.kind = "rollback" => recovery.target \in Stood

(* The incidents on the first page are on record, where the second finds   *)
(* them.                                                                   *)
SummaryIsOnRecord ==
    /\ IncidentIsDetailed
    /\ view.detail # Nothing => view.summary # Nothing
    /\ view.summary # Nothing =>
          view.summary.open \subseteq CyclesOf(DOMAIN incidents)

(* A recovery is of the latest cycle, and from where it moved the session  *)
(* on, no earlier rollback is stood by.                                    *)
RecoveryHolds ==
    recovery # Nothing =>
        /\ session # Nothing
        /\ recovery.cycle = Len(cycles)
        /\ recovery.kind = "branch" => recovery.at \in {"capture", "report"}
        /\ recovery.kind # "branch" => recovery.target # Nothing
        /\ recovery.at \in {"workspace", "report"} /\ recovery.kind # "branch" =>
              settled = Nothing
        /\ recovery.at \in {"workspace", "report"} /\ recovery.kind = "rollback" =>
              session.target = recovery.target
        /\ recovery.at = "report" /\ recovery.kind = "rollback" =>
              workspace = recovery.target

PagesInv ==
    /\ ViewTypeOK /\ TargetsStood /\ SummaryIsOnRecord /\ RecoveryHolds
    /\ RolledBackIsRestored
    /\ settled # Nothing => settled <= Len(cycles)

LEMMA PagesInit == RunViewConstants /\ ViewInit => PagesInv
<1> SUFFICES ASSUME RunViewConstants, ViewInit PROVE PagesInv
  OBVIOUS
<1>1. cycles = <<>> /\ incidents = <<>> /\ Len(cycles) = 0
  BY EmptySeq DEF ViewInit
<1>2. /\ cycles \in Seq(Decisions) /\ incidents \in Seq(Incident)
      /\ DOMAIN incidents = {}
  BY <1>1
<1>3. /\ session = [state |-> "active", target |-> Nothing, snapshot |-> Nothing]
      /\ session \in Session
  BY DEF ViewInit, Registered, Session, CycleOrNone
<1>4. /\ view = [summary |-> Nothing, detail |-> Nothing, selected |-> Nothing]
      /\ view \in View
  BY DEF ViewInit, NothingLoaded, View, CycleOrNone
<1>5. captured = {} /\ workspace = 0 /\ recovery = Nothing /\ settled = Nothing
  BY DEF ViewInit
<1>6. ViewTypeOK
  BY <1>1, <1>2, <1>3, <1>4, <1>5 DEF RunViewConstants, ViewTypeOK, CycleOrNone
<1>7. TargetsStood
  BY <1>2, <1>3, <1>4, <1>5 DEF TargetsStood, Stood, StableWasAccepted
<1>8. SummaryIsOnRecord /\ RecoveryHolds
  BY <1>4, <1>5 DEF SummaryIsOnRecord, IncidentIsDetailed, RecoveryHolds
<1>9. RolledBackIsRestored
  BY <1>1, <1>5 DEF RunViewConstants, RolledBackIsRestored
<1> QED
  BY <1>5, <1>6, <1>7, <1>8, <1>9 DEF PagesInv

-----------------------------------------------------------------------------
(* What a page reads *)

LEMMA GreatestOf ==
    ASSUME NEW n \in Nat, NEW S, S \subseteq 1 .. n, S # {}
    PROVE  \E m \in S : \A k \in S : k <= m
<1> DEFINE T == {n - k : k \in S}
<1>1. T \subseteq Nat /\ T # {}
  <2>1. \A k \in S : k \in Nat /\ k <= n
    OBVIOUS
  <2>2. \A k \in S : n - k \in Nat
    BY <2>1
  <2> QED
    BY <2>2
<1>2. PICK t \in T : \A u \in T : t <= u
  <2> HIDE DEF T
  <2> QED
    BY <1>1, LeastOf
<1>3. PICK m \in S : t = n - m
  OBVIOUS
<1>4. ASSUME NEW k \in S PROVE k <= m
  <2>1. t <= n - k
    BY <1>2
  <2> QED
    BY <1>3, <2>1
<1> QED
  BY <1>4

LEMMA LastStableStood ==
    ASSUME ViewTypeOK, NEW S
    PROVE  LastStableCycle(S) \in Stood
<1> DEFINE stable == S \cap AcceptedCycles
<1>1. stable \subseteq 1 .. Len(cycles) /\ Len(cycles) \in Nat
  BY DEF AcceptedCycles, ViewTypeOK
<1>2. CASE stable = {}
  BY <1>2 DEF LastStableCycle, Stood
<1>3. CASE stable # {}
  <2>1. \E m \in stable : \A k \in stable : k <= m
    <3> HIDE DEF stable
    <3> QED
      BY <1>1, <1>3, GreatestOf
  <2>2. (CHOOSE n \in stable : \A m \in stable : m <= n) \in stable
    <3> HIDE DEF stable
    <3> QED
      BY <2>1
  <2> QED
    BY <1>3, <2>2 DEF LastStableCycle, Stood
<1> QED
  BY <1>2, <1>3

LEMMA TargetStood ==
    ASSUME PagesInv, session # Nothing, NEW reports \in SUBSET DOMAIN incidents,
           NEW stable \in Stood
    PROVE  RollbackTarget(stable, reports) \in Stood
<1> DEFINE targeting == {i \in reports : incidents[i].target # Nothing}
<1>1. session.target \in Stood /\ \A i \in targeting : incidents[i].target \in Stood
  BY DEF PagesInv, TargetsStood, StableWasAccepted, Stood
<1>2. targeting \subseteq Nat
  BY DEF PagesInv, ViewTypeOK
<1>3. CASE targeting # {}
  <2>1. \E i \in targeting : \A j \in targeting : i <= j
    <3> HIDE DEF targeting
    <3> QED
      BY <1>2, <1>3, LeastOf
  <2>2. FirstOf(targeting) \in targeting
    <3> HIDE DEF targeting
    <3> QED
      BY <2>1 DEF FirstOf
  <2> QED
    BY <1>1, <1>3, <2>2 DEF RollbackTarget
<1>4. CASE targeting = {}
  BY <1>1, <1>4 DEF RollbackTarget
<1> QED
  BY <1>3, <1>4

LEMMA SummaryRead ==
    ASSUME PagesInv, session # Nothing
    PROVE  /\ RunSummary.stable \in Stood
           /\ RunSummary.target \in Stood
           /\ RunSummary.open = CyclesOf(DOMAIN incidents)
           /\ RunSummary \in [stable : Stood, target : Stood,
                                    open : {CyclesOf(DOMAIN incidents)}]
<1> DEFINE stable == LastStableCycle(DOMAIN cycles)
           target == RollbackTarget(stable, DOMAIN incidents)
<1>1. stable \in Stood
  BY LastStableStood DEF PagesInv
<1>2. target \in Stood
  <2> HIDE DEF stable
  <2> QED
    BY <1>1, TargetStood
<1>3. RunSummary = [stable |-> stable, target |-> target,
                          open |-> CyclesOf(DOMAIN incidents)]
  BY DEF RunSummary
<1> HIDE DEF stable, target
<1> QED
  BY <1>1, <1>2, <1>3

LEMMA DetailRead ==
    ASSUME PagesInv, session # Nothing, NEW n
    PROVE  /\ CycleDetail(n).stable \in Stood
           /\ CycleDetail(n).target \in Stood
           /\ n \in CyclesOf(DOMAIN incidents) => n \in CycleDetail(n).open
           /\ CycleDetail(n).open \subseteq CyclesOf(DOMAIN incidents)
           /\ CycleDetail(n) \in
                 [stable : Stood, target : Stood,
                  open : SUBSET CyclesOf(DOMAIN incidents)]
<1> DEFINE stable == LastStableCycle({n})
           target == RollbackTarget(stable, ReportsOf(n))
           shown == CyclesOf(ReportsOf(n))
<1>1. stable \in Stood
  BY LastStableStood DEF PagesInv
<1>2. target \in Stood
  <2>1. ReportsOf(n) \in SUBSET DOMAIN incidents
    BY DEF ReportsOf
  <2> HIDE DEF stable
  <2> QED
    BY <1>1, <2>1, TargetStood
<1>3. /\ shown \subseteq CyclesOf(DOMAIN incidents)
      /\ n \in CyclesOf(DOMAIN incidents) => n \in shown
  BY DEF CyclesOf, ReportsOf
<1>4. CycleDetail(n) = [stable |-> IF target # Nothing THEN target ELSE stable,
                              target |-> target, open |-> shown]
  BY DEF CycleDetail
<1> HIDE DEF stable, target, shown
<1> QED
  BY <1>1, <1>2, <1>3, <1>4

-----------------------------------------------------------------------------
(* How the record grows *)

LEMMA RecordGrows ==
    ASSUME ViewTypeOK, [ViewNext]_viewVars
    PROVE  /\ \/ cycles' = cycles
              \/ /\ recovery = Nothing
                 /\ \E d \in Decisions : RecordCycle(d)
           /\ \/ incidents' = incidents
              \/ WriteIncident
           /\ Len(cycles) <= Len(cycles') /\ Len(cycles') \in Nat
           /\ Stood \subseteq Stood'
           /\ DOMAIN incidents \subseteq DOMAIN incidents'
           /\ \A i \in DOMAIN incidents : incidents'[i] = incidents[i]
           /\ CyclesOf(DOMAIN incidents) \subseteq CyclesOf(DOMAIN incidents)'
<1>1. \/ cycles' = cycles
      \/ /\ recovery = Nothing
         /\ \E d \in Decisions : RecordCycle(d)
  BY DEF ViewNext, viewVars, LoadRunSummary, LoadCycleDetail, SelectCycle,
     RecordCycle, Resume, Reset, CommandRollback, BeginRecovery,
     CaptureFailure, MoveSession, RestoreWorkspace, WriteIncident,
     RecoveryRaises, Crash, RegisterRun
<1>2. \/ incidents' = incidents
      \/ WriteIncident
  BY DEF ViewNext, viewVars, LoadRunSummary, LoadCycleDetail, SelectCycle,
     RecordCycle, Resume, Reset, CommandRollback, BeginRecovery,
     CaptureFailure, MoveSession, RestoreWorkspace, RecoveryRaises, Crash,
     RegisterRun
<1>3. /\ cycles \in Seq(Decisions) /\ Len(cycles) \in Nat
      /\ incidents \in Seq(Incident) /\ Len(incidents) \in Nat
  BY DEF ViewTypeOK
<1>4. ASSUME NEW d \in Decisions, cycles' = Append(cycles, d)
      PROVE  Len(cycles') = Len(cycles) + 1 /\ Stood \subseteq Stood'
  <2>1. /\ Len(cycles') = Len(cycles) + 1 /\ cycles' \in Seq(Decisions)
        /\ \A n \in 1 .. Len(cycles) : cycles'[n] = cycles[n]
    BY <1>3, <1>4, AppendProperties
  <2>2. \A n \in DOMAIN cycles : n \in DOMAIN cycles' /\ cycles'[n] = cycles[n]
    BY <1>3, <2>1
  <2> QED
    BY <2>1, <2>2 DEF Stood, AcceptedCycles
<1>5. ASSUME NEW i, incidents' = Append(incidents, i)
      PROVE  /\ DOMAIN incidents \subseteq DOMAIN incidents'
             /\ \A j \in DOMAIN incidents : incidents'[j] = incidents[j]
  <2>1. /\ incidents \in Seq(Incident \cup {i})
        /\ i \in Incident \cup {i}
    BY <1>3
  <2>2. /\ Len(incidents') = Len(incidents) + 1
        /\ incidents' \in Seq(Incident \cup {i})
        /\ \A j \in 1 .. Len(incidents) : incidents'[j] = incidents[j]
    BY <1>5, <2>1, AppendProperties
  <2>3. DOMAIN incidents = 1 .. Len(incidents) /\ DOMAIN incidents' = 1 .. Len(incidents')
    BY <1>3, <2>2
  <2> QED
    BY <1>3, <2>2, <2>3
<1>6. Len(cycles) <= Len(cycles') /\ Len(cycles') \in Nat /\ Stood \subseteq Stood'
  <2>1. CASE cycles' = cycles
    BY <1>3, <2>1 DEF Stood, AcceptedCycles
  <2>2. ASSUME NEW d \in Decisions, RecordCycle(d)
        PROVE  Len(cycles) <= Len(cycles') /\ Len(cycles') \in Nat /\ Stood \subseteq Stood'
    BY <1>3, <1>4, <2>2 DEF RecordCycle
  <2> QED
    BY <1>1, <2>1, <2>2
<1>7. /\ DOMAIN incidents \subseteq DOMAIN incidents'
      /\ \A i \in DOMAIN incidents : incidents'[i] = incidents[i]
  BY <1>2, <1>5 DEF WriteIncident
<1>8. CyclesOf(DOMAIN incidents) \subseteq CyclesOf(DOMAIN incidents)'
  BY <1>7 DEF CyclesOf
<1> QED
  BY <1>1, <1>2, <1>6, <1>7, <1>8

-----------------------------------------------------------------------------
(* Every step keeps the invariant *)

(* What a page shows is of the types of a page. *)
LEMMA ReadsAreShown ==
    ASSUME PagesInv, RunViewConstants, session # Nothing
    PROVE  /\ RunSummary \in Shown
           /\ \A n : CycleDetail(n) \in Shown
<1>1. Stood \subseteq CycleOrNone
  <2>1. DOMAIN cycles = 1 .. Len(cycles) /\ Len(cycles) \in Nat
        /\ Len(cycles) <= MaxRecords /\ MaxRecords \in Nat
    BY DEF PagesInv, ViewTypeOK, RunViewConstants
  <2> QED
    BY <2>1 DEF Stood, AcceptedCycles, CycleOrNone, Cycle
<1>2. CyclesOf(DOMAIN incidents) \subseteq Cycle
  <2>1. \A i \in DOMAIN incidents : incidents[i] \in Incident
    BY ElementOfSeq DEF PagesInv, ViewTypeOK
  <2> QED
    BY <2>1 DEF CyclesOf, Incident
<1>3. RunSummary \in Shown
  BY <1>1, <1>2, SummaryRead DEF Shown
<1>4. ASSUME NEW n PROVE CycleDetail(n) \in Shown
  BY <1>1, <1>2, DetailRead DEF Shown
<1> QED
  BY <1>3, <1>4

LEMMA PagesTypeStep ==
    ASSUME PagesInv, RunViewConstants, [ViewNext]_viewVars
    PROVE  ViewTypeOK'
<1>1. /\ cycles \in Seq(Decisions) /\ Len(cycles) <= MaxRecords
      /\ Len(cycles) \in Nat /\ MaxRecords \in Nat
      /\ incidents \in Seq(Incident) /\ captured \subseteq Cycle
      /\ session \in Session \cup {Nothing} /\ workspace \in 0 .. MaxRecords
      /\ recovery \in Recovery \cup {Nothing}
      /\ view \in View /\ settled \in CycleOrNone
  BY DEF PagesInv, ViewTypeOK, RunViewConstants
<1>2. /\ recovery # Nothing => /\ recovery.cycle \in Cycle
                            /\ recovery.target \in CycleOrNone
                            /\ recovery.kind \in Kinds
                            /\ recovery \in Recovery
      /\ view.selected \in CycleOrNone
  BY <1>1 DEF Recovery, View
<1>3. CASE UNCHANGED viewVars
  BY <1>1, <1>3 DEF viewVars, ViewTypeOK
<1>4. CASE LoadRunSummary
  <2>1. RunSummary \in Shown
    BY <1>4, ReadsAreShown DEF LoadRunSummary
  <2>2. (IF cycles = <<>> THEN Nothing ELSE Len(cycles)) \in CycleOrNone
    BY <1>1, EmptySeq DEF CycleOrNone, Cycle
  <2>3. view' \in View
    BY <1>4, <2>1, <2>2 DEF LoadRunSummary, View
  <2> QED
    BY <1>1, <1>4, <2>3 DEF LoadRunSummary, ViewTypeOK
<1>5. CASE LoadCycleDetail
  <2>1. CycleDetail(view.selected) \in Shown
    BY <1>5, ReadsAreShown DEF LoadCycleDetail
  <2>2. view' \in View
    BY <1>1, <1>5, <2>1 DEF LoadCycleDetail, View
  <2> QED
    BY <1>1, <1>5, <2>2 DEF LoadCycleDetail, ViewTypeOK
<1>6. ASSUME NEW n \in DOMAIN cycles, SelectCycle(n) PROVE ViewTypeOK'
  <2>1. n \in CycleOrNone
    BY <1>1 DEF CycleOrNone, Cycle
  <2>2. view' \in View
    BY <1>1, <1>6, <2>1 DEF SelectCycle, View
  <2> QED
    BY <1>1, <1>6, <2>2 DEF SelectCycle, ViewTypeOK
<1>7. ASSUME NEW d \in Decisions, RecordCycle(d) PROVE ViewTypeOK'
  <2>1. cycles' \in Seq(Decisions) /\ Len(cycles') = Len(cycles) + 1
    BY <1>1, <1>7, AppendProperties DEF RecordCycle
  <2>2. Len(cycles') \in Cycle
    BY <1>1, <1>7, <2>1 DEF RecordCycle, Cycle
  <2>3. workspace' = Len(cycles') /\ captured' \subseteq captured \cup {Len(cycles')}
    BY <1>7 DEF RecordCycle
  <2>4. workspace' \in 0 .. MaxRecords /\ captured' \subseteq Cycle
        /\ Len(cycles') <= MaxRecords
    BY <1>1, <2>2, <2>3 DEF Cycle
  <2> QED
    BY <1>1, <1>7, <2>1, <2>4 DEF RecordCycle, ViewTypeOK
<1>8. CASE Resume
  <2>1. session' \in Session
    BY <1>1, <1>8 DEF Resume, Session
  <2> QED
    BY <1>1, <1>8, <2>1 DEF Resume, ViewTypeOK
<1>9. Nothing \in CycleOrNone /\ Registered \in Session
      /\ \A n \in Cycle : RolledBackTo(n) \in Session
  BY DEF CycleOrNone, Registered, Session, RolledBackTo
<1>10. CASE Reset \/ RegisterRun
  BY <1>1, <1>9, <1>10 DEF Reset, RegisterRun, SetSession, ViewTypeOK
<1>11. CASE CommandRollback
  <2>1. view.selected \in Cycle
    BY <1>1, <1>11 DEF CommandRollback, AcceptedCycles, Cycle
  <2> QED
    BY <1>1, <1>9, <1>11, <2>1 DEF CommandRollback, SetSession, ViewTypeOK
<1>12. ASSUME NEW kind \in Kinds, NEW target \in CycleOrNone,
              BeginRecovery(kind, target)
       PROVE  ViewTypeOK'
  <2>1. Len(cycles) \in Cycle
    BY <1>1, <1>12, EmptySeq DEF BeginRecovery, Cycle
  <2>2. session' \in Session
    BY <1>1, <1>12 DEF BeginRecovery, Session
  <2>3. recovery' \in Recovery
    BY <1>12, <2>1 DEF BeginRecovery, Recovery
  <2> QED
    BY <1>1, <1>12, <2>2, <2>3 DEF BeginRecovery, ViewTypeOK
<1>13. ASSUME NEW at \in {"lifecycle", "workspace", "report"}, recovery # Nothing,
              Goto(at)
       PROVE  recovery' \in Recovery
  BY <1>1, <1>13 DEF Goto, Recovery
<1>14. CASE CaptureFailure
  <2>1. recovery' \in Recovery \cup {Nothing}
    BY <1>13, <1>14 DEF CaptureFailure
  <2> QED
    BY <1>1, <1>2, <1>14, <2>1 DEF CaptureFailure, ViewTypeOK
<1>15. CASE MoveSession
  <2>1. recovery' \in Recovery
    BY <1>13, <1>15 DEF MoveSession
  <2>2. session' \in Session /\ settled' = Nothing
    BY <1>2, <1>9, <1>15 DEF MoveSession, SetSession, RolledBackTo, Session,
       CycleOrNone
  <2> QED
    BY <1>1, <1>9, <1>15, <2>1, <2>2 DEF MoveSession, ViewTypeOK
<1>16. CASE RestoreWorkspace
  <2>1. recovery' \in Recovery
    BY <1>13, <1>16 DEF RestoreWorkspace
  <2>2. recovery.target # Nothing
    BY <1>2, <1>16 DEF PagesInv, RecoveryHolds, RestoreWorkspace
  <2>3. recovery.target \in 0 .. MaxRecords
    BY <1>1, <1>2, <1>16, <2>2 DEF RestoreWorkspace, CycleOrNone, Cycle
  <2> QED
    BY <1>1, <1>16, <2>1, <2>3 DEF RestoreWorkspace, ViewTypeOK
<1>17. CASE WriteIncident
  <2> DEFINE i == [cycle |-> recovery.cycle, kind |-> recovery.kind,
                   target |-> IF recovery.kind = "rollback" THEN recovery.target
                              ELSE Nothing]
  <2>1. i \in Incident
    BY <1>2, <1>9, <1>17 DEF WriteIncident, Incident
  <2>2. incidents' \in Seq(Incident)
    <3>1. incidents' = Append(incidents, i)
      BY <1>17 DEF WriteIncident
    <3> HIDE DEF i
    <3> QED
      BY <1>1, <2>1, <3>1, AppendProperties
  <2>3. settled' \in CycleOrNone
    BY <1>1, <1>2, <1>17 DEF WriteIncident, CycleOrNone
  <2> QED
    BY <1>1, <1>17, <2>2, <2>3 DEF WriteIncident, ViewTypeOK
<1>18. CASE RecoveryRaises
  BY <1>1, <1>2, <1>18 DEF RecoveryRaises, ViewTypeOK
<1>19. CASE Crash
  BY <1>1, <1>19 DEF Crash, ViewTypeOK
<1> QED
  BY <1>3, <1>4, <1>5, <1>6, <1>7, <1>8, <1>10, <1>11, <1>12, <1>14, <1>15,
     <1>16, <1>17, <1>18, <1>19 DEF ViewNext

LEMMA TargetsStep ==
    ASSUME PagesInv, RunViewConstants, [ViewNext]_viewVars
    PROVE  TargetsStood'
<1> USE DEF ViewTypeOK
<1>1. /\ Stood \subseteq Stood'
      /\ \A v \in {view.summary, view.detail} \ {Nothing} :
            v.stable \in Stood /\ v.target \in Stood
      /\ session # Nothing => session.target \in Stood
      /\ \A i \in DOMAIN incidents : incidents[i].target \in Stood
      /\ recovery # Nothing /\ recovery.kind = "rollback" => recovery.target \in Stood
  BY RecordGrows DEF PagesInv, TargetsStood, StableWasAccepted, Stood
<1>2. Nothing \in Stood
  BY DEF Stood
<1>3. \A v \in {view'.summary, view'.detail} \ {Nothing} :
         v.stable \in Stood' /\ v.target \in Stood'
  <2>1. CASE view' = view
    BY <1>1, <2>1
  <2>2. CASE LoadRunSummary
    <3>1. session # Nothing /\ view'.summary = RunSummary /\ view'.detail = Nothing
      BY <2>2 DEF LoadRunSummary
    <3> QED
      BY <1>1, <3>1, SummaryRead
  <2>3. CASE LoadCycleDetail
    <3>1. /\ session # Nothing /\ view'.summary = view.summary
          /\ view'.detail = CycleDetail(view.selected)
      BY <2>3 DEF LoadCycleDetail, PagesInv, View
    <3> QED
      BY <1>1, <3>1, DetailRead
  <2>4. ASSUME NEW n \in DOMAIN cycles, SelectCycle(n)
        PROVE  view'.summary = view.summary /\ view'.detail = view.detail
    BY <2>4 DEF SelectCycle, PagesInv, View
  <2>5. \/ view' = view
        \/ LoadRunSummary \/ LoadCycleDetail
        \/ \E n \in DOMAIN cycles : SelectCycle(n)
    BY DEF ViewNext, viewVars, RecordCycle, Resume, Reset, CommandRollback,
       BeginRecovery, CaptureFailure, MoveSession, RestoreWorkspace,
       WriteIncident, RecoveryRaises, Crash, RegisterRun
  <2> QED
    BY <1>1, <2>1, <2>2, <2>3, <2>4, <2>5
<1>4. ASSUME session' # Nothing PROVE session'.target \in Stood
  <2>1. CASE session' = session
    BY <1>1, <1>4, <2>1
  <2>2. CASE Resume \/ \E kind \in Kinds, target \in CycleOrNone :
                                BeginRecovery(kind, target)
    <3>1. session # Nothing /\ session'.target = session.target
      BY <2>2 DEF Resume, BeginRecovery, PagesInv, Session
    <3> QED
      BY <1>1, <3>1
  <2>3. CASE Reset \/ RegisterRun
    BY <1>2, <2>3 DEF Reset, RegisterRun, SetSession, Registered
  <2>4. CASE CommandRollback
    BY <2>4 DEF CommandRollback, SetSession, RolledBackTo, Stood
  <2>5. CASE MoveSession
    BY <1>1, <1>2, <2>5 DEF MoveSession, SetSession, RolledBackTo
  <2>6. CASE Crash
    BY <1>4, <2>6 DEF Crash
  <2> QED
    BY <2>1, <2>2, <2>3, <2>4, <2>5, <2>6 DEF ViewNext, viewVars,
       LoadRunSummary, LoadCycleDetail, SelectCycle, RecordCycle,
       CaptureFailure, RestoreWorkspace, WriteIncident, RecoveryRaises
<1>5. \A i \in DOMAIN incidents' : incidents'[i].target \in Stood
  <2>1. CASE incidents' = incidents
    BY <1>1, <2>1
  <2>2. CASE WriteIncident
    <3> DEFINE r == [cycle |-> recovery.cycle, kind |-> recovery.kind,
                     target |-> IF recovery.kind = "rollback" THEN recovery.target
                                ELSE Nothing]
               Any == Incident \cup {r}
    <3>1. r.target \in Stood
      BY <1>1, <1>2, <2>2 DEF WriteIncident
    <3>2. incidents' = Append(incidents, r) /\ incidents \in Seq(Any) /\ r \in Any
      BY <2>2 DEF WriteIncident, PagesInv
    <3> HIDE DEF r, Any
    <3>3. /\ incidents' \in Seq(Any) /\ Len(incidents') = Len(incidents) + 1
          /\ \A i \in 1 .. Len(incidents) : incidents'[i] = incidents[i]
          /\ incidents'[Len(incidents) + 1] = r
      BY <3>2, AppendProperties
    <3>4. ASSUME NEW i \in DOMAIN incidents'
          PROVE  i \in DOMAIN incidents \/ i = Len(incidents) + 1
      BY <3>2, <3>3, <3>4
    <3>5. DOMAIN incidents = 1 .. Len(incidents)
      BY <3>2
    <3> QED
      BY <1>1, <3>1, <3>3, <3>4, <3>5
  <2> QED
    BY <2>1, <2>2, RecordGrows DEF PagesInv
<1>6. ASSUME recovery' # Nothing, recovery'.kind = "rollback"
      PROVE  recovery'.target \in Stood
  <2>1. CASE recovery' = recovery
    BY <1>1, <1>6, <2>1
  <2>2. ASSUME NEW kind \in Kinds, NEW target \in CycleOrNone,
               BeginRecovery(kind, target)
        PROVE  recovery'.target \in Stood
    <3>1. recovery'.kind = kind /\ recovery'.target = target
      BY <2>2 DEF BeginRecovery
    <3>2. target \in ShownTargets
      BY <1>6, <2>2, <3>1 DEF BeginRecovery
    <3>3. PICK v \in {view.summary, view.detail} \ {Nothing} : target = v.target
      BY <3>2 DEF ShownTargets
    <3> QED
      BY <1>1, <3>1, <3>3
  <2>3. ASSUME NEW at, recovery # Nothing, Goto(at)
        PROVE  recovery'.kind = recovery.kind /\ recovery'.target = recovery.target
    BY <2>3 DEF Goto, PagesInv, Recovery
  <2>4. CASE CaptureFailure \/ MoveSession \/ RestoreWorkspace
    <3>1. recovery # Nothing /\ \E at : Goto(at)
      BY <1>6, <2>4 DEF CaptureFailure, MoveSession, RestoreWorkspace
    <3> QED
      BY <1>1, <1>6, <2>3, <3>1
  <2>5. CASE recovery' = Nothing
    BY <1>6, <2>5
  <2> QED
    BY <2>1, <2>2, <2>4, <2>5 DEF ViewNext, viewVars, LoadRunSummary,
       LoadCycleDetail, SelectCycle, RecordCycle, Resume, Reset,
       CommandRollback, WriteIncident, RecoveryRaises, Crash, RegisterRun
<1> QED
  BY <1>1, <1>3, <1>4, <1>5, <1>6 DEF TargetsStood, StableWasAccepted, Stood

LEMMA SummaryStep ==
    ASSUME PagesInv, RunViewConstants, [ViewNext]_viewVars
    PROVE  SummaryIsOnRecord'
<1>1. /\ view \in View
      /\ view.detail # Nothing /\ view.selected \in view.summary.open =>
            view.selected \in view.detail.open
      /\ view.detail # Nothing => view.summary # Nothing
      /\ view.summary # Nothing =>
            view.summary.open \subseteq CyclesOf(DOMAIN incidents)
  BY DEF PagesInv, SummaryIsOnRecord, IncidentIsDetailed, ViewTypeOK
<1>2. CyclesOf(DOMAIN incidents) \subseteq CyclesOf(DOMAIN incidents)'
  BY RecordGrows DEF PagesInv
<1>3. CASE view' = view
  BY <1>1, <1>2, <1>3 DEF SummaryIsOnRecord, IncidentIsDetailed
<1>4. CASE LoadRunSummary
  <2>1. session # Nothing /\ view'.summary = RunSummary /\ view'.detail = Nothing
    BY <1>4 DEF LoadRunSummary
  <2>2. view'.summary.open \subseteq CyclesOf(DOMAIN incidents)'
    BY <1>2, <2>1, SummaryRead
  <2> QED
    BY <2>1, <2>2 DEF SummaryIsOnRecord, IncidentIsDetailed
<1>5. CASE LoadCycleDetail
  <2>1. /\ session # Nothing /\ view.summary # Nothing
        /\ view'.summary = view.summary /\ view'.selected = view.selected
        /\ view'.detail = CycleDetail(view.selected)
    BY <1>1, <1>5 DEF LoadCycleDetail, View
  <2>2. view'.selected \in view'.summary.open => view'.selected \in view'.detail.open
    BY <1>1, <2>1, DetailRead
  <2> QED
    BY <1>1, <1>2, <2>1, <2>2 DEF SummaryIsOnRecord, IncidentIsDetailed
<1>6. ASSUME NEW n \in DOMAIN cycles, SelectCycle(n)
      PROVE  SummaryIsOnRecord'
  <2>1. view'.summary = view.summary /\ view'.detail = Nothing
    BY <1>1, <1>6 DEF SelectCycle, View
  <2> QED
    BY <1>1, <1>2, <2>1 DEF SummaryIsOnRecord, IncidentIsDetailed
<1> QED
  BY <1>3, <1>4, <1>5, <1>6 DEF ViewNext, viewVars, RecordCycle, Resume, Reset,
     CommandRollback, BeginRecovery, CaptureFailure, MoveSession,
     RestoreWorkspace, WriteIncident, RecoveryRaises, Crash, RegisterRun

LEMMA SettledStep ==
    ASSUME PagesInv, RunViewConstants, [ViewNext]_viewVars
    PROVE  /\ RecoveryHolds' /\ RolledBackIsRestored'
           /\ settled' # Nothing => settled' <= Len(cycles')
<1> DEFINE Goal == /\ RecoveryHolds' /\ RolledBackIsRestored'
                   /\ settled' # Nothing => settled' <= Len(cycles')
<1>1. /\ Len(cycles) \in Nat /\ Nothing \notin Nat
      /\ session # Nothing => session \in Session
      /\ recovery # Nothing => recovery \in Recovery
      /\ \A s \in Session : s # Nothing
      /\ settled \in CycleOrNone
  BY DEF PagesInv, ViewTypeOK, RunViewConstants
<1>2. /\ RecoveryHolds
      /\ session # Nothing /\ settled = Len(cycles) =>
            session.target # Nothing /\ workspace = session.target
      /\ settled # Nothing => settled <= Len(cycles)
  BY DEF PagesInv, RolledBackIsRestored
<1>3. settled # Nothing => settled \in Nat
  BY <1>1 DEF CycleOrNone, Cycle
<1>4. CASE UNCHANGED <<cycles, session, workspace, recovery, settled>>
  BY <1>2, <1>4 DEF RecoveryHolds, RolledBackIsRestored
<1>5. ASSUME NEW d \in Decisions, RecordCycle(d) PROVE Goal
  <2>1. Len(cycles') = Len(cycles) + 1
    BY <1>5, AppendProperties DEF RecordCycle, PagesInv, ViewTypeOK
  <2>2. recovery' = Nothing /\ settled' = settled
    BY <1>5 DEF RecordCycle
  <2>3. settled' # Len(cycles') /\ (settled' # Nothing => settled' <= Len(cycles'))
    BY <1>1, <1>2, <1>3, <2>1, <2>2
  <2> QED
    BY <2>2, <2>3 DEF RecoveryHolds, RolledBackIsRestored
<1>6. CASE Resume
  <2>1. /\ session # Nothing /\ session'.target = session.target
        /\ recovery = Nothing /\ recovery' = Nothing
        /\ cycles' = cycles /\ workspace' = workspace /\ settled' = settled
    BY <1>1, <1>6 DEF Resume, Session
  <2> QED
    BY <1>2, <2>1 DEF RecoveryHolds, RolledBackIsRestored
<1>7. CASE Reset \/ CommandRollback
  <2>1. recovery' = Nothing /\ settled' = Nothing /\ cycles' = cycles
    BY <1>7 DEF Reset, CommandRollback, SetSession
  <2> QED
    BY <1>1, <2>1 DEF RecoveryHolds, RolledBackIsRestored
<1>8. CASE RegisterRun
  <2>1. session = Nothing /\ settled' = Nothing /\ cycles' = cycles /\ recovery' = recovery
    BY <1>8 DEF RegisterRun, SetSession
  <2>2. recovery = Nothing
    BY <1>2, <2>1 DEF RecoveryHolds
  <2> QED
    BY <1>1, <2>1, <2>2 DEF RecoveryHolds, RolledBackIsRestored
<1>9. ASSUME NEW kind \in Kinds, NEW target \in CycleOrNone,
             BeginRecovery(kind, target)
      PROVE  Goal
  <2>1. /\ session # Nothing /\ session'.target = session.target
        /\ session' \in Session
        /\ cycles' = cycles /\ workspace' = workspace /\ settled' = settled
    BY <1>1, <1>9 DEF BeginRecovery, Session
  <2>2. recovery' = [at |-> "capture", kind |-> kind, cycle |-> Len(cycles),
                     target |-> target]
    BY <1>9 DEF BeginRecovery
  <2>3. kind # "branch" => target # Nothing
    <3>1. CASE kind = "rollback"
      BY <1>9, <3>1 DEF BeginRecovery, ShownTargets
    <3>2. CASE kind = "restore"
      <4>1. target \in captured
        BY <1>9, <3>2 DEF BeginRecovery
      <4> QED
        BY <1>1, <4>1 DEF PagesInv, ViewTypeOK, Cycle
    <3> QED
      BY <3>1, <3>2 DEF Kinds
  <2>4. session' # Nothing
    BY <1>1, <2>1
  <2>5. RecoveryHolds'
    BY <2>1, <2>2, <2>3, <2>4 DEF RecoveryHolds
  <2> QED
    BY <1>2, <2>1, <2>5 DEF RolledBackIsRestored
<1>10. ASSUME NEW at, recovery # Nothing, Goto(at)
       PROVE  /\ recovery'.at = at /\ recovery'.kind = recovery.kind
              /\ recovery'.cycle = recovery.cycle
              /\ recovery'.target = recovery.target
  BY <1>1, <1>10 DEF Goto, Recovery
<1>11. CASE CaptureFailure
  <2>1. /\ recovery # Nothing /\ session' = session /\ cycles' = cycles
        /\ workspace' = workspace /\ settled' = settled
    BY <1>11 DEF CaptureFailure
  <2>2. CASE recovery' = Nothing
    BY <1>2, <2>1, <2>2 DEF RecoveryHolds, RolledBackIsRestored
  <2>3. CASE Goto(IF recovery.kind = "branch" THEN "report" ELSE "lifecycle")
    <3>1. RecoveryHolds'
      <4>1. CASE recovery.kind = "branch"
        <5>1. Goto("report")
          BY <2>3, <4>1
        <5> QED
          BY <1>2, <1>10, <2>1, <4>1, <5>1 DEF RecoveryHolds
      <4>2. CASE recovery.kind # "branch"
        <5>1. Goto("lifecycle")
          BY <2>3, <4>2
        <5> QED
          BY <1>2, <1>10, <2>1, <4>2, <5>1 DEF RecoveryHolds
      <4> QED
        BY <4>1, <4>2
    <3> QED
      BY <1>2, <2>1, <3>1 DEF RolledBackIsRestored
  <2> QED
    BY <1>11, <2>2, <2>3 DEF CaptureFailure
<1>12. CASE MoveSession
  <2>1. /\ recovery # Nothing /\ recovery.at = "lifecycle" /\ cycles' = cycles
        /\ settled' = Nothing /\ Goto("workspace")
        /\ session' = IF recovery.kind = "rollback"
                      THEN RolledBackTo(recovery.target)
                      ELSE [state |-> "active", target |-> Nothing,
                            snapshot |-> recovery.cycle]
    BY <1>12 DEF MoveSession, SetSession
  <2>2. session' \in Session
    BY <1>1, <2>1 DEF RolledBackTo, Session, Recovery, CycleOrNone
  <2>3. session' # Nothing
    BY <1>1, <2>2
  <2>4. recovery.kind = "rollback" => session'.target = recovery.target
    BY <2>1 DEF RolledBackTo
  <2>5. recovery.kind # "branch"
    BY <1>2, <2>1 DEF RecoveryHolds
  <2>6. RecoveryHolds'
    BY <1>2, <1>10, <2>1, <2>3, <2>4, <2>5 DEF RecoveryHolds
  <2> QED
    BY <1>1, <2>1, <2>6 DEF RolledBackIsRestored
<1>13. CASE RestoreWorkspace
  <2>1. /\ recovery # Nothing /\ recovery.at = "workspace" /\ cycles' = cycles
        /\ settled' = settled /\ session' = session /\ Goto("report")
        /\ workspace' = recovery.target
    BY <1>13 DEF RestoreWorkspace
  <2>2. recovery.kind # "branch" /\ settled = Nothing
    BY <1>2, <2>1 DEF RecoveryHolds
  <2>3. RecoveryHolds'
    BY <1>2, <1>10, <2>1, <2>2 DEF RecoveryHolds
  <2> QED
    BY <1>1, <2>1, <2>2, <2>3 DEF RolledBackIsRestored
<1>14. CASE WriteIncident
  <2>1. /\ recovery # Nothing /\ recovery.at = "report" /\ cycles' = cycles
        /\ recovery' = Nothing /\ session' = session /\ workspace' = workspace
        /\ settled' = IF recovery.kind = "rollback" THEN recovery.cycle ELSE settled
    BY <1>14 DEF WriteIncident
  <2>2. recovery.cycle = Len(cycles)
    BY <1>2, <2>1 DEF RecoveryHolds
  <2>3. CASE recovery.kind = "rollback"
    <3>1. session.target = recovery.target /\ workspace = recovery.target
          /\ recovery.target # Nothing
      BY <1>2, <2>1, <2>3 DEF RecoveryHolds
    <3> QED
      BY <1>1, <2>1, <2>2, <2>3, <3>1 DEF RecoveryHolds, RolledBackIsRestored
  <2>4. CASE recovery.kind # "rollback"
    BY <1>2, <2>1, <2>4 DEF RecoveryHolds, RolledBackIsRestored
  <2> QED
    BY <2>3, <2>4
<1>15. CASE RecoveryRaises
  BY <1>2, <1>15 DEF RecoveryRaises, RecoveryHolds, RolledBackIsRestored
<1>16. CASE Crash
  BY <1>2, <1>16 DEF Crash, RecoveryHolds, RolledBackIsRestored
<1> QED
  BY <1>4, <1>5, <1>6, <1>7, <1>8, <1>9, <1>11, <1>12, <1>13, <1>14, <1>15,
     <1>16 DEF ViewNext, viewVars, LoadRunSummary, LoadCycleDetail, SelectCycle

LEMMA PagesInvariant == ViewSpec => []PagesInv
<1>1. ViewInit => PagesInv
  BY RunViewAssumption, PagesInit
<1>2. PagesInv /\ [ViewNext]_viewVars => PagesInv'
  BY RunViewAssumption, PagesTypeStep, TargetsStep, SummaryStep, SettledStep
     DEF PagesInv
<1> QED
  BY <1>1, <1>2, PTL DEF ViewSpec

-----------------------------------------------------------------------------
(* Theorems about where the run stands *)

(* The record, the session, the recovery under way and the pages are what  *)
(* the code may make of them, for any number of cycles: what is restored   *)
(* is a cycle, and no page is of a cycle that is not on record.            *)
THEOREM PagesTypeCorrect == ViewSpec => []ViewTypeOK
<1>1. PagesInv => ViewTypeOK
  BY DEF PagesInv
<1> QED
  BY <1>1, PagesInvariant, PTL

(* No page leads an operator astray: what it shows as the last stable      *)
(* cycle or as the rollback target was accepted, however long the run and  *)
(* however often it was rolled back to what a page showed.                 *)
THEOREM TargetsWereAccepted == ViewSpec => []StableWasAccepted
<1>1. PagesInv => StableWasAccepted
  BY DEF PagesInv, TargetsStood
<1> QED
  BY <1>1, PagesInvariant, PTL

(* The page of a cycle that the summary lists with an incident has the     *)
(* incident, though the two are read one after the other while recoveries  *)
(* report.                                                                 *)
THEOREM IncidentsAreDetailed == ViewSpec => []IncidentIsDetailed
<1>1. PagesInv => IncidentIsDetailed
  BY DEF PagesInv, SummaryIsOnRecord
<1> QED
  BY <1>1, PagesInvariant, PTL

(* After a rollback that was reported, until the next cycle, the session   *)
(* says whose files the workspace holds, whatever step of which recovery   *)
(* raised before and however often the host was restarted.                 *)
THEOREM RollbacksAreRestored == ViewSpec => []RolledBackIsRestored
<1>1. PagesInv => RolledBackIsRestored
  BY DEF PagesInv
<1> QED
  BY <1>1, PagesInvariant, PTL

=============================================================================
