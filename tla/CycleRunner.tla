----------------------------- MODULE CycleRunner -----------------------------
(***************************************************************************)
(* The agent's cycles: AgentCycleRunner.run_cycle judges one cycle with    *)
(* GateEvaluator.evaluate and returns the context of the next.  The caller *)
(* hands that context back with the next cycle, also after a stop; which   *)
(* cycle comes next is up to the sandbox.  When the pareto callback, which *)
(* the caller provides, raises, the caller has no context but the old one. *)
(***************************************************************************)
EXTENDS Integers, Sequences, FiniteSets

CONSTANTS
    Cycles,        \* what a cycle may report, a set of RunnerCycleInput
    AllowedTools,  \* allowed_tool_ids
    Target,        \* stable_cycle_target
    MaxCycles,     \* bound: the results of one run
    MaxLost,       \* bound: how often the pareto callback raises
    None,          \* no baseline yet
    NaN            \* the float that is not a number

RepeatedCrashThreshold == 3
OveruseThresholdPercent == 90
OveruseSampleCount == 3
LogSilenceThresholdSeconds == 60

StopCodes == {"forbidden_action_attempt", "resource_overuse", "log_silence",
              "repeated_crashes", "syntax_failure", "regression_score_drop"}

(* The order in which _detect_stop_conditions looks. *)
CodeOrder == <<"forbidden_action_attempt", "resource_overuse", "log_silence",
               "repeated_crashes", "syntax_failure", "regression_score_drop">>

ASSUME RunnerAssumption ==
    /\ \A c \in Cycles :
          /\ c.score \in Int \cup {NaN}
          /\ {c.syntax_ok, c.tests_ok, c.crashed, c.limit_breached} \subseteq BOOLEAN
          /\ c.cpu \in Seq(Nat) /\ c.memory \in Seq(Nat)
          /\ c.log_silence \in Nat /\ c.heartbeat_silence \in Nat
    /\ None \notin Int \cup {NaN} /\ NaN \notin Int
    /\ MaxLost \in Nat
    /\ Target \in Nat \ {0} /\ MaxCycles \in Nat

VARIABLES
    context,   \* RunnerContext, as the caller last got it back
    history,   \* the RunnerResults of the run, each with its cycle
    lost       \* how many cycles were judged and had no result

vars == <<context, history, lost>>

RunnerContext ==
    [baseline : Int \cup {NaN, None}, crashes : Nat, stable : Nat,
     stops : Seq(Nat \X StopCodes)]

RunnerResult ==
    [cycle : Cycles, decision : {"accepted", "rejected", "stopped"},
     failed : SUBSET {"cycle_execution", "required_tests"},
     stops : SUBSET StopCodes, milestone : BOOLEAN]

TypeOK ==
    /\ context \in RunnerContext
    /\ history \in Seq(RunnerResult)
    /\ lost \in 0 .. MaxLost

Init ==
    /\ context = [baseline |-> None, crashes |-> 0, stable |-> 0, stops |-> <<>>]
    /\ history = <<>>
    /\ lost = 0

-----------------------------------------------------------------------------
(* The gates *)

(* _has_sustained_overuse: the streak after each sample. *)
Streak(samples) ==
    LET streak[i \in 0 .. Len(samples)] ==
            IF i = 0 THEN 0
            ELSE IF samples[i] > OveruseThresholdPercent
                 THEN streak[i - 1] + 1 ELSE 0
    IN  streak

(* Mutant: one sample more than the threshold asks for. *)
HasLongOveruse(samples) ==
    \E i \in 0 .. Len(samples) : Streak(samples)[i] > OveruseSampleCount

HasSustainedOveruse(samples) ==
    \E i \in 0 .. Len(samples) : Streak(samples)[i] >= OveruseSampleCount

(* The comparison of floats: NaN is not below anything, nor above it. *)
Below(x, y) == NaN \notin {x, y} /\ x < y

(* _detect_stop_conditions *)
Detects(code, c, ctx) ==
    CASE code = "forbidden_action_attempt" -> ~(c.tools \subseteq AllowedTools)
      [] code = "resource_overuse" ->
            \/ c.limit_breached
            \/ HasSustainedOveruse(c.cpu) \/ HasSustainedOveruse(c.memory)
      [] code = "log_silence" ->
            \/ c.log_silence >= LogSilenceThresholdSeconds
            \/ c.heartbeat_silence >= LogSilenceThresholdSeconds
      [] code = "repeated_crashes" ->
            c.crashed /\ ctx.crashes + 1 >= RepeatedCrashThreshold
      [] code = "syntax_failure" -> ~c.syntax_ok
      [] code = "regression_score_drop" ->
            ctx.baseline # None /\ Below(c.score, ctx.baseline)

StopConditions(c, ctx) == {code \in StopCodes : Detects(code, c, ctx)}

(* GateEvaluator.evaluate, below the stop conditions. *)
FailedGates(c) ==
    {gate \in {"cycle_execution", "required_tests"} :
        \/ gate = "cycle_execution" /\ c.crashed
        \/ gate = "required_tests" /\ ~c.tests_ok}

Evaluate(c, ctx) ==
    LET stops == StopConditions(c, ctx)
        failed == IF stops = {} THEN FailedGates(c) ELSE {}
    IN  [decision |-> CASE stops # {} -> "stopped"
                        [] stops = {} /\ failed # {} -> "rejected"
                        [] stops = {} /\ failed = {} -> "accepted",
         failed |-> failed,
         stops |-> stops]

-----------------------------------------------------------------------------
(* The runner *)

(* The stop conditions of the cycle, in the order they are looked for. *)
Persisted(number, stops) ==
    LET found(k) == IF CodeOrder[k] \in stops THEN <<<<number, CodeOrder[k]>>>> ELSE <<>>
    IN  found(1) \o found(2) \o found(3) \o found(4) \o found(5) \o found(6)

(* Mutants: the baseline follows every cycle, or is lost with a crash. *)
BaselineOfAnyCycle(c, ctx, accepted) == c.score

BaselineUntilCrash(c, ctx, accepted) ==
    IF accepted THEN c.score ELSE IF c.crashed THEN None ELSE ctx.baseline

NextBaseline(c, ctx, accepted) == IF accepted THEN c.score ELSE ctx.baseline

(* Mutants: the count decays instead of starting again; a failed test run  *)
(* does not interrupt it.                                                  *)
DecayingCrashes(c, ctx) ==
    IF c.crashed THEN ctx.crashes + 1 ELSE ctx.crashes - 1

CrashesUntilTestsPass(c, ctx) ==
    IF c.crashed THEN ctx.crashes + 1
    ELSE IF c.tests_ok THEN 0 ELSE ctx.crashes

NextCrashes(c, ctx) == IF c.crashed THEN ctx.crashes + 1 ELSE 0

(* Mutant: only cycles accepted in a row count. *)
StableInARow(ctx, accepted) == IF accepted THEN ctx.stable + 1 ELSE 0

NextStable(ctx, accepted) == IF accepted THEN ctx.stable + 1 ELSE ctx.stable

(* Mutant: only the last stop is kept. *)
StopsOfLastStop(ctx, number, stops) ==
    IF stops = {} THEN ctx.stops ELSE Persisted(number, stops)

NextStops(ctx, number, stops) == ctx.stops \o Persisted(number, stops)

(* _build_next_context *)
NextContext(c, ctx, evaluation, number) ==
    LET accepted == evaluation.decision = "accepted" IN
    [baseline |-> NextBaseline(c, ctx, accepted),
     crashes |-> NextCrashes(c, ctx),
     stable |-> NextStable(ctx, accepted),
     stops |-> NextStops(ctx, number, evaluation.stops)]

RunCycle(c) ==
    LET evaluation == Evaluate(c, context)
        next == NextContext(c, context, evaluation, Len(history) + 1)
    IN  /\ Len(history) < MaxCycles
        /\ context' = next
        /\ history' = Append(history,
              [cycle |-> c, decision |-> evaluation.decision,
               failed |-> evaluation.failed, stops |-> evaluation.stops,
               milestone |-> next.stable >= Target])
        /\ UNCHANGED lost

(* _compute_pareto_metadata, which calls back for an accepted cycle only.  *)
CallbackRaises(c) ==
    /\ lost < MaxLost
    /\ Evaluate(c, context).decision = "accepted"
    /\ lost' = lost + 1
    /\ UNCHANGED <<context, history>>

Next == \E c \in Cycles : RunCycle(c) \/ CallbackRaises(c)

Spec == Init /\ [][Next]_vars

-----------------------------------------------------------------------------
(* Properties *)

Accepted == {i \in 1 .. Len(history) : history[i].decision = "accepted"}

(* The baseline is the score of the last accepted cycle, whatever was      *)
(* rejected or stopped since.                                              *)
BaselineIsLastAccepted ==
    \/ Accepted = {} /\ context.baseline = None
    \/ \E i \in Accepted : /\ \A j \in Accepted : j <= i
                           /\ context.baseline = history[i].cycle.score

(* No accepted cycle scores less than one accepted before it: no sequence  *)
(* of crashes, stops, rejections and lost results in between lets the      *)
(* baseline slip.  Only an accepted cycle whose score is not a number does.*)
AcceptedScoresNeverDrop ==
    \A i, j \in Accepted :
        /\ i <= j
        /\ \A k \in Accepted : k \in i .. j => history[k].cycle.score # NaN
        => history[i].cycle.score <= history[j].cycle.score

Crashed(i) == i \in 1 .. Len(history) /\ history[i].cycle.crashed

(* "3 consecutive crash-terminated cycles within the same run", and they   *)
(* alone, are repeated crashes: a cycle in between that was stopped or     *)
(* rejected for another reason, without a crash, starts the count again.   *)
ThirdCrashStops ==
    \A i \in 1 .. Len(history) :
        "repeated_crashes" \in history[i].stops
            <=> Crashed(i) /\ Crashed(i - 1) /\ Crashed(i - 2)

(* A run has reached its milestone exactly from its Target-th accepted     *)
(* cycle on; later failures do not take it back.                           *)
MilestoneCountsAccepted ==
    \A i \in 1 .. Len(history) :
        history[i].milestone <=>
            Cardinality({j \in Accepted : j <= i}) >= Target

(* Every stop condition of every cycle is on record, under its cycle, in   *)
(* the order of the cycles, once.                                          *)
StopsArePersisted ==
    LET stops == context.stops IN
    /\ {stops[k] : k \in 1 .. Len(stops)}
          = UNION {{i} \X history[i].stops : i \in 1 .. Len(history)}
    /\ \A k \in 1 .. Len(stops) - 1 : stops[k][1] <= stops[k + 1][1]
    /\ \A k, l \in 1 .. Len(stops) : stops[k] = stops[l] => k = l

(* A cycle is accepted only "when syntax passes, required tests pass, no   *)
(* forbidden action occurs, and no regression is detected", and then only  *)
(* if it neither crashed, nor fell silent, nor had any three samples in a  *)
(* row above the threshold.                                                *)
AcceptedIsClean ==
    \A i \in Accepted :
        LET c == history[i].cycle IN
        /\ c.syntax_ok /\ c.tests_ok /\ ~c.crashed
        /\ c.tools \subseteq AllowedTools
        /\ c.log_silence < 60 /\ c.heartbeat_silence < 60
        /\ ~c.limit_breached
        /\ \A s \in {c.cpu, c.memory} : \A k \in 1 .. Len(s) - 2 :
              \E d \in 0 .. 2 : s[k + d] <= 90

=============================================================================
