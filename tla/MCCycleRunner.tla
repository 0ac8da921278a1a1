---------------------------- MODULE MCCycleRunner ----------------------------
(* Instances of CycleRunner for TLC: the cycles a run may report. *)
EXTENDS CycleRunner

CONSTANTS pytest, docker   \* a tool that is allowed and one that is not

Clean(score) ==
    [tools |-> {pytest}, syntax_ok |-> TRUE, tests_ok |-> TRUE,
     crashed |-> FALSE, score |-> score, cpu |-> <<>>, memory |-> <<>>,
     limit_breached |-> FALSE, log_silence |-> 0, heartbeat_silence |-> 0]

(* Cycles that tell the history of a run apart, one whose score is not a   *)
(* number, and the gates at their thresholds.                              *)
RunCycles ==
    {Clean(1), Clean(2), Clean(3), Clean(NaN),
     [Clean(3) EXCEPT !.tests_ok = FALSE],
     [Clean(3) EXCEPT !.crashed = TRUE],
     [Clean(1) EXCEPT !.crashed = TRUE, !.tests_ok = FALSE],
     [Clean(2) EXCEPT !.syntax_ok = FALSE, !.tools = {pytest, docker}],
     [Clean(2) EXCEPT !.limit_breached = TRUE],
     [Clean(2) EXCEPT !.cpu = <<90, 91, 91, 91>>],
     [Clean(2) EXCEPT !.memory = <<91, 91, 91>>],
     [Clean(3) EXCEPT !.cpu = <<91, 91, 90, 91>>, !.log_silence = 59],
     [Clean(3) EXCEPT !.log_silence = 60],
     [Clean(3) EXCEPT !.heartbeat_silence = 60]}

=============================================================================
