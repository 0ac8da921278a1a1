----------------------------- MODULE DecideOnce -----------------------------
(***************************************************************************)
(* What an approval promises: it is decided at most once, nothing undoes   *)
(* the decision, and its command is acted on only if it was approved.  A   *)
(* host that stops forgets the approvals it held; a forgotten one is never *)
(* decided, and never acted on, again.                                     *)
(***************************************************************************)
CONSTANT Approvals

VARIABLES
    decision,  \* of each approval
    acted      \* the approvals whose command was started, completed or failed

vars == <<decision, acted>>

Init ==
    /\ decision = [a \in Approvals |-> "open"]
    /\ acted = {}

Decide(a) ==
    /\ decision[a] = "open"
    /\ \E d \in {"approved", "rejected"} : decision' = [decision EXCEPT ![a] = d]
    /\ UNCHANGED acted

Act(a) ==
    /\ decision[a] = "approved"
    /\ acted' = acted \cup {a}
    /\ UNCHANGED decision

Forget ==
    /\ \E held \in SUBSET Approvals :
          decision' = [a \in Approvals |->
                          IF a \in held THEN "forgotten" ELSE decision[a]]
    /\ UNCHANGED acted

Next == Forget \/ \E a \in Approvals : Decide(a) \/ Act(a)

Spec == Init /\ [][Next]_vars

=============================================================================
