---------------------------- MODULE MCApprovals -----------------------------
(* Instances of Approvals for TLC: two approvals of one command, and    *)
(* another command that needs an approval and has none.                    *)
EXTENDS Approvals, TLC

CONSTANTS a1, a2, k1, k2

RequestedFor == [a \in {a1, a2} |-> k1]

ApprovalSymmetry == Permutations(Approvals)

=============================================================================
