----------------------------- MODULE MCReadModel -----------------------------
(* Instances of ReadModel for TLC, with the commands of MCControlPlane.    *)
EXTENDS ReadModel, MCControlPlane

(* Clocks that agree with the order of the ledger. *)
OneClock == [c \in Calls |-> 0]

=============================================================================
