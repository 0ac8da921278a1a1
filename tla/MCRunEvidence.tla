---------------------------- MODULE MCRunEvidence ----------------------------
(* Instances of RunEvidence for TLC. *)
EXTENDS RunEvidence, TLC

CycleSymmetry == Permutations(Events) \cup Permutations(Manifests)

===============================================================================
