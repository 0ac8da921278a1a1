------------------------------ MODULE MCRecovery ------------------------------
(* Instances of Recovery for TLC. *)
EXTENDS Recovery, TLC

CONSTANTS c1, c2, i1, a, b

(* File 1 may be a file, or the directory of file 2. *)
Two == {1, 2}
Nested == [p \in Two |-> IF p = 2 THEN 1 ELSE None]

AnyContent == {a, b}
ContentSymmetry == Permutations(AnyContent)

Request(kind, cycle, incident, target) ==
    [kind |-> kind, cycle |-> cycle, incident |-> incident, target |-> target]

Capture(cycle) == Request("capture", cycle, None, None)
Branch(cycle, incident) == Request("branch", cycle, incident, None)
Rollback(cycle, incident, target) ==
    Request("rollback", cycle, incident, <<"cycle", target>>)
Restore(cycle, incident, target) == Request("restore", cycle, incident, target)

(* c1 is accepted, and the run stops at c2.  The operator may try one way  *)
(* out after the other; a restore names any manifest.                      *)
EveryRecovery ==
    {Capture(c1), Rollback(c2, i1, c1),
     Restore(c2, i1, <<"cycle", c1>>), Branch(c2, i1)}

===============================================================================
