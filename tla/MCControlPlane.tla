--------------------------- MODULE MCControlPlane ---------------------------
(* Instances of ControlPlane for TLC: the commands callers may submit.     *)
EXTENDS ControlPlane, TLC

CONSTANTS r1, r2,   \* runs
          active,   \* the mode a mode switch unlocks
          x, y,     \* mode contexts
          cycle     \* a rollback target

Op(action, run, context) ==
    [by |-> "operator", action |-> action, run |-> run, context |-> context,
     target |-> None, clone |-> None, cycle |-> None]

SwitchTo(mode, run, context) ==
    [Op("mode switch", run, context) EXCEPT !.target = mode]

CloneTo(dest, run, context) == [Op("clone", run, context) EXCEPT !.clone = dest]

RollbackTo(target, run, context) ==
    [Op("rollback", run, context) EXCEPT !.cycle = target]

Recovery(action, run) ==
    [Op(action, run, x) EXCEPT !.by = "recovery",
                               !.cycle = IF action = "rollback" THEN cycle
                                         ELSE None]

(* One operator and a recovery: every outcome of a call, on a run and its  *)
(* clone, in two mode contexts.                                            *)
SerialCommands ==
    {SwitchTo(active, r1, x), SwitchTo(Obs, r1, x),
     Op("pause", r1, x), Op("pause", r1, y), Op("pause", r2, x),
     Op("branch", r1, x), CloneTo(r2, r1, x), RollbackTo(cycle, r1, x),
     Recovery("restore", r1)}

(* Two operators at once: of one run and its clone, in two mode contexts.  *)
RaceCommands ==
    {SwitchTo(active, r1, x), Op("pause", r1, x), Op("pause", r1, y),
     Op("reset", r1, x), CloneTo(r2, r1, x), Op("pause", r2, x)}

CallSymmetry == Permutations(Calls)

=============================================================================
