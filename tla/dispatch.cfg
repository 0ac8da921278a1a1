CONSTANTS
    Calls = {c1, c2, c3}
    Keys = {k1}
    Runs = {r1, r2}
    Actions = {"mode switch", "rollback"}
    Details = {d1}
    None = None
    Kept = TRUE
    Threads = 2
    MayRaise = TRUE
CHECK_DEADLOCK FALSE
SPECIFICATION Spec
SYMMETRY CallSymmetry
INVARIANTS
    ReplyIsEarned
    AnsweredIsReplayed
