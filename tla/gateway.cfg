CONSTANTS
    None = None
    Runs = {r1, r2}
    Models = {m1, m2}
    Credentials = {k1, k2}
    Calls = {c1}
CHECK_DEADLOCK FALSE
SPECIFICATION Spec
INVARIANTS
    InvokedAsBound
