\* Two clients create users, with failed, interrupted and late attempts, and log in.
SPECIFICATION Spec
CONSTANTS
    Client = {c1, c2}
    User = {alice, bob}
    Password = {p, q}
    None = None
    MaxKeys = 3
    Fault = {"error", "crash", "late"}
SYMMETRY Symmetry
CHECK_DEADLOCK FALSE
INVARIANTS
    TypeOK
    KeysMatch
    CreatedCanLogIn
