\* A revocation overlaps another call, then no call is under way.
SPECIFICATION StepSpec
CONSTANTS
    User = {alice, bob}
    Client = {c1, c2}
    Filename = {f}
    Chunk = {x}
    None = None
    MaxId = 9
    MaxContent = 0
    Fault = {}
SYMMETRY Symmetry
INVARIANTS
    RevokedStayOut
