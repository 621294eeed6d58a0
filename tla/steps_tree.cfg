\* Two clients whose calls on the sharing tree overlap and fail.
SPECIFICATION StepSpec
CONSTANTS
    User = {alice, bob}
    Client = {c1, c2}
    Filename = {f}
    Chunk = {x}
    None = None
    MaxId = 7
    MaxContent = 0
    Fault = {"error"}
SYMMETRY Symmetry
INVARIANTS
    StepTypeOK
    PointeesFirst
    TreeShape
