\* Two clients of one user whose stores, appends and re-keyings overlap, die and land late.
SPECIFICATION StepSpec
CONSTANTS
    User = {alice}
    Client = {c1, c2}
    Filename = {f}
    Chunk = {x, y}
    None = None
    MaxId = 6
    MaxContent = 2
    Fault = {"crash", "late"}
SYMMETRY Symmetry
INVARIANTS
    PointeesFirst
    AppendsWhole
PROPERTIES
    LoadsSeeOneContent
