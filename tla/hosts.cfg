\* Two processes at a time over the same two files, with crashes, a failing disk and
\* failing connections.
SPECIFICATION Spec
CONSTANTS
    Process = {p1, p2}
    Name = {default, dev}
    Default = default
    Server = {s}
    User = {alice}
    Password = {p, q}
    None = None
    Torn = Torn
    Unclear = Unclear
    Fault = {"disk", "net", "crash"}
SYMMETRY Symmetry
CHECK_DEADLOCK FALSE
INVARIANTS
    TypeOK
    AddedHostsListed
    OkMeansDone
PROPERTIES
    ActsAsLastLogin
