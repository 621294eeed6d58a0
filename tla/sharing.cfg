\* Three users, two file names, contents of up to two different blocks.
SPECIFICATION Spec
CONSTANTS
    User = {alice, bob, carol}
    Client = {c1}
    Filename = {f, g}
    Chunk = {x, y}
    None = None
    MaxId = 9
    MaxContent = 2
    BlockSize = 4
SYMMETRY Symmetry
INVARIANTS
    TypeOK
    KeyCoherent
    RevokedNeverReopens
    AccessFlowsDown
    ListComplete
    CutAndJoined
PROPERTIES
    AccessLostByRekeyOnly
    ImplementsSharedFiles
