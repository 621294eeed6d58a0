\* The owner stores the file again, then revokes the sharee.
SPECIFICATION Spec
CONSTANTS
    User = {alice, bob}
    Client = {c1}
    Filename = {f}
    Chunk = {x}
    None = None
    MaxId = 12
    MaxContent = 0
    BlockSize = 4
SYMMETRY Symmetry
PROPERTIES
    RevokedUserLosesAccess
