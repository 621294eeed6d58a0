\* Sharees share on or are invited twice, then somebody else is revoked.
SPECIFICATION Spec
CONSTANTS
    User = {alice, bob, carol}
    Client = {c1}
    Filename = {f}
    Chunk = {x}
    None = None
    MaxId = 12
    MaxContent = 0
    BlockSize = 4
SYMMETRY Symmetry
PROPERTIES
    RemainingShareesKeepAccess
