\* Two calls on one key, of one client or of two, with one or two connections open.
SPECIFICATION FairSpec
CONSTANTS
    Client = {c1, c2}
    Key = {k}
    Value = {v, w}
    None = None
    MaxCalls = 2
    MaxOpen = 2
CHECK_DEADLOCK FALSE
INVARIANTS
    TypeOK
PROPERTIES
    ImplementsAtomicStore
    CallsReturn
    HandlersEnd
