\* One call at a time, with failing operations and crashes.
SPECIFICATION SerialSpec
CONSTANTS
    User = {alice, bob}
    Client = {c1}
    Filename = {f}
    Chunk = {x}
    None = None
    MaxId = 8
    MaxContent = 1
    Fault = {"error", "crash"}
SYMMETRY Symmetry
PROPERTIES
    CallsAreAtomic
    InterruptionIsLocal
