SPECIFICATION Spec
CONSTANTS
    Hosts = {h1}
    Malformed = {}
    Runners = {r1, r2}
    Admins = {}
    NoProc = none
    MaxClock = 2
    MaxEvents = 1
SYMMETRY Symmetry
INVARIANTS
    TypeOK
    WatermarkSafe
PROPERTIES
    NoChangeAfterDisable
