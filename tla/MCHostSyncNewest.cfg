SPECIFICATION Spec
CONSTANTS
    Hosts = {h1}
    Malformed = {}
    Runners = {r1}
    Admins = {a1}
    NoProc = none
    MaxClock = 2
    MaxEvents = 2
SYMMETRY Symmetry
PROPERTIES
    NewestApplied
