SPECIFICATION FairSpec
CONSTANTS
    Hosts = {h1, h2}
    Malformed = {h2}
    Runners = {r1}
    Admins = {a1}
    NoProc = none
    MaxClock = 2
    MaxEvents = 2
PROPERTIES
    Converges
