SPECIFICATION Spec
CONSTANTS
    Jobs = {j1}
    Subnets = {s1}
    Replicas = {r1}
    Slots = {g1}
    Callers = {c1}
    MaxRetries = 1
    MaxFaults = 0
    MaxCrashes = 0
    NoJob = NoJob
SYMMETRY Symmetry
PROPERTY CancelledStays
\* When every job is finished and every subnet deleted nothing is left to do.
CHECK_DEADLOCK FALSE
