SPECIFICATION FairSpec
CONSTANTS
    Jobs = {j1, j2}
    Subnets = {s1, s2}
    Replicas = {r1}
    Slots = {g1}
    Callers = {c1}
    MaxRetries = 1
    MaxFaults = 1
    MaxCrashes = 1
    NoJob = NoJob
PROPERTY QueuedSettles
\* When every job is finished and every subnet deleted nothing is left to do.
CHECK_DEADLOCK FALSE
