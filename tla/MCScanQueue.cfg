SPECIFICATION Spec
CONSTANTS
    Jobs = {j1, j2}
    Subnets = {s1}
    Replicas = {r1, r2}
    Slots = {g1, g2}
    Callers = {c1, c2}
    MaxRetries = 1
    MaxFaults = 1
    MaxCrashes = 1
    NoJob = NoJob
SYMMETRY Symmetry
INVARIANT TypeOK
INVARIANT OneWorkerPerJob
INVARIANT AttemptsBounded
INVARIANT CompletedOnce
PROPERTY NoRevival
PROPERTY CancelFinalOutsideWindow
\* When every job is finished and every subnet deleted nothing is left to do.
CHECK_DEADLOCK FALSE
