CONSTANTS
    Games = {g1, g2}
    Workers = {w1}
    Clients = {c1}
    MaxQueued = 1
    RetryLimit = 1
    Sources = {1, 2, 3, 4, 5}
    Calls = {"start", "batch"}
    Faults = {"shutdown"}
    MaxJobs = 2
SPECIFICATION LiveSpec
INVARIANTS
    InteractivePreempts
PROPERTIES
    JobsAreDecided
    ShutdownEnds
CHECK_DEADLOCK FALSE
