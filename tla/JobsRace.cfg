CONSTANTS
    Games = {g1}
    Workers = {w1, w2}
    Clients = {c1}
    MaxQueued = 2
    RetryLimit = 0
    Sources = {1, 2, 3, 4, 5}
    Calls = {"start", "batch", "cancel"}
    Faults = {"crash"}
    MaxJobs = 2
SPECIFICATION Spec
SYMMETRY Symmetry
INVARIANTS
    CountersExact
    NoStrandedJob
    ExclusiveAnalysis
PROPERTIES
    ImplementsLifecycle
CHECK_DEADLOCK FALSE
