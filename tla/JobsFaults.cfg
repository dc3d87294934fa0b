CONSTANTS
    Games = {g1, g2}
    Workers = {w1}
    Clients = {c1}
    MaxQueued = 1
    RetryLimit = 0
    Sources = {1, 2, 3, 4, 5}
    Calls = {"start", "batch", "pause"}
    Faults = {"crash", "shutdown", "record"}
    MaxJobs = 2
SPECIFICATION Spec
SYMMETRY Symmetry
INVARIANTS
    TypeOK
    AnalyzedOnce
CHECK_DEADLOCK FALSE
