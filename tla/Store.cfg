SPECIFICATION StoreSpec
CONSTANTS
    Games = {g1}
    Statuses <- MCStatuses
    MaxLines = 1
    Faults = {"crash", "refused", "unsynced"}
    Plans <- MCPlans
    MaxEvents = 6
    MaxSnapshots = 2
    MaxFaults = 1
INVARIANTS Durable CompactionKeeps WatermarkSplits
CHECK_DEADLOCK FALSE
