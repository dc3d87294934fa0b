SPECIFICATION Spec
CONSTANTS
    Users <- MCUsers
    Games <- MCGames
    PlayedBy <- MCPlayedBy
    PlayedAt <- MCPlayedAt
    Malformed <- MCMalformed
    MaxMonths <- MCMaxMonths
    Windows = {1}
    MonthLength = 1
    ChunkLimit = 1
    MaxPending = 1
    MaxHistory = 1
    None = None
    MaxTime = 1
    MaxCalls = 2
    MaxFaults = 1
    MaxCrashes = 1
    MaxRetries = 1
    MaxRedirects = 0
INVARIANT CheckpointKeeps
PROPERTIES CancelledStays SyncsEnd
CHECK_DEADLOCK FALSE
