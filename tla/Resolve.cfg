SPECIFICATION Spec
CONSTANTS
    Urls = {u1}
    Users <- MCUsers
    None = None
    RecentMonths = 2
    FoundMonths = 1
    MaxPending = 1
    MaxHistory = 2
    MaxCalls = 3
    MaxFaults = 1
    MaxRetries = 0
    MaxRedirects = 0
INVARIANT DedupIsLive
PROPERTY ResolutionsEnd
CHECK_DEADLOCK FALSE
