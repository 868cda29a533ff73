SPECIFICATION ServingSpec
CONSTANTS
    Handler = {h1, h2}
    MaxFaults = 1
    FirstUpdate = 2
    LastUpdate = 3
    SequenceBits = 2
    Letters = {"a", "b"}
    MaxCodes = 2
    Limit = 2
    Window = 2
    MaxClock = 5
    MaxCalls = 6
    RunSize = 2
    Group = {g1, g2}
    NoGroup = NoGroup
    MaxItems = 7
    ChunkSize = 3
    PageSize = 5
    PagedMessage = {m1}
    NoMessage = NoMessage
    PageTotal = 3
    ExpiresAt = 1
SYMMETRY MCSymmetry
INVARIANTS CodesServed AtMostTwiceLimit RefusedOnlyOverLimit PagesRight InOrderOnce
           GroupsAcceptable ShownWasSent
PROPERTIES ImplementsPageDelivery OutOfRangeOnlyIfDeleted
CHECK_DEADLOCK FALSE
