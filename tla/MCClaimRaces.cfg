SPECIFICATION ClaimSpec
CONSTANTS
    RelayId = {r1}
    Update = {u1, u2}
    Code = {c1}
    Chat = {chat1}
    Tx = {t1}
    Time <- MCTime
    MaxBatchItems = 2
    NoRelay = NoRelay
    NoUpdate = NoUpdate
    NoCode = NoCode
    NoChat = NoChat
    Request = {q1, q2}
    Wanted <- MCWanted
    Claimer = {h1, h2}
    RelayTTL = 1
    SessionTTL = 1
    StaleAfter = 1
    Retain = 2
    MaxHandling = 2
    MaxClock = 0
    MaxClaimFaults = 2
SYMMETRY MCSymmetry
INVARIANTS SentAtMostOnce SentMeansReceived CountMatchesDeliveries
