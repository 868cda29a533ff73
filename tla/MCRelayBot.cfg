SPECIFICATION FairBotSpec
CONSTANTS
    RelayId = {r1}
    Update = {u1}
    Code = {c1}
    Chat = {chat1}
    Tx = {h1}
    Time <- MCTime
    MaxBatchItems = 1
    MaxActiveRelays = 1
    SessionTTL = 1
    RelayTTL = 1
    MaxClock = 1
    MaxFaults = 1
    NoRelay = NoRelay
    NoUpdate = NoUpdate
    NoCode = NoCode
    NoChat = NoChat
    Request = {q1}
    Wanted <- MCWanted
    Claimer = {k1}
    StaleAfter = 0
    Retain = 0
    MaxHandling = 0
    MaxClaimFaults = 1
INVARIANTS PromiseKept
PROPERTIES PendingSettles ClaimsAsSpecified
