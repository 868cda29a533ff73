SPECIFICATION ClaimSpec
CONSTANTS
    RelayId = {r1}
    Update = {u1}
    Code = {c1}
    Chat = {chat1}
    Tx = {t1}
    Time <- MCTime
    MaxBatchItems = 1
    NoRelay = NoRelay
    NoUpdate = NoUpdate
    NoCode = NoCode
    NoChat = NoChat
    Request = {q1}
    Wanted <- MCWanted
    Claimer = {h1, h2}
    RelayTTL = 1
    SessionTTL = 1
    StaleAfter = 0
    Retain = 1
    MaxHandling = 1
    MaxClock = 3
    MaxClaimFaults = 1
SYMMETRY MCSymmetry
INVARIANTS ClaimInv ServedWhileClaimable
PROPERTIES ResultsStay
