SPECIFICATION BatchSpec
CONSTANTS
    RelayId = {r1, r2}
    Update = {u1, u2}
    Code = {c1, c2}
    Chat = {chat1}
    Tx = {h1, h2}
    Time <- MCTime
    MaxBatchItems = 2
    MaxActiveRelays = 1
    SessionTTL = 1
    RelayTTL = 1
    MaxClock = 0
    MaxFaults = 1
    NoRelay = NoRelay
    NoUpdate = NoUpdate
    NoCode = NoCode
    NoChat = NoChat
SYMMETRY MCSymmetry
INVARIANTS CodesAgree ActiveCapSlack FinishedBatchNotEmpty CountsHonest NoHandlerStuck
