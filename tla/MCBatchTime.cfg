SPECIFICATION BatchSpec
CONSTANTS
    RelayId = {r1}
    Update = {u1}
    Code = {c1}
    Chat = {chat1}
    Tx = {h1, h2}
    Time <- MCTime
    MaxBatchItems = 2
    MaxActiveRelays = 1
    SessionTTL = 1
    RelayTTL = 2
    MaxClock = 2
    MaxFaults = 1
    NoRelay = NoRelay
    NoUpdate = NoUpdate
    NoCode = NoCode
    NoChat = NoChat
SYMMETRY MCSymmetry
INVARIANTS BatchInv
PROPERTIES OnlyOvertakenRemovesReady
