SPECIFICATION FairBatchSpec
CONSTANTS
    RelayId = {r1, r2}
    Update = {u1}
    Code = {c1}
    Chat = {chat1}
    Tx = {h1}
    Time <- MCTime
    MaxBatchItems = 1
    MaxActiveRelays = 1
    SessionTTL = 1
    RelayTTL = 1
    MaxClock = 2
    MaxFaults = 1
    NoRelay = NoRelay
    NoUpdate = NoUpdate
    NoCode = NoCode
    NoChat = NoChat
PROPERTIES AbandonedBatchesGo
