SPECIFICATION StoreSpec
CONSTANTS
    RelayId = {r1, r2, r3}
    Update = {u1, u2, u3}
    Code = {c1, c2}
    Chat = {chat1}
    Tx = {t1, t2}
    Time <- MCTime
    MaxBatchItems = 2
    NoRelay = NoRelay
    NoUpdate = NoUpdate
    NoCode = NoCode
    NoChat = NoChat
SYMMETRY MCSymmetry
INVARIANTS OrderGapFree BatchWithinLimit OneRelayPerUpload
PROPERTIES SealedContentsFrozen LifeOnlyForward ImplementsBox
