SPECIFICATION Spec
CONSTANTS
    Handler = {h1, h2}
    Relay = {r1, r2}
    NoRelay = NoRelay
    UpdateStep = 2
    MaxItems = 2
    MaxMessages = 2
    MaxFaults = 1
    MaxLoad = 3
CONSTRAINT LoadBound
SYMMETRY MCSymmetry
INVARIANTS ProgressInv
PROPERTIES SessionOnlyGrows MessageKeepsBatch
