SPECIFICATION FairStartupSpec
CONSTANTS
    Instance = {i1, i2}
    Relay = {r1, r2}
    Item = {1, 2, 3}
    NoRelay = NoRelay
    MaxFaults = 1
    Request = {q1, q2}
    Handler = {h1, h2}
INVARIANTS SchemaRight ExitOrderly
PROPERTIES FilesKeepOrder InstancesComeUp ProcessEnds
