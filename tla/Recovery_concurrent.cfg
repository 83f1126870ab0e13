SPECIFICATION Spec
CONSTANTS
    Key <- MCKey
    MaxVal = 2
    LeafCapacity = 4
    MaxPage = 5
    MaxTx = 3
    FirstTx = 2
    Writes <- MCOtherWrites
    MaxWrites = 2
    MaxCheckpoints = 0
    MaxWriters = 2
    MaxStolen = 1
    MaxCrashes = 1
    StartEmpty = FALSE
    TornTail = FALSE
CHECK_DEADLOCK FALSE
VIEW MCView
INVARIANTS TypeOK RecoveryNeverFails TreeWellFormed
PROPERTY ImplementsKvStore
