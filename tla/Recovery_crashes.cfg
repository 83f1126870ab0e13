SPECIFICATION Spec
CONSTANTS
    Key <- MCKey
    MaxVal = 2
    LeafCapacity = 4
    MaxPage = 5
    MaxTx = 3
    FirstTx = 2
    Writes <- MCFewerWrites
    MaxWrites = 2
    MaxCheckpoints = 0
    MaxWriters = 1
    MaxStolen = 1
    MaxCrashes = 2
    StartEmpty = FALSE
    TornTail = FALSE
CHECK_DEADLOCK FALSE
VIEW MCView
INVARIANT RecoveryNeverFails
PROPERTY ImplementsKvStore
