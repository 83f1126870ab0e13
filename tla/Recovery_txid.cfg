SPECIFICATION Spec
CONSTANTS
    Key <- MCKey
    MaxVal = 2
    LeafCapacity = 4
    MaxPage = 5
    MaxTx = 2
    FirstTx = 1
    Writes <- MCOtherWrites
    MaxWrites = 2
    MaxWriters = 1
    MaxCheckpoints = 0
    MaxCrashes = 2
    MaxStolen = 1
    StartEmpty = FALSE
    TornTail = FALSE
INVARIANT RecoveryConverges
VIEW MCView
CHECK_DEADLOCK FALSE
