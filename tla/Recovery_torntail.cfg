SPECIFICATION Spec
CONSTANTS
    Key <- MCKey
    MaxVal = 2
    LeafCapacity = 4
    MaxPage = 5
    MaxTx = 3
    FirstTx = 2
    Writes <- MCFewerWrites
    MaxWrites = 2
    MaxWriters = 1
    MaxCheckpoints = 0
    MaxCrashes = 2
    MaxStolen = 1
    StartEmpty = FALSE
    TornTail = TRUE
INVARIANT RecoveryConverges
VIEW MCView
CHECK_DEADLOCK FALSE
