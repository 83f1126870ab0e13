SPECIFICATION Spec
CONSTANTS
    Key <- MCKey
    MaxVal = 2
    LeafCapacity = 4
    MaxPage = 5
    MaxTx = 3
    FirstTx = 2
    Writes <- MCWrites
    MaxWrites = 1
    MaxWriters = 1
    MaxCheckpoints = 0
    MaxCrashes = 1
    MaxStolen = 1
    StartEmpty = TRUE
    TornTail = FALSE
INVARIANT OnlyCommittedWritesSurvive
VIEW MCView
CHECK_DEADLOCK FALSE
