SPECIFICATION FairSpec
CONSTANTS
    k1 = k1
    k2 = k2
    Key = {k1, k2}
    MaxTxId = 4
    MaxLive = 3
    FirstClash = 4
INVARIANTS
    TypeOK
    ExclusiveHolderIsAlone
    HeldMatchesTable
    OnlyEldersRefuse
    SleeperHasBlocker
    NeverAllAsleep
PROPERTIES
    LocksOnlyGrow
    EveryWaitEnds
CHECK_DEADLOCK FALSE
