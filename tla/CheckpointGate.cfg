SPECIFICATION FairSpec
CONSTANTS
    t1 = t1
    t2 = t2
    t3 = t3
    None = None
    Thread = {t1, t2, t3}
    max_wal_bytes = 1
INVARIANTS
    TypeOK
    CheckpointRunsAlone
    GateIsHeldUpBySomeone
    ParkedWriterWillBeNotified
    LogKeepsBegunTransactions
    IdleHandleCanTruncate
    WalStaysBounded
PROPERTIES
    WritersCannotStarveCheckpoints
    ParkedWriterWakes
