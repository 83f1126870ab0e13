SPECIFICATION Spec
CONSTANTS
    t1 = t1
    t2 = t2
    t3 = t3
    None = None
    Thread = {t1, t2}
    max_wal_bytes = 1
INVARIANT QuietLogIsShort
