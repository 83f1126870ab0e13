SPECIFICATION Spec
CONSTANTS
    k1 = k1
    k2 = k2
    Key = {k1, k2}
    MaxTxId = 3
    MaxLive = 3
    FirstClash = 2
SYMMETRY KeySymmetry
INVARIANT WaitsForHasNoCycle
CHECK_DEADLOCK FALSE
