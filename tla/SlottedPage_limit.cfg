SPECIFICATION Spec
CONSTANTS
    Key = {1, 2, 3, 4, 5, 6, 7, 8}
    Size = {2, 900}
VIEW MCContents
INVARIANT ReliableBelowLimit
CHECK_DEADLOCK FALSE
