SPECIFICATION Spec
CONSTANTS
    Key = {1, 2, 3, 4}
    Size = {900, 1900, 4044, 4045}
INVARIANTS TypeOK Validate SpaceIsAccountedFor ReadsBack SplitsOnlyWhenFull
CHECK_DEADLOCK FALSE
