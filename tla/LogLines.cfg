SPECIFICATION Spec
CONSTANTS
    MaxNumber = 3
    Batch = 2
    MaxFlushes = 2
    MaxRuns = 2
    RowIdOffset = 0
    Faults = {"crash", "db", "redis", "break"}
CHECK_DEADLOCK FALSE
INVARIANTS LogTypeOK StreamInOrder LinesAreKept GapsHaveACause
