SPECIFICATION Spec
CONSTANTS
    Ids = {1, 2, 3}
    Boot = {1, 2, 3}
    Async = TRUE
    Lockstep = FALSE
    MaxUint64 = 9
    Setups <- UsedSetups
    Used = {"async"}
CHECK_DEADLOCK FALSE
INVARIANTS LeaderCompleteness
