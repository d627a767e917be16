SPECIFICATION Spec
CONSTANTS
    Ids = {1, 2}
    Boot = {1, 2}
    Async = FALSE
    Lockstep = TRUE
    MaxUint64 = 9
    Setups <- UsedSetups
    Used = {"single"}
CHECK_DEADLOCK FALSE
INVARIANTS ReadsCurrent
