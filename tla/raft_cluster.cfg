SPECIFICATION Spec
CONSTANTS
    Ids = {1, 2, 3}
    Boot = {1, 2, 3}
    Async = FALSE
    Lockstep = TRUE
    MaxUint64 = 9
    Setups <- UsedSetups
    Used = {"contest", "turns", "prevote", "beats", "transfer", "members", "reads"}
CHECK_DEADLOCK FALSE
INVARIANTS NoPanic LeaderCompleteness ElectionSafety StateMachineSafety MatchSound ReadsCurrent
CONSTRAINT UntilReelected
