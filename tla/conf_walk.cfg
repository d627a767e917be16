SPECIFICATION Spec
CONSTANTS
    Ids = {1, 2, 3, 4}
    Boot = {1, 2, 3}
    Changes <- AllChanges
    MaxMatch = 2
    MaxUint64 = 9
INVARIANTS QuorumsMeet RestoreExact CommittedExact AppliesWhatFits
