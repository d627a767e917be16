SPECIFICATION Spec
CONSTANTS
    MaxTerm = 3
    MaxIndex = 2
    MaxQueue = 2
    MaxCrashes = 1
    ApplyLimit = 1
    Histories <- MCHistories
INVARIANTS OnlyLoadPanics ReadsOneLog AckIsDurable AppliesDurable
PROPERTIES Settles
