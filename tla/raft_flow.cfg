SPECIFICATION Spec
CONSTANTS
    Term = 3
    Starts <- MCStarts
    MaxIndex = 3
    MsgEntries = 1
    MaxFaults = 1
INVARIANTS FlowSound
PROPERTIES ProbesWell CatchesUp
