SPECIFICATION MCSpec
CONSTANTS
  Procs = {g0, g1, g2}
  Main = g0
  X = X
  F = F
  C0 = C0
  C1 = C1
  C2 = C2
  Keys = {X, F}
  Prefixes <- MCPrefixes
  Locks = {L}
  Chans = {C0, C1, C2}
  Cap <- MCCap
  EarlySlots = TRUE
  None = None
  Heads = {"read", "write", "lock", "rlock", "load", "store", "rmw", "observe", "close", "poll"}
  MaxEvents = 9
  Families = {"locks", "atomics", "chan0", "chan1", "chan2"}
SYMMETRY Sym
CHECK_DEADLOCK FALSE
INVARIANTS NoFalseRace NoMissedRace ClockExact ParkedSenderRefusesClose
