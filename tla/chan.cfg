SPECIFICATION MCSpec
CONSTANTS
  Procs = {g0, g1, g2}
  Main = g0
  MainBudget = 3
  ChildBudget = 2
  Budget <- MCBudget
  U = U
  B = B
  Chans = {U, B}
  NilChan = NilChan
  Cap <- MCCap
  Ops <- AllOps
  Families = {"plain", "select"}
SYMMETRY Sym
INVARIANTS TypeOK HchanInv CommitsOnce NoInternal WokenByClose DeadlockIsReal
PROPERTIES RefinesAbsChan
