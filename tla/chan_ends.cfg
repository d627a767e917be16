SPECIFICATION MCFairSpec
CONSTANTS
  Procs = {g0, g1, g2}
  Main = g0
  MainBudget = 2
  ChildBudget = 1
  Budget <- MCBudget
  U = U
  B = B
  Chans = {U, B}
  NilChan = NilChan
  Cap <- MCCap
  Ops <- AllOps
  Families = {"nil"}
PROPERTIES Terminates
