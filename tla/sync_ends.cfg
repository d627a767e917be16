SPECIFICATION MCFairSpec
CONSTANTS
  Procs = {g0, g1}
  Main = g0
  MainBudget = 3
  ChildBudget = 2
  Budget <- MCBudget
  M = M
  RW = RW
  G = G
  O = O
  Mutexes = {M}
  RWMutexes = {RW}
  WaitGroups = {G}
  Onces = {O}
  Half = 2
  Ops <- AllOps
  Families = {"mixed"}
PROPERTIES Terminates
