----------------------------- MODULE MCSyncPool -----------------------------
(* Instances of SyncPool: one primitive of each kind. *)
EXTENDS SyncPool, TLC

CONSTANTS M, RW, G, O, MainBudget, ChildBudget

MCBudget == [p \in Procs |-> IF p = Main THEN MainBudget ELSE ChildBudget]

On(f, l) == [f |-> f, loc |-> l, d |-> 0]
Add(n) == [f |-> "wgAdd", loc |-> G, d |-> n]
Go == [f |-> "go", loc |-> "none", d |-> 0]

LockOps == {On(f, M) : f \in MutexHeads} \cup {On(f, RW) : f \in RWHeads} \cup {Go}
WaitOps == {Add(1), Add(-1), Add(2), On("wgWait", G), On("onceBegin", O), Go}
MixedOps == {On("lock", M), On("unlock", M), On("wlock", RW), On("rlock", RW), Add(1), Add(-1),
             On("wgWait", G), On("onceBegin", O), Go}

(* A run works through families of operations one by one: a program uses those of one. *)
AllOps == LockOps \cup WaitOps

CONSTANT Families
VARIABLE family
mcVars == <<vars, family>>

OpsOf(f) == CASE f = "locks" -> LockOps [] f = "waits" -> WaitOps [] f = "mixed" -> MixedOps

MCInit == Init /\ family \in Families

(* Main performs one operation less in the family of locks. *)
MCNext ==
  /\ Next
  /\ \A p \in Procs :
       op'[p] \in {op[p], NoOp} \cup OpsOf(family) \/ op'[p].f \in {"onceComplete", "onceUnwind"}
  /\ family = "locks" => left'[Main] >= MainBudget - 2
  /\ UNCHANGED family

MCSpec == MCInit /\ [][MCNext]_mcVars
MCFairSpec == MCSpec /\ WF_mcVars(MCNext)

Sym == Permutations(Procs \ {Main})
=============================================================================
