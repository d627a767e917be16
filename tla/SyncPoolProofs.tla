--------------------------- MODULE SyncPoolProofs ---------------------------
(***************************************************************************)
(* Proofs about SyncPool, for any goroutines, primitives, budget, counter  *)
(* width and operations: the type invariant, mutual exclusion, the         *)
(* exactness of the counts the cells keep of parked goroutines, Once, and  *)
(* that nobody is parked without a reason.                                 *)
(***************************************************************************)
EXTENDS SyncPool, FiniteSetTheorems, TLAPS

\* The receiver of an operation in progress has the kind its head works on.
LEMMA OpFacts ==
  ASSUME TypeOK, NEW p \in Procs
  PROVE  /\ op[p].f \in MutexHeads => op[p].loc \in Mutexes
         /\ op[p].f \in RWHeads => op[p].loc \in RWMutexes
         /\ op[p].f = "wgAdd" => op[p].loc \in WaitGroups /\ op[p].d \in Int
         /\ op[p].f = "wgWait" => op[p].loc \in WaitGroups
         /\ op[p].f \in {"onceBegin", "onceComplete", "onceUnwind"} => op[p].loc \in Onces
<1>1. op[p] \in Ops \cup Completions \cup {NoOp}
  BY DEF TypeOK
<1>2. op[p] \in OpShapes \cup Completions \cup {NoOp}
  BY <1>1, OpsAssumption
<1> QED
  BY <1>2 DEF OpShapes, Completions, NoOp, MutexHeads, RWHeads

\* The token of a goroutine's acquisition is one of Stamps.
LEMMA StampTyping ==
  ASSUME TypeOK, NEW p \in Procs
  PROVE  Stamp(p) \in Stamps
<1>1. left[p] \in 0..Budget[p]
  BY BudgetAssumption DEF TypeOK, SchedTypeOK
<1> QED
  BY <1>1 DEF Stamp, Stamps

\* Spending one unit of a goroutine's budget keeps the budgets typed.
LEMMA SpendTyping ==
  ASSUME SchedTypeOK, NEW p \in Procs, left[p] > 0,
         left' = [left EXCEPT ![p] = @ - 1]
  PROVE  left' \in [Procs -> Nat] /\ \A q \in Procs : left'[q] <= Budget[q]
<1>1. left \in [Procs -> Nat] /\ \A q \in Procs : left[q] <= Budget[q] /\ Budget[q] \in Nat
  BY BudgetAssumption DEF SchedTypeOK
<1>2. left[p] - 1 \in Nat /\ left[p] - 1 <= Budget[p]
  BY <1>1
<1>3. left' \in [Procs -> Nat]
  BY <1>1, <1>2
<1>4. ASSUME NEW q \in Procs PROVE left'[q] <= Budget[q]
  BY <1>1, <1>2
<1> QED
  BY <1>3, <1>4

\* Wrapping gives a counter of the counter's width.
LEMMA WrapTyping == ASSUME NEW n \in Int PROVE Wrap(n) \in (-Half)..(Half - 1)
<1>1. Half \in Nat /\ Half > 0
  BY HalfAssumption
<1>2. (n + Half) % (2 * Half) \in 0..(2 * Half - 1)
  BY <1>1
<1> QED
  BY <1>1, <1>2 DEF Wrap

-----------------------------------------------------------------------------
(* The type invariant. *)

LockTypeOK ==
  /\ locked \in [Mutexes -> BOOLEAN]
  /\ rw \in [RWMutexes -> [writer : BOOLEAN, readers : Nat, pendingW : Nat]]
  /\ holdW \in [Locks -> SUBSET Stamps]
  /\ holdR \in [RWMutexes -> SUBSET Stamps]

OnceTypeOK ==
  /\ doing \in [Procs -> Seq(Onces)]
  /\ once \in [Onces -> [started : BOOLEAN, done : BOOLEAN]]
  /\ ran \in [Onces -> Nat]
  /\ skipped \in SUBSET Onces

WgTypeOK == wg \in [WaitGroups -> [counter : (-Half)..(Half - 1), waiters : Nat]]

OpTypeOK == op \in [Procs -> Ops \cup Completions \cup {NoOp}]

\* The type invariant is the conjunction of its parts.
LEMMA TypeParts == TypeOK <=> SchedTypeOK /\ OpTypeOK /\ LockTypeOK /\ WgTypeOK /\ OnceTypeOK
BY DEF TypeOK, OpTypeOK, LockTypeOK, WgTypeOK, OnceTypeOK

\* The same in the next state.
LEMMA TypePartsNext ==
  ASSUME SchedTypeOK', OpTypeOK', LockTypeOK', WgTypeOK', OnceTypeOK'
  PROVE  TypeOK'
BY DEF TypeOK, OpTypeOK, LockTypeOK, WgTypeOK, OnceTypeOK

\* The initial state is well typed.
LEMMA TypeInit == Init => TypeOK
<1> SUFFICES ASSUME Init PROVE TypeOK
  OBVIOUS
<1>1. SchedTypeOK
  BY MainAssumption, BudgetAssumption
  DEF Init, SchedInit, SchedTypeOK, Pcs, Flags, Statuses
<1>2. OpTypeOK /\ LockTypeOK /\ OnceTypeOK
  BY DEF Init, OpTypeOK, LockTypeOK, OnceTypeOK
<1>3. 0 \in (-Half)..(Half - 1)
  BY HalfAssumption
<1>4. WgTypeOK
  BY <1>3 DEF Init, WgTypeOK
<1> QED
  BY <1>1, <1>2, <1>4, TypeParts

\* What a step leaves alone stays typed.
LEMMA PartsUnchanged ==
  ASSUME TypeOK
  PROVE  /\ UNCHANGED op => OpTypeOK'
         /\ UNCHANGED lockVars => LockTypeOK'
         /\ UNCHANGED wg => WgTypeOK'
         /\ UNCHANGED onceVars => OnceTypeOK'
BY DEF TypeOK, OpTypeOK, LockTypeOK, WgTypeOK, OnceTypeOK, lockVars, onceVars

RWCells == [writer : BOOLEAN, readers : Nat, pendingW : Nat]

\* What updating one field of an RWMutex cell does to the cell.
LEMMA FieldUpdate ==
  ASSUME NEW r \in RWCells, NEW n \in Nat
  PROVE  /\ [r EXCEPT !.readers = n] \in RWCells
         /\ [r EXCEPT !.readers = n].readers = n
         /\ [r EXCEPT !.readers = n].writer = r.writer
         /\ [r EXCEPT !.readers = n].pendingW = r.pendingW
         /\ [r EXCEPT !.pendingW = n] \in RWCells
         /\ [r EXCEPT !.pendingW = n].pendingW = n
         /\ [r EXCEPT !.pendingW = n].writer = r.writer
         /\ [r EXCEPT !.pendingW = n].readers = r.readers
         /\ [r EXCEPT !.writer = FALSE] \in RWCells
         /\ [r EXCEPT !.writer = FALSE].writer = FALSE
         /\ [r EXCEPT !.writer = FALSE].readers = r.readers
         /\ [r EXCEPT !.writer = FALSE].pendingW = r.pendingW
BY DEF RWCells

\* Storing a cell leaves the other cells alone.
LEMMA CellUpdate ==
  ASSUME TypeOK, NEW l \in RWMutexes, NEW c \in RWCells, rw' = [rw EXCEPT ![l] = c]
  PROVE  /\ rw' \in [RWMutexes -> RWCells]
         /\ rw'[l] = c
         /\ \A k \in RWMutexes \ {l} : rw'[k] = rw[k]
BY DEF TypeOK, RWCells

\* A reader's entry.
LEMMA ReadersUpdate ==
  ASSUME TypeOK, NEW l \in RWMutexes, rw' = [rw EXCEPT ![l].readers = @ + 1]
  PROVE  /\ rw' \in [RWMutexes -> RWCells]
         /\ rw'[l].readers = rw[l].readers + 1
         /\ rw'[l].writer = rw[l].writer
         /\ rw'[l].pendingW = rw[l].pendingW
         /\ \A k \in RWMutexes \ {l} : rw'[k] = rw[k]
<1>1. rw[l] \in RWCells /\ rw[l].readers + 1 \in Nat
  BY DEF TypeOK, RWCells
<1>2. PICK c : c = [rw[l] EXCEPT !.readers = rw[l].readers + 1]
  OBVIOUS
<1>3. rw' = [rw EXCEPT ![l] = c]
  BY <1>2
<1>4. c \in RWCells /\ c.writer = rw[l].writer /\ c.readers = rw[l].readers + 1 /\ c.pendingW = rw[l].pendingW
  BY <1>1, <1>2, FieldUpdate
<1> QED
  BY <1>3, <1>4, CellUpdate

\* A reader's exit.
LEMMA ReadersDown ==
  ASSUME TypeOK, NEW l \in RWMutexes, rw[l].readers > 0,
         rw' = [rw EXCEPT ![l].readers = @ - 1]
  PROVE  /\ rw' \in [RWMutexes -> RWCells]
         /\ rw'[l].readers = rw[l].readers - 1
         /\ rw'[l].writer = rw[l].writer
         /\ rw'[l].pendingW = rw[l].pendingW
         /\ \A k \in RWMutexes \ {l} : rw'[k] = rw[k]
<1>1. rw[l] \in RWCells /\ rw[l].readers - 1 \in Nat
  BY DEF TypeOK, RWCells
<1>2. PICK c : c = [rw[l] EXCEPT !.readers = rw[l].readers - 1]
  OBVIOUS
<1>3. rw' = [rw EXCEPT ![l] = c]
  BY <1>2
<1>4. c \in RWCells /\ c.writer = rw[l].writer /\ c.readers = rw[l].readers - 1 /\ c.pendingW = rw[l].pendingW
  BY <1>1, <1>2, FieldUpdate
<1> QED
  BY <1>3, <1>4, CellUpdate

\* A writer's registration.
LEMMA PendingUpdate ==
  ASSUME TypeOK, NEW l \in RWMutexes, rw' = [rw EXCEPT ![l].pendingW = @ + 1]
  PROVE  /\ rw' \in [RWMutexes -> RWCells]
         /\ rw'[l].pendingW = rw[l].pendingW + 1
         /\ rw'[l].writer = rw[l].writer
         /\ rw'[l].readers = rw[l].readers
         /\ \A k \in RWMutexes \ {l} : rw'[k] = rw[k]
<1>1. rw[l] \in RWCells /\ rw[l].pendingW + 1 \in Nat
  BY DEF TypeOK, RWCells
<1>2. PICK c : c = [rw[l] EXCEPT !.pendingW = rw[l].pendingW + 1]
  OBVIOUS
<1>3. rw' = [rw EXCEPT ![l] = c]
  BY <1>2
<1>4. c \in RWCells /\ c.writer = rw[l].writer /\ c.readers = rw[l].readers /\ c.pendingW = rw[l].pendingW + 1
  BY <1>1, <1>2, FieldUpdate
<1> QED
  BY <1>3, <1>4, CellUpdate

\* A writer's exit.
LEMMA WriterUpdate ==
  ASSUME TypeOK, NEW l \in RWMutexes, rw' = [rw EXCEPT ![l].writer = FALSE]
  PROVE  /\ rw' \in [RWMutexes -> RWCells]
         /\ ~rw'[l].writer
         /\ rw'[l].readers = rw[l].readers
         /\ rw'[l].pendingW = rw[l].pendingW
         /\ \A k \in RWMutexes \ {l} : rw'[k] = rw[k]
<1>1. rw[l] \in RWCells /\ 0 \in Nat
  BY DEF TypeOK, RWCells
<1>2. PICK c : c = [rw[l] EXCEPT !.writer = FALSE]
  OBVIOUS
<1>3. rw' = [rw EXCEPT ![l] = c]
  BY <1>2
<1>4. c \in RWCells /\ c.writer = FALSE /\ c.readers = rw[l].readers /\ c.pendingW = rw[l].pendingW
  BY <1>1, <1>2, FieldUpdate
<1> QED
  BY <1>3, <1>4, CellUpdate

\* Acquiring a lock keeps the locks typed.
LEMMA AcquireTyping ==
  ASSUME TypeOK, NEW p \in Procs, NEW n \in {0, 1}, Acquire(p, n)
  PROVE  LockTypeOK'
<1>1. Stamp(p) \in Stamps
  BY StampTyping
<1>2. PICK l : l = op[p].loc
  OBVIOUS
<1>3. CASE op[p].f \in {"lock", "tryLock"}
  <2>1. l \in Mutexes /\ l \in Locks
    BY <1>2, <1>3, OpFacts DEF MutexHeads, Locks
  <2>2. /\ locked' = [locked EXCEPT ![l] = TRUE]
        /\ holdW' = [holdW EXCEPT ![l] = @ \cup {Stamp(p)}]
        /\ rw' = rw /\ holdR' = holdR
    BY <1>2, <1>3 DEF Acquire, GrantW
  <2> QED
    BY <1>1, <2>1, <2>2 DEF LockTypeOK, TypeOK
<1>4. CASE op[p].f \in {"wlock", "tryWLock"}
  <2>1. l \in RWMutexes /\ l \in Locks
    BY <1>2, <1>4, OpFacts DEF RWHeads, Locks
  <2>2. Monus(rw[l].pendingW, n) \in Nat
    BY <2>1 DEF Monus, TypeOK
  <2>3. /\ rw' = [rw EXCEPT ![l] = [writer |-> TRUE, readers |-> 0,
                                    pendingW |-> Monus(rw[l].pendingW, n)]]
        /\ holdW' = [holdW EXCEPT ![l] = @ \cup {Stamp(p)}]
        /\ locked' = locked /\ holdR' = holdR
    BY <1>2, <1>4 DEF Acquire, GrantW
  <2> QED
    BY <1>1, <2>1, <2>2, <2>3 DEF LockTypeOK, TypeOK
<1>5. CASE op[p].f \in {"rlock", "tryRLock"}
  <2>1. l \in RWMutexes
    BY <1>2, <1>5, OpFacts DEF RWHeads
  <2>2. /\ rw' = [rw EXCEPT ![l].readers = @ + 1]
        /\ holdR' = [holdR EXCEPT ![l] = @ \cup {Stamp(p)}]
        /\ locked' = locked /\ holdW' = holdW
    BY <1>2, <1>5 DEF Acquire, GrantR
  <2>3. rw' \in [RWMutexes -> RWCells]
    BY <2>1, <2>2, ReadersUpdate
  <2> QED
    BY <1>1, <2>1, <2>2, <2>3 DEF LockTypeOK, TypeOK, RWCells
<1> QED
  BY <1>3, <1>4, <1>5 DEF Acquire

\* A step that involves no operation keeps the types.
LEMMA LocalTyping ==
  ASSUME TypeOK, NEW p \in Procs, Local(p)
  PROVE  TypeOK'
<1>1. OpTypeOK' /\ LockTypeOK' /\ WgTypeOK' /\ OnceTypeOK'
  BY PartsUnchanged DEF Local
<1>2. SchedTypeOK'
  <2> USE DEF TypeOK, SchedTypeOK, Pcs, Flags, Statuses, Goto, Picked, PickedAt
  <2>1. CASE OpDoneStrip(p, WakeReady)
    BY <2>1 DEF OpDoneStrip
  <2>2. CASE ReachEdge(p, WakeReady)
    BY <2>2, SpendTyping DEF ReachEdge
  <2>3. CASE PassEdge(p, WakeReady)
    BY <2>3 DEF PassEdge
  <2>4. CASE Return(p, WakeReady)
    BY <2>4 DEF Return
  <2>5. CASE Raise(p, WakeReady)
    BY <2>5, SpendTyping DEF Raise
  <2>6. CASE Recover(p, WakeReady)
    BY <2>6 DEF Recover
  <2>7. CASE Abort(p, WakeReady)
    BY <2>7 DEF Abort
  <2> QED
    BY <2>1, <2>2, <2>3, <2>4, <2>5, <2>6, <2>7 DEF Local, LocalStep
<1> QED
  BY <1>1, <1>2, TypePartsNext

\* What every step of an operation does to the scheduler's state.
LEMMA OpSchedTyping ==
  ASSUME TypeOK, NEW p \in Procs, cur' = p,
         \/ Completed(p) /\ UNCHANGED <<status, left>>
         \/ Goto(p, "blocked") /\ UNCHANGED <<status, left>>
         \/ Goto(p, "apply") /\ UNCHANGED <<status, left>>
         \/ Goto(p, "panicking") /\ UNCHANGED <<status, left>>
         \/ Stopped("fatal")
         \/ Stopped("internal")
  PROVE  SchedTypeOK'
BY DEF TypeOK, SchedTypeOK, Pcs, Flags, Statuses, Completed, Goto, Stopped

\* A step that ends an operation leaves nothing in progress.
LEMMA OpCleared ==
  ASSUME TypeOK, NEW p \in Procs, op' = [op EXCEPT ![p] = NoOp]
  PROVE  OpTypeOK'
BY DEF TypeOK, OpTypeOK

\* The lock operations keep the types.
LEMMA LockTyping ==
  ASSUME TypeOK, NEW p \in Procs,
         \/ Lock(p) \/ LockPark(p) \/ LockWake(p) \/ TryLock(p) \/ Unlock(p) \/ RUnlock(p)
  PROVE  TypeOK'
<1>0. PICK l : l = op[p].loc
  OBVIOUS
<1>1. WgTypeOK' /\ OnceTypeOK' /\ cur' = p
  BY PartsUnchanged
  DEF Lock, LockPark, LockWake, TryLock, Unlock, RUnlock, Applying, PickedAt, Picked
<1>2. Finish(p) => SchedTypeOK' /\ OpTypeOK'
  BY <1>1, OpSchedTyping, OpCleared DEF Finish
<1>3. Fatal => SchedTypeOK' /\ OpTypeOK' /\ LockTypeOK'
  BY <1>1, OpSchedTyping, PartsUnchanged DEF Fatal
<1>4. CASE Lock(p) \/ LockWake(p) \/ TryLock(p)
  <2>1. Finish(p)
    BY <1>4 DEF Lock, LockWake, TryLock
  <2>2. Acquire(p, 0) \/ Acquire(p, 1) \/ UNCHANGED lockVars
    BY <1>4 DEF Lock, LockWake, TryLock
  <2>3. LockTypeOK'
    BY <2>2, AcquireTyping, PartsUnchanged
  <2> QED
    BY <1>1, <1>2, <2>1, <2>3, TypePartsNext
<1>5. CASE LockPark(p)
  <2>1. SchedTypeOK' /\ OpTypeOK'
    BY <1>1, <1>5, OpSchedTyping, PartsUnchanged DEF LockPark
  <2>2. rw' \in [RWMutexes -> RWCells]
    <3>1. CASE op[p].f = "wlock"
      <4>1. l \in RWMutexes
        BY <1>0, <3>1, OpFacts DEF RWHeads
      <4> QED
        BY <1>0, <1>5, <3>1, <4>1, PendingUpdate DEF LockPark
    <3>2. CASE op[p].f # "wlock"
      BY <1>5, <3>2 DEF LockPark, TypeOK, RWCells
    <3> QED
      BY <3>1, <3>2
  <2>3. LockTypeOK'
    BY <1>5, <2>2 DEF LockPark, LockTypeOK, TypeOK, RWCells
  <2> QED
    BY <1>1, <2>1, <2>3, TypePartsNext
<1>6. CASE Unlock(p)
  <2>1. CASE Fatal
    BY <1>1, <1>3, <2>1, TypePartsNext
  <2>2. CASE ~Fatal
    <3>1. /\ op[p].f \in {"unlock", "wunlock"}
          /\ \/ op[p].f = "unlock" /\ locked' = [locked EXCEPT ![l] = FALSE] /\ UNCHANGED rw
             \/ op[p].f = "wunlock" /\ rw' = [rw EXCEPT ![l].writer = FALSE] /\ UNCHANGED locked
          /\ \E t \in Returnable(p, holdW[l]) : holdW' = [holdW EXCEPT ![l] = @ \ {t}]
          /\ UNCHANGED holdR
          /\ Finish(p)
      BY <1>0, <1>6, <2>2 DEF Unlock, Applying
    <3>2. op[p].f = "wunlock" => l \in RWMutexes
      BY <1>0, OpFacts DEF RWHeads
    <3>3. l \in Locks
      BY <1>0, <3>1, OpFacts DEF RWHeads, MutexHeads, Locks
    <3>4. rw' \in [RWMutexes -> RWCells]
      BY <3>1, <3>2, WriterUpdate DEF TypeOK, RWCells
    <3>5. locked' \in [Mutexes -> BOOLEAN]
      BY <3>1 DEF TypeOK
    <3>6. holdW' \in [Locks -> SUBSET Stamps]
      BY <3>1, <3>3 DEF TypeOK
    <3>7. LockTypeOK'
      BY <3>1, <3>4, <3>5, <3>6 DEF LockTypeOK, TypeOK, RWCells
    <3> QED
      BY <1>1, <1>2, <3>1, <3>7, TypePartsNext
  <2> QED
    BY <2>1, <2>2
<1>7. CASE RUnlock(p)
  <2>1. CASE Fatal
    BY <1>1, <1>3, <2>1, TypePartsNext
  <2>2. CASE ~Fatal
    <3>1. /\ op[p].f = "runlock"
          /\ rw[l].readers > 0
          /\ rw' = [rw EXCEPT ![l].readers = @ - 1]
          /\ \E t \in Returnable(p, holdR[l]) : holdR' = [holdR EXCEPT ![l] = @ \ {t}]
          /\ UNCHANGED <<locked, holdW>>
          /\ Finish(p)
      BY <1>0, <1>7, <2>2 DEF RUnlock, Applying
    <3>2. l \in RWMutexes
      BY <1>0, <3>1, OpFacts DEF RWHeads
    <3>3. rw' \in [RWMutexes -> RWCells]
      BY <3>1, <3>2, ReadersDown
    <3>4. holdR' \in [RWMutexes -> SUBSET Stamps]
      BY <3>1, <3>2 DEF TypeOK
    <3>5. LockTypeOK'
      BY <3>1, <3>3, <3>4 DEF LockTypeOK, TypeOK, RWCells
    <3> QED
      BY <1>1, <1>2, <3>1, <3>5, TypePartsNext
  <2> QED
    BY <2>1, <2>2
<1> QED
  BY <1>4, <1>5, <1>6, <1>7

\* What a waiter does to its WaitGroup's cell.
LEMMA WaitersUpdate ==
  ASSUME TypeOK, NEW g \in WaitGroups, NEW n \in Nat,
         wg' = [wg EXCEPT ![g].waiters = n]
  PROVE  /\ WgTypeOK'
         /\ wg'[g].waiters = n
         /\ wg'[g].counter = wg[g].counter
         /\ \A h \in WaitGroups \ {g} : wg'[h] = wg[h]
<1> DEFINE WgCells == [counter : (-Half)..(Half - 1), waiters : Nat]
<1>1. wg \in [WaitGroups -> WgCells] /\ wg[g] \in WgCells
  BY DEF TypeOK
<1>2. PICK c : c = [wg[g] EXCEPT !.waiters = n]
  OBVIOUS
<1>3. c \in WgCells /\ c.waiters = n /\ c.counter = wg[g].counter
  BY <1>1, <1>2
<1>4. wg' = [wg EXCEPT ![g] = c]
  BY <1>2
<1> QED
  BY <1>1, <1>3, <1>4 DEF WgTypeOK

\* The WaitGroup operations keep the types.
LEMMA WgTyping ==
  ASSUME TypeOK, NEW p \in Procs, WgAdd(p) \/ WgWait(p) \/ WgPark(p) \/ WgWake(p)
  PROVE  TypeOK'
<1>0. PICK g : g = op[p].loc
  OBVIOUS
<1>1. LockTypeOK' /\ OnceTypeOK' /\ cur' = p
  BY PartsUnchanged DEF WgAdd, WgWait, WgPark, WgWake, Applying, PickedAt, Picked
<1>2. Finish(p) => SchedTypeOK' /\ OpTypeOK'
  BY <1>1, OpSchedTyping, OpCleared DEF Finish
<1>3. g \in WaitGroups
  BY <1>0, OpFacts DEF WgAdd, WgWait, WgPark, WgWake, Applying
<1>4. wg[g] \in [counter : (-Half)..(Half - 1), waiters : Nat]
  BY <1>3 DEF TypeOK
<1>5. CASE WgAdd(p)
  <2>1. PICK c : c = Wrap(wg[g].counter + op[p].d)
    OBVIOUS
  <2>2. op[p].d \in Int
    BY <1>5, OpFacts DEF WgAdd, Applying
  <2>3. c \in (-Half)..(Half - 1)
    BY <1>4, <2>1, <2>2, HalfAssumption, WrapTyping
  <2>4. AddTo(p, g, c)
    BY <1>0, <1>5, <2>1 DEF WgAdd
  <2>5. WgTypeOK'
    BY <1>3, <1>4, <2>3, <2>4 DEF AddTo, WgTypeOK, TypeOK
  <2>6. \/ Finish(p)
        \/ Goto(p, "panicking") /\ op' = [op EXCEPT ![p] = NoOp] /\ UNCHANGED <<status, left>>
    BY <1>5 DEF WgAdd
  <2>7. SchedTypeOK' /\ OpTypeOK'
    BY <1>1, <1>2, <2>6, OpSchedTyping, OpCleared
  <2> QED
    BY <1>1, <2>5, <2>7, TypePartsNext
<1>6. CASE WgWait(p)
  BY <1>1, <1>2, <1>6, PartsUnchanged, TypePartsNext DEF WgWait
<1>7. CASE WgPark(p)
  <2>1. SchedTypeOK' /\ OpTypeOK'
    BY <1>1, <1>7, OpSchedTyping, PartsUnchanged DEF WgPark
  <2>2. WgTypeOK'
    <3>1. wg[g].waiters + 1 \in Nat
      BY <1>4
    <3>2. wg' = [wg EXCEPT ![g].waiters = wg[g].waiters + 1]
      BY <1>0, <1>7 DEF WgPark
    <3> QED
      BY <1>3, <3>1, <3>2, WaitersUpdate
  <2> QED
    BY <1>1, <2>1, <2>2, TypePartsNext
<1>8. CASE WgWake(p)
  <2>1. WgTypeOK'
    <3>1. Monus(wg[g].waiters, 1) \in Nat
      BY <1>4 DEF Monus
    <3>2. wg' = [wg EXCEPT ![g].waiters = Monus(wg[g].waiters, 1)]
      BY <1>0, <1>8 DEF WgWake
    <3> QED
      BY <1>3, <3>1, <3>2, WaitersUpdate
  <2> QED
    BY <1>1, <1>2, <1>8, <2>1, TypePartsNext DEF WgWake
<1> QED
  BY <1>5, <1>6, <1>7, <1>8

\* A completion only runs for a Once.Do frame that is still on the stack.
FramesInv == \A p \in Procs : op[p].f \in {"onceComplete", "onceUnwind"} => doing[p] # <<>>

\* The Once operations keep the types.
LEMMA OnceTyping ==
  ASSUME TypeOK, FramesInv, NEW p \in Procs,
         OnceBegin(p) \/ OncePark(p) \/ OnceWake(p) \/ OnceComplete(p)
  PROVE  TypeOK'
<1>0. PICK o : o = op[p].loc
  OBVIOUS
<1>1. LockTypeOK' /\ WgTypeOK' /\ cur' = p
  BY PartsUnchanged
  DEF OnceBegin, OncePark, OnceWake, OnceComplete, Applying, PickedAt, Picked
<1>2. Finish(p) => SchedTypeOK' /\ OpTypeOK'
  BY <1>1, OpSchedTyping, OpCleared DEF Finish
<1>3. o \in Onces
  BY <1>0, OpFacts DEF OnceBegin, OncePark, OnceWake, OnceComplete, Applying
<1>4. CASE OnceBegin(p)
  <2>0. PICK s : s = <<o>> \o doing[p]
    OBVIOUS
  <2>1. \/ /\ once' = [once EXCEPT ![o] = [started |-> TRUE, done |-> FALSE]]
           /\ doing' = [doing EXCEPT ![p] = s]
           /\ ran' = [ran EXCEPT ![o] = @ + 1]
           /\ UNCHANGED skipped
        \/ skipped' = skipped \cup {o} /\ UNCHANGED <<once, doing, ran>>
    BY <1>0, <1>4, <2>0 DEF OnceBegin
  <2>2. s \in Seq(Onces)
    BY <1>3, <2>0 DEF TypeOK
  <2>3. doing' \in [Procs -> Seq(Onces)]
    BY <2>1, <2>2 DEF TypeOK
  <2>t. /\ once \in [Onces -> [started : BOOLEAN, done : BOOLEAN]]
        /\ ran \in [Onces -> Nat]
        /\ skipped \in SUBSET Onces
    BY DEF TypeOK
  <2>4. once' \in [Onces -> [started : BOOLEAN, done : BOOLEAN]]
    <3>1. PICK c \in [started : BOOLEAN, done : BOOLEAN] :
            once' = [once EXCEPT ![o] = c] \/ once' = once
      <4>1. [started |-> TRUE, done |-> FALSE] \in [started : BOOLEAN, done : BOOLEAN]
        OBVIOUS
      <4> QED
        BY <2>1, <4>1
    <3> QED
      BY <3>1, <2>t
  <2>5. ran' \in [Onces -> Nat] /\ skipped' \in SUBSET Onces
    <3>1. ran' = [ran EXCEPT ![o] = @ + 1] \/ ran' = ran
      BY <2>1
    <3>2. skipped' = skipped \cup {o} \/ skipped' = skipped
      BY <2>1
    <3> QED
      BY <1>3, <2>t, <3>1, <3>2
  <2>6. OnceTypeOK'
    BY <2>3, <2>4, <2>5 DEF OnceTypeOK
  <2> QED
    BY <1>1, <1>2, <1>4, <2>6, TypePartsNext DEF OnceBegin
<1>5. CASE OncePark(p)
  BY <1>1, <1>5, OpSchedTyping, PartsUnchanged, TypePartsNext DEF OncePark
<1>6. CASE OnceWake(p)
  <2>1. OnceTypeOK'
    BY <1>0, <1>3, <1>6 DEF OnceWake, OnceTypeOK, TypeOK
  <2> QED
    BY <1>1, <1>2, <1>6, <2>1, TypePartsNext DEF OnceWake
<1>7. CASE OnceComplete(p)
  <2>1. CASE once[o].started
    <3>1. /\ once' = [once EXCEPT ![o] = [started |-> TRUE, done |-> TRUE]]
          /\ doing' = [doing EXCEPT ![p] = Tail(@)]
          /\ pc' = [pc EXCEPT ![p] = IF op[p].f = "onceComplete" THEN "priv" ELSE "panicking"]
          /\ flag' = [flag EXCEPT ![p] = "postOp"]
          /\ op' = [op EXCEPT ![p] = NoOp]
          /\ UNCHANGED <<status, left, ran, skipped>>
      BY <1>0, <1>7, <2>1 DEF OnceComplete
    <3>2. Tail(doing[p]) \in Seq(Onces)
      BY <1>7 DEF OnceComplete, Applying, FramesInv, TypeOK
    <3>3. OnceTypeOK'
      BY <1>3, <3>1, <3>2 DEF OnceTypeOK, TypeOK
    <3>4. SchedTypeOK'
      BY <1>1, <3>1 DEF TypeOK, SchedTypeOK, Pcs, Flags
    <3> QED
      BY <1>1, <3>1, <3>3, <3>4, OpCleared, TypePartsNext
  <2>2. CASE ~once[o].started
    <3>1. /\ Stopped("internal")
          /\ UNCHANGED op
          /\ UNCHANGED onceVars
      BY <1>0, <1>7, <2>2 DEF OnceComplete, onceVars
    <3> QED
      BY <1>1, <3>1, OpSchedTyping, PartsUnchanged, TypePartsNext
  <2> QED
    BY <2>1, <2>2
<1> QED
  BY <1>4, <1>5, <1>6, <1>7

\* Every step keeps the types and the Once.Do frames.
LEMMA TypeStep == TypeOK /\ FramesInv /\ [Next]_vars => TypeOK'
<1> SUFFICES ASSUME TypeOK, FramesInv, [Next]_vars PROVE TypeOK'
  OBVIOUS
<1>1. ASSUME NEW p \in Procs, OpStep(p) PROVE TypeOK'
  <2>1. ASSUME NEW o \in Ops, Issue(p, o) PROVE TypeOK'
    <3>1. LockTypeOK' /\ WgTypeOK' /\ OnceTypeOK'
      BY <2>1, PartsUnchanged DEF Issue
    <3>2. OpTypeOK'
      BY <2>1 DEF Issue, OpTypeOK, TypeOK
    <3>3. SchedTypeOK'
      BY <2>1, SpendTyping
      DEF Issue, PickedAt, Picked, Goto, TypeOK, SchedTypeOK, Pcs, Flags
    <3> QED
      BY <3>1, <3>2, <3>3, TypePartsNext
  <2>2. CASE IssueComplete(p)
    <3>1. LockTypeOK' /\ WgTypeOK' /\ OnceTypeOK'
      BY <2>2, PartsUnchanged DEF IssueComplete
    <3>2. Head(doing[p]) \in Onces
      BY <2>2 DEF IssueComplete, TypeOK
    <3>3. PICK c \in Completions : op' = [op EXCEPT ![p] = c]
      <4>1. /\ [f |-> "onceComplete", loc |-> Head(doing[p]), d |-> 0] \in Completions
            /\ [f |-> "onceUnwind", loc |-> Head(doing[p]), d |-> 0] \in Completions
        BY <3>2 DEF Completions
      <4> QED
        BY <2>2, <4>1 DEF IssueComplete
    <3>5. OpTypeOK'
      BY <3>3 DEF OpTypeOK, TypeOK
    <3>4. SchedTypeOK'
      BY <2>2, OpSchedTyping DEF IssueComplete, PickedAt, Picked
    <3> QED
      BY <3>1, <3>4, <3>5, TypePartsNext
  <2>3. CASE Spawn(p)
    <3>1. LockTypeOK' /\ WgTypeOK' /\ OnceTypeOK' /\ OpTypeOK'
      BY <2>3, PartsUnchanged, OpCleared DEF Spawn
    <3>2. SchedTypeOK'
      BY <2>3 DEF Spawn, Applying, PickedAt, Picked, TypeOK, SchedTypeOK, Pcs, Flags
    <3> QED
      BY <3>1, <3>2, TypePartsNext
  <2> QED
    BY <1>1, <2>1, <2>2, <2>3, LockTyping, WgTyping, OnceTyping DEF OpStep
<1>2. ASSUME NEW p \in Procs, Local(p) PROVE TypeOK'
  BY <1>2, LocalTyping
<1>3. CASE End
  <2>1. SchedTypeOK'
    BY <1>3 DEF End, EndStep, EndPanic, EndExit, EndDeadlock, FuelOut, TypeOK, SchedTypeOK, Statuses
  <2> QED
    BY <1>3, <2>1, PartsUnchanged, TypePartsNext DEF End
<1>4. CASE UNCHANGED vars \/ Stutter
  <2>1. SchedTypeOK'
    BY <1>4 DEF vars, Stutter, Ended, schedVars, TypeOK, SchedTypeOK
  <2> QED
    BY <1>4, <2>1, PartsUnchanged, TypePartsNext DEF vars, Stutter
<1> QED
  BY <1>1, <1>2, <1>3, <1>4 DEF Next

\* A step of p touches no other goroutine's operation or frames, and neither
\* parks nor wakes another goroutine.
LEMMA OthersStay ==
  ASSUME TypeOK, NEW p \in Procs, OpStep(p) \/ Local(p)
  PROVE  \A q \in Procs \ {p} :
           /\ op'[q] = op[q]
           /\ doing'[q] = doing[q]
           /\ pc'[q] = "blocked" <=> pc[q] = "blocked"
           /\ pc'[q] = "apply" <=> pc[q] = "apply"
           /\ left'[q] = left[q]
<1> USE DEF TypeOK, SchedTypeOK, Goto, Finish, Completed, Stopped
<1>1. ASSUME NEW o \in Ops, Issue(p, o)
      PROVE  \A q \in Procs \ {p} : /\ op'[q] = op[q] /\ doing'[q] = doing[q]
                                    /\ pc'[q] = pc[q] /\ left'[q] = left[q]
  BY <1>1 DEF Issue, onceVars
<1>2. CASE IssueComplete(p)
  BY <1>2 DEF IssueComplete, onceVars
<1>3. CASE Lock(p) \/ LockPark(p) \/ LockWake(p) \/ TryLock(p)
  BY <1>3 DEF Lock, LockPark, LockWake, TryLock, onceVars
<1>4. CASE Unlock(p) \/ RUnlock(p)
  BY <1>4 DEF Unlock, RUnlock, Fatal, onceVars
<1>5. CASE WgAdd(p) \/ WgWait(p) \/ WgPark(p) \/ WgWake(p)
  BY <1>5 DEF WgAdd, WgWait, WgPark, WgWake, onceVars
<1>6. CASE OnceBegin(p) \/ OncePark(p) \/ OnceWake(p)
  BY <1>6 DEF OnceBegin, OncePark, OnceWake, onceVars
<1>7. CASE OnceComplete(p)
  BY <1>7 DEF OnceComplete
<1>8. CASE Spawn(p)
  BY <1>8 DEF Spawn, Unborn, onceVars
<1>9. CASE Local(p)
  BY <1>9 DEF Local, LocalStep, OpDoneStrip, ReachEdge, PassEdge, Return, Raise, Recover, Abort, onceVars
<1> QED
  BY <1>1, <1>2, <1>3, <1>4, <1>5, <1>6, <1>7, <1>8, <1>9 DEF OpStep

\* Every step keeps a frame on the stack of whoever runs a completion.
LEMMA FramesStep == TypeOK /\ FramesInv /\ [Next]_vars => FramesInv'
<1> SUFFICES ASSUME TypeOK, FramesInv, [Next]_vars PROVE FramesInv'
  OBVIOUS
<1>1. ASSUME NEW p \in Procs, OpStep(p) \/ Local(p) PROVE FramesInv'
  <2>1. \A q \in Procs \ {p} : op'[q] = op[q] /\ doing'[q] = doing[q]
    BY <1>1, OthersStay
  <2>2. \/ op'[p].f \notin {"onceComplete", "onceUnwind"}
        \/ op'[p] = op[p] /\ doing'[p] = doing[p]
        \/ doing'[p] = doing[p] /\ doing[p] # <<>>
    <3>0. ASSUME NEW o \in Ops PROVE o.f \notin {"onceComplete", "onceUnwind"}
      <4>1. o \in OpShapes
        BY OpsAssumption
      <4> QED
        BY <4>1 DEF OpShapes, MutexHeads, RWHeads
    <3> USE DEF TypeOK, Finish, NoOp, onceVars
    <3>1. ASSUME NEW o \in Ops, Issue(p, o) PROVE op'[p].f \notin {"onceComplete", "onceUnwind"}
      <4>1. o.f \notin {"onceComplete", "onceUnwind"}
        BY <3>0
      <4> QED
        BY <3>1, <4>1 DEF Issue
    <3>2. CASE IssueComplete(p)
      BY <3>2 DEF IssueComplete
    <3>3. CASE Lock(p) \/ LockPark(p) \/ LockWake(p) \/ TryLock(p) \/ Unlock(p) \/ RUnlock(p)
      BY <3>3 DEF Lock, LockPark, LockWake, TryLock, Unlock, RUnlock, Fatal
    <3>4. CASE WgAdd(p) \/ WgWait(p) \/ WgPark(p) \/ WgWake(p)
      BY <3>4 DEF WgAdd, WgWait, WgPark, WgWake
    <3>5. CASE OnceBegin(p) \/ OncePark(p) \/ OnceWake(p) \/ OnceComplete(p)
      BY <3>5 DEF OnceBegin, OncePark, OnceWake, OnceComplete
    <3>6. CASE Spawn(p) \/ Local(p)
      BY <3>6 DEF Spawn, Local
    <3> QED
      BY <1>1, <3>1, <3>2, <3>3, <3>4, <3>5, <3>6 DEF OpStep
  <2> QED
    BY <2>1, <2>2 DEF FramesInv
<1>2. CASE End \/ Stutter \/ UNCHANGED vars
  BY <1>2 DEF End, Stutter, vars, onceVars, FramesInv
<1> QED
  BY <1>1, <1>2 DEF Next

\* Every state of every run is well typed: a WaitGroup counter keeps its width
\* and the counts of readers, parked writers and waiters never go below zero.
THEOREM TypeCorrect == Spec => []TypeOK
<1>1. Init => FramesInv
  BY DEF Init, FramesInv, NoOp
<1> QED
  BY <1>1, TypeInit, TypeStep, FramesStep, PTL DEF Spec

-----------------------------------------------------------------------------
(* Mutual exclusion.  The cells know counts, the history knows tokens; the *)
(* two stay in step because a read acquisition's token is fresh.           *)

ReadHeads == {"rlock", "tryRLock"}

\* No outstanding read acquisition is later than its goroutine's current
\* operation, and none is that operation's own.
Fresh ==
  /\ \A l \in RWMutexes, q \in Procs, n \in Nat : <<q, n>> \in holdR[l] => left[q] <= n
  /\ \A l \in RWMutexes, q \in Procs : op[q].f \in ReadHeads => <<q, left[q]>> \notin holdR[l]

\* The read acquisitions of a lock can be counted.
Countable == \A l \in RWMutexes : IsFiniteSet(holdR[l])

LockInv == MutualExclusion /\ HoldersExact /\ Countable

\* A woken goroutine is one its cell now admits.
LEMMA WokenAdmits ==
  ASSUME NEW p \in Procs, PickedAt(p, "blocked", WakeReady)
  PROVE  Admits(op[p])
<1>1. p \in RunnableIdxs(WakeReady)
  BY DEF PickedAt, Picked, AtBoundary
<1>2. p \in WakeReady
  BY <1>1 DEF RunnableIdxs, ThreadRunnable, PickedAt
<1> QED
  BY <1>2 DEF WakeReady

\* Tokens stay fresh when a step spends budget, ends an operation, or leaves
\* the operation and the read acquisitions alone.
LEMMA FreshStep ==
  ASSUME TypeOK, TypeOK', Fresh, NEW p \in Procs, OpStep(p) \/ Local(p),
         left'[p] <= left[p],
         \A l \in RWMutexes : holdR'[l] \subseteq holdR[l] \cup {Stamp(p)},
         \/ op'[p].f \notin ReadHeads
         \/ UNCHANGED holdR /\ (left'[p] < left[p] \/ op'[p] = op[p])
  PROVE  Fresh'
<1>1. \A q \in Procs \ {p} : op'[q] = op[q] /\ left'[q] = left[q]
  BY OthersStay
<1>2. \A q \in Procs : left[q] \in Nat /\ left'[q] \in Nat
  BY DEF TypeOK, SchedTypeOK
<1>3. ASSUME NEW l \in RWMutexes, NEW q \in Procs, NEW n \in Nat, <<q, n>> \in holdR'[l]
      PROVE  left'[q] <= n
  <2>1. CASE <<q, n>> \in holdR[l]
    <3>1. left[q] <= n
      BY <2>1 DEF Fresh
    <3> QED
      BY <1>1, <1>2, <3>1
  <2>2. CASE <<q, n>> = Stamp(p)
    <3>1. q = p /\ n = left[p]
      BY <2>2 DEF Stamp
    <3> QED
      BY <3>1
  <2> QED
    BY <1>3, <2>1, <2>2
<1>4. ASSUME NEW l \in RWMutexes, NEW q \in Procs, op'[q].f \in ReadHeads
      PROVE  <<q, left'[q]>> \notin holdR'[l]
  <2>1. CASE q # p
    <3>1. op'[q] = op[q] /\ left'[q] = left[q]
      BY <1>1, <2>1
    <3>2. <<q, left'[q]>> \notin holdR[l]
      BY <1>4, <3>1 DEF Fresh
    <3>3. <<q, left'[q]>> # Stamp(p)
      BY <2>1 DEF Stamp
    <3> QED
      BY <3>2, <3>3
  <2>2. CASE q = p
    <3>1. UNCHANGED holdR /\ (left'[p] < left[p] \/ op'[p] = op[p])
      BY <1>4, <2>2
    <3>2. CASE left'[p] < left[p]
      BY <1>2, <2>2, <3>1, <3>2 DEF Fresh
    <3>3. CASE left'[p] = left[p] /\ op'[p] = op[p]
      BY <1>4, <2>2, <3>1, <3>3 DEF Fresh
    <3> QED
      BY <1>2, <3>1, <3>2, <3>3
  <2> QED
    BY <2>1, <2>2
<1> QED
  BY <1>3, <1>4 DEF Fresh

\* An admitted acquisition keeps the locks exclusive and counted.
LEMMA AcquireKeeps ==
  ASSUME TypeOK, LockInv, Fresh, NEW p \in Procs, NEW n \in {0, 1}, Acquire(p, n),
         Admits(op[p]) \/ TryAdmits(op[p])
  PROVE  LockInv'
<1>0. PICK l : l = op[p].loc
  OBVIOUS
<1>1. PICK s : s = Stamp(p)
  OBVIOUS
<1>2. CASE op[p].f \in {"lock", "tryLock"}
  <2>1. l \in Mutexes /\ l \in Locks /\ l \notin RWMutexes
    BY <1>0, <1>2, OpFacts, LocksAssumption DEF MutexHeads, Locks
  <2>2. /\ locked' = [locked EXCEPT ![l] = TRUE]
        /\ holdW' = [holdW EXCEPT ![l] = @ \cup {s}]
        /\ rw' = rw /\ holdR' = holdR
    BY <1>0, <1>1, <1>2 DEF Acquire, GrantW
  <2>3. ~locked[l]
    BY <1>0, <1>2 DEF Admits, TryAdmits
  <2>4. holdW[l] = {}
    BY <2>1, <2>3 DEF LockInv, HoldersExact
  <2>5. /\ holdW'[l] = {s} /\ locked'[l]
        /\ \A k \in Locks \ {l} : holdW'[k] = holdW[k]
        /\ \A k \in Mutexes \ {l} : locked'[k] = locked[k]
    BY <2>1, <2>2, <2>4 DEF TypeOK
  <2>6. \A k \in RWMutexes : holdW'[k] = holdW[k]
    BY <2>1, <2>5 DEF Locks
  <2>7. MutualExclusion'
    BY <2>2, <2>5, <2>6 DEF MutualExclusion, LockInv
  <2>8. HoldersExact'
    BY <2>1, <2>2, <2>5, <2>6 DEF HoldersExact, LockInv, Locks
  <2> QED
    BY <2>2, <2>7, <2>8 DEF LockInv, Countable
<1>3. CASE op[p].f \in {"wlock", "tryWLock"}
  <2>1. l \in RWMutexes /\ l \in Locks /\ l \notin Mutexes
    BY <1>0, <1>3, OpFacts, LocksAssumption DEF RWHeads, Locks
  <2>2. PICK c : /\ c.writer = TRUE /\ c.readers = 0
                 /\ rw' = [rw EXCEPT ![l] = c]
                 /\ holdW' = [holdW EXCEPT ![l] = @ \cup {s}]
                 /\ locked' = locked /\ holdR' = holdR
    BY <1>0, <1>1, <1>3 DEF Acquire, GrantW
  <2>3. ~rw[l].writer /\ rw[l].readers = 0
    BY <1>0, <1>3 DEF Admits, TryAdmits, NoneHold
  <2>4. holdW[l] = {}
    BY <2>1, <2>3 DEF LockInv, HoldersExact
  <2>5. holdR[l] = {} /\ Cardinality(holdR[l]) = 0
    <3>1. IsFiniteSet(holdR[l]) /\ Cardinality(holdR[l]) = 0
      BY <2>1, <2>3 DEF LockInv, HoldersExact, Countable
    <3> QED
      BY <3>1, FS_EmptySet
  <2>6. /\ holdW'[l] = {s} /\ rw'[l] = c
        /\ \A k \in Locks \ {l} : holdW'[k] = holdW[k]
        /\ \A k \in RWMutexes \ {l} : rw'[k] = rw[k]
    BY <2>1, <2>2, <2>4 DEF TypeOK
  <2>7. MutualExclusion'
    BY <2>1, <2>2, <2>5, <2>6 DEF MutualExclusion, LockInv, Locks
  <2>8. HoldersExact'
    BY <2>1, <2>2, <2>5, <2>6 DEF HoldersExact, LockInv, Locks
  <2> QED
    BY <2>2, <2>7, <2>8 DEF LockInv, Countable
<1>4. CASE op[p].f \in {"rlock", "tryRLock"}
  <2>1. l \in RWMutexes /\ l \in Locks
    BY <1>0, <1>4, OpFacts DEF RWHeads, Locks
  <2>2. /\ rw' = [rw EXCEPT ![l].readers = @ + 1]
        /\ holdR' = [holdR EXCEPT ![l] = @ \cup {s}]
        /\ locked' = locked /\ holdW' = holdW
    BY <1>0, <1>1, <1>4 DEF Acquire, GrantR
  <2>3. ~rw[l].writer
    BY <1>0, <1>4 DEF Admits, TryAdmits
  <2>4. holdW[l] = {}
    BY <2>1, <2>3 DEF LockInv, HoldersExact
  <2>5. s \notin holdR[l]
    BY <1>1, <1>4, <2>1 DEF Fresh, ReadHeads, Stamp
  <2>6. /\ rw'[l].readers = rw[l].readers + 1
        /\ rw'[l].writer = rw[l].writer
        /\ \A k \in RWMutexes \ {l} : rw'[k] = rw[k]
    BY <2>1, <2>2, ReadersUpdate
  <2>7. /\ holdR'[l] = holdR[l] \cup {s}
        /\ \A k \in RWMutexes \ {l} : holdR'[k] = holdR[k]
    BY <2>1, <2>2 DEF TypeOK
  <2>8. IsFiniteSet(holdR'[l]) /\ Cardinality(holdR'[l]) = Cardinality(holdR[l]) + 1
    BY <2>1, <2>5, <2>7, FS_AddElement DEF LockInv, Countable
  <2>9. MutualExclusion'
    BY <2>1, <2>2, <2>4, <2>7 DEF MutualExclusion, LockInv
  <2>10. HoldersExact'
    BY <2>1, <2>2, <2>6, <2>7, <2>8 DEF HoldersExact, LockInv
  <2>11. Countable'
    BY <2>1, <2>7, <2>8 DEF LockInv, Countable
  <2> QED
    BY <2>9, <2>10, <2>11 DEF LockInv
<1> QED
  BY <1>2, <1>3, <1>4 DEF Acquire

\* A release of an acquisition keeps the locks exclusive and counted.
LEMMA ReleaseKeeps ==
  ASSUME TypeOK, LockInv, NEW p \in Procs, Unlock(p) \/ RUnlock(p)
  PROVE  LockInv' /\ \A l \in RWMutexes : holdR'[l] \subseteq holdR[l]
<1>0. PICK l : l = op[p].loc
  OBVIOUS
<1>1. CASE Fatal
  BY <1>1 DEF Fatal, lockVars, LockInv, MutualExclusion, HoldersExact, Countable
<1>2. CASE Unlock(p) /\ ~Fatal
  <2>1. PICK t \in Returnable(p, holdW[l]) : holdW' = [holdW EXCEPT ![l] = @ \ {t}]
    BY <1>0, <1>2 DEF Unlock
  <2>2. holdR' = holdR
    BY <1>2 DEF Unlock
  <2>3. t \in holdW[l]
    BY <2>1 DEF Returnable
  <2>4. l \in Locks
    BY <1>0, <1>2, OpFacts DEF Unlock, Applying, RWHeads, MutexHeads, Locks
  <2>5. /\ holdW'[l] = {}
        /\ \A k \in Locks \ {l} : holdW'[k] = holdW[k]
    BY <2>1, <2>3, <2>4 DEF TypeOK, LockInv, MutualExclusion
  <2>6. CASE op[p].f = "unlock"
    <3>1. l \in Mutexes /\ l \notin RWMutexes
      BY <1>0, <2>6, OpFacts, LocksAssumption DEF MutexHeads
    <3>2. locked' = [locked EXCEPT ![l] = FALSE] /\ rw' = rw
      BY <1>0, <1>2, <2>6 DEF Unlock
    <3>3. HoldersExact'
      BY <2>2, <2>5, <3>1, <3>2 DEF HoldersExact, LockInv, TypeOK, Locks
    <3> QED
      BY <2>2, <2>5, <3>3 DEF LockInv, MutualExclusion, Countable, Locks
  <2>7. CASE op[p].f = "wunlock"
    <3>1. l \in RWMutexes /\ l \notin Mutexes
      BY <1>0, <2>7, OpFacts, LocksAssumption DEF RWHeads
    <3>2. rw' = [rw EXCEPT ![l].writer = FALSE] /\ locked' = locked
      BY <1>0, <1>2, <2>7 DEF Unlock
    <3>3. /\ ~rw'[l].writer
          /\ rw'[l].readers = rw[l].readers
          /\ \A k \in RWMutexes \ {l} : rw'[k] = rw[k]
      BY <3>1, <3>2, WriterUpdate
    <3>4. HoldersExact'
      BY <2>2, <2>5, <3>1, <3>2, <3>3 DEF HoldersExact, LockInv, Locks
    <3> QED
      BY <2>2, <2>5, <3>4 DEF LockInv, MutualExclusion, Countable, Locks
  <2> QED
    BY <1>2, <2>6, <2>7 DEF Unlock, Applying
<1>3. CASE RUnlock(p) /\ ~Fatal
  <2>1. /\ rw[l].readers > 0
        /\ rw' = [rw EXCEPT ![l].readers = @ - 1]
        /\ locked' = locked /\ holdW' = holdW
    BY <1>0, <1>3 DEF RUnlock
  <2>2. PICK t \in Returnable(p, holdR[l]) : holdR' = [holdR EXCEPT ![l] = @ \ {t}]
    BY <1>0, <1>3 DEF RUnlock
  <2>3. t \in holdR[l]
    BY <2>2 DEF Returnable
  <2>4. l \in RWMutexes
    BY <1>0, <1>3, OpFacts DEF RUnlock, Applying, RWHeads
  <2>5. /\ rw'[l].readers = rw[l].readers - 1
        /\ rw'[l].writer = rw[l].writer
        /\ \A k \in RWMutexes \ {l} : rw'[k] = rw[k]
    BY <2>1, <2>4, ReadersDown
  <2>6. /\ holdR'[l] = holdR[l] \ {t}
        /\ \A k \in RWMutexes \ {l} : holdR'[k] = holdR[k]
    BY <2>2, <2>4 DEF TypeOK
  <2>7. IsFiniteSet(holdR'[l]) /\ Cardinality(holdR'[l]) = Cardinality(holdR[l]) - 1
    BY <2>3, <2>4, <2>6, FS_RemoveElement DEF LockInv, Countable
  <2>8. MutualExclusion'
    BY <2>1, <2>6 DEF MutualExclusion, LockInv
  <2>9. HoldersExact'
    BY <2>1, <2>4, <2>5, <2>6, <2>7 DEF HoldersExact, LockInv
  <2>10. Countable'
    BY <2>4, <2>6, <2>7 DEF LockInv, Countable
  <2> QED
    BY <2>6, <2>8, <2>9, <2>10 DEF LockInv
<1> QED
  BY <1>1, <1>2, <1>3

\* A step that leaves holders, bits and reader counts alone keeps the locks.
LEMMA QuietLocks ==
  ASSUME LockInv, UNCHANGED <<locked, holdW, holdR>>,
         \A l \in RWMutexes : rw'[l].writer = rw[l].writer /\ rw'[l].readers = rw[l].readers
  PROVE  LockInv'
BY DEF LockInv, MutualExclusion, HoldersExact, Countable

\* A parking writer touches only its registration.
LEMMA ParkLocks ==
  ASSUME TypeOK, NEW p \in Procs, LockPark(p)
  PROVE  \A l \in RWMutexes : rw'[l].writer = rw[l].writer /\ rw'[l].readers = rw[l].readers
<1>0. PICK l : l = op[p].loc
  OBVIOUS
<1>1. CASE op[p].f = "wlock"
  <2>1. l \in RWMutexes
    BY <1>0, <1>1, OpFacts DEF RWHeads
  <2>2. rw' = [rw EXCEPT ![l].pendingW = @ + 1]
    BY <1>0, <1>1 DEF LockPark
  <2> QED
    BY <2>1, <2>2, PendingUpdate
<1>2. CASE op[p].f # "wlock"
  BY <1>2 DEF LockPark
<1> QED
  BY <1>1, <1>2

\* Every step of a goroutine keeps the locks and their tokens.
LEMMA LockInvStep ==
  ASSUME TypeOK, TypeOK', LockInv, Fresh, NEW p \in Procs, OpStep(p) \/ Local(p)
  PROVE  LockInv' /\ Fresh'
<1>0. left[p] \in Nat /\ NoOp.f \notin ReadHeads
  BY DEF TypeOK, SchedTypeOK, NoOp, ReadHeads
<1>1. CASE Lock(p) \/ LockWake(p) \/ TryLock(p)
  <2>1. op'[p] = NoOp /\ left' = left
    BY <1>1 DEF Lock, LockWake, TryLock, Finish, TypeOK
  <2>2. CASE UNCHANGED lockVars
    BY <1>0, <2>1, <2>2, QuietLocks, FreshStep DEF lockVars
  <2>3. CASE ~UNCHANGED lockVars
    <3>1. Admits(op[p]) \/ TryAdmits(op[p])
      BY <1>1, <2>3, WokenAdmits DEF Lock, LockWake, TryLock
    <3>2. PICK n \in {0, 1} : Acquire(p, n)
      BY <1>1, <2>3 DEF Lock, LockWake, TryLock
    <3>3. LockInv'
      BY <3>1, <3>2, AcquireKeeps
    <3>4. \A l \in RWMutexes : holdR'[l] \subseteq holdR[l] \cup {Stamp(p)}
      BY <3>2 DEF Acquire, GrantR, TypeOK
    <3> QED
      BY <1>0, <2>1, <3>3, <3>4, FreshStep
  <2> QED
    BY <2>2, <2>3
<1>2. CASE Unlock(p) \/ RUnlock(p)
  <2>1. LockInv' /\ \A l \in RWMutexes : holdR'[l] \subseteq holdR[l]
    BY <1>2, ReleaseKeeps
  <2>2. left' = left
    BY <1>2 DEF Unlock, RUnlock, Fatal, Stopped, Finish
  <2>3. op'[p] = NoOp \/ (op' = op /\ holdR' = holdR)
    BY <1>2 DEF Unlock, RUnlock, Fatal, Finish, TypeOK, lockVars
  <2> QED
    BY <1>0, <2>1, <2>2, <2>3, FreshStep
<1>3. CASE LockPark(p)
  <2>1. LockInv'
    BY <1>3, ParkLocks, QuietLocks DEF LockPark
  <2>2. UNCHANGED <<op, left, holdR>>
    BY <1>3 DEF LockPark
  <2> QED
    BY <1>0, <2>1, <2>2, FreshStep
<1>4. CASE /\ UNCHANGED lockVars
           /\ left'[p] <= left[p]
           /\ op'[p].f \notin ReadHeads \/ left'[p] < left[p] \/ op'[p] = op[p]
  <2>1. LockInv'
    BY <1>4, QuietLocks DEF lockVars
  <2> QED
    BY <1>4, <2>1, FreshStep DEF lockVars
<1>5. ASSUME NEW o \in Ops, Issue(p, o) PROVE LockInv' /\ Fresh'
  <2>1. UNCHANGED lockVars /\ left'[p] < left[p] /\ left'[p] <= left[p]
    BY <1>0, <1>5 DEF Issue, TypeOK, SchedTypeOK
  <2> QED
    BY <1>4, <2>1
<1>6. CASE IssueComplete(p)
  <2>1. UNCHANGED lockVars /\ left'[p] <= left[p] /\ op'[p].f \notin ReadHeads
    BY <1>0, <1>6 DEF IssueComplete, TypeOK, ReadHeads
  <2> QED
    BY <1>4, <2>1
<1>7. CASE WgAdd(p) \/ WgWait(p) \/ WgPark(p) \/ WgWake(p)
  <2>1. UNCHANGED lockVars /\ left' = left /\ (op'[p] = NoOp \/ op' = op)
    BY <1>7 DEF WgAdd, WgWait, WgPark, WgWake, Finish, TypeOK
  <2> QED
    BY <1>0, <1>4, <2>1
<1>8. CASE OnceBegin(p) \/ OncePark(p) \/ OnceWake(p) \/ OnceComplete(p)
  <2>1. UNCHANGED lockVars /\ left' = left /\ (op'[p] = NoOp \/ op' = op)
    BY <1>8 DEF OnceBegin, OncePark, OnceWake, OnceComplete, Finish, Stopped, TypeOK
  <2> QED
    BY <1>0, <1>4, <2>1
<1>9. CASE Spawn(p)
  <2>1. UNCHANGED lockVars /\ left' = left /\ op'[p] = NoOp
    BY <1>9 DEF Spawn, TypeOK
  <2> QED
    BY <1>0, <1>4, <2>1
<1>10. CASE Local(p)
  <2>1. UNCHANGED lockVars /\ op' = op
    BY <1>10 DEF Local
  <2>2. left'[p] <= left[p]
    BY <1>0, <1>10 DEF Local, LocalStep, OpDoneStrip, ReachEdge, PassEdge, Return, Raise,
                       Recover, Abort, TypeOK, SchedTypeOK
  <2> QED
    BY <1>4, <2>1, <2>2
<1> QED
  BY <1>1, <1>2, <1>3, <1>5, <1>6, <1>7, <1>8, <1>9, <1>10 DEF OpStep

\* The locks' invariant along every run.
LEMMA LockInvCorrect == Spec => [](LockInv /\ Fresh)
<1>1. Init => LockInv /\ Fresh
  BY FS_EmptySet
  DEF Init, LockInv, Fresh, MutualExclusion, HoldersExact, Countable, Locks
<1>2. TypeOK /\ TypeOK' /\ LockInv /\ Fresh /\ [Next]_vars => LockInv' /\ Fresh'
  <2> SUFFICES ASSUME TypeOK, TypeOK', LockInv, Fresh, [Next]_vars PROVE LockInv' /\ Fresh'
    OBVIOUS
  <2>1. ASSUME NEW p \in Procs, OpStep(p) \/ Local(p) PROVE LockInv' /\ Fresh'
    BY <2>1, LockInvStep
  <2>2. CASE End \/ Stutter \/ UNCHANGED vars
    <3>1. UNCHANGED <<op, left>> /\ UNCHANGED <<locked, rw, holdW, holdR>>
      BY <2>2 DEF End, EndStep, Stutter, Ended, vars, schedVars, lockVars
    <3> QED
      BY <3>1, QuietLocks DEF Fresh
  <2> QED
    BY <2>1, <2>2 DEF Next
<1> QED
  BY <1>1, <1>2, TypeCorrect, PTL DEF Spec

\* A lock is never held by two writers, nor by a writer and a reader, for any
\* number of goroutines, locks and operations.
THEOREM MutualExclusionCorrect == Spec => []MutualExclusion
<1>1. LockInv => MutualExclusion
  BY DEF LockInv
<1> QED
  BY <1>1, LockInvCorrect, PTL

\* What a lock's cell says and who holds it agree in every state.
THEOREM HoldersExactCorrect == Spec => []HoldersExact
<1>1. LockInv => HoldersExact
  BY DEF LockInv
<1> QED
  BY <1>1, LockInvCorrect, PTL

-----------------------------------------------------------------------------
(* The counts of parked goroutines. *)

ParkedSet(h, l) == {q \in Procs : Parked(q, h, l)}

\* A step of p adds p to the goroutines parked in an operation, removes it, or
\* leaves them as they are.
LEMMA ParkedStep ==
  ASSUME TypeOK, NEW p \in Procs, OpStep(p) \/ Local(p), NEW h, NEW l
  PROVE  /\ IsFiniteSet(ParkedSet(h, l))
         /\ Cardinality(ParkedSet(h, l)) \in Nat
         /\ Parked(p, h, l)' <=> Parked(p, h, l)
              => Cardinality(ParkedSet(h, l))' = Cardinality(ParkedSet(h, l))
         /\ Parked(p, h, l)' /\ ~Parked(p, h, l)
              => Cardinality(ParkedSet(h, l))' = Cardinality(ParkedSet(h, l)) + 1
         /\ ~Parked(p, h, l)' /\ Parked(p, h, l)
              => Cardinality(ParkedSet(h, l))' = Cardinality(ParkedSet(h, l)) - 1
         /\ Cardinality(ParkedSet(h, l))' \in Nat
<1>1. \A q \in Procs \ {p} : Parked(q, h, l)' <=> Parked(q, h, l)
  BY OthersStay DEF Parked
<1>2. PICK S : S = ParkedSet(h, l)
  OBVIOUS
<1>3. PICK T : T = ParkedSet(h, l)'
  OBVIOUS
<1>4. S \subseteq Procs /\ T \subseteq Procs
  BY <1>2, <1>3 DEF ParkedSet
<1>5. /\ IsFiniteSet(S) /\ IsFiniteSet(T)
      /\ Cardinality(S) \in Nat /\ Cardinality(T) \in Nat
  BY <1>4, ProcsAssumption, FS_Subset, FS_CardinalityType
<1>6. (Parked(p, h, l)' <=> Parked(p, h, l)) => T = S
  BY <1>1, <1>2, <1>3 DEF ParkedSet
<1>7. ASSUME Parked(p, h, l)', ~Parked(p, h, l)
      PROVE  Cardinality(T) = Cardinality(S) + 1
  <2>1. T = S \cup {p} /\ p \notin S
    BY <1>1, <1>2, <1>3, <1>7 DEF ParkedSet
  <2> QED
    BY <1>5, <2>1, FS_AddElement
<1>8. ASSUME ~Parked(p, h, l)', Parked(p, h, l)
      PROVE  Cardinality(T) = Cardinality(S) - 1
  <2>1. T = S \ {p} /\ p \in S
    BY <1>1, <1>2, <1>3, <1>8 DEF ParkedSet
  <2> QED
    BY <1>5, <2>1, FS_RemoveElement
<1> QED
  BY <1>2, <1>3, <1>5, <1>6, <1>7, <1>8

\* Only four actions park a goroutine in, or wake it from, a writer's Lock or
\* a Wait.
LEMMA ParkSites ==
  ASSUME TypeOK, NEW p \in Procs, OpStep(p) \/ Local(p), NEW l
  PROVE  /\ \/ Parked(p, "wlock", l)' <=> Parked(p, "wlock", l)
            \/ LockPark(p) \/ LockWake(p)
         /\ \/ Parked(p, "wgWait", l)' <=> Parked(p, "wgWait", l)
            \/ WgPark(p) \/ WgWake(p)
<1> DEFINE Idle == pc[p] # "blocked" /\ pc'[p] # "blocked"
           Same == pc'[p] = pc[p] /\ op'[p] = op[p]
<1> USE DEF Parked
<1>1. ASSUME NEW o \in Ops, Issue(p, o) PROVE Idle
  BY <1>1 DEF Issue, PickedAt, Goto, TypeOK, SchedTypeOK
<1>2. CASE IssueComplete(p)
  <2>1. Idle
    BY <1>2 DEF IssueComplete, PickedAt, Goto, TypeOK, SchedTypeOK
  <2> QED
    BY <2>1
<1>3. CASE Lock(p) \/ TryLock(p) \/ WgWait(p) \/ OnceBegin(p)
  <2>1. Idle
    BY <1>3 DEF Lock, TryLock, WgWait, OnceBegin, Applying, PickedAt, Finish, Completed, TypeOK, SchedTypeOK
  <2> QED
    BY <2>1
<1>4. CASE Unlock(p) \/ RUnlock(p)
  <2>1. pc[p] = "apply" /\ (pc' = pc \/ Completed(p))
    BY <1>4 DEF Unlock, RUnlock, Applying, PickedAt, Finish, Fatal, Stopped
  <2>2. Idle
    BY <2>1 DEF Completed, TypeOK, SchedTypeOK
  <2> QED
    BY <2>2
<1>5. CASE LockPark(p) \/ LockWake(p)
  <2>1. op[p].f # "wgWait" /\ (op'[p] = op[p] \/ op'[p] = NoOp)
    BY <1>5 DEF LockPark, LockWake, Applying, LockHeads, Finish, TypeOK
  <2> QED
    BY <1>5, <2>1 DEF NoOp
<1>6. CASE WgPark(p) \/ WgWake(p)
  <2>1. op[p].f = "wgWait" /\ (op'[p] = op[p] \/ op'[p] = NoOp)
    BY <1>6 DEF WgPark, WgWake, Applying, Finish, TypeOK
  <2> QED
    BY <1>6, <2>1 DEF NoOp
<1>7. CASE OncePark(p) \/ OnceWake(p)
  <2>1. op[p].f = "onceBegin" /\ (op'[p] = op[p] \/ op'[p] = NoOp)
    BY <1>7 DEF OncePark, OnceWake, Applying, Finish, TypeOK
  <2> QED
    BY <2>1 DEF NoOp
<1>8. CASE WgAdd(p) \/ OnceComplete(p)
  <2>1. Idle
    BY <1>8 DEF WgAdd, OnceComplete, Applying, PickedAt, Finish, Completed, Goto, Stopped, TypeOK, SchedTypeOK
  <2> QED
    BY <2>1
<1>9. CASE Spawn(p)
  <2>1. Idle
    BY <1>9 DEF Spawn, Unborn, Applying, PickedAt, TypeOK, SchedTypeOK
  <2> QED
    BY <2>1
<1>10. CASE Local(p)
  <2>1. Idle \/ Same
    BY <1>10 DEF Local, LocalStep, OpDoneStrip, ReachEdge, PassEdge, Return, Raise, Recover,
                 Abort, PickedAt, Goto, TypeOK, SchedTypeOK
  <2> QED
    BY <2>1
<1> QED
  BY <1>1, <1>2, <1>3, <1>4, <1>5, <1>6, <1>7, <1>8, <1>9, <1>10 DEF OpStep

\* Only parking and waking writers touch the registrations.
LEMMA PendingKept ==
  ASSUME TypeOK, NEW p \in Procs, OpStep(p) \/ Local(p), NEW l \in RWMutexes,
         ~LockPark(p), ~LockWake(p)
  PROVE  rw'[l].pendingW = rw[l].pendingW
<1>0. PICK k : k = op[p].loc
  OBVIOUS
<1>1. CASE UNCHANGED rw
  BY <1>1
<1>2. CASE Acquire(p, 0) /\ ~UNCHANGED rw
  <2>1. k \in RWMutexes
    BY <1>0, <1>2, OpFacts DEF Acquire, RWHeads
  <2>2. CASE op[p].f \in {"wlock", "tryWLock"}
    <3>1. rw[k].pendingW \in Nat
      BY <2>1 DEF TypeOK
    <3>2. PICK c : c.pendingW = Monus(rw[k].pendingW, 0) /\ rw' = [rw EXCEPT ![k] = c]
      BY <1>0, <1>2, <2>2 DEF Acquire
    <3>3. c.pendingW = rw[k].pendingW
      BY <3>1, <3>2 DEF Monus
    <3> QED
      BY <2>1, <3>2, <3>3 DEF TypeOK
  <2>3. CASE op[p].f \in {"rlock", "tryRLock"}
    <3>1. rw' = [rw EXCEPT ![k].readers = @ + 1]
      BY <1>0, <1>2, <2>3 DEF Acquire
    <3> QED
      BY <2>1, <3>1, ReadersUpdate
  <2> QED
    BY <1>2, <2>2, <2>3 DEF Acquire
<1>3. CASE Unlock(p) /\ ~UNCHANGED rw
  <2>1. op[p].f = "wunlock" /\ rw' = [rw EXCEPT ![k].writer = FALSE]
    BY <1>0, <1>3 DEF Unlock, Fatal, lockVars
  <2>2. k \in RWMutexes
    BY <1>0, <2>1, OpFacts DEF RWHeads
  <2> QED
    BY <2>1, <2>2, WriterUpdate
<1>4. CASE RUnlock(p) /\ ~UNCHANGED rw
  <2>1. op[p].f = "runlock" /\ rw[k].readers > 0 /\ rw' = [rw EXCEPT ![k].readers = @ - 1]
    BY <1>0, <1>4 DEF RUnlock, Applying, Fatal, lockVars
  <2>2. k \in RWMutexes
    BY <1>0, <2>1, OpFacts DEF RWHeads
  <2> QED
    BY <2>1, <2>2, ReadersDown
<1>5. UNCHANGED rw \/ Acquire(p, 0) \/ Unlock(p) \/ RUnlock(p)
  BY DEF OpStep, Issue, IssueComplete, Lock, TryLock, WgAdd, WgWait, WgPark, WgWake,
         OnceBegin, OncePark, OnceWake, OnceComplete, Spawn, Local, lockVars
<1> QED
  BY <1>1, <1>2, <1>3, <1>4, <1>5

\* Every step of a goroutine keeps the count of parked writers.
LEMMA PendingStep ==
  ASSUME TypeOK, PendingExact, NEW p \in Procs, OpStep(p) \/ Local(p), NEW l \in RWMutexes
  PROVE  rw'[l].pendingW = Cardinality(ParkedSet("wlock", l))'
<1>0. PICK k : k = op[p].loc
  OBVIOUS
<1>1. rw[l].pendingW = Cardinality(ParkedSet("wlock", l)) /\ rw[l].pendingW \in Nat
  BY DEF PendingExact, ParkedSet, TypeOK
<1>2. CASE ~LockPark(p) /\ ~LockWake(p)
  BY <1>1, <1>2, PendingKept, ParkSites, ParkedStep
<1>3. CASE LockPark(p)
  <2>1. pc[p] = "apply" /\ pc'[p] = "blocked" /\ op'[p] = op[p]
    BY <1>3 DEF LockPark, Applying, PickedAt, Goto, TypeOK, SchedTypeOK
  <2>2. CASE op[p].f = "wlock" /\ k = l
    <3>1. rw'[l].pendingW = rw[l].pendingW + 1
      BY <1>0, <1>3, <2>2, PendingUpdate DEF LockPark
    <3>2. Parked(p, "wlock", l)' /\ ~Parked(p, "wlock", l)
      BY <1>0, <2>1, <2>2 DEF Parked
    <3> QED
      BY <1>1, <3>1, <3>2, ParkedStep
  <2>3. CASE ~(op[p].f = "wlock" /\ k = l)
    <3>1. rw'[l] = rw[l]
      BY <1>0, <1>3, <2>3 DEF LockPark, TypeOK
    <3>2. ~Parked(p, "wlock", l)' /\ ~Parked(p, "wlock", l)
      BY <1>0, <2>1, <2>3 DEF Parked
    <3> QED
      BY <1>1, <3>1, <3>2, ParkedStep
  <2> QED
    BY <2>2, <2>3
<1>4. CASE LockWake(p)
  <2>1. pc[p] = "blocked" /\ pc'[p] = "priv" /\ Acquire(p, 1) /\ op[p].f \in LockHeads
    BY <1>4 DEF LockWake, PickedAt, Finish, Completed, TypeOK, SchedTypeOK
  <2>2. CASE op[p].f = "wlock" /\ k = l
    <3>1. Parked(p, "wlock", l) /\ ~Parked(p, "wlock", l)'
      BY <1>0, <2>1, <2>2 DEF Parked
    <3>2. /\ Cardinality(ParkedSet("wlock", l))' = rw[l].pendingW - 1
          /\ Cardinality(ParkedSet("wlock", l))' \in Nat
      BY <1>1, <3>1, ParkedStep
    <3>3. rw'[l].pendingW = Monus(rw[l].pendingW, 1)
      BY <1>0, <2>1, <2>2 DEF Acquire, TypeOK
    <3> QED
      BY <1>1, <3>2, <3>3 DEF Monus
  <2>3. CASE ~(op[p].f = "wlock" /\ k = l)
    <3>1. rw'[l].pendingW = rw[l].pendingW
      <4>1. CASE op[p].f = "lock"
        BY <2>1, <4>1 DEF Acquire
      <4>2. CASE op[p].f = "rlock"
        <5>1. k \in RWMutexes /\ rw' = [rw EXCEPT ![k].readers = @ + 1]
          BY <1>0, <2>1, <4>2, OpFacts DEF Acquire, RWHeads
        <5> QED
          BY <5>1, ReadersUpdate
      <4>3. CASE op[p].f = "wlock"
        BY <1>0, <2>1, <2>3, <4>3 DEF Acquire, TypeOK
      <4> QED
        BY <2>1, <4>1, <4>2, <4>3 DEF LockHeads
    <3>2. ~Parked(p, "wlock", l)' /\ ~Parked(p, "wlock", l)
      BY <1>0, <2>1, <2>3 DEF Parked
    <3> QED
      BY <1>1, <3>1, <3>2, ParkedStep
  <2> QED
    BY <2>2, <2>3
<1> QED
  BY <1>2, <1>3, <1>4

\* The registrations of an RWMutex are exactly its parked writers, for any
\* number of goroutines: none is left behind to keep readers out for ever.
THEOREM PendingExactCorrect == Spec => []PendingExact
<1>1. Init => PendingExact
  <2> SUFFICES ASSUME Init PROVE PendingExact
    OBVIOUS
  <2>1. ASSUME NEW l \in RWMutexes PROVE {p \in Procs : Parked(p, "wlock", l)} = {}
    BY DEF Init, SchedInit, Parked
  <2> QED
    BY <2>1, FS_EmptySet DEF Init, PendingExact
<1>2. TypeOK /\ PendingExact /\ [Next]_vars => PendingExact'
  <2> SUFFICES ASSUME TypeOK, PendingExact, [Next]_vars PROVE PendingExact'
    OBVIOUS
  <2>1. ASSUME NEW p \in Procs, OpStep(p) \/ Local(p) PROVE PendingExact'
    BY <2>1, PendingStep DEF PendingExact, ParkedSet
  <2>2. CASE End \/ Stutter \/ UNCHANGED vars
    <3>1. UNCHANGED <<op, pc, rw>>
      BY <2>2 DEF End, EndStep, Stutter, Ended, vars, schedVars, lockVars
    <3> QED
      BY <3>1 DEF PendingExact, Parked
  <2> QED
    BY <2>1, <2>2 DEF Next
<1> QED
  BY <1>1, <1>2, TypeCorrect, PTL DEF Spec

\* An RLock that gets in found no writer parked: the reader's condition and
\* the exactness of the registrations, for any number of goroutines.
THEOREM WriterNotOvertakenCorrect == Spec => WriterNotOvertaken
<1> DEFINE Overtakes(p, l) ==
      /\ op[p].f = "rlock" /\ Stamp(p) \in holdR'[l] \ holdR[l]
      /\ \E q \in Procs : Parked(q, "wlock", l)
<1>1. TypeOK /\ PendingExact /\ [Next]_vars =>
        [\A p \in Procs, l \in RWMutexes : ~Overtakes(p, l)]_vars
  <2> SUFFICES ASSUME TypeOK, PendingExact, Next, NEW p \in Procs, NEW l \in RWMutexes,
                      op[p].f = "rlock", Stamp(p) \in holdR'[l] \ holdR[l],
                      NEW q \in Procs, Parked(q, "wlock", l)
               PROVE  FALSE
    BY DEF vars
  <2>1. PICK p0 \in Procs : OpStep(p0) \/ Local(p0)
    BY DEF Next, End, Stutter, lockVars
  <2>2. ~RUnlock(p0)
    BY DEF RUnlock, Fatal, lockVars, TypeOK
  <2>3. Lock(p0) \/ LockWake(p0) \/ TryLock(p0)
    BY <2>1, <2>2
    DEF OpStep, Issue, IssueComplete, LockPark, Unlock, Fatal, WgAdd, WgWait, WgPark, WgWake,
        OnceBegin, OncePark, OnceWake, OnceComplete, Spawn, Local, lockVars
  <2>4. PICK n \in {0, 1} : Acquire(p0, n)
    BY <2>3 DEF Lock, LockWake, TryLock, lockVars
  <2>5. holdR' = [holdR EXCEPT ![op[p0].loc] = @ \cup {Stamp(p0)}]
    BY <2>4 DEF Acquire, GrantR
  <2>6. l = op[p0].loc /\ Stamp(p) = Stamp(p0)
    BY <2>5 DEF TypeOK
  <2>7. p0 = p
    BY <2>6 DEF Stamp
  <2>8. Admits(op[p])
    BY <2>3, <2>7, WokenAdmits DEF Lock, LockWake, TryLock, Applying
  <2>9. rw[l].pendingW = 0
    BY <2>6, <2>7, <2>8 DEF Admits
  <2>10. PICK S : S = {r \in Procs : Parked(r, "wlock", l)}
    OBVIOUS
  <2>11. IsFiniteSet(S) /\ Cardinality(S) = 0
    BY <2>9, <2>10, ProcsAssumption, FS_Subset DEF PendingExact
  <2>12. S = {}
    BY <2>11, FS_EmptySet
  <2> QED
    BY <2>10, <2>12
<1>2. [\A p \in Procs, l \in RWMutexes : ~Overtakes(p, l)]_vars =>
        [\A p \in Procs, l \in RWMutexes :
           op[p].f = "rlock" /\ Stamp(p) \in holdR'[l] \ holdR[l]
             => ~\E q \in Procs : Parked(q, "wlock", l)]_vars
  OBVIOUS
<1> QED
  BY <1>1, <1>2, TypeCorrect, PendingExactCorrect, PTL DEF Spec, WriterNotOvertaken

\* Every step of a goroutine keeps the wait count within the parked waiters
\* and at zero with the counter.
LEMMA WaitersStep ==
  ASSUME TypeOK, NoAddMisuse, NEW p \in Procs, OpStep(p) \/ Local(p), NEW g \in WaitGroups
  PROVE  /\ wg'[g].counter = 0 => wg'[g].waiters = 0
         /\ wg'[g].waiters <= Cardinality(ParkedSet("wgWait", g))'
<1>0. PICK k : k = op[p].loc
  OBVIOUS
<1>1. /\ wg[g].waiters \in Nat
      /\ wg[g].counter = 0 => wg[g].waiters = 0
      /\ wg[g].waiters <= Cardinality(ParkedSet("wgWait", g))
      /\ Cardinality(ParkedSet("wgWait", g)) \in Nat
      /\ Cardinality(ParkedSet("wgWait", g))' \in Nat
  <2>1. /\ wg[g].counter = 0 => wg[g].waiters = 0
        /\ wg[g].waiters <= Cardinality(ParkedSet("wgWait", g))
    BY DEF NoAddMisuse, ParkedSet
  <2>2. wg[g].waiters \in Nat
    BY DEF TypeOK
  <2> QED
    BY <2>1, <2>2, ParkedStep
<1>2. CASE wg'[g] = wg[g] /\ ~WgPark(p) /\ ~WgWake(p)
  BY <1>1, <1>2, ParkSites, ParkedStep
<1>3. CASE WgAdd(p)
  <2>1. k \in WaitGroups
    BY <1>0, <1>3, OpFacts DEF WgAdd, Applying
  <2>2. PICK c : AddTo(p, k, c)
    BY <1>0, <1>3 DEF WgAdd
  <2>3. ~WgPark(p) /\ ~WgWake(p)
    BY <1>3 DEF WgAdd, WgPark, WgWake, Applying
  <2>4. CASE k # g
    BY <1>2, <2>1, <2>2, <2>3, <2>4 DEF AddTo, TypeOK
  <2>5. CASE k = g
    <3>1. wg'[g].counter = c /\ wg'[g].waiters = IF c = 0 THEN 0 ELSE wg[g].waiters
      BY <2>1, <2>2, <2>5 DEF AddTo, TypeOK
    <3>2. Cardinality(ParkedSet("wgWait", g))' = Cardinality(ParkedSet("wgWait", g))
      BY <2>3, ParkSites, ParkedStep
    <3> QED
      BY <1>1, <3>1, <3>2
  <2> QED
    BY <2>4, <2>5
<1>4. CASE WgPark(p)
  <2>1. /\ pc[p] = "apply" /\ pc'[p] = "blocked" /\ op'[p] = op[p]
        /\ op[p].f = "wgWait" /\ ~Admits(op[p])
    BY <1>4 DEF WgPark, Applying, PickedAt, Goto, TypeOK, SchedTypeOK
  <2>2. k \in WaitGroups /\ wg[k].counter # 0 /\ wg[k].waiters + 1 \in Nat
    BY <1>0, <2>1, OpFacts DEF Admits, TypeOK
  <2>3. wg' = [wg EXCEPT ![k].waiters = wg[k].waiters + 1]
    BY <1>0, <1>4 DEF WgPark
  <2>4. CASE k = g
    <3>1. Parked(p, "wgWait", g)' /\ ~Parked(p, "wgWait", g)
      BY <1>0, <2>1, <2>4 DEF Parked
    <3>2. wg'[g].waiters = wg[g].waiters + 1 /\ wg'[g].counter = wg[g].counter
      BY <2>2, <2>3, <2>4, WaitersUpdate
    <3> QED
      BY <1>1, <2>2, <2>4, <3>1, <3>2, ParkedStep
  <2>5. CASE k # g
    <3>1. ~Parked(p, "wgWait", g)' /\ ~Parked(p, "wgWait", g)
      BY <1>0, <2>1, <2>5 DEF Parked
    <3>2. wg'[g] = wg[g]
      BY <2>2, <2>3, <2>5, WaitersUpdate
    <3> QED
      BY <1>1, <3>1, <3>2, ParkedStep
  <2> QED
    BY <2>4, <2>5
<1>5. CASE WgWake(p)
  <2>1. /\ pc[p] = "blocked" /\ pc'[p] = "priv" /\ op[p].f = "wgWait" /\ Admits(op[p])
    BY <1>5, WokenAdmits DEF WgWake, PickedAt, Finish, Completed, TypeOK, SchedTypeOK
  <2>2. k \in WaitGroups /\ wg[k].counter = 0 /\ wg[k].waiters = 0
    BY <1>0, <2>1, OpFacts DEF Admits, NoAddMisuse
  <2>3. wg' = [wg EXCEPT ![k].waiters = 0]
    <3>1. Monus(0, 1) = 0
      BY DEF Monus
    <3> QED
      BY <1>0, <1>5, <2>2, <3>1 DEF WgWake
  <2>4. CASE k = g
    BY <1>1, <2>2, <2>3, <2>4, WaitersUpdate
  <2>5. CASE k # g
    <3>1. ~Parked(p, "wgWait", g)' /\ ~Parked(p, "wgWait", g)
      BY <1>0, <2>1, <2>5 DEF Parked
    <3>2. wg'[g] = wg[g]
      BY <2>2, <2>3, <2>5, WaitersUpdate
    <3> QED
      BY <1>1, <3>1, <3>2, ParkedStep
  <2> QED
    BY <2>4, <2>5
<1>6. UNCHANGED wg \/ WgAdd(p) \/ WgPark(p) \/ WgWake(p)
  BY DEF OpStep, Issue, IssueComplete, Lock, LockPark, LockWake, TryLock, Unlock, RUnlock,
         WgWait, OnceBegin, OncePark, OnceWake, OnceComplete, Spawn, Local
<1> QED
  BY <1>2, <1>3, <1>4, <1>5, <1>6

\* The state in which Go reports WaitGroup misuse is unreachable, for any
\* number of goroutines and any counter width.
THEOREM NoAddMisuseCorrect == Spec => []NoAddMisuse
<1>1. Init => NoAddMisuse
  <2> SUFFICES ASSUME Init, NEW g \in WaitGroups
               PROVE  /\ wg[g].counter = 0 => wg[g].waiters = 0
                      /\ wg[g].waiters <= Cardinality({p \in Procs : Parked(p, "wgWait", g)})
    BY DEF NoAddMisuse
  <2>1. {p \in Procs : Parked(p, "wgWait", g)} = {}
    BY DEF Init, SchedInit, Parked
  <2>2. wg[g].waiters = 0
    BY DEF Init
  <2>3. Cardinality({p \in Procs : Parked(p, "wgWait", g)}) = 0
    BY <2>1, FS_EmptySet
  <2> QED
    BY <2>2, <2>3
<1>2. TypeOK /\ NoAddMisuse /\ [Next]_vars => NoAddMisuse'
  <2> SUFFICES ASSUME TypeOK, NoAddMisuse, [Next]_vars PROVE NoAddMisuse'
    OBVIOUS
  <2>1. ASSUME NEW p \in Procs, OpStep(p) \/ Local(p) PROVE NoAddMisuse'
    BY <2>1, WaitersStep DEF NoAddMisuse, ParkedSet
  <2>2. CASE End \/ Stutter \/ UNCHANGED vars
    <3>1. UNCHANGED <<op, pc, wg>>
      BY <2>2 DEF End, EndStep, Stutter, Ended, vars, schedVars
    <3> QED
      BY <3>1 DEF NoAddMisuse, Parked
  <2> QED
    BY <2>1, <2>2 DEF Next
<1> QED
  BY <1>1, <1>2, TypeCorrect, PTL DEF Spec

-----------------------------------------------------------------------------
(* Once.  The stacks hold a frame for exactly the Onces that are started   *)
(* and not done, each once; a completion is of the top frame.              *)

Completing == {"onceComplete", "onceUnwind"}

OnceCells ==
  \A o \in Onces :
    /\ ran[o] = IF once[o].started THEN 1 ELSE 0
    /\ once[o].done => once[o].started
    /\ o \in skipped => once[o].done

Framed(o) == \E q \in Procs : \E i \in DOMAIN doing[q] : doing[q][i] = o

OnceFrames ==
  /\ \A o \in Onces : Framed(o) <=> once[o].started /\ ~once[o].done
  /\ \A q, r \in Procs : \A i \in DOMAIN doing[q], j \in DOMAIN doing[r] :
       doing[q][i] = doing[r][j] => q = r /\ i = j

CompletesTop ==
  \A q \in Procs : op[q].f \in Completing => doing[q] # <<>> /\ op[q].loc = Head(doing[q])

ParkedStarted ==
  \A q \in Procs : pc[q] = "blocked" /\ op[q].f = "onceBegin" => once[op[q].loc].started

OnceInv == OnceCells /\ OnceFrames /\ CompletesTop /\ ParkedStarted

\* The three things a step of p can do to the Onces.
Starts(p, o) ==
  /\ ~once[o].started
  /\ once' = [once EXCEPT ![o] = [started |-> TRUE, done |-> FALSE]]
  /\ doing' = [doing EXCEPT ![p] = <<o>> \o @]
  /\ ran' = [ran EXCEPT ![o] = @ + 1]
  /\ UNCHANGED skipped

Completes(p, o) ==
  /\ once' = [once EXCEPT ![o] = [started |-> TRUE, done |-> TRUE]]
  /\ doing' = [doing EXCEPT ![p] = Tail(@)]
  /\ UNCHANGED <<ran, skipped>>

Leaves ==
  /\ UNCHANGED <<once, doing, ran>>
  /\ \/ UNCHANGED skipped
     \/ \E o \in Onces : skipped' = skipped \cup {o} /\ once[o].done

\* What p is doing after its step, as far as Onces are concerned.
Idle(p) == op'[p].f \notin Completing /\ ~(pc'[p] = "blocked" /\ op'[p].f = "onceBegin")

\* Every step starts a Once, completes one or leaves them.
LEMMA OnceEffects ==
  ASSUME TypeOK, NEW p \in Procs, OpStep(p) \/ Local(p)
  PROVE  \/ \E o \in Onces : Starts(p, o) /\ Idle(p)
         \/ /\ op[p].f \in Completing /\ op[p].loc \in Onces
            /\ Completes(p, op[p].loc) /\ Idle(p)
         \/ /\ Leaves
            /\ \/ Idle(p)
               \/ op'[p] = op[p] /\ (pc'[p] = "blocked" => pc[p] = "blocked")
               \/ /\ op'[p] = op[p] /\ op[p].f = "onceBegin"
                  /\ once[op[p].loc].started
               \/ doing[p] # <<>> /\ op'[p].loc = Head(doing[p]) /\ pc'[p] = "apply"
<1> DEFINE Goal ==
         \/ \E o \in Onces : Starts(p, o) /\ Idle(p)
         \/ /\ op[p].f \in Completing /\ op[p].loc \in Onces
            /\ Completes(p, op[p].loc) /\ Idle(p)
         \/ /\ Leaves
            /\ \/ Idle(p)
               \/ op'[p] = op[p] /\ (pc'[p] = "blocked" => pc[p] = "blocked")
               \/ /\ op'[p] = op[p] /\ op[p].f = "onceBegin"
                  /\ once[op[p].loc].started
               \/ doing[p] # <<>> /\ op'[p].loc = Head(doing[p]) /\ pc'[p] = "apply"
<1>0. /\ pc \in [Procs -> Pcs] /\ DOMAIN op = Procs
      /\ op[p].f \in Completing \cup {"onceBegin"} => op[p].loc \in Onces
  BY OpFacts DEF TypeOK, SchedTypeOK, Completing
<1>q. UNCHANGED onceVars => Leaves
  BY DEF onceVars, Leaves
<1>f. op' = [op EXCEPT ![p] = NoOp] => Idle(p)
  BY <1>0 DEF Idle, NoOp, Completing
<1>1. ASSUME NEW o \in Ops, Issue(p, o) PROVE Goal
  <2>1. o \in OpShapes
    BY OpsAssumption
  <2>2. o.f \notin Completing
    BY <2>1 DEF OpShapes, MutexHeads, RWHeads, Completing
  <2>3. op'[p] = o /\ pc'[p] = "apply" /\ UNCHANGED onceVars
    BY <1>0, <1>1 DEF Issue, Goto
  <2> QED
    BY <1>q, <2>2, <2>3 DEF Idle
<1>2. CASE IssueComplete(p)
  <2>1. doing[p] # <<>> /\ op'[p].loc = Head(doing[p]) /\ pc'[p] = "apply" /\ UNCHANGED onceVars
    BY <1>0, <1>2 DEF IssueComplete, Goto
  <2> QED
    BY <1>q, <2>1
<1>3. CASE \/ Lock(p) \/ LockWake(p) \/ TryLock(p)
           \/ WgAdd(p) \/ WgWait(p) \/ WgWake(p) \/ Spawn(p)
  BY <1>3, <1>f, <1>q DEF Lock, LockWake, TryLock, WgAdd, WgWait, WgWake, Spawn, Finish
<1>4. CASE Unlock(p) \/ RUnlock(p)
  <2>1. UNCHANGED onceVars
    BY <1>4 DEF Unlock, RUnlock
  <2>2. op' = [op EXCEPT ![p] = NoOp] \/ UNCHANGED <<op, pc>>
    BY <1>4 DEF Unlock, RUnlock, Finish, Fatal, Stopped
  <2> QED
    BY <1>f, <1>q, <2>1, <2>2
<1>5. CASE LockPark(p) \/ WgPark(p)
  <2>1. op' = op /\ op[p].f \notin Completing \cup {"onceBegin"} /\ UNCHANGED onceVars
    BY <1>5 DEF LockPark, WgPark, Applying, LockHeads, Completing
  <2> QED
    BY <1>q, <2>1 DEF Idle
<1>6. CASE OnceBegin(p)
  <2>1. op[p].loc \in Onces /\ Idle(p)
    BY <1>0, <1>6, <1>f DEF OnceBegin, Applying, Finish
  <2>2. Starts(p, op[p].loc) \/ Leaves
    BY <1>6, <2>1 DEF OnceBegin, Starts, Leaves
  <2> QED
    BY <2>1, <2>2
<1>7. CASE OncePark(p)
  BY <1>0, <1>7, <1>q DEF OncePark, Applying
<1>8. CASE OnceWake(p)
  <2>1. op[p].loc \in Onces /\ Idle(p)
    BY <1>0, <1>8, <1>f DEF OnceWake, Finish
  <2>2. once[op[p].loc].done
    BY <1>8, WokenAdmits DEF OnceWake, Admits
  <2>3. Leaves
    BY <1>8, <2>1, <2>2 DEF OnceWake, Leaves
  <2> QED
    BY <2>1, <2>3
<1>9. CASE OnceComplete(p)
  <2>1. op[p].f \in Completing /\ op[p].loc \in Onces
    BY <1>0, <1>9 DEF OnceComplete, Applying, Completing
  <2>2. CASE once[op[p].loc].started
    BY <1>9, <1>f, <2>1, <2>2 DEF OnceComplete, Completes
  <2>3. CASE ~once[op[p].loc].started
    BY <1>9, <2>3 DEF OnceComplete, Stopped, Leaves
  <2> QED
    BY <2>1, <2>2, <2>3
<1>10. CASE Local(p)
  <2>1. op' = op /\ UNCHANGED onceVars
    BY <1>10 DEF Local
  <2>2. pc'[p] = "blocked" => pc[p] = "blocked"
    BY <1>0, <1>10 DEF Local, LocalStep, OpDoneStrip, ReachEdge, PassEdge, Return, Raise, Recover,
                       Abort, Goto
  <2> QED
    BY <1>q, <2>1, <2>2
<1> QED
  BY <1>1, <1>2, <1>3, <1>4, <1>5, <1>6, <1>7, <1>8, <1>9, <1>10 DEF OpStep

\* Starting a Once puts its frame on top of one stack.
LEMMA OnceStarts ==
  ASSUME TypeOK, OnceInv, NEW p \in Procs, NEW o \in Onces, Starts(p, o)
  PROVE  OnceCells' /\ OnceFrames'
<1>0. PICK s \in Seq(Onces) : s = doing[p]
  BY DEF TypeOK
<1>1. PICK t : t = <<o>> \o s
  OBVIOUS
<1>2. /\ t \in Seq(Onces)
      /\ DOMAIN t = 1..(Len(s) + 1) /\ DOMAIN s = 1..Len(s) /\ Len(s) \in Nat
      /\ t[1] = o
      /\ \A i \in DOMAIN s : i + 1 \in DOMAIN t /\ t[i + 1] = s[i]
      /\ \A i \in DOMAIN t : i # 1 => i - 1 \in DOMAIN s /\ t[i] = s[i - 1]
  BY <1>0, <1>1
<1>3. /\ doing'[p] = t
      /\ \A q \in Procs : q # p => doing'[q] = doing[q]
      /\ once'[o].started /\ ~once'[o].done /\ ran'[o] = ran[o] + 1
      /\ \A x \in Onces : x # o => once'[x] = once[x] /\ ran'[x] = ran[x]
      /\ skipped' = skipped
      /\ ~once[o].started
  BY <1>0, <1>1 DEF Starts, TypeOK
<1>b. ASSUME NEW q \in Procs, NEW i \in DOMAIN doing'[q], ~(q = p /\ i = 1)
      PROVE  \E j \in DOMAIN doing[q] : /\ doing[q][j] = doing'[q][i]
                                        /\ i = IF q = p THEN j + 1 ELSE j
  <2>1. CASE q # p
    BY <1>3, <2>1
  <2>2. CASE q = p
    <3>1. i \in DOMAIN t /\ i # 1
      BY <1>3, <1>b, <2>2
    <3>2. i - 1 \in DOMAIN s /\ t[i] = s[i - 1] /\ i = (i - 1) + 1
      BY <1>2, <3>1
    <3> QED
      BY <1>0, <1>3, <2>2, <3>2
  <2> QED
    BY <2>1, <2>2
<1>w. ASSUME NEW q \in Procs, NEW i \in DOMAIN doing[q]
      PROVE  \E j \in DOMAIN doing'[q] : doing'[q][j] = doing[q][i]
  <2>1. CASE q # p
    BY <1>3, <2>1
  <2>2. CASE q = p
    <3>1. i \in DOMAIN s
      BY <1>0, <2>2
    <3>2. i + 1 \in DOMAIN t /\ t[i + 1] = s[i]
      BY <1>2, <3>1
    <3> QED
      BY <1>0, <1>3, <2>2, <3>2
  <2> QED
    BY <2>1, <2>2
<1>4. OnceCells'
  BY <1>3 DEF OnceInv, OnceCells
<1>5. ~Framed(o)
  BY <1>3 DEF OnceInv, OnceFrames
<1>6. ASSUME NEW q \in Procs, NEW i \in DOMAIN doing'[q], q # p \/ i # 1
      PROVE  doing'[q][i] # o
  BY <1>5, <1>6, <1>b DEF Framed
<1>7. ASSUME NEW x \in Onces, x # o PROVE Framed(x)' <=> Framed(x)
  <2>1. Framed(x) => Framed(x)'
    BY <1>w DEF Framed
  <2>2. ASSUME NEW q \in Procs, NEW i \in DOMAIN doing'[q], doing'[q][i] = x
        PROVE  \E j \in DOMAIN doing[q] : doing[q][j] = x
    BY <1>2, <1>3, <1>7, <1>b, <2>2
  <2> QED
    BY <2>1, <2>2 DEF Framed
<1>8. Framed(o)'
  <2>1. 1 \in DOMAIN doing'[p] /\ doing'[p][1] = o
    BY <1>2, <1>3
  <2> QED
    BY <2>1 DEF Framed
<1>9. ASSUME NEW q \in Procs, NEW r \in Procs,
             NEW i \in DOMAIN doing'[q], NEW j \in DOMAIN doing'[r],
             doing'[q][i] = doing'[r][j]
      PROVE  q = r /\ i = j
  <2>1. CASE q = p /\ i = 1
    BY <1>2, <1>3, <1>6, <1>9, <2>1
  <2>2. CASE r = p /\ j = 1
    BY <1>2, <1>3, <1>6, <1>9, <2>2
  <2>3. CASE ~(q = p /\ i = 1) /\ ~(r = p /\ j = 1)
    <3>1. PICK i0 \in DOMAIN doing[q] : /\ doing[q][i0] = doing'[q][i]
                                        /\ i = IF q = p THEN i0 + 1 ELSE i0
      BY <1>b, <2>3
    <3>2. PICK j0 \in DOMAIN doing[r] : /\ doing[r][j0] = doing'[r][j]
                                        /\ j = IF r = p THEN j0 + 1 ELSE j0
      BY <1>b, <2>3
    <3>3. q = r /\ i0 = j0
      BY <1>9, <3>1, <3>2 DEF OnceInv, OnceFrames
    <3> QED
      BY <3>1, <3>2, <3>3
  <2> QED
    BY <2>1, <2>2, <2>3
<1>10. OnceFrames'
  <2>1. ASSUME NEW x \in Onces PROVE Framed(x)' <=> once'[x].started /\ ~once'[x].done
    BY <1>3, <1>7, <1>8 DEF OnceInv, OnceFrames
  <2> QED
    BY <1>9, <2>1 DEF OnceFrames
<1> QED
  BY <1>4, <1>10

\* Completing a Once removes its frame, the only one it has.
LEMMA OnceCompletes ==
  ASSUME TypeOK, OnceInv, NEW p \in Procs, NEW o \in Onces, Completes(p, o),
         doing[p] # <<>>, o = Head(doing[p])
  PROVE  OnceCells' /\ OnceFrames'
<1>0. PICK s \in Seq(Onces) : s = doing[p]
  BY DEF TypeOK
<1>1. PICK t : t = Tail(s)
  OBVIOUS
<1>2. /\ t \in Seq(Onces)
      /\ DOMAIN t = 1..(Len(s) - 1) /\ DOMAIN s = 1..Len(s) /\ Len(s) \in Nat /\ Len(s) > 0
      /\ s[1] = o
      /\ \A i \in DOMAIN s : i # 1 => i - 1 \in DOMAIN t /\ t[i - 1] = s[i]
      /\ \A i \in DOMAIN t : i + 1 \in DOMAIN s /\ t[i] = s[i + 1]
  BY <1>0, <1>1
<1>3. /\ doing'[p] = t
      /\ \A q \in Procs : q # p => doing'[q] = doing[q]
      /\ once'[o].started /\ once'[o].done
      /\ \A x \in Onces : x # o => once'[x] = once[x]
      /\ ran' = ran /\ skipped' = skipped
  BY <1>0, <1>1 DEF Completes, TypeOK
<1>4. Framed(o)
  BY <1>0, <1>2 DEF Framed
<1>5. OnceCells'
  BY <1>3, <1>4 DEF OnceInv, OnceCells, OnceFrames
<1>6. ASSUME NEW q \in Procs, NEW i \in DOMAIN doing'[q]
      PROVE  \E j \in DOMAIN doing[q] : /\ doing[q][j] = doing'[q][i]
                                        /\ j = IF q = p THEN i + 1 ELSE i
  BY <1>0, <1>2, <1>3
<1>7. ~Framed(o)'
  <2> SUFFICES ASSUME NEW q \in Procs, NEW i \in DOMAIN doing'[q], doing'[q][i] = o
               PROVE  FALSE
    BY DEF Framed
  <2>1. PICK j \in DOMAIN doing[q] : doing[q][j] = o /\ j = IF q = p THEN i + 1 ELSE i
    BY <1>6
  <2>2. 1 \in DOMAIN doing[p] /\ doing[p][1] = o
    BY <1>0, <1>2
  <2>3. q = p /\ j = 1
    BY <2>1, <2>2 DEF OnceInv, OnceFrames
  <2> QED
    BY <1>2, <1>3, <2>1, <2>3
<1>8. ASSUME NEW x \in Onces, x # o PROVE Framed(x)' <=> Framed(x)
  <2>1. ASSUME NEW q \in Procs, NEW i \in DOMAIN doing[q], doing[q][i] = x
        PROVE  \E j \in DOMAIN doing'[q] : doing'[q][j] = x
    <3>1. CASE q # p
      BY <1>3, <2>1, <3>1
    <3>2. CASE q = p
      <4>1. i \in DOMAIN s /\ i # 1 /\ s[i] = x
        BY <1>0, <1>2, <1>8, <2>1, <3>2
      <4>2. i - 1 \in DOMAIN t /\ t[i - 1] = x
        BY <1>2, <4>1
      <4> QED
        BY <1>3, <3>2, <4>2
    <3> QED
      BY <3>1, <3>2
  <2> QED
    BY <1>6, <2>1 DEF Framed
<1>9. ASSUME NEW q \in Procs, NEW r \in Procs,
             NEW i \in DOMAIN doing'[q], NEW j \in DOMAIN doing'[r],
             doing'[q][i] = doing'[r][j]
      PROVE  q = r /\ i = j
  <2>0. /\ q = p => i \in 1..(Len(s) - 1)
        /\ r = p => j \in 1..(Len(s) - 1)
    BY <1>2, <1>3
  <2>1. PICK i0 \in DOMAIN doing[q] : /\ doing[q][i0] = doing'[q][i]
                                      /\ i0 = IF q = p THEN i + 1 ELSE i
    BY <1>6
  <2>2. PICK j0 \in DOMAIN doing[r] : /\ doing[r][j0] = doing'[r][j]
                                      /\ j0 = IF r = p THEN j + 1 ELSE j
    BY <1>6
  <2>3. q = r /\ i0 = j0
    BY <1>9, <2>1, <2>2 DEF OnceInv, OnceFrames
  <2> QED
    BY <1>2, <2>0, <2>1, <2>2, <2>3
<1>10. OnceFrames'
  <2>1. ASSUME NEW x \in Onces PROVE Framed(x)' <=> once'[x].started /\ ~once'[x].done
    BY <1>3, <1>7, <1>8 DEF OnceInv, OnceFrames
  <2> QED
    BY <1>9, <2>1 DEF OnceFrames
<1> QED
  BY <1>5, <1>10

\* A started Once stays started.
LEMMA StartedStays ==
  ASSUME TypeOK, NEW x \in Onces, once[x].started,
         Leaves \/ \E p \in Procs, o \in Onces : Starts(p, o) \/ Completes(p, o)
  PROVE  once'[x].started
<1>1. CASE Leaves
  BY <1>1 DEF Leaves
<1>2. ASSUME NEW o \in Onces, NEW d \in BOOLEAN,
             once' = [once EXCEPT ![o] = [started |-> TRUE, done |-> d]]
      PROVE  once'[x].started
  BY <1>2 DEF TypeOK
<1> QED
  BY <1>1, <1>2 DEF Starts, Completes

\* Every step keeps the Once invariant.
LEMMA OnceInvStep ==
  ASSUME TypeOK, OnceInv, NEW p \in Procs, OpStep(p) \/ Local(p)
  PROVE  OnceInv'
<1>0. \A q \in Procs \ {p} : /\ op'[q] = op[q]
                             /\ doing'[q] = doing[q]
                             /\ pc'[q] = "blocked" <=> pc[q] = "blocked"
  BY OthersStay
<1>a. \A q \in Procs : op[q].f = "onceBegin" => op[q].loc \in Onces
  BY OpFacts
<1>1. ASSUME NEW o \in Onces, Starts(p, o), Idle(p) PROVE OnceInv'
  <2>1. OnceCells' /\ OnceFrames'
    BY <1>1, OnceStarts
  <2>2. CompletesTop'
    BY <1>0, <1>1 DEF OnceInv, CompletesTop, Idle
  <2>3. ParkedStarted'
    BY <1>0, <1>1, <1>a, StartedStays DEF OnceInv, ParkedStarted, Idle
  <2> QED
    BY <2>1, <2>2, <2>3 DEF OnceInv
<1>2. ASSUME op[p].f \in Completing, op[p].loc \in Onces, Completes(p, op[p].loc), Idle(p)
      PROVE  OnceInv'
  <2>1. OnceCells' /\ OnceFrames'
    BY <1>2, OnceCompletes DEF OnceInv, CompletesTop
  <2>2. CompletesTop'
    BY <1>0, <1>2 DEF OnceInv, CompletesTop, Idle
  <2>3. ParkedStarted'
    BY <1>0, <1>2, <1>a, StartedStays DEF OnceInv, ParkedStarted, Idle
  <2> QED
    BY <2>1, <2>2, <2>3 DEF OnceInv
<1>3. ASSUME Leaves,
             \/ Idle(p)
             \/ op'[p] = op[p] /\ (pc'[p] = "blocked" => pc[p] = "blocked")
             \/ op'[p] = op[p] /\ op[p].f = "onceBegin" /\ once[op[p].loc].started
             \/ doing[p] # <<>> /\ op'[p].loc = Head(doing[p]) /\ pc'[p] = "apply"
      PROVE  OnceInv'
  <2>1. OnceCells' /\ OnceFrames'
    BY <1>3 DEF Leaves, OnceInv, OnceCells, OnceFrames, Framed
  <2>2. CompletesTop'
    <3>1. doing' = doing
      BY <1>3 DEF Leaves
    <3>2. op'[p].f \in Completing => doing[p] # <<>> /\ op'[p].loc = Head(doing[p])
      BY <1>3 DEF OnceInv, CompletesTop, Idle
    <3> QED
      BY <1>0, <3>1, <3>2 DEF OnceInv, CompletesTop
  <2>3. ParkedStarted'
    <3>1. once' = once
      BY <1>3 DEF Leaves
    <3>2. pc'[p] = "blocked" /\ op'[p].f = "onceBegin" => once[op'[p].loc].started
      BY <1>3 DEF OnceInv, ParkedStarted, Idle
    <3> QED
      BY <1>0, <3>1, <3>2 DEF OnceInv, ParkedStarted
  <2> QED
    BY <2>1, <2>2, <2>3 DEF OnceInv
<1> QED
  BY <1>1, <1>2, <1>3, OnceEffects

\* The Once invariant along every run.
LEMMA OnceInvCorrect == Spec => []OnceInv
<1>1. Init => OnceInv
  BY DEF Init, SchedInit, NoOp, Completing,
         OnceInv, OnceCells, OnceFrames, Framed, CompletesTop, ParkedStarted
<1>2. TypeOK /\ OnceInv /\ [Next]_vars => OnceInv'
  <2> SUFFICES ASSUME TypeOK, OnceInv, [Next]_vars PROVE OnceInv'
    OBVIOUS
  <2>1. ASSUME NEW p \in Procs, OpStep(p) \/ Local(p) PROVE OnceInv'
    BY <2>1, OnceInvStep
  <2>2. CASE End \/ Stutter \/ UNCHANGED vars
    <3>1. UNCHANGED <<op, pc, once, doing, ran, skipped>>
      BY <2>2 DEF End, EndStep, Stutter, Ended, vars, schedVars, onceVars
    <3> QED
      BY <3>1 DEF OnceInv, OnceCells, OnceFrames, Framed, CompletesTop, ParkedStarted
  <2> QED
    BY <2>1, <2>2 DEF Next
<1> QED
  BY <1>1, <1>2, TypeCorrect, PTL DEF Spec

\* A Once's function is started at most once, whoever calls Do and however it
\* leaves; whoever skips it finds it finished, with its frame gone.
THEOREM OnceOnlyCorrect == Spec => []OnceOnly
<1>1. OnceInv => OnceOnly
  BY DEF OnceInv, OnceCells, OnceFrames, Framed, OnceOnly
<1> QED
  BY <1>1, OnceInvCorrect, PTL

\* No wake-up is lost: whoever is parked in a lock or a Once.Do and could not
\* be woken waits for an acquisition, a parked writer or a frame that exists.
THEOREM ParkedForAReasonCorrect == Spec => []ParkedForAReason
<1>1. ASSUME TypeOK, LockInv, PendingExact, OnceInv PROVE ParkedForAReason
  <2> SUFFICES ASSUME NEW p \in Procs \ WakeReady, pc[p] = "blocked"
               PROVE  /\ \A l \in Locks : Parked(p, "lock", l) => holdW[l] # {}
                      /\ \A l \in RWMutexes :
                           /\ Parked(p, "wlock", l) => holdW[l] \cup holdR[l] # {}
                           /\ Parked(p, "rlock", l) =>
                                holdW[l] # {} \/ \E q \in Procs : Parked(q, "wlock", l)
                      /\ \A o \in Onces : Parked(p, "onceBegin", o) => Framed(o)
    BY DEF ParkedForAReason, Parked, Framed
  <2>0. ~Admits(op[p])
    BY DEF WakeReady
  <2>1. ASSUME NEW l \in Locks, Parked(p, "lock", l) PROVE holdW[l] # {}
    <3>1. l \in Mutexes /\ locked[l]
      BY <1>1, <2>0, <2>1, OpFacts DEF Parked, Admits, MutexHeads
    <3> QED
      BY <1>1, <3>1 DEF LockInv, HoldersExact
  <2>2. ASSUME NEW l \in RWMutexes, Parked(p, "wlock", l) PROVE holdW[l] \cup holdR[l] # {}
    <3>1. rw[l].writer \/ rw[l].readers # 0
      BY <2>0, <2>2 DEF Parked, Admits, NoneHold
    <3>2. holdR[l] = {} => rw[l].readers = 0
      BY <1>1, FS_EmptySet DEF LockInv, HoldersExact
    <3> QED
      BY <1>1, <3>1, <3>2 DEF LockInv, HoldersExact
  <2>3. ASSUME NEW l \in RWMutexes, Parked(p, "rlock", l),
               ~\E q \in Procs : Parked(q, "wlock", l)
        PROVE  holdW[l] # {}
    <3>1. {q \in Procs : Parked(q, "wlock", l)} = {}
      BY <2>3
    <3>2. rw[l].pendingW = 0
      BY <1>1, <3>1, FS_EmptySet DEF PendingExact
    <3>3. rw[l].writer
      BY <2>0, <2>3, <3>2 DEF Parked, Admits
    <3> QED
      BY <1>1, <3>3 DEF LockInv, HoldersExact
  <2>4. ASSUME NEW o \in Onces, Parked(p, "onceBegin", o) PROVE Framed(o)
    BY <1>1, <2>0, <2>4 DEF Parked, Admits, OnceInv, ParkedStarted, OnceFrames
  <2> QED
    BY <2>1, <2>2, <2>3, <2>4
<1> QED
  BY <1>1, TypeCorrect, LockInvCorrect, PendingExactCorrect, OnceInvCorrect, PTL
=============================================================================
