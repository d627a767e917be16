--------------------------- MODULE ChanPoolProofs ---------------------------
(***************************************************************************)
(* Proofs about ChanPool, for any goroutines, channels, capacities, budget *)
(* and operations: the type invariant, then the hchan invariants, which    *)
(* are inductive together with it, and what follows from them: every send  *)
(* commits once, the pool implements AbsChan, a deadlock verdict is real   *)
(* and an abort is final.                                                  *)
(***************************************************************************)
EXTENDS ChanPool, TLAPS

\* An operation in progress is one of the shapes of OpShapes.
LEMMA OpTyping ==
  ASSUME NEW o \in Ops \cup {NoOp}
  PROVE  /\ o.cls \in Seq(Clauses)
         /\ o.dflt \in BOOLEAN
         /\ o.kind = "close" => Len(o.cls) = 1
<1>1. CASE o \in Ops
  <2>1. o \in OpShapes
    BY <1>1, OpsAssumption
  <2> QED
    BY <2>1 DEF OpShapes, Dirs
<1>2. CASE o = NoOp
  BY <1>2 DEF NoOp
<1> QED
  BY <1>1, <1>2

\* The clauses of an operation in progress are clauses.
LEMMA ClauseTyping ==
  ASSUME TypeOK, NEW p \in Procs, NEW k \in DOMAIN op[p].cls
  PROVE  /\ op[p].cls[k] \in Clauses
         /\ op[p].cls[k].ch \in Chans \cup {NilChan}
<1>1. op[p] \in Ops \cup {NoOp}
  BY DEF TypeOK
<1>2. op[p].cls \in Seq(Clauses)
  BY <1>1, OpTyping
<1>3. op[p].cls[k] \in Clauses
  BY <1>2
<1> QED
  BY <1>3 DEF Clauses

\* The value a goroutine sends is one of Stamps.
LEMMA StampTyping ==
  ASSUME TypeOK, NEW p \in Procs
  PROVE  Stamp(p) \in Stamps
<1>1. left[p] \in 0..Budget[p]
  BY BudgetAssumption DEF TypeOK, SchedTypeOK
<1> QED
  BY <1>1 DEF Stamp, Stamps

\* Spending one unit of a goroutine's budget keeps the budgets typed.
LEMMA SpendTyping ==
  ASSUME SchedTypeOK, NEW p \in Procs, left[p] > 0,
         left' = [left EXCEPT ![p] = @ - 1]
  PROVE  left' \in [Procs -> Nat] /\ \A q \in Procs : left'[q] <= Budget[q]
<1>1. left \in [Procs -> Nat] /\ \A q \in Procs : left[q] <= Budget[q] /\ Budget[q] \in Nat
  BY BudgetAssumption DEF SchedTypeOK
<1>2. left[p] - 1 \in Nat /\ left[p] - 1 <= Budget[p]
  BY <1>1
<1>3. left' \in [Procs -> Nat]
  BY <1>1, <1>2
<1>4. ASSUME NEW q \in Procs PROVE left'[q] <= Budget[q]
  BY <1>1, <1>2
<1> QED
  BY <1>3, <1>4

\* The initial state is well typed.
LEMMA TypeInit == Init => TypeOK
<1> SUFFICES ASSUME Init PROVE TypeOK
  OBVIOUS
<1>1. SchedTypeOK
  BY MainAssumption, BudgetAssumption
  DEF Init, SchedInit, SchedTypeOK, Pcs, Flags, Statuses
<1>2. op \in [Procs -> Ops \cup {NoOp}]
  BY DEF Init
<1>3. /\ buf \in [Chans -> Seq(Stamps)]
      /\ sent \in [Chans -> Seq(Stamps)]
      /\ rcvd \in [Chans -> Seq(Stamps)]
      /\ closed \in [Chans -> BOOLEAN]
      /\ zeroed \in SUBSET Chans
  BY DEF Init
<1>4. \A c \in Chans : Len(buf[c]) <= Cap[c]
  BY CapAssumption DEF Init
<1> QED
  BY <1>1, <1>2, <1>3, <1>4 DEF TypeOK

-----------------------------------------------------------------------------
(* Types are preserved by the parts actions are made of. *)

CellTypeOK ==
  /\ buf \in [Chans -> Seq(Stamps)]
  /\ \A c \in Chans : Len(buf[c]) <= Cap[c]
  /\ closed \in [Chans -> BOOLEAN]
  /\ sent \in [Chans -> Seq(Stamps)]
  /\ rcvd \in [Chans -> Seq(Stamps)]
  /\ zeroed \in SUBSET Chans

\* A step that leaves the channel cells alone keeps them typed.
LEMMA CellsUnchanged ==
  ASSUME TypeOK, UNCHANGED cellVars
  PROVE  CellTypeOK'
BY DEF TypeOK, CellTypeOK, cellVars

\* Each of the four ways a value moves keeps the cells typed.
LEMMA CommunicationTyping ==
  ASSUME TypeOK, NEW c \in Chans, NEW v \in Stamps,
         \/ Len(buf[c]) < Cap[c] /\ Enqueue(c, v)
         \/ buf[c] # <<>> /\ Dequeue(c)
         \/ Handoff(c, v)
         \/ buf[c] # <<>> /\ Refill(c, v)
  PROVE  CellTypeOK'
<1>1. /\ buf[c] \in Seq(Stamps)
      /\ buf[c] # <<>> => /\ Head(buf[c]) \in Stamps /\ Tail(buf[c]) \in Seq(Stamps)
                         /\ Len(Tail(buf[c])) = Len(buf[c]) - 1
      /\ \A d \in Chans : Len(buf[d]) \in Nat /\ Cap[d] \in Nat /\ Len(buf[d]) <= Cap[d]
  BY CapAssumption DEF TypeOK
<1>2. CASE Len(buf[c]) < Cap[c] /\ Enqueue(c, v)
  <2>1. Append(buf[c], v) \in Seq(Stamps) /\ Len(Append(buf[c], v)) <= Cap[c]
    BY <1>1, <1>2
  <2> QED
    BY <1>1, <1>2, <2>1 DEF TypeOK, CellTypeOK, Enqueue
<1>3. CASE buf[c] # <<>> /\ Dequeue(c)
  <2>1. Len(Tail(buf[c])) <= Cap[c]
    BY <1>1, <1>3
  <2> QED
    BY <1>1, <1>3, <2>1 DEF TypeOK, CellTypeOK, Dequeue
<1>4. CASE Handoff(c, v)
  BY <1>1, <1>4 DEF TypeOK, CellTypeOK, Handoff
<1>5. CASE buf[c] # <<>> /\ Refill(c, v)
  <2>1. Append(Tail(buf[c]), v) \in Seq(Stamps) /\ Len(Append(Tail(buf[c]), v)) <= Cap[c]
    BY <1>1, <1>5
  <2> QED
    BY <1>1, <1>5, <2>1 DEF TypeOK, CellTypeOK, Refill
<1> QED
  BY <1>2, <1>3, <1>4, <1>5

\* Committing a ready clause keeps the cells and the goroutine's state typed.
LEMMA CommitTyping ==
  ASSUME TypeOK, NEW p \in Procs, NEW cl \in Clauses, ClauseReady(cl),
         CommitClause(p, cl)
  PROVE  /\ CellTypeOK'
         /\ pc' \in [Procs -> Pcs]
         /\ flag' \in [Procs -> Flags]
<1>1. cl.ch \in Chans /\ Stamp(p) \in Stamps
  BY StampTyping DEF ClauseReady
<1>2. CASE cl.dir = "send" /\ CommitSend(p, cl.ch)
  <2>1. CASE closed[cl.ch]
    BY <1>2, <2>1, CellsUnchanged
    DEF CommitSend, Goto, TypeOK, SchedTypeOK, Pcs, Flags
  <2>2. CASE ~closed[cl.ch]
    <3>1. CellTypeOK'
      BY <1>1, <1>2, <2>2, CommunicationTyping DEF CommitSend, ClauseReady
    <3> QED
      BY <1>2, <2>2, <3>1 DEF CommitSend, Completed, TypeOK, SchedTypeOK, Pcs, Flags
  <2> QED
    BY <2>1, <2>2
<1>3. CASE cl.dir = "recv" /\ CommitRecv(p, cl.ch)
  <2>1. pc' \in [Procs -> Pcs] /\ flag' \in [Procs -> Flags]
    BY <1>3 DEF CommitRecv, Completed, TypeOK, SchedTypeOK, Pcs, Flags
  <2>2. CASE buf[cl.ch] # <<>>
    BY <1>1, <1>3, <2>1, <2>2, CommunicationTyping DEF CommitRecv
  <2>3. CASE buf[cl.ch] = <<>>
    BY <1>1, <1>3, <2>1, <2>3 DEF CommitRecv, CellTypeOK, TypeOK
  <2> QED
    BY <2>2, <2>3
<1> QED
  BY <1>2, <1>3 DEF CommitClause

\* Pairing with a parked partner keeps the types.
LEMMA PairingTyping ==
  ASSUME TypeOK, NEW p \in Procs, NEW q \in Procs, NEW cl \in Clauses,
         cl.ch \in Chans, ApplyPairing(p, cl, q)
  PROVE  /\ CellTypeOK'
         /\ pc' \in [Procs -> Pcs]
         /\ flag' \in [Procs -> Flags]
         /\ status' \in Statuses
         /\ UNCHANGED left
<1>1. Stamp(p) \in Stamps /\ Stamp(q) \in Stamps
  BY StampTyping
<1>2. BothProceed(p, q) => /\ pc' \in [Procs -> Pcs]
                           /\ flag' \in [Procs -> Flags]
                           /\ status' \in Statuses
                           /\ UNCHANGED left
  BY DEF BothProceed, TypeOK, SchedTypeOK, Pcs, Flags
<1>3. CASE buf[cl.ch] = <<>> /\ cl.dir = "send"
  BY <1>1, <1>2, <1>3, CommunicationTyping DEF ApplyPairing
<1>4. CASE buf[cl.ch] # <<>> /\ cl.dir = "send"
  <2>1. Stopped("internal") /\ UNCHANGED cellVars
    BY <1>4 DEF ApplyPairing
  <2> QED
    BY <2>1, CellsUnchanged DEF Stopped, TypeOK, SchedTypeOK, Statuses
<1>5. CASE cl.dir = "recv"
  <2>1. CellTypeOK'
    BY <1>1, <1>5, CommunicationTyping DEF ApplyPairing
  <2> QED
    BY <1>2, <1>5, <2>1 DEF ApplyPairing
<1> QED
  BY <1>3, <1>4, <1>5 DEF ApplyPairing

-----------------------------------------------------------------------------
(* The type invariant, one step per action. *)

\* A step that involves no operation keeps the types.
LEMMA LocalTyping ==
  ASSUME TypeOK, NEW p \in Procs, Local(p)
  PROVE  TypeOK'
<1>1. CellTypeOK' /\ op' \in [Procs -> Ops \cup {NoOp}]
  BY CellsUnchanged DEF Local, TypeOK
<1>2. SchedTypeOK'
  <2> USE DEF TypeOK, SchedTypeOK, Pcs, Flags, Statuses, Goto, Picked, PickedAt
  <2>1. CASE OpDoneStrip(p, WakeReady)
    BY <2>1 DEF OpDoneStrip
  <2>2. CASE ReachEdge(p, WakeReady)
    BY <2>2, SpendTyping DEF ReachEdge
  <2>3. CASE PassEdge(p, WakeReady)
    BY <2>3 DEF PassEdge
  <2>4. CASE Return(p, WakeReady)
    BY <2>4 DEF Return
  <2>5. CASE Raise(p, WakeReady)
    BY <2>5, SpendTyping DEF Raise
  <2>6. CASE Recover(p, WakeReady)
    BY <2>6 DEF Recover
  <2>7. CASE Abort(p, WakeReady)
    BY <2>7 DEF Abort
  <2> QED
    BY <2>1, <2>2, <2>3, <2>4, <2>5, <2>6, <2>7 DEF Local, LocalStep
<1> QED
  BY <1>1, <1>2 DEF TypeOK, CellTypeOK

\* Each step of an operation keeps the types.
LEMMA OpTypingStep ==
  ASSUME TypeOK, NEW p \in Procs, OpStep(p)
  PROVE  TypeOK'
<1> DEFINE OpsTyped == op' \in [Procs -> Ops \cup {NoOp}]
<1>0. ASSUME CellTypeOK', SchedTypeOK', OpsTyped PROVE TypeOK'
  BY <1>0 DEF TypeOK, CellTypeOK
<1>a. Finish(p) => OpsTyped
  BY DEF Finish, TypeOK
<1>b. UNCHANGED op => OpsTyped
  BY DEF TypeOK
<1>c. ASSUME cur' = p, UNCHANGED <<status, left>>,
             pc' \in [Procs -> Pcs], flag' \in [Procs -> Flags]
      PROVE  SchedTypeOK'
  BY <1>c DEF TypeOK, SchedTypeOK
<1>1. ASSUME NEW o \in Ops, Issue(p, o) PROVE TypeOK'
  <2>1. CellTypeOK' /\ OpsTyped
    BY <1>1, CellsUnchanged DEF Issue, TypeOK
  <2>2. SchedTypeOK'
    BY <1>1, SpendTyping
    DEF Issue, PickedAt, Picked, Goto, TypeOK, SchedTypeOK, Pcs, Flags
  <2> QED
    BY <1>0, <2>1, <2>2
<1>2. CASE RefuseSelect(p)
  <2>1. SchedTypeOK'
    BY <1>2 DEF RefuseSelect, Applying, PickedAt, Picked, Stopped, TypeOK, SchedTypeOK, Statuses
  <2> QED
    BY <1>0, <1>2, <1>b, <2>1, CellsUnchanged DEF RefuseSelect
<1>3. CASE Pair(p)
  <2>1. PICK k \in DOMAIN op[p].cls : \E q \in SideWaiters(p, op[p].cls[k]) :
          /\ ApplyPairing(p, op[p].cls[k], q)
          /\ op' = [op EXCEPT ![p] = NoOp, ![q] = NoOp]
    BY <1>3 DEF Pair
  <2>2. PICK q \in SideWaiters(p, op[p].cls[k]) :
          /\ ApplyPairing(p, op[p].cls[k], q)
          /\ op' = [op EXCEPT ![p] = NoOp, ![q] = NoOp]
    BY <2>1
  <2>3. q \in Procs /\ op[p].cls[k] \in Clauses /\ op[p].cls[k].ch \in Chans
    BY ClauseTyping DEF SideWaiters
  <2>4. /\ CellTypeOK'
        /\ pc' \in [Procs -> Pcs]
        /\ flag' \in [Procs -> Flags]
        /\ status' \in Statuses
        /\ UNCHANGED left
    BY <2>2, <2>3, PairingTyping
  <2>5. SchedTypeOK' /\ OpsTyped
    BY <1>3, <2>2, <2>3, <2>4 DEF Pair, Applying, PickedAt, Picked, TypeOK, SchedTypeOK
  <2> QED
    BY <1>0, <2>4, <2>5
<1>4. CASE Commit(p) \/ Wake(p)
  <2>1. PICK k \in DOMAIN op[p].cls :
          ClauseReady(op[p].cls[k]) /\ CommitClause(p, op[p].cls[k])
    BY <1>4 DEF Commit, Wake
  <2>2. /\ CellTypeOK'
        /\ pc' \in [Procs -> Pcs]
        /\ flag' \in [Procs -> Flags]
    BY <2>1, ClauseTyping, CommitTyping
  <2>3. Finish(p) /\ UNCHANGED <<status, left>> /\ cur' = p
    BY <1>4 DEF Commit, Wake, Applying, PickedAt, Picked
  <2> QED
    BY <1>0, <1>a, <1>c, <2>2, <2>3
<1>5. CASE TakeDefault(p)
  BY <1>0, <1>a, <1>c, <1>5, CellsUnchanged
  DEF TakeDefault, Applying, PickedAt, Picked, Goto, TypeOK, SchedTypeOK, Pcs
<1>6. CASE Park(p)
  BY <1>0, <1>b, <1>c, <1>6, CellsUnchanged
  DEF Park, Applying, PickedAt, Picked, Goto, TypeOK, SchedTypeOK, Pcs
<1>7. CASE Close(p)
  <2> DEFINE c == op[p].cls[1].ch
  <2>1. CASE c = NilChan \/ closed[c]
    BY <1>0, <1>a, <1>c, <1>7, <2>1, CellsUnchanged
    DEF Close, Applying, PickedAt, Picked, Goto, TypeOK, SchedTypeOK, Pcs
  <2>2. CASE ~(c = NilChan \/ closed[c])
    <3>1. CellTypeOK'
      BY <1>7, <2>2 DEF Close, CellTypeOK, TypeOK
    <3>2. pc' \in [Procs -> Pcs] /\ flag' \in [Procs -> Flags]
      BY <1>7, <2>2 DEF Close, Completed, TypeOK, SchedTypeOK, Pcs, Flags
    <3> QED
      BY <1>0, <1>a, <1>c, <1>7, <3>1, <3>2 DEF Close, Applying, PickedAt, Picked
  <2> QED
    BY <2>1, <2>2
<1>8. CASE Spawn(p)
  <2>1. pc' \in [Procs -> Pcs] /\ flag' \in [Procs -> Flags]
    BY <1>8 DEF Spawn, TypeOK, SchedTypeOK, Pcs, Flags
  <2> QED
    BY <1>0, <1>a, <1>c, <1>8, <2>1, CellsUnchanged DEF Spawn, Applying, PickedAt, Picked
<1>9. CASE SpawnNil(p)
  <2>1. SchedTypeOK'
    BY <1>9 DEF SpawnNil, Applying, PickedAt, Picked, Stopped, TypeOK, SchedTypeOK, Statuses
  <2> QED
    BY <1>0, <1>9, <1>b, <2>1, CellsUnchanged DEF SpawnNil
<1> QED
  BY <1>1, <1>2, <1>3, <1>4, <1>5, <1>6, <1>7, <1>8, <1>9 DEF OpStep

\* Every step keeps the types.
LEMMA TypeStep == TypeOK /\ [Next]_vars => TypeOK'
<1> SUFFICES ASSUME TypeOK, [Next]_vars PROVE TypeOK'
  OBVIOUS
<1>1. ASSUME NEW p \in Procs, OpStep(p) \/ Local(p) PROVE TypeOK'
  BY <1>1, OpTypingStep, LocalTyping
<1>2. CASE End
  <2>1. SchedTypeOK'
    BY <1>2 DEF End, EndStep, EndPanic, EndExit, EndDeadlock, FuelOut, TypeOK, SchedTypeOK, Statuses
  <2> QED
    BY <1>2, <2>1 DEF End, TypeOK, cellVars
<1>3. CASE UNCHANGED vars
  BY <1>3 DEF vars, schedVars, cellVars, TypeOK, SchedTypeOK
<1>4. CASE Stutter
  BY <1>4 DEF Stutter, Ended, schedVars, cellVars, TypeOK, SchedTypeOK
<1> QED
  BY <1>1, <1>2, <1>3, <1>4 DEF Next

\* Every state of every run is well typed (Multi.lean's MultiWf at this
\* abstraction), whatever operations the goroutines issue.
THEOREM TypeCorrect == Spec => []TypeOK
BY TypeInit, TypeStep, PTL DEF Spec

-----------------------------------------------------------------------------
(* The hchan invariants. *)

\* Nobody new is parked, and whoever is still parked is in the same operation.
StillParked ==
  \A q \in Procs : pc'[q] = "blocked" => pc[q] = "blocked" /\ op'[q] = op[q]

\* A goroutine that stays parked waits for what it waited for.
LEMMA WaitsStill ==
  ASSUME StillParked, NEW q \in Procs, NEW d, NEW c, Waits(q, d, c)'
  PROVE  Waits(q, d, c)
BY DEF StillParked, Waits, Communicates

\* Closing channels and unparking goroutines keep the invariants.
LEMMA HchanShrink ==
  ASSUME HchanInv, StillParked, UNCHANGED buf,
         \A c \in Chans : closed[c] => closed'[c]
  PROVE  HchanInv'
<1>1. NoReceiverBesideValue'
  BY WaitsStill DEF HchanInv, NoReceiverBesideValue
<1>2. NoSenderBesideRoom'
  BY WaitsStill DEF HchanInv, NoSenderBesideRoom
<1>3. NoMatchedParked'
  BY WaitsStill DEF HchanInv, NoMatchedParked
<1> QED
  BY <1>1, <1>2, <1>3 DEF HchanInv

\* Changing one open channel's buffer keeps them if whoever is still parked
\* there is still entitled to be.
LEMMA HchanBuffer ==
  ASSUME TypeOK, HchanInv, StillParked, UNCHANGED closed, NEW c \in Chans,
         \A d \in Chans : d # c => buf'[d] = buf[d],
         \A q \in Procs : ~closed[c] /\ Waits(q, "recv", c)' => buf'[c] = <<>>,
         \A q \in Procs : ~closed[c] /\ Waits(q, "send", c)' => Len(buf'[c]) >= Cap[c]
  PROVE  HchanInv'
<1>1. NoReceiverBesideValue'
  BY WaitsStill DEF HchanInv, NoReceiverBesideValue
<1>2. NoSenderBesideRoom'
  BY WaitsStill DEF HchanInv, NoSenderBesideRoom
<1>3. NoMatchedParked'
  BY WaitsStill DEF HchanInv, NoMatchedParked
<1> QED
  BY <1>1, <1>2, <1>3 DEF HchanInv

\* A ready clause of a parked goroutine is on a closed channel.
LEMMA ParkedReadyClosed ==
  ASSUME TypeOK, HchanInv, NEW p \in Procs, pc[p] = "blocked", Communicates(op[p]),
         NEW k \in DOMAIN op[p].cls, ClauseReady(op[p].cls[k])
  PROVE  op[p].cls[k].ch \in Chans /\ closed[op[p].cls[k].ch]
<1> DEFINE cl == op[p].cls[k]
<1>1. cl \in Clauses /\ cl.ch \in Chans
  BY ClauseTyping DEF ClauseReady
<1>2. cl = [dir |-> cl.dir, ch |-> cl.ch]
  BY <1>1 DEF Clauses
<1>3. Waits(p, cl.dir, cl.ch)
  BY <1>2 DEF Waits
<1>4. buf[cl.ch] \in Seq(Stamps) /\ Cap[cl.ch] \in Nat
  BY <1>1, CapAssumption DEF TypeOK
<1>5. SUFFICES ASSUME ~closed[cl.ch] PROVE FALSE
  BY <1>1
<1>6. CASE cl.dir = "send"
  BY <1>1, <1>3, <1>4, <1>5, <1>6 DEF HchanInv, NoSenderBesideRoom, ClauseReady
<1>7. CASE cl.dir = "recv"
  BY <1>1, <1>3, <1>5, <1>7 DEF HchanInv, NoReceiverBesideValue, ClauseReady
<1> QED
  BY <1>5, <1>6, <1>7 DEF ClauseReady

\* The channel invariants hold initially: nobody is parked.
LEMMA HchanInit == Init => HchanInv
BY DEF Init, SchedInit, HchanInv, NoReceiverBesideValue, NoSenderBesideRoom,
       NoMatchedParked, Waits

\* A commit keeps the invariants if no other goroutine is parked on the other
\* side of an open channel it touches.
LEMMA HchanCommit ==
  ASSUME TypeOK, HchanInv, NEW p \in Procs, NEW cl \in Clauses, ClauseReady(cl),
         CommitClause(p, cl), Finish(p),
         closed[cl.ch] \/ SideWaiters(p, cl) = {}
  PROVE  HchanInv'
<1> DEFINE c == cl.ch
<1>1. c \in Chans /\ buf[c] \in Seq(Stamps) /\ Cap[c] \in Nat
  BY CapAssumption DEF ClauseReady, TypeOK
<1>2. StillParked /\ pc'[p] # "blocked"
  BY DEF StillParked, CommitClause, CommitSend, CommitRecv, Goto, Completed, Finish,
         TypeOK, SchedTypeOK
<1>3. UNCHANGED closed
  BY DEF CommitClause, CommitSend, CommitRecv, Enqueue, Dequeue, cellVars
<1>4. CASE UNCHANGED buf
  BY <1>2, <1>3, <1>4, HchanShrink
<1>5. CASE closed[c] /\ ~UNCHANGED buf
  <2>1. Dequeue(c)
    BY <1>5 DEF CommitClause, CommitSend, CommitRecv, cellVars
  <2> QED
    BY <1>1, <1>2, <1>3, <1>5, <2>1, HchanBuffer DEF Dequeue, TypeOK
<1>6. CASE ~closed[c] /\ cl.dir = "send"
  <2>1. Enqueue(c, Stamp(p)) /\ Len(buf[c]) < Cap[c]
    BY <1>6 DEF CommitClause, CommitSend, ClauseReady
  <2>2. ASSUME NEW q \in Procs PROVE ~Waits(q, "recv", c)' /\ ~Waits(q, "send", c)'
    <3>1. CASE q = p
      BY <1>2, <3>1 DEF Waits
    <3>2. CASE q # p
      <4>1. ~Waits(q, "recv", c)
        BY <1>1, <1>6, <3>2 DEF SideWaiters, Opposite
      <4>2. ~Waits(q, "send", c)
        BY <1>1, <1>6, <2>1 DEF HchanInv, NoSenderBesideRoom
      <4> QED
        BY <1>2, <4>1, <4>2, WaitsStill
    <3> QED
      BY <3>1, <3>2
  <2> QED
    BY <1>1, <1>2, <1>3, <2>1, <2>2, HchanBuffer DEF Enqueue, TypeOK
<1>7. CASE ~closed[c] /\ cl.dir = "recv"
  <2>1. Dequeue(c) /\ buf[c] # <<>>
    BY <1>7 DEF CommitClause, CommitRecv, ClauseReady
  <2>2. ASSUME NEW q \in Procs PROVE ~Waits(q, "recv", c)' /\ ~Waits(q, "send", c)'
    <3>1. CASE q = p
      BY <1>2, <3>1 DEF Waits
    <3>2. CASE q # p
      <4>1. ~Waits(q, "send", c)
        BY <1>1, <1>7, <3>2 DEF SideWaiters, Opposite
      <4>2. ~Waits(q, "recv", c)
        BY <1>1, <1>7, <2>1 DEF HchanInv, NoReceiverBesideValue
      <4> QED
        BY <1>2, <4>1, <4>2, WaitsStill
    <3> QED
      BY <3>1, <3>2
  <2> QED
    BY <1>1, <1>2, <1>3, <2>1, <2>2, HchanBuffer DEF Dequeue, TypeOK
<1> QED
  BY <1>4, <1>5, <1>6, <1>7 DEF CommitClause

\* A pairing keeps the channel invariants and never takes the refusal.
LEMMA HchanPair ==
  ASSUME TypeOK, HchanInv, NEW p \in Procs, Pair(p)
  PROVE  HchanInv' /\ status' = status
<1>1. PICK k \in DOMAIN op[p].cls : \E q \in SideWaiters(p, op[p].cls[k]) :
        /\ ApplyPairing(p, op[p].cls[k], q)
        /\ op' = [op EXCEPT ![p] = NoOp, ![q] = NoOp]
  BY DEF Pair
<1> DEFINE cl == op[p].cls[k]
<1>2. PICK q \in SideWaiters(p, cl) :
        ApplyPairing(p, cl, q) /\ op' = [op EXCEPT ![p] = NoOp, ![q] = NoOp]
  BY <1>1
<1>c. PICK c \in Chans : c = cl.ch
  BY DEF SideWaiters
<1>3. /\ q \in Procs /\ q # p
      /\ ~closed[c]
      /\ Waits(q, Opposite(cl.dir), c)
      /\ buf[c] \in Seq(Stamps)
  BY <1>c DEF SideWaiters, TypeOK
<1>4. cl.dir = "send" => buf[c] = <<>>
  BY <1>3 DEF HchanInv, NoReceiverBesideValue, Opposite
<1>5. BothProceed(p, q)
  BY <1>2, <1>4, <1>c DEF ApplyPairing
<1>6. StillParked /\ pc'[p] # "blocked" /\ pc'[q] # "blocked"
  BY <1>2, <1>3, <1>5 DEF StillParked, BothProceed, TypeOK, SchedTypeOK
<1>7. UNCHANGED closed
  BY <1>2, <1>4, <1>c DEF ApplyPairing, Handoff, Refill
<1>8. CASE buf[c] = <<>>
  <2>1. UNCHANGED buf
    BY <1>2, <1>8, <1>c DEF ApplyPairing, Handoff
  <2> QED
    BY <1>5, <1>6, <1>7, <2>1, HchanShrink DEF BothProceed
<1>9. CASE buf[c] # <<>>
  <2>1. cl.dir = "recv" /\ Refill(c, Stamp(q))
    BY <1>2, <1>4, <1>9, <1>c DEF ApplyPairing
  <2>2. \A r \in Procs : ~Waits(r, "recv", c)'
    BY <1>3, <1>6, <1>9, WaitsStill DEF HchanInv, NoReceiverBesideValue
  <2>3. /\ \A d \in Chans : d # c => buf'[d] = buf[d]
        /\ buf'[c] = Append(Tail(buf[c]), Stamp(q))
    BY <1>3, <2>1 DEF Refill, TypeOK
  <2>4. Len(buf'[c]) = Len(buf[c])
    BY <1>3, <1>9, <2>3, StampTyping
  <2>5. \A r \in Procs : Waits(r, "send", c)' => Len(buf'[c]) >= Cap[c]
    BY <1>3, <1>6, <2>4, WaitsStill DEF HchanInv, NoSenderBesideRoom
  <2> QED
    BY <1>3, <1>5, <1>6, <1>7, <2>2, <2>3, <2>5, HchanBuffer DEF BothProceed
<1> QED
  BY <1>8, <1>9

\* Whoever parks found no ready clause and no partner.
LEMMA HchanPark ==
  ASSUME TypeOK, HchanInv, NEW p \in Procs, Park(p)
  PROVE  HchanInv'
<1>1. /\ UNCHANGED <<op, buf, closed>>
      /\ pc' = [pc EXCEPT ![p] = "blocked"]
      /\ pc[p] # "blocked"
      /\ pc \in [Procs -> Pcs]
      /\ NoneReady(p)
  BY DEF Park, Applying, PickedAt, Goto, cellVars, TypeOK, SchedTypeOK
<1>2. ASSUME NEW q \in Procs, NEW d, NEW c, q # p
      PROVE  Waits(q, d, c)' <=> Waits(q, d, c)
  BY <1>1, <1>2 DEF Waits, Communicates
<1>3. ASSUME NEW d \in {"send", "recv"}, NEW c \in Chans, Waits(p, d, c)'
      PROVE  /\ ~ClauseReady([dir |-> d, ch |-> c])
             /\ SideWaiters(p, [dir |-> d, ch |-> c]) = {}
  <2>1. PICK k \in DOMAIN op[p].cls : op[p].cls[k] = [dir |-> d, ch |-> c]
    BY <1>1, <1>3 DEF Waits
  <2> QED
    BY <1>1, <2>1 DEF NoneReady, ArrivalReady
<1>4. NoReceiverBesideValue'
  <2> SUFFICES ASSUME NEW q \in Procs, NEW c \in Chans, ~closed[c], Waits(q, "recv", c)'
               PROVE  buf[c] = <<>>
    BY <1>1 DEF NoReceiverBesideValue
  <2>1. CASE q = p
    BY <1>3, <2>1 DEF ClauseReady
  <2>2. CASE q # p
    BY <1>2, <2>2 DEF HchanInv, NoReceiverBesideValue
  <2> QED
    BY <2>1, <2>2
<1>5. NoSenderBesideRoom'
  <2> SUFFICES ASSUME NEW q \in Procs, NEW c \in Chans, ~closed[c], Waits(q, "send", c)'
               PROVE  Len(buf[c]) >= Cap[c]
    BY <1>1 DEF NoSenderBesideRoom
  <2>1. CASE q = p
    <3>1. buf[c] \in Seq(Stamps) /\ Cap[c] \in Nat
      BY CapAssumption DEF TypeOK
    <3>2. ~(Len(buf[c]) < Cap[c])
      BY <1>3, <2>1 DEF ClauseReady
    <3> QED
      BY <3>1, <3>2
  <2>2. CASE q # p
    BY <1>2, <2>2 DEF HchanInv, NoSenderBesideRoom
  <2> QED
    BY <2>1, <2>2
<1>6. NoMatchedParked'
  <2> SUFFICES ASSUME NEW q \in Procs, NEW r \in Procs, NEW c \in Chans, q # r, ~closed[c],
                      Waits(q, "send", c)', Waits(r, "recv", c)'
               PROVE  FALSE
    BY <1>1 DEF NoMatchedParked
  <2>1. CASE q = p
    <3>1. Waits(r, "recv", c) /\ SideWaiters(p, [dir |-> "send", ch |-> c]) = {}
      BY <1>2, <1>3, <2>1
    <3> QED
      BY <2>1, <3>1 DEF SideWaiters, Opposite
  <2>2. CASE r = p
    <3>1. Waits(q, "send", c) /\ SideWaiters(p, [dir |-> "recv", ch |-> c]) = {}
      BY <1>2, <1>3, <2>2
    <3> QED
      BY <2>2, <3>1 DEF SideWaiters, Opposite
  <2>3. CASE q # p /\ r # p
    BY <1>2, <2>3 DEF HchanInv, NoMatchedParked
  <2> QED
    BY <2>1, <2>2, <2>3
<1> QED
  BY <1>4, <1>5, <1>6 DEF HchanInv

\* Each step of an operation keeps the channel invariants.
LEMMA HchanOpStep ==
  ASSUME TypeOK, HchanInv, NEW p \in Procs, OpStep(p)
  PROVE  HchanInv' /\ (status # "internal" => status' # "internal")
<1> USE DEF TypeOK, SchedTypeOK, Applying, PickedAt, Picked
<1>1. ASSUME NEW o \in Ops, Issue(p, o) PROVE HchanInv' /\ status' = status
  <2>1. StillParked /\ UNCHANGED <<buf, closed, status>>
    BY <1>1 DEF Issue, Goto, StillParked, cellVars
  <2> QED
    BY <2>1, HchanShrink
<1>2. CASE RefuseSelect(p) \/ SpawnNil(p)
  <2>1. StillParked /\ UNCHANGED <<buf, closed>> /\ status' \in {"unsupported", "fatal"}
    BY <1>2 DEF RefuseSelect, SpawnNil, Stopped, StillParked, cellVars
  <2> QED
    BY <2>1, HchanShrink
<1>3. CASE Pair(p)
  BY <1>3, HchanPair
<1>4. CASE Commit(p) \/ Wake(p)
  <2>1. PICK k \in DOMAIN op[p].cls :
          /\ ClauseReady(op[p].cls[k])
          /\ CommitClause(p, op[p].cls[k])
          /\ Commit(p) => SideWaiters(p, op[p].cls[k]) = {}
    BY <1>4 DEF Commit, Wake
  <2>2. Finish(p) /\ status' = status
    BY <1>4 DEF Commit, Wake
  <2>3. Wake(p) => closed[op[p].cls[k].ch]
    <3> SUFFICES ASSUME Wake(p) PROVE closed[op[p].cls[k].ch]
      OBVIOUS
    <3>1. pc[p] = "blocked" /\ p \in WakeReady \cup {cur}
      BY DEF Wake, RunnableIdxs, ThreadRunnable
    <3>2. p \in WakeReady
      BY <3>1 DEF Wake, RunnableIdxs, ThreadRunnable, AtBoundary
    <3> QED
      BY <2>1, <3>1, <3>2, ParkedReadyClosed DEF WakeReady
  <2> QED
    BY <1>4, <2>1, <2>2, <2>3, ClauseTyping, HchanCommit
<1>5. CASE TakeDefault(p)
  <2>1. StillParked /\ UNCHANGED <<buf, closed, status>>
    BY <1>5 DEF TakeDefault, Goto, Finish, StillParked, cellVars
  <2> QED
    BY <2>1, HchanShrink
<1>6. CASE Park(p)
  BY <1>6, HchanPark DEF Park
<1>7. CASE Close(p)
  <2>1. StillParked /\ UNCHANGED <<buf, status>>
    BY <1>7 DEF Close, Goto, Completed, Finish, StillParked, cellVars
  <2>2. \A c \in Chans : closed[c] => closed'[c]
    BY <1>7 DEF Close, cellVars
  <2> QED
    BY <2>1, <2>2, HchanShrink
<1>8. CASE Spawn(p)
  <2>1. StillParked /\ UNCHANGED <<buf, closed, status>>
    BY <1>8 DEF Spawn, Finish, StillParked, Unborn, cellVars
  <2> QED
    BY <2>1, HchanShrink
<1> QED
  BY <1>1, <1>2, <1>3, <1>4, <1>5, <1>6, <1>7, <1>8 DEF OpStep

Inv == TypeOK /\ HchanInv /\ NoInternal

\* Every step keeps the channel invariants.
LEMMA HchanStep == Inv /\ [Next]_vars => Inv'
<1> SUFFICES ASSUME Inv, [Next]_vars PROVE Inv'
  OBVIOUS
<1>1. TypeOK'
  BY TypeStep DEF Inv
<1>2. ASSUME NEW p \in Procs, OpStep(p) PROVE HchanInv' /\ NoInternal'
  BY <1>2, HchanOpStep DEF Inv, NoInternal
<1>3. ASSUME NEW p \in Procs, Local(p) PROVE HchanInv' /\ NoInternal'
  <2>1. StillParked /\ UNCHANGED <<buf, closed, status>>
    BY <1>3 DEF Inv, TypeOK, SchedTypeOK, Local, LocalStep, OpDoneStrip, ReachEdge, PassEdge,
                Return, Raise, Recover, Abort, PickedAt, Goto, StillParked, cellVars
  <2>2. HchanInv'
    BY <2>1, HchanShrink DEF Inv
  <2> QED
    BY <1>1, <2>1, <2>2 DEF Inv, NoInternal
<1>4. CASE End
  <2>1. StillParked /\ UNCHANGED <<buf, closed>> /\ status' # "internal"
    BY <1>4 DEF End, EndStep, EndPanic, EndExit, EndDeadlock, FuelOut, StillParked, cellVars
  <2>2. HchanInv'
    BY <2>1, HchanShrink DEF Inv
  <2> QED
    BY <1>1, <2>1, <2>2 DEF Inv, NoInternal
<1>5. CASE Stutter \/ UNCHANGED vars
  <2>1. StillParked /\ UNCHANGED <<buf, closed, status>>
    BY <1>5 DEF Stutter, Ended, vars, schedVars, cellVars, StillParked
  <2>2. HchanInv'
    BY <2>1, HchanShrink DEF Inv
  <2> QED
    BY <1>1, <2>1, <2>2 DEF Inv, NoInternal
<1> QED
  BY <1>1, <1>2, <1>3, <1>4, <1>5 DEF Inv, Next

\* The inductive invariant along every run.
LEMMA InvCorrect == Spec => []Inv
<1>1. Init => Inv
  BY TypeInit, HchanInit DEF Inv, NoInternal, Init, SchedInit
<1> QED
  BY <1>1, HchanStep, PTL DEF Spec

\* The channel invariants of Multi.lean's header hold in every state of every
\* run, for any number of goroutines and channels of any capacity.
THEOREM HchanCorrect == Spec => []HchanInv
BY InvCorrect, PTL DEF Inv

\* The refusal that guards them ("parked receiver beside a nonempty buffer") is
\* never taken.
THEOREM NeverInternal == Spec => []NoInternal
BY InvCorrect, PTL DEF Inv

\* A parked goroutine becomes wake-ready through a close and in no other way.
THEOREM WokenByCloseCorrect == Spec => []WokenByClose
<1>1. Inv => WokenByClose
  BY ParkedReadyClosed DEF Inv, WokenByClose, WakeReady
<1> QED
  BY <1>1, InvCorrect, PTL

-----------------------------------------------------------------------------
(* What a step does to the channels, whichever action it is of. *)

InOp == {"apply", "blocked"}

\* p completes the operation it was applying or parked in.
Proceeds(p) == pc[p] \in InOp /\ pc'[p] = "priv" /\ UNCHANGED left

MoveOn(c) ==
  \/ \E p \in Procs :
       /\ Proceeds(p)
       /\ ~closed[c]
       /\ \/ Enqueue(c, Stamp(p)) /\ Len(buf[c]) < Cap[c]
          \/ Handoff(c, Stamp(p)) /\ buf[c] = <<>>
          \/ Refill(c, Stamp(p)) /\ buf[c] # <<>>
  \/ Dequeue(c) /\ buf[c] # <<>>
  \/ /\ ~closed[c]
     /\ closed' = [closed EXCEPT ![c] = TRUE]
     /\ UNCHANGED <<buf, sent, rcvd, zeroed>>
  \/ /\ closed[c] /\ buf[c] = <<>>
     /\ zeroed' = zeroed \cup {c}
     /\ UNCHANGED <<buf, closed, sent, rcvd>>

Moves == UNCHANGED cellVars \/ \E c \in Chans : MoveOn(c)

\* A commit against the cell is a move of its channel.
LEMMA CommitMoves ==
  ASSUME TypeOK, NEW p \in Procs, pc[p] \in InOp, NEW cl \in Clauses, ClauseReady(cl),
         CommitClause(p, cl), UNCHANGED left
  PROVE  Moves
<1>1. cl.ch \in Chans /\ pc \in [Procs -> Pcs]
  BY DEF ClauseReady, TypeOK, SchedTypeOK
<1>2. CASE cl.dir = "send" /\ closed[cl.ch]
  BY <1>2 DEF CommitClause, CommitSend, Moves
<1>3. CASE cl.dir = "send" /\ ~closed[cl.ch]
  <2>1. Enqueue(cl.ch, Stamp(p)) /\ Len(buf[cl.ch]) < Cap[cl.ch] /\ Completed(p)
    BY <1>3 DEF CommitClause, CommitSend, ClauseReady
  <2>2. Proceeds(p)
    BY <1>1, <2>1 DEF Completed, Proceeds
  <2> QED
    BY <1>1, <1>3, <2>1, <2>2 DEF MoveOn, Moves
<1>4. CASE cl.dir = "recv" /\ buf[cl.ch] # <<>>
  BY <1>1, <1>4 DEF CommitClause, CommitRecv, MoveOn, Moves
<1>5. CASE cl.dir = "recv" /\ buf[cl.ch] = <<>>
  BY <1>1, <1>5 DEF CommitClause, CommitRecv, ClauseReady, MoveOn, Moves
<1> QED
  BY <1>2, <1>3, <1>4, <1>5 DEF CommitClause

\* So is a pairing, of the channel the partner is parked on.
LEMMA PairMoves ==
  ASSUME TypeOK, HchanInv, NEW p \in Procs, Pair(p)
  PROVE  Moves
<1>1. PICK k \in DOMAIN op[p].cls : \E q \in SideWaiters(p, op[p].cls[k]) :
        ApplyPairing(p, op[p].cls[k], q)
  BY DEF Pair
<1> DEFINE cl == op[p].cls[k]
<1>2. PICK q \in SideWaiters(p, cl) : ApplyPairing(p, cl, q)
  BY <1>1
<1>c. PICK c \in Chans : c = cl.ch
  BY DEF SideWaiters
<1>3. /\ q \in Procs /\ q # p
      /\ ~closed[c]
      /\ Waits(q, Opposite(cl.dir), c)
  BY <1>c DEF SideWaiters
<1>4. cl.dir = "send" => buf[c] = <<>>
  BY <1>3 DEF HchanInv, NoReceiverBesideValue, Opposite
<1>5. BothProceed(p, q)
  BY <1>2, <1>4, <1>c DEF ApplyPairing
<1>6. Proceeds(p) /\ Proceeds(q)
  BY <1>3, <1>5 DEF Proceeds, BothProceed, Waits, Pair, Applying, PickedAt, TypeOK, SchedTypeOK,
                    InOp
<1>7. \E o \in {p, q} : \/ Handoff(c, Stamp(o)) /\ buf[c] = <<>>
                        \/ Refill(c, Stamp(o)) /\ buf[c] # <<>>
  BY <1>2, <1>4, <1>c DEF ApplyPairing
<1> QED
  BY <1>3, <1>6, <1>7 DEF MoveOn, Moves

\* Every step of the pool leaves the cells alone or moves one channel.
LEMMA StepMoves ==
  ASSUME Inv, [Next]_vars
  PROVE  Moves
<1> USE DEF Inv
<1>1. ASSUME NEW p \in Procs, OpStep(p) PROVE Moves
  <2>1. CASE Pair(p)
    BY <2>1, PairMoves
  <2>2. CASE Commit(p)
    <3>1. PICK k \in DOMAIN op[p].cls :
            ClauseReady(op[p].cls[k]) /\ CommitClause(p, op[p].cls[k])
      BY <2>2 DEF Commit
    <3>2. pc[p] \in InOp /\ UNCHANGED left
      BY <2>2 DEF Commit, Applying, PickedAt, InOp
    <3> QED
      BY <3>1, <3>2, ClauseTyping, CommitMoves
  <2>3. CASE Wake(p)
    <3>1. PICK k \in DOMAIN op[p].cls :
            ClauseReady(op[p].cls[k]) /\ CommitClause(p, op[p].cls[k])
      BY <2>3 DEF Wake
    <3>2. pc[p] \in InOp /\ UNCHANGED left
      BY <2>3 DEF Wake, PickedAt, InOp
    <3> QED
      BY <3>1, <3>2, ClauseTyping, CommitMoves
  <2>4. CASE Close(p)
    <3>1. op[p].cls[1].ch \in Chans \cup {NilChan}
      <4>1. op[p] \in Ops \cup {NoOp} /\ op[p].kind = "close"
        BY <2>4 DEF Close, Applying, TypeOK
      <4>2. 1 \in DOMAIN op[p].cls
        BY <4>1, OpTyping
      <4> QED
        BY <4>2, ClauseTyping
    <3> QED
      BY <2>4, <3>1 DEF Close, MoveOn, Moves
  <2> QED
    BY <1>1, <2>1, <2>2, <2>3, <2>4
    DEF OpStep, Issue, RefuseSelect, TakeDefault, Park, Spawn, SpawnNil, Moves
<1>2. CASE \E p \in Procs : Local(p)
  BY <1>2 DEF Local, Moves
<1>3. CASE End \/ Stutter \/ UNCHANGED vars
  BY <1>3 DEF End, Stutter, vars, Moves
<1> QED
  BY <1>1, <1>2, <1>3 DEF Next

-----------------------------------------------------------------------------
(* Sends commit once. *)

\* The stamps communicated so far are of operations that are over: theirs are
\* not the stamps of pending operations or of later ones.
SentIsOver ==
  \A p \in Procs, c \in Chans : \A i \in DOMAIN sent[c] :
    sent[c][i][1] = p => /\ sent[c][i][2] >= left[p]
                         /\ pc[p] \in InOp => sent[c][i][2] > left[p]

SentOnce ==
  \A c, d \in Chans : \A i \in DOMAIN sent[c], j \in DOMAIN sent[d] :
    sent[c][i] = sent[d][j] => c = d /\ i = j

\* An operation begins with an issue, which uses up a part of the budget.
LEMMA BudgetStep ==
  ASSUME TypeOK, [Next]_vars, NEW p \in Procs
  PROVE  /\ left[p] \in Nat /\ left'[p] \in Nat
         /\ left'[p] <= left[p]
         /\ pc'[p] \in InOp => pc[p] \in InOp \/ left'[p] < left[p]
<1>0. left[p] \in Nat /\ left'[p] \in Nat
  BY TypeStep DEF TypeOK, SchedTypeOK
<1> DEFINE Goal == /\ left'[p] <= left[p]
                   /\ pc'[p] \in InOp => pc[p] \in InOp \/ left'[p] < left[p]
<1> USE DEF TypeOK, SchedTypeOK, InOp
<1>1. ASSUME NEW q \in Procs, OpStep(q) PROVE Goal
  <2>1. CASE \E o \in Ops : Issue(q, o)
    BY <1>0, <2>1 DEF Issue, Goto
  <2>2. CASE Pair(q)
    <3>1. PICK k \in DOMAIN op[q].cls : \E r \in SideWaiters(q, op[q].cls[k]) :
            ApplyPairing(q, op[q].cls[k], r)
      BY <2>2 DEF Pair
    <3>2. PICK r \in Procs : ApplyPairing(q, op[q].cls[k], r)
      BY <3>1 DEF SideWaiters
    <3>3. BothProceed(q, r) \/ Stopped("internal")
      BY <3>2 DEF ApplyPairing
    <3>4. CASE BothProceed(q, r)
      <4>1. pc' = [pc EXCEPT ![q] = "priv", ![r] = "priv"] /\ left' = left
        BY <3>4 DEF BothProceed
      <4>2. pc'[p] \in {"priv", pc[p]}
        BY <4>1
      <4> QED
        BY <1>0, <4>1, <4>2
    <3>5. CASE Stopped("internal")
      BY <1>0, <3>5 DEF Stopped
    <3> QED
      BY <3>3, <3>4, <3>5
  <2>3. CASE Commit(q) \/ Wake(q)
    <3>1. PICK k \in DOMAIN op[q].cls : CommitClause(q, op[q].cls[k])
      BY <2>3 DEF Commit, Wake
    <3>2. left' = left
      BY <2>3 DEF Commit, Wake
    <3>3. \E at \in {"priv", "panicking"} : pc' = [pc EXCEPT ![q] = at]
      BY <3>1 DEF CommitClause, CommitSend, CommitRecv, Goto, Completed
    <3> QED
      BY <1>0, <3>2, <3>3
  <2>4. CASE RefuseSelect(q) \/ SpawnNil(q)
    BY <1>0, <2>4 DEF RefuseSelect, SpawnNil, Stopped
  <2>5. CASE TakeDefault(q) \/ Park(q)
    BY <1>0, <2>5 DEF TakeDefault, Park, Goto, Applying, PickedAt
  <2>6. CASE Close(q)
    BY <1>0, <2>6 DEF Close, Goto, Completed
  <2>7. CASE Spawn(q)
    BY <1>0, <2>7 DEF Spawn
  <2> QED
    BY <1>1, <2>1, <2>2, <2>3, <2>4, <2>5, <2>6, <2>7 DEF OpStep
<1>2. ASSUME NEW q \in Procs, Local(q) PROVE Goal
  <2>1. CASE ReachEdge(q, WakeReady) \/ Raise(q, WakeReady)
    BY <1>0, <2>1 DEF ReachEdge, Raise, Goto
  <2>2. CASE OpDoneStrip(q, WakeReady)
    BY <1>0, <2>2 DEF OpDoneStrip
  <2>3. CASE \/ PassEdge(q, WakeReady) \/ Return(q, WakeReady)
             \/ Recover(q, WakeReady) \/ Abort(q, WakeReady)
    <3>1. left' = left /\ \E at \in {"priv", "done", "aborted"} : pc' = [pc EXCEPT ![q] = at]
      BY <2>3 DEF PassEdge, Return, Recover, Abort, Goto
    <3> QED
      BY <1>0, <3>1
  <2> QED
    BY <1>2, <2>1, <2>2, <2>3 DEF Local, LocalStep
<1>3. CASE End \/ Stutter \/ UNCHANGED vars
  BY <1>0, <1>3 DEF End, EndStep, Stutter, Ended, vars, schedVars
<1> QED
  BY <1>0, <1>1, <1>2, <1>3 DEF Next

\* A step adds at most one stamp, at the end of one channel's communications.
LEMMA SentStep ==
  ASSUME TypeOK, Moves
  PROVE  \/ UNCHANGED sent
         \/ \E c \in Chans, p \in Procs :
              Proceeds(p) /\ sent' = [sent EXCEPT ![c] = Append(@, Stamp(p))]
BY DEF Moves, MoveOn, cellVars, Enqueue, Handoff, Refill, Dequeue

OnceInv == SentIsOver /\ SentOnce

\* The two stay true: what is added is the stamp of an operation that was
\* pending, and is not any more.
LEMMA OnceStep ==
  ASSUME Inv, OnceInv, [Next]_vars
  PROVE  OnceInv'
<1>0. TypeOK /\ Moves /\ TypeOK'
  BY StepMoves, TypeStep DEF Inv
<1>1. CASE UNCHANGED sent
  <2>1. SentOnce'
    BY <1>1 DEF OnceInv, SentOnce
  <2>2. ASSUME NEW p \in Procs, NEW c \in Chans, NEW i \in DOMAIN sent[c], sent[c][i][1] = p
        PROVE  sent[c][i][2] >= left'[p] /\ (pc'[p] \in InOp => sent[c][i][2] > left'[p])
    <3>1. sent[c][i] \in Stamps
      BY <1>0 DEF TypeOK
    <3>2. sent[c][i][2] \in Nat
      BY <3>1, BudgetAssumption DEF Stamps
    <3> QED
      BY <1>0, <2>2, <3>2, BudgetStep DEF OnceInv, SentIsOver
  <2> QED
    BY <1>1, <2>1, <2>2 DEF OnceInv, SentIsOver
<1>2. ASSUME NEW c \in Chans, NEW p \in Procs, Proceeds(p),
             sent' = [sent EXCEPT ![c] = Append(@, Stamp(p))]
      PROVE  OnceInv'
  <2>1. /\ sent'[c] = Append(sent[c], Stamp(p))
        /\ \A d \in Chans : d # c => sent'[d] = sent[d]
        /\ sent[c] \in Seq(Stamps)
    BY <1>0, <1>2 DEF TypeOK
  <2>2. /\ DOMAIN sent'[c] = DOMAIN sent[c] \cup {Len(sent[c]) + 1}
        /\ Len(sent[c]) + 1 \notin DOMAIN sent[c]
        /\ sent'[c][Len(sent[c]) + 1] = Stamp(p)
        /\ \A i \in DOMAIN sent[c] : sent'[c][i] = sent[c][i]
    BY <1>0, <2>1, StampTyping
  <2>3. ASSUME NEW d \in Chans, NEW i \in DOMAIN sent[d] PROVE sent[d][i] # Stamp(p)
    <3>1. sent[d][i] \in Stamps /\ left[p] \in Nat
      BY <1>0 DEF TypeOK, SchedTypeOK
    <3>2. sent[d][i][2] \in Nat
      BY <3>1, BudgetAssumption DEF Stamps
    <3>3. sent[d][i][1] = p => sent[d][i][2] > left[p]
      BY <1>2 DEF OnceInv, SentIsOver, Proceeds
    <3> QED
      BY <3>1, <3>2, <3>3 DEF Stamp
  <2>4. SentOnce'
    <3> SUFFICES ASSUME NEW d \in Chans, NEW e \in Chans,
                        NEW i \in DOMAIN sent'[d], NEW j \in DOMAIN sent'[e],
                        sent'[d][i] = sent'[e][j]
                 PROVE  d = e /\ i = j
      BY DEF SentOnce
    <3>1. CASE i \in DOMAIN sent[d] /\ j \in DOMAIN sent[e]
      BY <2>1, <2>2, <3>1 DEF OnceInv, SentOnce
    <3>2. CASE i \notin DOMAIN sent[d]
      BY <2>1, <2>2, <2>3, <3>2
    <3>3. CASE j \notin DOMAIN sent[e]
      BY <2>1, <2>2, <2>3, <3>3
    <3> QED
      BY <3>1, <3>2, <3>3
  <2>5. SentIsOver'
    <3> SUFFICES ASSUME NEW q \in Procs, NEW d \in Chans, NEW i \in DOMAIN sent'[d],
                        sent'[d][i][1] = q
                 PROVE  /\ sent'[d][i][2] >= left'[q]
                        /\ pc'[q] \in InOp => sent'[d][i][2] > left'[q]
      BY DEF SentIsOver
    <3>1. CASE i \in DOMAIN sent[d]
      <4>0. sent[d] \in Seq(Stamps)
        BY <1>0 DEF TypeOK
      <4>1. sent[d][i] \in Stamps /\ sent'[d][i] = sent[d][i]
        BY <2>1, <2>2, <3>1, <4>0
      <4>2. sent[d][i][2] \in Nat
        BY <4>1, BudgetAssumption DEF Stamps
      <4> QED
        BY <1>0, <3>1, <4>1, <4>2, BudgetStep DEF OnceInv, SentIsOver
    <3>2. CASE i \notin DOMAIN sent[d]
      <4>1. sent'[d][i] = Stamp(p)
        BY <2>1, <2>2, <3>2
      <4>2. q = p /\ left'[p] = left[p] /\ pc'[p] \notin InOp /\ left[p] \in Nat
        <5>1. left[p] \in Nat /\ p \in Procs
          BY <1>0, <1>2 DEF TypeOK, SchedTypeOK
        <5> QED
          BY <1>2, <4>1, <5>1 DEF Stamp, Proceeds, InOp
      <4> QED
        BY <4>1, <4>2 DEF Stamp
    <3> QED
      BY <3>1, <3>2
  <2> QED
    BY <2>4, <2>5 DEF OnceInv
<1> QED
  BY <1>0, <1>1, <1>2, SentStep

\* Every send, plain or in a select, communicates its value at most once and on
\* one channel, and a goroutine still in its operation has communicated nothing:
\* whoever pairs with it, wakes it or overtakes it.
THEOREM CommitsOnceCorrect == Spec => []CommitsOnce
<1>1. Init => OnceInv
  BY DEF Init, OnceInv, SentIsOver, SentOnce
<1>2. Inv /\ OnceInv /\ [Next]_vars => OnceInv'
  BY OnceStep
<1>3. Inv /\ OnceInv => CommitsOnce
  <2> SUFFICES ASSUME Inv, OnceInv PROVE CommitsOnce
    OBVIOUS
  <2>1. ASSUME NEW p \in Procs, NEW c \in Chans, NEW i \in DOMAIN sent[c],
               pc[p] \in InOp
        PROVE  sent[c][i] # Stamp(p)
    <3>1. sent[c][i] \in Stamps /\ left[p] \in Nat
      BY DEF Inv, TypeOK, SchedTypeOK
    <3>2. sent[c][i][2] \in Nat
      BY <3>1, BudgetAssumption DEF Stamps
    <3>3. sent[c][i][1] = p => sent[c][i][2] > left[p]
      BY <2>1 DEF OnceInv, SentIsOver
    <3> QED
      BY <3>1, <3>2, <3>3 DEF Stamp
  <2> QED
    BY <2>1 DEF CommitsOnce, OnceInv, SentOnce, InOp
<1> QED
  BY <1>1, <1>2, <1>3, InvCorrect, PTL DEF Spec

-----------------------------------------------------------------------------
(* The pool implements AbsChan. *)

\* What was communicated on a channel is what was delivered, then what is
\* buffered, in order.
Fifo == \A c \in Chans : sent[c] = rcvd[c] \o buf[c]

\* A value added at the tail of the second part is added at the tail.
LEMMA AppendTail ==
  ASSUME NEW r \in Seq(Stamps), NEW b \in Seq(Stamps), NEW v \in Stamps
  PROVE  Append(r \o b, v) = r \o Append(b, v)
OBVIOUS

\* Moving the head of the second part to the tail of the first changes nothing.
LEMMA ShiftHead ==
  ASSUME NEW S, NEW r \in Seq(S), NEW b \in Seq(S), b # <<>>
  PROVE  /\ r \o b = Append(r, Head(b)) \o Tail(b)
         /\ Len(r) + 1 \in 1..Len(r \o b)
         /\ (r \o b)[Len(r) + 1] = Head(b)
<1>1. Head(b) \in S /\ Tail(b) \in Seq(S) /\ Len(b) > 0 /\ Len(Tail(b)) = Len(b) - 1
  OBVIOUS
<1>2. Append(r, Head(b)) \o Tail(b) \in Seq(S) /\ r \o b \in Seq(S)
  BY <1>1
<1>3. Len(r \o b) = Len(Append(r, Head(b)) \o Tail(b))
  BY <1>1
<1>4. ASSUME NEW i \in 1..Len(r \o b) PROVE (r \o b)[i] = (Append(r, Head(b)) \o Tail(b))[i]
  BY <1>1
<1> QED
  BY <1>1, <1>2, <1>3, <1>4

\* A move of channel c is a step of AbsChan, and keeps the buffer in order.
LEMMA MoveRefines ==
  ASSUME TypeOK, Fifo, NEW c \in Chans, MoveOn(c)
  PROVE  Abs!Next /\ Fifo'
<1>0. /\ buf[c] \in Seq(Stamps) /\ sent[c] \in Seq(Stamps) /\ rcvd[c] \in Seq(Stamps)
      /\ sent[c] = rcvd[c] \o buf[c]
      /\ Cap[c] \in Nat
      /\ DOMAIN buf = Chans /\ DOMAIN sent = Chans /\ DOMAIN rcvd = Chans
  BY CapAssumption DEF TypeOK, Fifo
<1>f. ASSUME \A d \in Chans : d # c => /\ buf'[d] = buf[d]
                                       /\ sent'[d] = sent[d]
                                       /\ rcvd'[d] = rcvd[d],
             sent'[c] = rcvd'[c] \o buf'[c]
      PROVE  Fifo'
  BY <1>f DEF Fifo
<1>h. ASSUME buf[c] # <<>>
      PROVE  /\ Len(rcvd[c]) + 1 \in 1..Len(sent[c])
             /\ sent[c][Len(rcvd[c]) + 1] = Head(buf[c])
             /\ sent[c] = Append(rcvd[c], Head(buf[c])) \o Tail(buf[c])
  <2>1. rcvd[c] \in Seq(Stamps) /\ buf[c] \in Seq(Stamps)
    BY <1>0
  <2>2. /\ rcvd[c] \o buf[c] = Append(rcvd[c], Head(buf[c])) \o Tail(buf[c])
        /\ Len(rcvd[c]) + 1 \in 1..Len(rcvd[c] \o buf[c])
        /\ (rcvd[c] \o buf[c])[Len(rcvd[c]) + 1] = Head(buf[c])
    BY <1>h, <2>1, ShiftHead, Zenon
  <2> QED
    BY <1>0, <2>2
<1>1. ASSUME NEW p \in Procs, ~closed[c], Enqueue(c, Stamp(p)), Len(buf[c]) < Cap[c]
      PROVE  Abs!Next /\ Fifo'
  <2>1. Stamp(p) \in Stamps
    BY StampTyping
  <2>2. Len(sent[c]) < Len(rcvd[c]) + Cap[c]
    BY <1>0, <1>1
  <2>3. Abs!Send(c, Stamp(p))
    BY <1>1, <2>2 DEF Abs!Send, Abs!Accept, Enqueue
  <2>4. Append(rcvd[c] \o buf[c], Stamp(p)) = rcvd[c] \o Append(buf[c], Stamp(p))
    BY <1>0, <2>1
  <2>5. Fifo'
    BY <1>0, <1>1, <1>f, <2>4 DEF Enqueue
  <2> QED
    BY <2>1, <2>3, <2>5 DEF Abs!Next
<1>2. ASSUME NEW p \in Procs, ~closed[c], Handoff(c, Stamp(p)), buf[c] = <<>>
      PROVE  Abs!Next /\ Fifo'
  <2>1. Stamp(p) \in Stamps
    BY StampTyping
  <2>2. sent[c] = rcvd[c]
    BY <1>0, <1>2
  <2>3. sent'[c][Len(rcvd[c]) + 1] = Stamp(p)
    BY <1>0, <1>2, <2>1, <2>2 DEF Handoff
  <2>4. Abs!Exchange(c, Stamp(p))
    BY <1>0, <1>2, <2>3 DEF Abs!Exchange, Abs!Accept, Abs!Deliver, Handoff
  <2>5. sent'[c] = rcvd'[c] \o buf'[c]
    <3>1. sent'[c] = Append(sent[c], Stamp(p)) /\ rcvd'[c] = sent'[c] /\ buf'[c] = <<>>
      BY <1>0, <1>2, <2>2 DEF Handoff
    <3>2. sent'[c] \in Seq(Stamps)
      BY <1>0, <2>1, <3>1
    <3> QED
      BY <3>1, <3>2
  <2>6. Fifo'
    BY <1>0, <1>2, <1>f, <2>5 DEF Handoff
  <2> QED
    BY <2>1, <2>4, <2>6 DEF Abs!Next
<1>3. ASSUME NEW p \in Procs, ~closed[c], Refill(c, Stamp(p)), buf[c] # <<>>
      PROVE  Abs!Next /\ Fifo'
  <2>1. Stamp(p) \in Stamps /\ Tail(buf[c]) \in Seq(Stamps) /\ Head(buf[c]) \in Stamps
    BY <1>0, <1>3, StampTyping
  <2>2. /\ Len(rcvd[c]) + 1 \in 1..Len(sent[c])
        /\ sent[c][Len(rcvd[c]) + 1] = Head(buf[c])
        /\ sent[c] = Append(rcvd[c], Head(buf[c])) \o Tail(buf[c])
    BY <1>3, <1>h
  <2>3. sent'[c] = Append(sent[c], Stamp(p))
    BY <1>0, <1>3 DEF Refill
  <2>4. sent'[c][Len(rcvd[c]) + 1] = Head(buf[c])
    BY <1>0, <2>1, <2>2, <2>3
  <2>5. Abs!Exchange(c, Stamp(p))
    BY <1>0, <1>3, <2>4 DEF Abs!Exchange, Abs!Accept, Abs!Deliver, Refill
  <2>6. sent'[c] = rcvd'[c] \o buf'[c]
    <3>1. /\ rcvd'[c] = Append(rcvd[c], Head(buf[c]))
          /\ buf'[c] = Append(Tail(buf[c]), Stamp(p))
      BY <1>0, <1>3 DEF Refill
    <3>2. PICK r \in Seq(Stamps) : r = Append(rcvd[c], Head(buf[c]))
      <4>1. Append(rcvd[c], Head(buf[c])) \in Seq(Stamps)
        BY <1>0, <2>1
      <4> QED
        BY <4>1, Zenon
    <3>3. PICK t \in Seq(Stamps) : t = Tail(buf[c])
      BY <2>1
    <3>4. PICK v \in Stamps : v = Stamp(p)
      BY <2>1
    <3>5. Append(r \o t, v) = r \o Append(t, v)
      BY AppendTail
    <3> QED
      BY <2>2, <2>3, <3>1, <3>2, <3>3, <3>4, <3>5
  <2>7. Fifo'
    BY <1>0, <1>3, <1>f, <2>6 DEF Refill
  <2> QED
    BY <2>1, <2>5, <2>7 DEF Abs!Next
<1>4. CASE Dequeue(c) /\ buf[c] # <<>>
  <2>1. /\ Len(rcvd[c]) + 1 \in 1..Len(sent[c])
        /\ sent[c][Len(rcvd[c]) + 1] = Head(buf[c])
        /\ sent[c] = Append(rcvd[c], Head(buf[c])) \o Tail(buf[c])
    BY <1>4, <1>h
  <2>2. Abs!Receive(c)
    <3>1. Len(rcvd[c]) < Len(sent[c])
      BY <1>0, <2>1
    <3>2. UNCHANGED <<sent, closed, zeroed>> /\ Abs!Deliver(c)
      BY <1>4, <2>1 DEF Abs!Deliver, Dequeue
    <3> QED
      BY <3>1, <3>2 DEF Abs!Receive
  <2>3. Fifo'
    BY <1>0, <1>4, <1>f, <2>1 DEF Dequeue
  <2> QED
    BY <2>2, <2>3 DEF Abs!Next
<1>5. CASE /\ ~closed[c]
           /\ closed' = [closed EXCEPT ![c] = TRUE]
           /\ UNCHANGED <<buf, sent, rcvd, zeroed>>
  BY <1>5 DEF Abs!Next, Abs!Close, Fifo
<1>6. CASE /\ closed[c] /\ buf[c] = <<>>
           /\ zeroed' = zeroed \cup {c}
           /\ UNCHANGED <<buf, closed, sent, rcvd>>
  <2>1. rcvd[c] = sent[c]
    BY <1>0, <1>6
  <2> QED
    BY <1>6, <2>1 DEF Abs!Next, Abs!ReceiveZero, Fifo
<1> QED
  BY <1>1, <1>2, <1>3, <1>4, <1>5, <1>6 DEF MoveOn

\* The pool's channels are Go's: seen through the values sent, the values
\* delivered, the closings and the zeros, every run of the pool is a run of
\* AbsChan, for channels of every capacity.
THEOREM PoolRefinesAbsChan == Spec => RefinesAbsChan
<1>1. Init => Abs!Init /\ Fifo
  BY DEF Init, Abs!Init, Fifo
<1>2. ASSUME Inv, Fifo, [Next]_vars PROVE [Abs!Next]_(Abs!absVars) /\ Fifo'
  <2>1. CASE UNCHANGED cellVars
    BY <1>2, <2>1 DEF cellVars, Abs!absVars, Fifo
  <2>2. CASE \E c \in Chans : MoveOn(c)
    BY <1>2, <2>2, MoveRefines DEF Inv
  <2> QED
    BY <1>2, <2>1, <2>2, StepMoves DEF Moves
<1> QED
  BY <1>1, <1>2, InvCorrect, PTL DEF Spec, RefinesAbsChan, Abs!Spec

-----------------------------------------------------------------------------
(* How runs end. *)

\* Only a send, a receive or a select parks.
ParkedCommunicates == \A p \in Procs : pc[p] = "blocked" => Communicates(op[p])

\* The clauses of an operation that may park are sends and receives.
LEMMA CommunicatingClauses ==
  ASSUME TypeOK, NEW p \in Procs, Communicates(op[p]), NEW k \in DOMAIN op[p].cls
  PROVE  /\ op[p].cls[k].dir \in {"send", "recv"}
         /\ op[p].cls[k] = [dir |-> op[p].cls[k].dir, ch |-> op[p].cls[k].ch]
<1>1. op[p] \in Ops
  BY DEF TypeOK, Communicates, NoOp
<1>2. op[p] \in OpShapes
  BY <1>1, OpsAssumption
<1>3. op[p].cls \in Seq(Clauses) /\ op[p].cls[k] \in Clauses
  BY <1>2, ClauseTyping DEF OpShapes
<1>4. op[p].cls[k].dir \in Dirs
  BY <1>3 DEF Clauses
<1>5. op[p].cls[k].dir # "close"
  <2>1. CASE op[p].kind = "select"
    BY <1>2, <2>1 DEF OpShapes
  <2>2. CASE op[p].kind \in {"send", "recv"}
    <3>1. Len(op[p].cls) = 1 /\ op[p].cls[1].dir = op[p].kind
      BY <1>2, <2>2 DEF OpShapes, Dirs
    <3>2. k = 1
      BY <1>3, <3>1
    <3> QED
      BY <2>2, <3>1, <3>2
  <2> QED
    BY <2>1, <2>2 DEF Communicates
<1> QED
  BY <1>3, <1>4, <1>5 DEF Dirs, Clauses

\* A park is of an operation that communicates, and nothing changes the
\* operation of whoever stays parked.
LEMMA ParkedStep ==
  ASSUME Inv, ParkedCommunicates, [Next]_vars
  PROVE  ParkedCommunicates'
<1>0. TypeOK /\ pc \in [Procs -> Pcs]
  BY DEF Inv, TypeOK, SchedTypeOK
<1>s. StillParked => ParkedCommunicates'
  BY DEF StillParked, ParkedCommunicates, Communicates
<1> USE DEF TypeOK, SchedTypeOK
<1>1. ASSUME NEW p \in Procs, OpStep(p) PROVE ParkedCommunicates'
  <2>1. CASE \E o \in Ops : Issue(p, o)
    BY <1>0, <1>s, <2>1 DEF Issue, Goto, StillParked
  <2>2. CASE RefuseSelect(p) \/ SpawnNil(p)
    BY <1>s, <2>2 DEF RefuseSelect, SpawnNil, Stopped, StillParked
  <2>3. CASE Pair(p)
    <3>1. PICK k \in DOMAIN op[p].cls : \E q \in SideWaiters(p, op[p].cls[k]) :
            /\ ApplyPairing(p, op[p].cls[k], q)
            /\ op' = [op EXCEPT ![p] = NoOp, ![q] = NoOp]
      BY <2>3 DEF Pair
    <3>2. PICK q \in Procs :
            /\ ApplyPairing(p, op[p].cls[k], q)
            /\ op' = [op EXCEPT ![p] = NoOp, ![q] = NoOp]
      BY <3>1 DEF SideWaiters
    <3>3. BothProceed(p, q)
      <4>1. BothProceed(p, q) \/ Stopped("internal")
        BY <3>2 DEF ApplyPairing
      <4>2. status' = status /\ status # "internal"
        BY <2>3, HchanPair DEF Inv, NoInternal
      <4> QED
        BY <4>1, <4>2 DEF Stopped
    <3>4. StillParked
      BY <1>0, <3>2, <3>3 DEF BothProceed, StillParked
    <3> QED
      BY <1>s, <3>4
  <2>4. CASE Commit(p) \/ Wake(p)
    <3>1. PICK k \in DOMAIN op[p].cls : CommitClause(p, op[p].cls[k])
      BY <2>4 DEF Commit, Wake
    <3>2. \E at \in {"priv", "panicking"} : pc' = [pc EXCEPT ![p] = at]
      BY <3>1 DEF CommitClause, CommitSend, CommitRecv, Goto, Completed
    <3>3. Finish(p)
      BY <2>4 DEF Commit, Wake
    <3>4. StillParked
      BY <1>0, <3>2, <3>3 DEF Finish, StillParked
    <3> QED
      BY <1>s, <3>4
  <2>5. CASE TakeDefault(p)
    BY <1>0, <1>s, <2>5 DEF TakeDefault, Goto, Finish, StillParked
  <2>6. CASE Park(p)
    BY <1>0, <2>6 DEF Park, Goto, Applying, ParkedCommunicates, Communicates
  <2>7. CASE Close(p)
    BY <1>0, <1>s, <2>7 DEF Close, Goto, Completed, Finish, StillParked
  <2>8. CASE Spawn(p)
    BY <1>0, <1>s, <2>8 DEF Spawn, Finish, StillParked, Unborn
  <2> QED
    BY <1>1, <2>1, <2>2, <2>3, <2>4, <2>5, <2>6, <2>7, <2>8 DEF OpStep
<1>2. ASSUME NEW p \in Procs, Local(p) PROVE ParkedCommunicates'
  <2>1. StillParked
    BY <1>0, <1>2 DEF Local, LocalStep, OpDoneStrip, ReachEdge, PassEdge, Return, Raise, Recover,
                      Abort, PickedAt, Goto, StillParked
  <2> QED
    BY <1>s, <2>1
<1>3. CASE End \/ Stutter \/ UNCHANGED vars
  BY <1>s, <1>3 DEF End, EndStep, Stutter, Ended, vars, schedVars, StillParked
<1> QED
  BY <1>1, <1>2, <1>3 DEF Next

\* A step that is not a stutter begins in a running pool, and only the driver's
\* own verdict is a deadlock.
LEMMA VerdictStep ==
  ASSUME Inv, [Next]_vars
  PROVE  \/ status = "running" /\ (status' = "deadlock" => End)
         \/ UNCHANGED vars
<1>1. ASSUME NEW p \in Procs, OpStep(p)
      PROVE  status = "running" /\ status' # "deadlock"
  <2>1. CASE Pair(p)
    BY <2>1, HchanPair DEF Inv, Pair, Applying, PickedAt, Picked
  <2> QED
    BY <1>1, <2>1
    DEF OpStep, Issue, RefuseSelect, Commit, TakeDefault, Park, Wake, Close, Spawn, SpawnNil,
        Applying, PickedAt, Picked, Stopped
<1>2. ASSUME NEW p \in Procs, Local(p)
      PROVE  status = "running" /\ status' # "deadlock"
  BY <1>2 DEF Local, LocalStep, OpDoneStrip, ReachEdge, PassEdge, Return, Raise, Recover, Abort,
              PickedAt, Picked
<1>3. CASE End
  BY <1>3 DEF End, EndStep, EndPanic, EndExit, EndDeadlock, FuelOut
<1>4. CASE Stutter
  BY <1>4 DEF Stutter, Ended, vars
<1> QED
  BY <1>1, <1>2, <1>3, <1>4 DEF Next

\* The driver calls a deadlock when nobody is runnable; by the hchan invariants
\* whoever is parked then has no partner either, in the cells or in the pool.
LEMMA DeadlockVerdict ==
  ASSUME Inv, ParkedCommunicates, End, status' = "deadlock"
  PROVE  DeadlockIsReal'
<1>1. /\ EndDeadlock(WakeReady)
      /\ UNCHANGED <<pc, flag, op, buf, closed>>
  BY DEF End, EndStep, EndPanic, EndExit, FuelOut, cellVars
<1>2. TypeOK /\ HchanInv /\ pc \in [Procs -> Pcs]
  BY DEF Inv, TypeOK, SchedTypeOK
<1>3. ASSUME NEW p \in Procs
      PROVE  /\ flag[p] = "none"
             /\ pc[p] \in {"unborn", "done", "blocked"}
             /\ pc[p] = "blocked" => p \notin WakeReady
  <2>1. ~ThreadRunnable(p, WakeReady) /\ pc[p] # "aborted"
    BY <1>1 DEF EndDeadlock, RunnableIdxs, PanicMsg
  <2> QED
    BY <1>2, <2>1 DEF ThreadRunnable, Pcs
<1>4. pc[Main] # "done"
  BY <1>1, <1>3, MainAssumption DEF EndDeadlock, MainOutcome
<1>5. ASSUME NEW p \in Procs, pc[p] = "blocked" PROVE NoneReady(p)
  <2> SUFFICES ASSUME NEW k \in DOMAIN op[p].cls PROVE ~ArrivalReady(p, k)
    BY DEF NoneReady
  <2> DEFINE cl == op[p].cls[k]
  <2>1. Communicates(op[p])
    BY <1>5 DEF ParkedCommunicates
  <2>2. ~ClauseReady(cl)
    BY <1>3, <1>5, <2>1 DEF WakeReady
  <2>3. cl.dir \in {"send", "recv"} /\ cl = [dir |-> cl.dir, ch |-> cl.ch]
    BY <1>2, <2>1, CommunicatingClauses
  <2>4. Waits(p, cl.dir, cl.ch)
    BY <1>5, <2>1, <2>3 DEF Waits
  <2>5. ASSUME NEW q \in SideWaiters(p, cl) PROVE FALSE
    <3>1. /\ q \in Procs /\ q # p /\ cl.ch \in Chans /\ ~closed[cl.ch]
          /\ Waits(q, Opposite(cl.dir), cl.ch)
      BY <2>5 DEF SideWaiters
    <3> QED
      BY <1>2, <2>3, <2>4, <3>1 DEF HchanInv, NoMatchedParked, Opposite
  <2> QED
    BY <2>2, <2>5 DEF ArrivalReady
<1>6. ASSUME NEW p \in Procs PROVE NoneReady(p)' <=> NoneReady(p)
  BY <1>1 DEF NoneReady, ArrivalReady, ClauseReady, SideWaiters, Waits, Communicates
<1> QED
  BY <1>1, <1>3, <1>4, <1>5, <1>6 DEF DeadlockIsReal

\* A deadlock verdict is never premature: main has not returned, and no
\* goroutine could have been woken, paired or stepped.
THEOREM DeadlockCorrect == Spec => []DeadlockIsReal
<1> DEFINE EndInv == ParkedCommunicates /\ DeadlockIsReal
<1>1. Init => EndInv
  BY DEF Init, SchedInit, ParkedCommunicates, DeadlockIsReal
<1>2. ASSUME Inv, EndInv, [Next]_vars PROVE EndInv'
  <2>1. ParkedCommunicates'
    BY <1>2, ParkedStep
  <2>2. DeadlockIsReal'
    <3>1. CASE UNCHANGED vars
      BY <1>2, <3>1
      DEF vars, schedVars, cellVars, DeadlockIsReal, NoneReady, ArrivalReady, ClauseReady,
          SideWaiters, Waits, Communicates
    <3>2. CASE End /\ status' = "deadlock"
      BY <1>2, <3>2, DeadlockVerdict
    <3>3. CASE status' # "deadlock"
      BY <3>3 DEF DeadlockIsReal
    <3> QED
      BY <1>2, <3>1, <3>2, <3>3, VerdictStep
  <2> QED
    BY <2>1, <2>2
<1> QED
  BY <1>1, <1>2, InvCorrect, PTL DEF Spec
=============================================================================
