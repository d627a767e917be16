------------------------------ MODULE SyncPool ------------------------------
(***************************************************************************)
(* Goroutines that synchronize through package sync: Mutex, RWMutex,       *)
(* WaitGroup and Once over the pool of Sched (Machine.lean's applySyncOp,  *)
(* Multi.lean's wakeReady? and resumeThread).  A wake-up re-attempts the   *)
(* parked operation against the cell; nothing passes between goroutines    *)
(* but through cells.  Goroutines run the most general program: each       *)
(* operation is any member of Ops, and a lock may be released by a         *)
(* goroutine that does not hold it.                                        *)
(***************************************************************************)
EXTENDS Sched, Sequences

CONSTANTS Mutexes, RWMutexes, WaitGroups, Onces,
          Half,   \* half the range of a WaitGroup counter; 2^31 in the code
          Ops     \* the operations goroutines may issue

MutexHeads == {"lock", "unlock", "tryLock"}
RWHeads == {"rlock", "runlock", "wlock", "wunlock", "tryRLock", "tryWLock"}

\* d is the delta of a wgAdd.  loc is the receiver, or whatever for "go".
OpShapes ==
       [f : MutexHeads, loc : Mutexes, d : {0}]
  \cup [f : RWHeads, loc : RWMutexes, d : {0}]
  \cup [f : {"wgAdd"}, loc : WaitGroups, d : Int]
  \cup [f : {"wgWait"}, loc : WaitGroups, d : {0}]
  \cup [f : {"onceBegin"}, loc : Onces, d : {0}]
  \cup {[f |-> "go", loc |-> "none", d |-> 0]}

\* The completion a Once.Do defers, on its normal return and while unwinding.
Completions == [f : {"onceComplete", "onceUnwind"}, loc : Onces, d : {0}]

ASSUME HalfAssumption == Half \in Nat \ {0}
ASSUME OpsAssumption == Ops \subseteq OpShapes
ASSUME ProcsAssumption == IsFiniteSet(Procs)
ASSUME LocksAssumption == Mutexes \cap RWMutexes = {}

VARIABLES op,       \* the operation each goroutine is applying or parked in
          doing,    \* the Once.Do frames on each goroutine's stack, innermost first
          locked, rw, wg, once,
          holdW,    \* history: the acquisitions of each lock not yet released
          holdR,    \* history: the same for read locks
          ran,      \* history: how often each Once's function was started
          skipped   \* history: the Onces some Do returned from without running it

lockVars == <<locked, rw, holdW, holdR>>
onceVars == <<once, doing, ran, skipped>>
vars == <<schedVars, op, lockVars, wg, onceVars>>

NoOp == [f |-> "none", loc |-> "none", d |-> 0]
Locks == Mutexes \cup RWMutexes

TypeOK ==
  /\ SchedTypeOK
  /\ op \in [Procs -> Ops \cup Completions \cup {NoOp}]
  /\ doing \in [Procs -> Seq(Onces)]
  /\ locked \in [Mutexes -> BOOLEAN]
  /\ rw \in [RWMutexes -> [writer : BOOLEAN, readers : Nat, pendingW : Nat]]
  /\ wg \in [WaitGroups -> [counter : (-Half)..(Half - 1), waiters : Nat]]
  /\ once \in [Onces -> [started : BOOLEAN, done : BOOLEAN]]
  /\ holdW \in [Locks -> SUBSET Stamps]
  /\ holdR \in [RWMutexes -> SUBSET Stamps]
  /\ ran \in [Onces -> Nat]
  /\ skipped \in SUBSET Onces

Init ==
  /\ SchedInit
  /\ op = [p \in Procs |-> NoOp]
  /\ doing = [p \in Procs |-> <<>>]
  /\ locked = [l \in Mutexes |-> FALSE]
  /\ rw = [l \in RWMutexes |-> [writer |-> FALSE, readers |-> 0, pendingW |-> 0]]
  /\ wg = [g \in WaitGroups |-> [counter |-> 0, waiters |-> 0]]
  /\ once = [o \in Onces |-> [started |-> FALSE, done |-> FALSE]]
  /\ holdW = [l \in Locks |-> {}]
  /\ holdR = [l \in RWMutexes |-> {}]
  /\ ran = [o \in Onces |-> 0]
  /\ skipped = {}

-----------------------------------------------------------------------------
(* Readiness. *)

NoneHold(l) == ~rw[l].writer /\ rw[l].readers = 0

\* Mutant: a reader does not give way to a parked writer.
AdmitsBarging(o) ==
  \/ o.f = "lock" /\ ~locked[o.loc]
  \/ o.f = "wlock" /\ NoneHold(o.loc)
  \/ o.f = "rlock" /\ ~rw[o.loc].writer
  \/ o.f = "wgWait" /\ wg[o.loc].counter = 0
  \/ o.f = "onceBegin" /\ once[o.loc].done

\* What the cell must say for a blocking operation to proceed; the condition
\* is the same at its apply and at its wake-up.
Admits(o) ==
  \/ o.f = "lock" /\ ~locked[o.loc]
  \/ o.f = "wlock" /\ NoneHold(o.loc)
  \/ o.f = "rlock" /\ ~rw[o.loc].writer /\ rw[o.loc].pendingW = 0
  \/ o.f = "wgWait" /\ wg[o.loc].counter = 0
  \/ o.f = "onceBegin" /\ once[o.loc].done

Parked(p, head, l) == pc[p] = "blocked" /\ op[p].f = head /\ op[p].loc = l

WakeReady == {p \in Procs : pc[p] = "blocked" /\ Admits(op[p])}

-----------------------------------------------------------------------------
(* The steps of an operation. *)

\* Procs bounds the goroutines, so go statements are only issued while a name
\* is left for every one of them.
Unborn == {q \in Procs : pc[q] = "unborn"}
PendingSpawns == {q \in Procs : pc[q] = "apply" /\ op[q].f = "go"}

\* Private evaluation reaches the apply position of an operation.
Issue(p, o) ==
  /\ PickedAt(p, "priv", WakeReady)
  /\ left[p] > 0
  /\ o.f = "go" => Cardinality(Unborn) > Cardinality(PendingSpawns)
  /\ left' = [left EXCEPT ![p] = @ - 1]
  /\ op' = [op EXCEPT ![p] = o]
  /\ Goto(p, "apply")
  /\ UNCHANGED <<status, lockVars, wg, onceVars>>

\* The innermost Once.Do frame is left, by a return or by unwinding, and its
\* deferred completion runs.
IssueComplete(p) ==
  /\ doing[p] # <<>>
  /\ \/ /\ PickedAt(p, "priv", WakeReady)
        /\ op' = [op EXCEPT ![p] = [f |-> "onceComplete", loc |-> Head(doing[p]), d |-> 0]]
     \/ /\ PickedAt(p, "panicking", WakeReady)
        /\ op' = [op EXCEPT ![p] = [f |-> "onceUnwind", loc |-> Head(doing[p]), d |-> 0]]
  /\ Goto(p, "apply")
  /\ UNCHANGED <<status, left, lockVars, wg, onceVars>>

Applying(p, heads) == PickedAt(p, "apply", WakeReady) /\ op[p].f \in heads

\* The operation is over: a registry completion, with a boundary to clear.
Finish(p) ==
  /\ Completed(p)
  /\ op' = [op EXCEPT ![p] = NoOp]
  /\ UNCHANGED <<status, left>>

\* Releasing what nobody holds ends the run (Stop.fatal).
Fatal == Stopped("fatal") /\ UNCHANGED <<op, lockVars>>

-----------------------------------------------------------------------------
(* Locks. *)

GrantW(p, l) == holdW' = [holdW EXCEPT ![l] = @ \cup {Stamp(p)}]
GrantR(p, l) == holdR' = [holdR EXCEPT ![l] = @ \cup {Stamp(p)}]

\* The acquisitions that a release by p may be of: its own if it has any.
Returnable(p, held) == {t \in held : (\E u \in held : u[1] = p) => t[1] = p}

\* Subtraction of natural numbers.
Monus(a, b) == IF b <= a THEN a - b ELSE 0

\* Mutant: a woken writer leaves its registration behind.
AcquireUnretired(p, retired) ==
  LET l == op[p].loc IN
  \/ /\ op[p].f \in {"lock", "tryLock"}
     /\ locked' = [locked EXCEPT ![l] = TRUE]
     /\ GrantW(p, l)
     /\ UNCHANGED <<rw, holdR>>
  \/ /\ op[p].f \in {"wlock", "tryWLock"}
     /\ rw' = [rw EXCEPT ![l].writer = TRUE, ![l].readers = 0]
     /\ GrantW(p, l)
     /\ UNCHANGED <<locked, holdR>>
  \/ /\ op[p].f \in {"rlock", "tryRLock"}
     /\ rw' = [rw EXCEPT ![l].readers = @ + 1]
     /\ GrantR(p, l)
     /\ UNCHANGED <<locked, holdW>>

\* The cell after op[p] has acquired it.  retired is 1 when p was parked.
Acquire(p, retired) ==
  LET l == op[p].loc IN
  \/ /\ op[p].f \in {"lock", "tryLock"}
     /\ locked' = [locked EXCEPT ![l] = TRUE]
     /\ GrantW(p, l)
     /\ UNCHANGED <<rw, holdR>>
  \/ /\ op[p].f \in {"wlock", "tryWLock"}
     /\ rw' = [rw EXCEPT ![l] = [writer |-> TRUE, readers |-> 0,
                                 pendingW |-> Monus(rw[l].pendingW, retired)]]
     /\ GrantW(p, l)
     /\ UNCHANGED <<locked, holdR>>
  \/ /\ op[p].f \in {"rlock", "tryRLock"}
     /\ rw' = [rw EXCEPT ![l].readers = @ + 1]
     /\ GrantR(p, l)
     /\ UNCHANGED <<locked, holdW>>

LockHeads == {"lock", "rlock", "wlock"}

Lock(p) ==
  /\ Applying(p, LockHeads)
  /\ Admits(op[p])
  /\ Acquire(p, 0)
  /\ Finish(p)
  /\ UNCHANGED <<wg, onceVars>>

\* A writer that parks registers itself, which keeps later readers out.
LockPark(p) ==
  /\ Applying(p, LockHeads)
  /\ ~Admits(op[p])
  /\ rw' = IF op[p].f = "wlock" THEN [rw EXCEPT ![op[p].loc].pendingW = @ + 1] ELSE rw
  /\ Goto(p, "blocked")
  /\ UNCHANGED <<op, status, left, locked, holdW, holdR, wg, onceVars>>

LockWake(p) ==
  /\ PickedAt(p, "blocked", WakeReady)
  /\ op[p].f \in LockHeads
  /\ Acquire(p, 1)
  /\ Finish(p)
  /\ UNCHANGED <<wg, onceVars>>

\* Mutant: a try that is picked to succeed does not look at the cell.
TryAdmitsBlindly(o) == o.f \in {"tryLock", "tryRLock", "tryWLock"}

\* tryAcquire: a parked writer does not stop a TryRLock.
TryAdmits(o) ==
  \/ o.f = "tryLock" /\ ~locked[o.loc]
  \/ o.f = "tryRLock" /\ ~rw[o.loc].writer
  \/ o.f = "tryWLock" /\ NoneHold(o.loc)

\* Mutant: a spurious failure keeps the store of the acquisition it disowns.
TryLockKeepingStore(p) ==
  /\ Applying(p, {"tryLock", "tryRLock", "tryWLock"})
  /\ \/ TryAdmits(op[p]) /\ Acquire(p, 0)
     \/ /\ op[p].f = "tryLock"
        /\ locked' = [locked EXCEPT ![op[p].loc] = TRUE]
        /\ UNCHANGED <<rw, holdW, holdR>>
     \/ op[p].f # "tryLock" /\ UNCHANGED lockVars
  /\ Finish(p)
  /\ UNCHANGED <<wg, onceVars>>

\* A try may fail even when it could acquire (the tryLock pick).
TryLock(p) ==
  /\ Applying(p, {"tryLock", "tryRLock", "tryWLock"})
  /\ \/ TryAdmits(op[p]) /\ Acquire(p, 0)
     \/ UNCHANGED lockVars
  /\ Finish(p)
  /\ UNCHANGED <<wg, onceVars>>

\* The writer's release of a Mutex or an RWMutex.
Unlock(p) ==
  /\ Applying(p, {"unlock", "wunlock"})
  /\ LET l == op[p].loc
         held == IF op[p].f = "unlock" THEN locked[l] ELSE rw[l].writer
     IN \/ ~held /\ Fatal
        \/ /\ held
           /\ \/ /\ op[p].f = "unlock"
                 /\ locked' = [locked EXCEPT ![l] = FALSE]
                 /\ UNCHANGED rw
              \/ /\ op[p].f = "wunlock"
                 /\ rw' = [rw EXCEPT ![l].writer = FALSE]
                 /\ UNCHANGED locked
           /\ \E t \in Returnable(p, holdW[l]) : holdW' = [holdW EXCEPT ![l] = @ \ {t}]
           /\ UNCHANGED holdR
           /\ Finish(p)
  /\ UNCHANGED <<wg, onceVars>>

RUnlock(p) ==
  /\ Applying(p, {"runlock"})
  /\ LET l == op[p].loc IN
       \/ rw[l].readers = 0 /\ Fatal
       \/ /\ rw[l].readers > 0
          /\ rw' = [rw EXCEPT ![l].readers = @ - 1]
          /\ \E t \in Returnable(p, holdR[l]) : holdR' = [holdR EXCEPT ![l] = @ \ {t}]
          /\ UNCHANGED <<locked, holdW>>
          /\ Finish(p)
  /\ UNCHANGED <<wg, onceVars>>

-----------------------------------------------------------------------------
(* WaitGroup. *)

\* The counter is an int32: addition wraps before its sign is looked at.
Wrap(n) == ((n + Half) % (2 * Half)) - Half

\* Mutant: the zeroing Add does not reset the wait count.
AddKeepingWaiters(p, g, c) == wg' = [wg EXCEPT ![g].counter = c]

\* The Add that brings the counter to zero releases, and forgets, the waiters.
AddTo(p, g, c) ==
  wg' = [wg EXCEPT ![g] = [counter |-> c, waiters |-> IF c = 0 THEN 0 ELSE wg[g].waiters]]

\* Mutant: the counter is not an int32.
WgAddUnwrapped(p) ==
  /\ Applying(p, {"wgAdd"})
  /\ LET c == wg[op[p].loc].counter + op[p].d IN
       /\ AddTo(p, op[p].loc, c)
       /\ IF c < 0
            THEN /\ Goto(p, "panicking")
                 /\ op' = [op EXCEPT ![p] = NoOp]
                 /\ UNCHANGED <<status, left>>
            ELSE Finish(p)
  /\ UNCHANGED <<lockVars, onceVars>>

\* A negative counter panics, after the update has been stored.
WgAdd(p) ==
  /\ Applying(p, {"wgAdd"})
  /\ LET c == Wrap(wg[op[p].loc].counter + op[p].d) IN
       /\ AddTo(p, op[p].loc, c)
       /\ IF c < 0
            THEN /\ Goto(p, "panicking")
                 /\ op' = [op EXCEPT ![p] = NoOp]
                 /\ UNCHANGED <<status, left>>
            ELSE Finish(p)
  /\ UNCHANGED <<lockVars, onceVars>>

WgWait(p) ==
  /\ Applying(p, {"wgWait"})
  /\ Admits(op[p])
  /\ Finish(p)
  /\ UNCHANGED <<lockVars, wg, onceVars>>

WgPark(p) ==
  /\ Applying(p, {"wgWait"})
  /\ ~Admits(op[p])
  /\ wg' = [wg EXCEPT ![op[p].loc].waiters = @ + 1]
  /\ Goto(p, "blocked")
  /\ UNCHANGED <<op, status, left, lockVars, onceVars>>

\* Mutant: the woken waiter is flagged as completed and left parked.
WgWakeStillParked(p) ==
  /\ PickedAt(p, "blocked", WakeReady)
  /\ op[p].f = "wgWait"
  /\ flag' = [flag EXCEPT ![p] = "postOp"]
  /\ UNCHANGED <<pc, op, status, left, lockVars, wg, onceVars>>

WgWake(p) ==
  /\ PickedAt(p, "blocked", WakeReady)
  /\ op[p].f = "wgWait"
  /\ wg' = [wg EXCEPT ![op[p].loc].waiters = Monus(@, 1)]
  /\ Finish(p)
  /\ UNCHANGED <<lockVars, onceVars>>

-----------------------------------------------------------------------------
(* Once. *)

\* Mutant: a Do that finds the function started returns without waiting.
OnceBeginUnwaiting(p) ==
  /\ Applying(p, {"onceBegin"})
  /\ LET o == op[p].loc IN
       \/ /\ ~once[o].started
          /\ once' = [once EXCEPT ![o] = [started |-> TRUE, done |-> FALSE]]
          /\ doing' = [doing EXCEPT ![p] = <<o>> \o @]
          /\ ran' = [ran EXCEPT ![o] = @ + 1]
          /\ UNCHANGED skipped
       \/ /\ once[o].started
          /\ skipped' = skipped \cup {o}
          /\ UNCHANGED <<once, doing, ran>>
  /\ Finish(p)
  /\ UNCHANGED <<lockVars, wg>>

\* Do's entry: run the function (deliver true) or skip it (deliver false).
OnceBegin(p) ==
  /\ Applying(p, {"onceBegin"})
  /\ LET o == op[p].loc IN
       \/ /\ ~once[o].started
          /\ once' = [once EXCEPT ![o] = [started |-> TRUE, done |-> FALSE]]
          /\ doing' = [doing EXCEPT ![p] = <<o>> \o @]
          /\ ran' = [ran EXCEPT ![o] = @ + 1]
          /\ UNCHANGED skipped
       \/ /\ once[o].started /\ once[o].done
          /\ skipped' = skipped \cup {o}
          /\ UNCHANGED <<once, doing, ran>>
  /\ Finish(p)
  /\ UNCHANGED <<lockVars, wg>>

OncePark(p) ==
  /\ Applying(p, {"onceBegin"})
  /\ once[op[p].loc].started
  /\ ~once[op[p].loc].done
  /\ Goto(p, "blocked")
  /\ UNCHANGED <<op, status, left, lockVars, wg, onceVars>>

OnceWake(p) ==
  /\ PickedAt(p, "blocked", WakeReady)
  /\ op[p].f = "onceBegin"
  /\ skipped' = skipped \cup {op[p].loc}
  /\ Finish(p)
  /\ UNCHANGED <<lockVars, wg, once, doing, ran>>

\* Mutant: completion is skipped when the function panicked.
OnceCompleteOnReturn(p) ==
  /\ Applying(p, {"onceComplete", "onceUnwind"})
  /\ LET o == op[p].loc IN
       once' = [once EXCEPT ![o] = [started |-> TRUE, done |-> op[p].f = "onceComplete"]]
  /\ doing' = [doing EXCEPT ![p] = Tail(@)]
  /\ pc' = [pc EXCEPT ![p] = IF op[p].f = "onceComplete" THEN "priv" ELSE "panicking"]
  /\ flag' = [flag EXCEPT ![p] = "postOp"]
  /\ op' = [op EXCEPT ![p] = NoOp]
  /\ UNCHANGED <<status, left, ran, skipped, lockVars, wg>>

\* The deferred completion; an unwinding goroutine goes on unwinding.
OnceComplete(p) ==
  /\ Applying(p, {"onceComplete", "onceUnwind"})
  /\ LET o == op[p].loc IN
       IF once[o].started
         THEN /\ once' = [once EXCEPT ![o] = [started |-> TRUE, done |-> TRUE]]
              /\ doing' = [doing EXCEPT ![p] = Tail(@)]
              /\ pc' = [pc EXCEPT ![p] = IF op[p].f = "onceComplete" THEN "priv" ELSE "panicking"]
              /\ flag' = [flag EXCEPT ![p] = "postOp"]
              /\ op' = [op EXCEPT ![p] = NoOp]
              /\ UNCHANGED <<status, left>>
         ELSE Stopped("internal") /\ UNCHANGED <<op, once, doing>>
  /\ UNCHANGED <<ran, skipped, lockVars, wg>>

-----------------------------------------------------------------------------
(* The pool. *)

\* The child joins the pool; the parent opens a boundary at once.
Spawn(p) ==
  /\ Applying(p, {"go"})
  /\ \E q \in Unborn : pc' = [pc EXCEPT ![p] = "priv", ![q] = "priv"]
  /\ flag' = [flag EXCEPT ![p] = "l1Sched"]
  /\ op' = [op EXCEPT ![p] = NoOp]
  /\ UNCHANGED <<status, left, lockVars, wg, onceVars>>

OpStep(p) ==
  \/ \E o \in Ops : Issue(p, o)
  \/ IssueComplete(p)
  \/ Lock(p) \/ LockPark(p) \/ LockWake(p) \/ TryLock(p) \/ Unlock(p) \/ RUnlock(p)
  \/ WgAdd(p) \/ WgWait(p) \/ WgPark(p) \/ WgWake(p)
  \/ OnceBegin(p) \/ OncePark(p) \/ OnceWake(p) \/ OnceComplete(p)
  \/ Spawn(p)

\* Neither a return nor an unwinding leaves a Once.Do frame without running its
\* deferred completion.
Local(p) ==
  /\ LocalStep(p, WakeReady)
  /\ doing[p] # <<>> => pc'[p] \notin {"done", "aborted"}
  /\ UNCHANGED <<op, lockVars, wg, onceVars>>

End == EndStep(WakeReady) /\ UNCHANGED <<op, lockVars, wg, onceVars>>
Stutter == Ended /\ UNCHANGED <<op, lockVars, wg, onceVars>>

Next ==
  \/ \E p \in Procs : OpStep(p) \/ Local(p)
  \/ End
  \/ Stutter

Spec == Init /\ [][Next]_vars

\* The driver's loop takes a step whenever it can; nothing is assumed of the
\* scheduler.
FairSpec == Spec /\ WF_vars(Next)

-----------------------------------------------------------------------------
(* Properties. *)

\* At most one writer holds a lock, and none while a reader does, although the
\* cell records counts and bits and never who holds it: across immediate
\* acquisitions, wake-ups, tries and releases by other goroutines.
MutualExclusion ==
  /\ \A l \in Locks : \A t, u \in holdW[l] : t = u
  /\ \A l \in RWMutexes : holdW[l] # {} => holdR[l] = {}

\* The cells agree with who holds the locks: the bits say whether there is an
\* acquisition to release and readers counts them, so a release never finds a
\* cell set that nobody holds.
HoldersExact ==
  /\ \A l \in Mutexes : locked[l] <=> holdW[l] # {}
  /\ \A l \in RWMutexes :
       /\ rw[l].writer <=> holdW[l] # {}
       /\ rw[l].readers = Cardinality(holdR[l])

\* pendingW counts the parked writers: registered at the park, retired at the
\* wake-up, whatever happens in between.
PendingExact ==
  \A l \in RWMutexes :
    rw[l].pendingW = Cardinality({p \in Procs : Parked(p, "wlock", l)})

\* No wake-up is lost: a goroutine parked in a lock or in a Once.Do that could
\* not be woken now is waiting for an acquisition that has not been released, a
\* parked writer, or a goroutine still inside the function.
ParkedForAReason ==
  \A p \in Procs \ WakeReady :
    /\ \A l \in Locks : Parked(p, "lock", l) => holdW[l] # {}
    /\ \A l \in RWMutexes :
         /\ Parked(p, "wlock", l) => holdW[l] \cup holdR[l] # {}
         /\ Parked(p, "rlock", l) =>
              holdW[l] # {} \/ \E q \in Procs : Parked(q, "wlock", l)
    /\ \A o \in Onces : Parked(p, "onceBegin", o) =>
         \E q \in Procs : \E i \in DOMAIN doing[q] : doing[q][i] = o

\* While a writer is parked, no RLock gets in (a TryRLock may).
WriterNotOvertaken ==
  [][\A p \in Procs, l \in RWMutexes :
       op[p].f = "rlock" /\ Stamp(p) \in holdR'[l] \ holdR[l]
         => ~\E q \in Procs : Parked(q, "wlock", l)]_vars

\* Go's "WaitGroup misuse: Add called concurrently with Wait" (waiters
\* registered, counter leaving zero upward) cannot arise, which is why WgAdd
\* has no arm for it; and the wait count never exceeds the goroutines parked.
NoAddMisuse ==
  \A g \in WaitGroups :
    /\ wg[g].counter = 0 => wg[g].waiters = 0
    /\ wg[g].waiters <= Cardinality({p \in Procs : Parked(p, "wgWait", g)})

\* A Once's function is started at most once, its frame is on at most one
\* stack, and whoever returned without running it found it finished.
OnceOnly ==
  \A o \in Onces :
    /\ ran[o] <= 1
    /\ o \in skipped => once[o].done
    /\ once[o].done => \A p \in Procs : \A i \in DOMAIN doing[p] : doing[p][i] # o
=============================================================================
