------------------------------- MODULE Sched -------------------------------
(***************************************************************************)
(* The goroutine pool's scheduler and driver (GoLean/GoCore/Multi.lean):   *)
(* what a goroutine is to the scheduler, when another goroutine may be     *)
(* picked (stepMulti), and how a run ends (execProgLoop).  The operations  *)
(* goroutines perform are the business of the modules that extend this     *)
(* one (ChanPool, SyncPool); they say which parked goroutines could be     *)
(* woken by passing the set `ready`.                                       *)
(*                                                                         *)
(* A goroutine's configuration is abstracted to a control point, pc[p]:    *)
(*   "unborn"    not in the thread array yet                               *)
(*   "priv"      evaluating privately, not at a registry boundary          *)
(*   "apply"     operands evaluated, about to apply the operation op[p]    *)
(*   "edge"      a boundary that completes nothing: a loop back-edge, a    *)
(*               channel-length read or a print                            *)
(*   "blocked"   parked in op[p]                                           *)
(*   "panicking" unwinding                                                 *)
(*   "done"      the terminal configuration .next .stop                    *)
(*   "aborted"   the tombstone of an unrecovered panic                     *)
(* flag[p] is the pending boundary clear of Thread.running.                *)
(***************************************************************************)
EXTENDS Integers, FiniteSets

CONSTANTS Procs,   \* the goroutines a run may ever have (a bound)
          Main,    \* goroutine 0
          Budget   \* operations, back-edges and panics per goroutine (a bound)

ASSUME MainAssumption == Main \in Procs
ASSUME BudgetAssumption == Budget \in [Procs -> Nat]

VARIABLES pc, flag, cur,
          status,  \* "running", or the Stop / outcome the driver returned
          left     \* what remains of Budget

schedVars == <<pc, flag, cur, status, left>>

Pcs == {"unborn", "priv", "apply", "edge", "blocked", "panicking", "done", "aborted"}
Flags == {"none", "postOp", "l1Sched"}
Statuses == {"running", "exit", "panic", "deadlock", "fuelOut",
             "fatal", "unsupported", "internal"}

SchedTypeOK ==
  /\ pc \in [Procs -> Pcs]
  /\ flag \in [Procs -> Flags]
  /\ cur \in Procs
  /\ status \in Statuses
  /\ left \in [Procs -> Nat]
  /\ \A p \in Procs : left[p] <= Budget[p]

SchedInit ==
  /\ pc = [p \in Procs |-> IF p = Main THEN "priv" ELSE "unborn"]
  /\ flag = [p \in Procs |-> "none"]
  /\ cur = Main
  /\ status = "running"
  /\ left = Budget

\* A name unique to an operation of p: left[p] is fixed while p is in one.
Stamps == UNION {{p} \X (0..Budget[p]) : p \in Procs}
Stamp(p) == <<p, left[p]>>

-----------------------------------------------------------------------------
(* The scheduler. *)

AtBoundary(p) ==
  flag[p] # "none" \/ pc[p] \in {"apply", "edge", "blocked", "done", "aborted"}

\* ready: the parked goroutines whose operation could now proceed.
ThreadRunnable(p, ready) ==
  \/ flag[p] # "none"
  \/ pc[p] \in {"priv", "apply", "edge", "panicking"}
  \/ pc[p] = "blocked" /\ p \in ready

RunnableIdxs(ready) == {p \in Procs : ThreadRunnable(p, ready)}

PanicMsg == \E p \in Procs : pc[p] = "aborted"
MainOutcome == pc[Main] = "done" /\ flag[Main] = "none"

\* The driver's loop goes round and stepMulti picks p: any runnable goroutine
\* when the current one is at a boundary, else the current one.  With main at
\* its terminal this is the "one more step" arm of the main-exit window.
Picked(p, ready) ==
  /\ status = "running"
  /\ ~PanicMsg
  /\ IF AtBoundary(cur) THEN p \in RunnableIdxs(ready) ELSE p = cur
  /\ cur' = p

\* The picked goroutine steps from control point at with no clear pending.
PickedAt(p, at, ready) ==
  /\ Picked(p, ready)
  /\ flag[p] = "none"
  /\ pc[p] = at

-----------------------------------------------------------------------------
(* Successor configurations. *)

\* Thread.completed: a finished registry operation opens a postOp boundary.
Completed(p) ==
  /\ pc' = [pc EXCEPT ![p] = "priv"]
  /\ flag' = [flag EXCEPT ![p] = "postOp"]

\* No boundary opens: a park, an unwinding outcome, a select's default.
Goto(p, at) ==
  /\ pc' = [pc EXCEPT ![p] = at]
  /\ UNCHANGED flag

\* The step itself returned a Stop; the driver passes it on.
Stopped(why) ==
  /\ status' = why
  /\ UNCHANGED <<pc, flag, left>>

-----------------------------------------------------------------------------
(* Steps that involve no operation. *)

\* The boundary clear: one step of its own.
OpDoneStrip(p, ready) ==
  /\ Picked(p, ready)
  /\ flag[p] # "none"
  /\ flag' = [flag EXCEPT ![p] = "none"]
  /\ UNCHANGED <<pc, status, left>>

\* Private evaluation reaches a boundary that completes no operation.
ReachEdge(p, ready) ==
  /\ PickedAt(p, "priv", ready)
  /\ left[p] > 0
  /\ left' = [left EXCEPT ![p] = @ - 1]
  /\ Goto(p, "edge")
  /\ UNCHANGED status

PassEdge(p, ready) ==
  /\ PickedAt(p, "edge", ready)
  /\ Goto(p, "priv")
  /\ UNCHANGED <<status, left>>

\* The goroutine's function returns.
Return(p, ready) ==
  /\ PickedAt(p, "priv", ready)
  /\ Goto(p, "done")
  /\ UNCHANGED <<status, left>>

\* Private evaluation panics.
Raise(p, ready) ==
  /\ PickedAt(p, "priv", ready)
  /\ left[p] > 0
  /\ left' = [left EXCEPT ![p] = @ - 1]
  /\ Goto(p, "panicking")
  /\ UNCHANGED status

\* Unwinding runs a deferred call, which may recover.
Recover(p, ready) ==
  /\ PickedAt(p, "panicking", ready)
  /\ Goto(p, "priv")
  /\ UNCHANGED <<status, left>>

\* Unwinding reaches the bottom of the stack: the goroutine's tombstone.
Abort(p, ready) ==
  /\ PickedAt(p, "panicking", ready)
  /\ Goto(p, "aborted")
  /\ UNCHANGED <<status, left>>

LocalStep(p, ready) ==
  \/ OpDoneStrip(p, ready)
  \/ ReachEdge(p, ready)
  \/ PassEdge(p, ready)
  \/ Return(p, ready)
  \/ Raise(p, ready)
  \/ Recover(p, ready)
  \/ Abort(p, ready)

-----------------------------------------------------------------------------
(* How a run ends, in execProgLoop's order. *)

EndPanic ==
  /\ status = "running"
  /\ PanicMsg
  /\ status' = "panic"

\* Main has returned: exit at once, or (Picked) run others for a while first.
EndExit ==
  /\ status = "running"
  /\ ~PanicMsg
  /\ MainOutcome
  /\ status' = "exit"

\* Mutant: parked goroutines that could be woken are not looked at.
EndDeadlockUnwoken(ready) ==
  /\ status = "running"
  /\ ~PanicMsg
  /\ ~MainOutcome
  /\ RunnableIdxs({}) = {}
  /\ status' = "deadlock"

EndDeadlock(ready) ==
  /\ status = "running"
  /\ ~PanicMsg
  /\ ~MainOutcome
  /\ RunnableIdxs(ready) = {}
  /\ status' = "deadlock"

\* Fuel is a number of steps; the model lets it run out before any step.
FuelOut(ready) ==
  /\ status = "running"
  /\ ~PanicMsg
  /\ RunnableIdxs(ready) # {}
  /\ status' = "fuelOut"

EndStep(ready) ==
  /\ EndPanic \/ EndExit \/ EndDeadlock(ready) \/ FuelOut(ready)
  /\ UNCHANGED <<pc, flag, cur, left>>

Ended == status # "running" /\ UNCHANGED schedVars

-----------------------------------------------------------------------------
(* A property every pool has, whatever its operations. *)

\* Every bounded program's run ends, under every schedule: no wake-up leads
\* back to the same park, no boundary clear repeats, and a pool that cannot
\* move is reported rather than left spinning.
Terminates == <>(status # "running")
=============================================================================
