------------------------------ MODULE ChanPool ------------------------------
(***************************************************************************)
(* Goroutines that communicate through channels: send, receive, close,     *)
(* select and go statements over the pool of Sched (Multi.lean's           *)
(* stepThread, with the cell operations of Machine.lean).  Goroutines run  *)
(* the most general program: each operation is any member of Ops.          *)
(*                                                                         *)
(* A channel operation is a list of clauses, one for send, receive and     *)
(* close, any number for select, so that a parked operation, a parked      *)
(* select and their wake-ups are one notion.  The value a goroutine sends  *)
(* is a stamp unique to the operation, <<sender, operations left>>.        *)
(***************************************************************************)
EXTENDS Sched, Sequences

CONSTANTS Chans, NilChan,
          Cap,   \* capacity of each channel
          Ops    \* the operations goroutines may issue

Dirs == {"send", "recv", "close"}
Clauses == [dir : Dirs, ch : Chans \cup {NilChan}]
GoKinds == {"go", "goEntryPanics", "goNil"}   \* by what the callee value is

OpShapes ==
  {o \in [kind : {"select"} \cup Dirs \cup GoKinds, cls : Seq(Clauses), dflt : BOOLEAN] :
     /\ o.kind \in Dirs => Len(o.cls) = 1 /\ o.cls[1].dir = o.kind
     /\ o.kind = "select" => \A k \in DOMAIN o.cls : o.cls[k].dir # "close"
     /\ o.kind \in GoKinds => o.cls = <<>>}

ASSUME ChanAssumption == NilChan \notin Chans
ASSUME CapAssumption == Cap \in [Chans -> Nat]
ASSUME OpsAssumption == Ops \subseteq OpShapes

VARIABLES op,      \* the operation each goroutine is applying or parked in
          buf, closed,
          sent,    \* history: the values communicated on each channel
          rcvd,    \* history: the values delivered, with ok = true
          zeroed   \* history: the channels that delivered a zero, ok = false

cellVars == <<buf, closed, sent, rcvd, zeroed>>
vars == <<schedVars, op, cellVars>>

NoOp == [kind |-> "none", cls |-> <<>>, dflt |-> FALSE]

\* The types; a buffer never holds more than the channel's capacity, whichever
\* of arrivals, wake-ups and pairings filled it.
TypeOK ==
  /\ SchedTypeOK
  /\ op \in [Procs -> Ops \cup {NoOp}]
  /\ buf \in [Chans -> Seq(Stamps)]
  /\ \A c \in Chans : Len(buf[c]) <= Cap[c]
  /\ closed \in [Chans -> BOOLEAN]
  /\ sent \in [Chans -> Seq(Stamps)]
  /\ rcvd \in [Chans -> Seq(Stamps)]
  /\ zeroed \in SUBSET Chans

Init ==
  /\ SchedInit
  /\ op = [p \in Procs |-> NoOp]
  /\ buf = [c \in Chans |-> <<>>]
  /\ closed = [c \in Chans |-> FALSE]
  /\ sent = [c \in Chans |-> <<>>]
  /\ rcvd = [c \in Chans |-> <<>>]
  /\ zeroed = {}

-----------------------------------------------------------------------------
(* Readiness. *)

Communicates(o) == o.kind \in {"send", "recv", "select"}

\* Mutant: a full buffer still has room for one more.
ClauseReadyOverfull(cl) ==
  /\ cl.ch \in Chans
  /\ \/ closed[cl.ch]
     \/ cl.dir = "send" /\ Len(buf[cl.ch]) <= Cap[cl.ch]
     \/ cl.dir = "recv" /\ buf[cl.ch] # <<>>

\* clauseReady: a nil channel never, a closed one always (a send then panics).
ClauseReady(cl) ==
  /\ cl.ch \in Chans
  /\ \/ closed[cl.ch]
     \/ cl.dir = "send" /\ Len(buf[cl.ch]) < Cap[cl.ch]
     \/ cl.dir = "recv" /\ buf[cl.ch] # <<>>

Waits(p, dir, c) ==
  /\ pc[p] = "blocked"
  /\ Communicates(op[p])
  /\ \E k \in DOMAIN op[p].cls : op[p].cls[k] = [dir |-> dir, ch |-> c]

Opposite(dir) == IF dir = "send" THEN "recv" ELSE "send"

\* The parked partners of a clause of p; a closed channel never pairs.
SideWaiters(p, cl) ==
  {q \in Procs \ {p} : /\ cl.ch \in Chans
                       /\ ~closed[cl.ch]
                       /\ Waits(q, Opposite(cl.dir), cl.ch)}

ArrivalReady(p, k) ==
  ClauseReady(op[p].cls[k]) \/ SideWaiters(p, op[p].cls[k]) # {}

\* wakeReady: what could be woken, from the cells alone.
WakeReady ==
  {p \in Procs : /\ pc[p] = "blocked"
                 /\ Communicates(op[p])
                 /\ \E k \in DOMAIN op[p].cls : ClauseReady(op[p].cls[k])}

-----------------------------------------------------------------------------
(* Communications. *)

Enqueue(c, v) ==
  /\ buf' = [buf EXCEPT ![c] = Append(@, v)]
  /\ sent' = [sent EXCEPT ![c] = Append(@, v)]
  /\ UNCHANGED <<closed, rcvd, zeroed>>

Dequeue(c) ==
  /\ buf' = [buf EXCEPT ![c] = Tail(@)]
  /\ rcvd' = [rcvd EXCEPT ![c] = Append(@, Head(buf[c]))]
  /\ UNCHANGED <<closed, sent, zeroed>>

\* The value passes between two goroutines, the buffer untouched.
Handoff(c, v) ==
  /\ sent' = [sent EXCEPT ![c] = Append(@, v)]
  /\ rcvd' = [rcvd EXCEPT ![c] = Append(@, v)]
  /\ UNCHANGED <<buf, closed, zeroed>>

\* The head goes out and a parked sender's value comes in at the tail.
Refill(c, v) ==
  /\ buf' = [buf EXCEPT ![c] = Append(Tail(@), v)]
  /\ sent' = [sent EXCEPT ![c] = Append(@, v)]
  /\ rcvd' = [rcvd EXCEPT ![c] = Append(@, Head(buf[c]))]
  /\ UNCHANGED <<closed, zeroed>>

\* Commit a ready clause of p against the cell: the apply of a send or a
\* receive, a select's commit, and every wake-up.
CommitSend(p, c) ==
  \/ /\ closed[c]
     /\ Goto(p, "panicking")
     /\ UNCHANGED cellVars
  \/ /\ ~closed[c]
     /\ Enqueue(c, Stamp(p))
     /\ Completed(p)

CommitRecv(p, c) ==
  /\ \/ /\ buf[c] # <<>>
        /\ Dequeue(c)
     \/ /\ buf[c] = <<>>
        /\ zeroed' = zeroed \cup {c}
        /\ UNCHANGED <<buf, closed, sent, rcvd>>
  /\ Completed(p)

CommitClause(p, cl) ==
  \/ cl.dir = "send" /\ CommitSend(p, cl.ch)
  \/ cl.dir = "recv" /\ CommitRecv(p, cl.ch)

\* Mutant: the passive partner is not resumed.
OnlyIssuerProceeds(p, q) ==
  /\ pc' = [pc EXCEPT ![p] = "priv"]
  /\ flag' = [flag EXCEPT ![p] = "postOp"]
  /\ UNCHANGED <<status, left>>

\* applyPairing: both goroutines proceed, only the issuer opens a boundary.
\* A parked receiver beside a nonempty buffer is refused.
BothProceed(p, q) ==
  /\ pc' = [pc EXCEPT ![p] = "priv", ![q] = "priv"]
  /\ flag' = [flag EXCEPT ![p] = "postOp"]
  /\ UNCHANGED <<status, left>>

ApplyPairing(p, cl, q) ==
  \/ /\ cl.dir = "send"
     /\ IF buf[cl.ch] = <<>>
          THEN Handoff(cl.ch, Stamp(p)) /\ BothProceed(p, q)
          ELSE Stopped("internal") /\ UNCHANGED cellVars
  \/ /\ cl.dir = "recv"
     /\ IF buf[cl.ch] = <<>> THEN Handoff(cl.ch, Stamp(q)) ELSE Refill(cl.ch, Stamp(q))
     /\ BothProceed(p, q)

-----------------------------------------------------------------------------
(* Operations, one pool step each. *)

\* Procs bounds the goroutines, so go statements are only issued while a name
\* is left for every one of them.
Spawns == {"go", "goEntryPanics"}
Unborn == {q \in Procs : pc[q] = "unborn"}
PendingSpawns == {q \in Procs : pc[q] = "apply" /\ op[q].kind \in Spawns}

\* Private evaluation reaches the apply position of an operation.
Issue(p, o) ==
  /\ PickedAt(p, "priv", WakeReady)
  /\ left[p] > 0
  /\ o.kind \in Spawns => Cardinality(Unborn) > Cardinality(PendingSpawns)
  /\ left' = [left EXCEPT ![p] = @ - 1]
  /\ op' = [op EXCEPT ![p] = o]
  /\ Goto(p, "apply")
  /\ UNCHANGED <<status, cellVars>>

Applying(p, kinds) == PickedAt(p, "apply", WakeReady) /\ op[p].kind \in kinds

Finish(p) == op' = [op EXCEPT ![p] = NoOp]

\* A select none of whose ready clauses may meet another select is modelled by
\* the code; the others it refuses.
MeetsSelect(p) ==
  /\ op[p].kind = "select"
  /\ \E k \in DOMAIN op[p].cls : \E q \in SideWaiters(p, op[p].cls[k]) : op[q].kind = "select"

RefuseSelect(p) ==
  /\ Applying(p, {"select"})
  /\ MeetsSelect(p)
  /\ Stopped("unsupported")
  /\ UNCHANGED <<op, cellVars>>

\* A parked partner is preferred to the cell; any ready clause and any partner
\* may be chosen (the L2 and L4 picks).
Pair(p) ==
  /\ Applying(p, {"send", "recv", "select"})
  /\ ~MeetsSelect(p)
  /\ \E k \in DOMAIN op[p].cls : \E q \in SideWaiters(p, op[p].cls[k]) :
       /\ ApplyPairing(p, op[p].cls[k], q)
       /\ op' = [op EXCEPT ![p] = NoOp, ![q] = NoOp]

\* Mutant: the cell is used although a partner is parked on the channel.
CommitPastPartner(p) ==
  /\ Applying(p, {"send", "recv", "select"})
  /\ ~MeetsSelect(p)
  /\ \E k \in DOMAIN op[p].cls :
       /\ ClauseReady(op[p].cls[k])
       /\ CommitClause(p, op[p].cls[k])
  /\ Finish(p)
  /\ UNCHANGED <<status, left>>

Commit(p) ==
  /\ Applying(p, {"send", "recv", "select"})
  /\ ~MeetsSelect(p)
  /\ \E k \in DOMAIN op[p].cls :
       /\ ClauseReady(op[p].cls[k])
       /\ SideWaiters(p, op[p].cls[k]) = {}
       /\ CommitClause(p, op[p].cls[k])
  /\ Finish(p)
  /\ UNCHANGED <<status, left>>

NoneReady(p) == \A k \in DOMAIN op[p].cls : ~ArrivalReady(p, k)

TakeDefault(p) ==
  /\ Applying(p, {"select"})
  /\ NoneReady(p)
  /\ op[p].dflt
  /\ Goto(p, "priv")
  /\ Finish(p)
  /\ UNCHANGED <<status, left, cellVars>>

\* Mutant: an operation parks on what the cells say, partners unseen.
ParkUnseeing(p) ==
  /\ Applying(p, {"send", "recv", "select"})
  /\ \A k \in DOMAIN op[p].cls : ~ClauseReady(op[p].cls[k])
  /\ ~op[p].dflt
  /\ Goto(p, "blocked")
  /\ UNCHANGED <<op, status, left, cellVars>>

Park(p) ==
  /\ Applying(p, {"send", "recv", "select"})
  /\ NoneReady(p)
  /\ ~op[p].dflt
  /\ Goto(p, "blocked")
  /\ UNCHANGED <<op, status, left, cellVars>>

\* Mutant: the woken goroutine is flagged as completed and left parked.
WakeStillParked(p) ==
  /\ PickedAt(p, "blocked", WakeReady)
  /\ flag' = [flag EXCEPT ![p] = "postOp"]
  /\ UNCHANGED <<pc, op, status, left, cellVars>>

\* resumeThread: the first ready clause in clause order, with no new pick.
Wake(p) ==
  /\ PickedAt(p, "blocked", WakeReady)
  /\ \E k \in DOMAIN op[p].cls :
       /\ ClauseReady(op[p].cls[k])
       /\ \A j \in 1..(k - 1) : ~ClauseReady(op[p].cls[j])
       /\ CommitClause(p, op[p].cls[k])
  /\ Finish(p)
  /\ UNCHANGED <<status, left>>

Close(p) ==
  /\ Applying(p, {"close"})
  /\ LET c == op[p].cls[1].ch IN
       IF c = NilChan \/ closed[c]
         THEN Goto(p, "panicking") /\ UNCHANGED cellVars
         ELSE /\ closed' = [closed EXCEPT ![c] = TRUE]
              /\ Completed(p)
              /\ UNCHANGED <<buf, sent, rcvd, zeroed>>
  /\ Finish(p)
  /\ UNCHANGED <<status, left>>

\* The child joins the pool; the parent opens a boundary at once.
Spawn(p) ==
  /\ Applying(p, Spawns)
  /\ \E q \in Procs :
       /\ q \in Unborn
       /\ pc' = [pc EXCEPT ![p] = "priv",
                          ![q] = IF op[p].kind = "go" THEN "priv" ELSE "panicking"]
  /\ flag' = [flag EXCEPT ![p] = "l1Sched"]
  /\ Finish(p)
  /\ UNCHANGED <<status, left, cellVars>>

SpawnNil(p) ==
  /\ Applying(p, {"goNil"})
  /\ Stopped("fatal")
  /\ UNCHANGED <<op, cellVars>>

OpStep(p) ==
  \/ \E o \in Ops : Issue(p, o)
  \/ RefuseSelect(p)
  \/ Pair(p)
  \/ Commit(p)
  \/ TakeDefault(p)
  \/ Park(p)
  \/ Wake(p)
  \/ Close(p)
  \/ Spawn(p)
  \/ SpawnNil(p)

Local(p) == LocalStep(p, WakeReady) /\ UNCHANGED <<op, cellVars>>
End == EndStep(WakeReady) /\ UNCHANGED <<op, cellVars>>
Stutter == Ended /\ UNCHANGED <<op, cellVars>>

Next ==
  \/ \E p \in Procs : OpStep(p) \/ Local(p)
  \/ End
  \/ Stutter

Spec == Init /\ [][Next]_vars

\* The driver's loop takes a step whenever it can; nothing is assumed of the
\* scheduler, whose picks the code leaves to the choice stream.
FairSpec == Spec /\ WF_vars(Next)

-----------------------------------------------------------------------------
(* Properties. *)

\* hchan invariant (i): a parked receiver, plain or in a select, never sits
\* beside a buffered value of an open channel.
NoReceiverBesideValue ==
  \A p \in Procs, c \in Chans : ~closed[c] /\ Waits(p, "recv", c) => buf[c] = <<>>

\* hchan invariant (ii): a parked sender never sits beside buffer room.
NoSenderBesideRoom ==
  \A p \in Procs, c \in Chans :
    ~closed[c] /\ Waits(p, "send", c) => Len(buf[c]) >= Cap[c]

\* hchan invariant (iii): two goroutines that could rendezvous on an open
\* channel are never both parked.
NoMatchedParked ==
  \A p, q \in Procs, c \in Chans :
    p # q /\ ~closed[c] => ~(Waits(p, "send", c) /\ Waits(q, "recv", c))

\* The invariants the pool's header states for its channels.  Arrivals, wake-ups
\* and pairings each keep them only because of what the others do.
HchanInv == NoReceiverBesideValue /\ NoSenderBesideRoom /\ NoMatchedParked

\* A send or a select commits at most once, on one channel, and a goroutine
\* still parked in (or before) its operation has communicated nothing.
CommitsOnce ==
  /\ \A c, d \in Chans : \A i \in DOMAIN sent[c], j \in DOMAIN sent[d] :
       sent[c][i] = sent[d][j] => c = d /\ i = j
  /\ \A p \in Procs, c \in Chans : \A i \in DOMAIN sent[c] :
       pc[p] \in {"apply", "blocked"} => sent[c][i] # Stamp(p)

\* The pool never refuses a run because its own channel invariant broke.
NoInternal == status # "internal"

\* Whoever is wake-ready was released by a close: on open channels it is the
\* arriving partner that completes a parked operation, so resumeThread's
\* enqueue and dequeue arms serve no open channel.
WokenByClose ==
  \A p \in WakeReady : \E k \in DOMAIN op[p].cls :
    op[p].cls[k].ch \in Chans /\ closed[op[p].cls[k].ch]

\* "deadlock" is only reported when main has not returned and every goroutine
\* has returned or is parked with no ready clause and no partner in the pool.
DeadlockIsReal ==
  status = "deadlock" =>
    /\ pc[Main] # "done"
    /\ \A p \in Procs : \/ pc[p] \in {"unborn", "done"}
                        \/ pc[p] = "blocked" /\ NoneReady(p)

Abs == INSTANCE AbsChan WITH Vals <- Stamps

\* The pool's channels are Go's: an observer of the communications alone sees
\* the channels of AbsChan, with their capacity rule and their closing.
RefinesAbsChan == Abs!Spec
=============================================================================
