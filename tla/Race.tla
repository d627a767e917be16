-------------------------------- MODULE Race --------------------------------
(***************************************************************************)
(* The happens-before race detector (Race.lean), folded over the labels of *)
(* the pool's steps by raceUpdate (Multi.lean).  Each action is one pool   *)
(* step: what it may do comes from the cells (locks, channels), its label  *)
(* moves the detector's state r, and hist records what happened.           *)
(*                                                                         *)
(* hist is the reference: every event carries the set of events that       *)
(* happen before it by the rules of the Go memory model, which mention     *)
(* neither clocks nor epochs.  The detector's verdicts are compared to it. *)
(***************************************************************************)
EXTENDS Integers, FiniteSets, Sequences

CONSTANTS Procs, Main,
          Keys,       \* data paths
          Prefixes,   \* pairs of distinct overlapping data paths
          Locks, Chans, Cap,
          Heads,      \* the operations goroutines perform
          EarlySlots, \* whether main uses buffered channels before any go
          None,
          MaxEvents   \* a bound on the run

ASSUME MainAssumption == Main \in Procs
ASSUME CapAssumption == Cap \in [Chans -> Nat]
ASSUME DisjointAssumption == Keys \cap Chans = {} /\ None \notin Chans

Kinds == {"read", "write", "atomicRead", "atomicWrite"}

VARIABLES born,      \* the goroutines of the pool
          held,      \* the locks: writer and readers
          queued, closed,
          parked,    \* the channel each goroutine is parked on as a sender
          r,         \* the detector's state, RaceState
          status,    \* "running" or "raceDetected"
          hist

cellVars == <<held, queued, closed, parked>>
vars == <<born, cellVars, r, status, hist>>

-----------------------------------------------------------------------------
(* Vector clocks.  Epoch 0 stands for an absent entry. *)

Zero == [t \in Procs |-> 0]
Birth(t) == [Zero EXCEPT ![t] = 1]
Join(a, b) == [t \in Procs |-> IF a[t] < b[t] THEN b[t] ELSE a[t]]
Bump(vc, t) == [vc EXCEPT ![t] = @ + 1]

SlotCount(c) == IF Cap[c] = 0 THEN 1 ELSE Cap[c]
Slots == UNION {{c} \X (0..(SlotCount(c) - 1)) : c \in Chans}

RaceInit ==
  [clocks   |-> [t \in Procs |-> Birth(t)],
   shadow   |-> [k \in Keys \cup Chans |-> [kind \in Kinds |-> Zero]],
   slots    |-> [s \in Slots |-> Zero],
   nsend    |-> [c \in Chans |-> 0],
   nrecv    |-> [c \in Chans |-> 0],
   closeVC  |-> [c \in Chans |-> Zero],
   semA     |-> [l \in Locks |-> Zero],
   semB     |-> [l \in Locks |-> Zero],
   atomics  |-> [k \in Keys |-> Zero]]

-----------------------------------------------------------------------------
(* The clock movement of each happens-before action (RaceState.hbAction). *)

\* Mutant: releases do not start a new epoch.
SetReleasedUnbumped(d, t, vc) == [d EXCEPT !.clocks[t] = vc]

SetReleased(d, t, vc) == [d EXCEPT !.clocks[t] = Bump(vc, t)]

\* Release-acquire on the next send or receive slot.
SlotOp(d, t, c, isSend) ==
  LET s == <<c, (IF isSend THEN d.nsend[c] ELSE d.nrecv[c]) % SlotCount(c)>>
      joined == Join(d.clocks[t], d.slots[s])
  IN [SetReleased(d, t, joined) EXCEPT
        !.slots[s] = joined,
        !.nsend[c] = IF isSend THEN @ + 1 ELSE @,
        !.nrecv[c] = IF isSend THEN @ ELSE @ + 1]

Rendezvous(d, t, u) ==
  LET joined == Join(d.clocks[t], d.clocks[u])
  IN SetReleased(SetReleased(d, t, joined), u, joined)

CloseOp(d, t, c) ==
  [SetReleased(d, t, d.clocks[t]) EXCEPT !.closeVC[c] = Join(d.clocks[t], @)]

CloseAcquire(d, t, c) == [d EXCEPT !.clocks[t] = Join(@, d.closeVC[c])]

SpawnEdge(d, parent, child) ==
  [SetReleased(d, parent, d.clocks[parent]) EXCEPT
     !.clocks[child] = [d.clocks[parent] EXCEPT ![child] = 1]]

\* Mutant: one clock for both kinds of release.
SyncReleaseOneClock(d, t, l, toB) ==
  [SetReleased(d, t, d.clocks[t]) EXCEPT !.semA[l] = Join(@, d.clocks[t])]

SyncRelease(d, t, l, toB) ==
  [SetReleased(d, t, d.clocks[t]) EXCEPT
     !.semA[l] = IF toB THEN @ ELSE Join(@, d.clocks[t]),
     !.semB[l] = IF toB THEN Join(@, d.clocks[t]) ELSE @]

\* Mutant: a writer does not acquire what readers released.
SyncAcquireOnlyA(d, t, l, alsoB) == [d EXCEPT !.clocks[t] = Join(@, d.semA[l])]

SyncAcquire(d, t, l, alsoB) ==
  LET joined == Join(d.clocks[t], d.semA[l])
  IN [d EXCEPT !.clocks[t] = IF alsoB THEN Join(joined, d.semB[l]) ELSE joined]

AtomicAcquire(d, t, k) == [d EXCEPT !.clocks[t] = Join(@, d.atomics[k])]

\* A store observes nothing: it overwrites the address's clock.
AtomicReleaseStore(d, t, k) ==
  [SetReleased(d, t, d.clocks[t]) EXCEPT !.atomics[k] = d.clocks[t]]

AtomicReleaseAcquire(d, t, k) ==
  LET joined == Join(d.clocks[t], d.atomics[k])
  IN [SetReleased(d, t, joined) EXCEPT !.atomics[k] = joined]

-----------------------------------------------------------------------------
(* Accesses (RaceState.accessKey). *)

Overlap(j, k) == j = k \/ <<j, k>> \in Prefixes \/ <<k, j>> \in Prefixes

IsWrite(kind) == kind \in {"write", "atomicWrite"}
IsAtomic(kind) == kind \in {"atomicRead", "atomicWrite"}
Conflicting(a, b) == (IsWrite(a) \/ IsWrite(b)) /\ ~(IsAtomic(a) /\ IsAtomic(b))

\* Some overlapping path holds a conflicting access by another goroutine that
\* t's clock does not cover.
Conflict(d, t, kind, key) ==
  \E k \in DOMAIN d.shadow, kind2 \in Kinds, u \in Procs \ {t} :
    /\ Overlap(key, k)
    /\ Conflicting(kind, kind2)
    /\ d.shadow[k][kind2][u] > d.clocks[t][u]

\* Only the latest epoch of each goroutine and kind is kept.
Record(d, t, kind, key) == [d EXCEPT !.shadow[key][kind][t] = d.clocks[t][t]]

-----------------------------------------------------------------------------
(* The reference: the rules of the Go memory model. *)

\* The number of the next event of this kind on the object.
Number(h, what, obj) == Cardinality({i \in DOMAIN h : h[i].what = what /\ h[i].obj = obj}) + 1

Stores == {"store", "rmw"}
LastStore(h, k) ==
  {i \in DOMAIN h : /\ h[i].what \in Stores /\ h[i].obj = k
                    /\ \A j \in DOMAIN h : h[j].what \in Stores /\ h[j].obj = k => j <= i}

\* The events directly before an event: earlier ones of its goroutines, the go
\* statement of a goroutine, and those synchronized before it.
Direct(h, e) ==
  {i \in DOMAIN h :
     \/ h[i].who \cap e.who # {}
     \/ h[i].what = "go" /\ h[i].obj \in e.who
     \/ /\ h[i].obj = e.obj
        /\ \/ h[i].what = "unlock" /\ e.what \in {"lock", "rlock"}
           \/ h[i].what = "runlock" /\ e.what = "lock"
           \/ h[i].what = "send" /\ e.what = "recv" /\ e.n = h[i].n
           \/ h[i].what = "recv" /\ e.what = "send" /\ e.n = h[i].n + Cap[e.obj]
           \/ h[i].what = "close" /\ e.what = "zero"
           \/ e.what \in {"observe", "rmw"} /\ i \in LastStore(h, e.obj)}

\* h with one more event; epoch is the detector's, kept to compare.
Log(h, who, what, obj, kind, epoch) ==
  LET n == Number(h, what, obj)
      direct == Direct(h, [who |-> who, what |-> what, obj |-> obj, n |-> n])
  IN Append(h, [who |-> who, what |-> what, obj |-> obj, kind |-> kind, n |-> n, epoch |-> epoch,
                past |-> {Len(h) + 1} \cup UNION {h[i].past : i \in direct}])

LogSync(h, t, what, obj) == Log(h, {t}, what, obj, "none", 0)

\* raceUpdate ignores the labels of a pool of one goroutine.
Inert == Cardinality(born) <= 1

LogAccess(h, d, t, kind, key) ==
  Log(h, {t}, "access", key, kind, IF Inert THEN 0 ELSE d.clocks[t][t])

-----------------------------------------------------------------------------
(* Pool steps. *)

Able(t) ==
  /\ status = "running"
  /\ t \in born
  /\ parked[t] = None
  /\ Len(hist) < MaxEvents

\* Fold a label: conflict says whether its access is refused, d is the state
\* after it, h the reference's account of the step.
RaceUpdate(conflict, d, h) ==
  /\ hist' = h
  /\ r' = IF Inert \/ conflict THEN r ELSE d
  /\ status' = IF ~Inert /\ conflict THEN "raceDetected" ELSE status

Init ==
  /\ born = {Main}
  /\ held = [l \in Locks |-> [writer |-> FALSE, readers |-> 0]]
  /\ queued = [c \in Chans |-> 0]
  /\ closed = [c \in Chans |-> FALSE]
  /\ parked = [t \in Procs |-> None]
  /\ r = RaceInit
  /\ status = "running"
  /\ hist = <<>>

\* The go statement is the step that makes the detector look.
Go(t, u) ==
  /\ Able(t)
  /\ u \in Procs \ born
  /\ born' = born \cup {u}
  /\ r' = SpawnEdge(r, t, u)
  /\ hist' = LogSync(hist, t, "go", u)
  /\ UNCHANGED <<cellVars, status>>

\* A private step that reads or writes memory.
Access(t, kind, key) ==
  /\ Able(t)
  /\ kind \in Heads
  /\ RaceUpdate(Conflict(r, t, kind, key), Record(r, t, kind, key),
                LogAccess(hist, r, t, kind, key))
  /\ UNCHANGED <<born, cellVars>>

\* Acquisitions: immediate, by a try, or at a wake-up.
Lock(t, l) ==
  /\ Able(t)
  /\ "lock" \in Heads
  /\ ~held[l].writer /\ held[l].readers = 0
  /\ held' = [held EXCEPT ![l].writer = TRUE]
  /\ RaceUpdate(FALSE, SyncAcquire(r, t, l, TRUE), LogSync(hist, t, "lock", l))
  /\ UNCHANGED <<born, queued, closed, parked>>

RLock(t, l) ==
  /\ Able(t)
  /\ "rlock" \in Heads
  /\ ~held[l].writer
  /\ held' = [held EXCEPT ![l].readers = @ + 1]
  /\ RaceUpdate(FALSE, SyncAcquire(r, t, l, FALSE), LogSync(hist, t, "rlock", l))
  /\ UNCHANGED <<born, queued, closed, parked>>

\* Any goroutine may release.
Unlock(t, l) ==
  /\ Able(t)
  /\ held[l].writer
  /\ held' = [held EXCEPT ![l].writer = FALSE]
  /\ RaceUpdate(FALSE, SyncRelease(r, t, l, FALSE), LogSync(hist, t, "unlock", l))
  /\ UNCHANGED <<born, queued, closed, parked>>

RUnlock(t, l) ==
  /\ Able(t)
  /\ held[l].readers > 0
  /\ held' = [held EXCEPT ![l].readers = @ - 1]
  /\ RaceUpdate(FALSE, SyncRelease(r, t, l, TRUE), LogSync(hist, t, "runlock", l))
  /\ UNCHANGED <<born, queued, closed, parked>>

\* atomicEvents: a load acquires and then reads; the others are recorded as
\* writes before they move clocks.  A failed compare-and-swap ("observe") only
\* acquires.
Load(t, k) ==
  /\ Able(t)
  /\ "load" \in Heads
  /\ LET d == AtomicAcquire(r, t, k) IN
       RaceUpdate(Conflict(d, t, "atomicRead", k), Record(d, t, "atomicRead", k),
                  LogAccess(LogSync(hist, t, "observe", k), d, t, "atomicRead", k))
  /\ UNCHANGED <<born, cellVars>>

\* To the memory model an operation that observes a store is after it with all
\* it does: the reference observes, writes and publishes, whatever the order in
\* which the detector records and acquires.
AtomicWrite(t, k, what) ==
  /\ Able(t)
  /\ what \in Heads
  /\ LET d == Record(r, t, "atomicWrite", k)
         seen == IF what = "store" THEN hist ELSE LogSync(hist, t, "observe", k)
         done == LogAccess(seen, r, t, "atomicWrite", k)
     IN RaceUpdate(Conflict(r, t, "atomicWrite", k),
                   CASE what = "store" -> AtomicReleaseStore(d, t, k)
                     [] what = "rmw" -> AtomicReleaseAcquire(d, t, k)
                     [] what = "observe" -> AtomicAcquire(d, t, k),
                   IF what = "observe" THEN done ELSE LogSync(done, t, what, k))
  /\ UNCHANGED <<born, cellVars>>

-----------------------------------------------------------------------------
(* Channels. *)

MayUse(c) == EarlySlots \/ ~Inert \/ Cap[c] = 0

\* Every send reads the channel object first, whether it completes or parks.
Send(t, c) ==
  /\ Able(t)
  /\ MayUse(c)
  /\ ~closed[c]
  /\ queued[c] < Cap[c]
  /\ queued' = [queued EXCEPT ![c] = @ + 1]
  /\ RaceUpdate(Conflict(r, t, "read", c), SlotOp(Record(r, t, "read", c), t, c, TRUE),
                LogSync(LogAccess(hist, r, t, "read", c), t, "send", c))
  /\ UNCHANGED <<born, held, closed, parked>>

ParkSend(t, c) ==
  /\ Able(t)
  /\ MayUse(c)
  /\ ~closed[c]
  /\ queued[c] = Cap[c]
  /\ parked' = [parked EXCEPT ![t] = c]
  /\ RaceUpdate(Conflict(r, t, "read", c), Record(r, t, "read", c),
                LogAccess(hist, r, t, "read", c))
  /\ UNCHANGED <<born, held, queued, closed>>

\* The read without a communication: a send that panics on a closed channel, a
\* select's send clause that is not the one taken (selectPoll).
Poll(t, c) ==
  /\ Able(t)
  /\ "poll" \in Heads
  /\ MayUse(c)
  /\ RaceUpdate(Conflict(r, t, "read", c), Record(r, t, "read", c),
                LogAccess(hist, r, t, "read", c))
  /\ UNCHANGED <<born, cellVars>>

Receive(t, c) ==
  /\ Able(t)
  /\ MayUse(c)
  /\ queued[c] > 0
  /\ closed[c] \/ \A u \in Procs : parked[u] # c
  /\ queued' = [queued EXCEPT ![c] = @ - 1]
  /\ RaceUpdate(FALSE, SlotOp(r, t, c, FALSE), LogSync(hist, t, "recv", c))
  /\ UNCHANGED <<born, held, closed, parked>>

\* t sends to u, which is parked as a receiver (pairSendEvents).
SendTo(t, u, c) ==
  /\ Able(t) /\ Able(u) /\ t # u
  /\ ~closed[c]
  /\ queued[c] = 0
  /\ \A v \in Procs : parked[v] # c
  /\ LET d == Record(r, t, "read", c)
         h == LogAccess(hist, r, t, "read", c)
     IN RaceUpdate(Conflict(r, t, "read", c),
                   IF Cap[c] = 0 THEN Rendezvous(d, t, u)
                                 ELSE SlotOp(SlotOp(d, t, c, TRUE), u, c, FALSE),
                   IF Cap[c] = 0 THEN Log(h, {t, u}, "meet", c, "none", 0)
                                 ELSE LogSync(LogSync(h, t, "send", c), u, "recv", c))
  /\ UNCHANGED <<born, cellVars>>

\* t receives while u is parked as a sender (pairRecvEvents): the head comes
\* out of its slot, then u's value goes into the next one.
ReceiveFrom(t, u, c) ==
  /\ Able(t)
  /\ parked[u] = c
  /\ ~closed[c]
  /\ parked' = [parked EXCEPT ![u] = None]
  /\ RaceUpdate(FALSE,
                IF queued[c] = 0 THEN Rendezvous(r, t, u)
                                 ELSE SlotOp(SlotOp(r, t, c, FALSE), u, c, TRUE),
                IF queued[c] = 0 THEN Log(hist, {t, u}, "meet", c, "none", 0)
                                 ELSE LogSync(LogSync(hist, t, "recv", c), u, "send", c))
  /\ UNCHANGED <<born, held, queued, closed>>

\* Mutant: closing does not write the channel object.
CloseUnrecorded(t, c) ==
  /\ Able(t)
  /\ "close" \in Heads
  /\ MayUse(c)
  /\ ~closed[c]
  /\ closed' = [closed EXCEPT ![c] = TRUE]
  /\ RaceUpdate(FALSE, CloseOp(r, t, c),
                LogSync(LogAccess(hist, r, t, "write", c), t, "close", c))
  /\ UNCHANGED <<born, held, queued, parked>>

\* A close writes the channel object and releases into the close clock.
Close(t, c) ==
  /\ Able(t)
  /\ "close" \in Heads
  /\ MayUse(c)
  /\ ~closed[c]
  /\ closed' = [closed EXCEPT ![c] = TRUE]
  /\ RaceUpdate(Conflict(r, t, "write", c), CloseOp(Record(r, t, "write", c), t, c),
                LogSync(LogAccess(hist, r, t, "write", c), t, "close", c))
  /\ UNCHANGED <<born, held, queued, parked>>

\* A receive that reports the channel closed.
ReceiveZero(t, c) ==
  /\ Able(t)
  /\ closed[c]
  /\ queued[c] = 0
  /\ RaceUpdate(FALSE, CloseAcquire(r, t, c), LogSync(hist, t, "zero", c))
  /\ UNCHANGED <<born, cellVars>>

ChanUse(t, c) ==
  \/ Send(t, c) \/ ParkSend(t, c) \/ Receive(t, c) \/ Close(t, c) \/ ReceiveZero(t, c)
  \/ \E u \in Procs : SendTo(t, u, c) \/ ReceiveFrom(t, u, c)

ChanStep(t, c) == ChanUse(t, c) \/ Poll(t, c)

Next ==
  \E t \in Procs :
    \/ \E u \in Procs : Go(t, u)
    \/ \E k \in Keys : \/ \E kind \in {"read", "write"} : Access(t, kind, k)
                       \/ Load(t, k)
                       \/ \E what \in {"store", "rmw", "observe"} : AtomicWrite(t, k, what)
    \/ \E l \in Locks : Lock(t, l) \/ RLock(t, l) \/ Unlock(t, l) \/ RUnlock(t, l)
    \/ \E c \in Chans : ChanStep(t, c)

Spec == Init /\ [][Next]_vars

-----------------------------------------------------------------------------
(* Properties. *)

Accesses == {i \in DOMAIN hist : hist[i].what = "access"}

\* The events before what goroutine t does after the first n events.
Past(t, n) ==
  UNION {hist[i].past : i \in {j \in 1 .. n :
            t \in hist[j].who \/ (hist[j].what = "go" /\ hist[j].obj = t)}}

Contend(i, j) ==
  /\ hist[i].who \cap hist[j].who = {}
  /\ Overlap(hist[i].obj, hist[j].obj)
  /\ Conflicting(hist[i].kind, hist[j].kind)

\* Two accesses that the memory model calls a data race.
Races(i, j) == Contend(i, j) /\ i \notin hist[j].past /\ j \notin hist[i].past

\* Two accesses that it orders, but only by the store that j's own operation
\* observes, a read-modify-write or a failed compare-and-swap: what Race.lean
\* calls the one consequence of recording before acquiring.
RecordedEarly(i, j) ==
  /\ Contend(i, j)
  /\ i \in hist[j].past
  /\ hist[j].kind = "atomicWrite"
  /\ j - 1 \in DOMAIN hist /\ hist[j - 1].what = "observe" /\ hist[j - 1].who = hist[j].who
  /\ \A t \in hist[j].who : i \notin Past(t, j - 2)

\* Every refusal names a data race of the memory model, or is the documented
\* over-refusal: an atomic operation, recorded as a write before it acquires,
\* meets an access that only the store it observes orders before it.
NoFalseRace == status = "raceDetected" => \E i, j \in Accesses : Races(i, j) \/ RecordedEarly(i, j)

\* A run goes on only while no two accesses in it race: keeping only the latest
\* epoch of each goroutine loses nothing.
NoMissedRace == status = "running" => \A i, j \in Accesses : ~Races(i, j)

\* "Prior access at epoch e by u is ordered before t-now iff e <= vt[u]": the
\* clocks hold exactly the memory model's happens-before.
ClockExact ==
  status = "running" =>
    \A i \in Accesses : \A u \in hist[i].who : \A t \in born \ {u} :
      i \in Past(t, Len(hist)) <=> hist[i].epoch <= r.clocks[t][u]

\* A channel is never closed over a parked sender in a run that goes on, which
\* is why a sender woken by a close needs no edge from the closer.
ParkedSenderRefusesClose ==
  status = "running" => \A t \in Procs : parked[t] # None => ~closed[parked[t]]
=============================================================================
