----------------------------- MODULE RaceProofs -----------------------------
(***************************************************************************)
(* Proofs about the race detector, for any number of goroutines, paths,    *)
(* locks and channels: its clocks are exactly the happens-before of the Go *)
(* memory model, so that it refuses the racy runs and no others, and no    *)
(* run that goes on closes a channel over a parked sender.                 *)
(***************************************************************************)
EXTENDS Race, FiniteSetTheorems, TLAPS

-----------------------------------------------------------------------------
(* The state of the detector, and histories. *)

VC == [Procs -> Nat]

RaceStates ==
  [clocks : [Procs -> VC], shadow : [Keys \cup Chans -> [Kinds -> VC]], slots : [Slots -> VC],
   nsend : [Chans -> Nat], nrecv : [Chans -> Nat], closeVC : [Chans -> VC],
   semA : [Locks -> VC], semB : [Locks -> VC], atomics : [Keys -> VC]]

Whats == {"access", "go", "lock", "rlock", "unlock", "runlock", "observe", "store", "rmw",
          "send", "recv", "meet", "close", "zero"}
Objs == Procs \cup Keys \cup Locks \cup Chans

Events == [who : SUBSET Procs, what : Whats, obj : Objs, kind : Kinds \cup {"none"},
           n : Nat, epoch : Nat, past : SUBSET Nat]

\* The events before what goroutine t does next.
PastOf(h, t) ==
  UNION {h[i].past : i \in {j \in DOMAIN h : t \in h[j].who \/ (h[j].what = "go" /\ h[j].obj = t)}}

\* The events before the releases of one kind on an object.
Released(h, what, obj) ==
  UNION {h[i].past : i \in {j \in DOMAIN h : h[j].what = what /\ h[j].obj = obj}}

\* The events before the n-th send or receive on a channel.
Numbered(h, what, c, n) ==
  UNION {h[i].past : i \in {j \in DOMAIN h : h[j].what = what /\ h[j].obj = c /\ h[j].n = n}}

\* The events before the last store.
Stored(h, k) == UNION {h[i].past : i \in LastStore(h, k)}

IsAccess(h, i) == i \in DOMAIN h /\ h[i].what = "access"

RacesIn(h, i, j) ==
  /\ IsAccess(h, i) /\ IsAccess(h, j)
  /\ h[i].who \cap h[j].who = {}
  /\ Overlap(h[i].obj, h[j].obj)
  /\ Conflicting(h[i].kind, h[j].kind)
  /\ i \notin h[j].past
  /\ j \notin h[i].past

\* The events before what t does after the first n events.
PastUpTo(h, t, n) ==
  UNION {h[i].past : i \in {j \in 1 .. n : t \in h[j].who \/ (h[j].what = "go" /\ h[j].obj = t)}}

EarlyIn(h, i, j) ==
  /\ IsAccess(h, i) /\ IsAccess(h, j)
  /\ h[i].who \cap h[j].who = {}
  /\ Overlap(h[i].obj, h[j].obj)
  /\ Conflicting(h[i].kind, h[j].kind)
  /\ i \in h[j].past
  /\ h[j].kind = "atomicWrite"
  /\ j - 1 \in DOMAIN h /\ h[j - 1].what = "observe" /\ h[j - 1].who = h[j].who
  /\ \A t \in h[j].who : i \notin PastUpTo(h, t, j - 2)

\* A clock covers exactly the accesses in a set, those of the pool of one
\* goroutine aside.
Covers(h, S, vc) ==
  \A i \in DOMAIN h : h[i].what = "access" /\ h[i].epoch > 0 =>
    \A u \in h[i].who : i \in S <=> h[i].epoch <= vc[u]

-----------------------------------------------------------------------------
(* The inductive invariant, on a history h, a state d and the goroutines b. *)

\* The epochs in the shadow are those of accesses.
Accessed(h, k, kind, t, epoch) ==
  \E i \in DOMAIN h : /\ h[i].what = "access" /\ h[i].who = {t} /\ h[i].obj = k
                      /\ h[i].kind = kind /\ h[i].epoch = epoch
Witnessed(h, d) ==
  \A k \in Keys \cup Chans, kind \in Kinds, t \in Procs :
    d.shadow[k][kind][t] > 0 => Accessed(h, k, kind, t, d.shadow[k][kind][t])

\* The history and the shadow: every access has its epoch, which is its
\* goroutine's at most and is covered by the shadow; the shadow holds epochs
\* of accesses; what the first goroutine did alone is before everything; and
\* no two accesses race.
Accounted(h, d, b) ==
  /\ h \in Seq(Events) /\ d \in RaceStates /\ b \in SUBSET Procs
  /\ \A i \in DOMAIN h : /\ h[i].who \in SUBSET b
                         /\ h[i].what = "go" => h[i].obj \in b
                         /\ i \in h[i].past /\ h[i].past \in SUBSET (1 .. i)
  /\ \A i \in DOMAIN h : h[i].what = "access" =>
       \E t \in b : /\ h[i].who = {t} /\ h[i].obj \in Keys \cup Chans /\ h[i].kind \in Kinds
                    /\ h[i].epoch <= d.clocks[t][t]
                    /\ h[i].epoch <= d.shadow[h[i].obj][h[i].kind][t]
                    /\ h[i].epoch = 0 => \A u \in b : i \in PastOf(h, u)
  /\ Witnessed(h, d)
  /\ \A i, j \in DOMAIN h : ~RacesIn(h, i, j)

\* A clock without the current epoch of any goroutine: each starts a new one
\* with every release.
Behind(vc, d) == \A u \in Procs : vc[u] < d.clocks[u][u]

\* The goroutines' clocks cover what is before their next steps, and have no
\* current epoch but their own.
Ahead(d, b) ==
  \A u \in Procs : /\ d.clocks[u][u] > 0 /\ (u \notin b => d.clocks[u][u] = 1)
                   /\ \A t \in Procs \ {u} : d.clocks[t][u] < d.clocks[u][u]
ThreadsOk(h, d, b) == Ahead(d, b) /\ \A t \in b : Covers(h, PastOf(h, t), d.clocks[t])

\* The clocks of closes, locks and atomics cover the events before the releases
\* into them.
CloseOk(h, d) ==
  \A c \in Chans : Behind(d.closeVC[c], d) /\ Covers(h, Released(h, "close", c), d.closeVC[c])
UnlockOk(h, d) ==
  \A l \in Locks : Behind(d.semA[l], d) /\ Covers(h, Released(h, "unlock", l), d.semA[l])
RUnlockOk(h, d) ==
  \A l \in Locks : Behind(d.semB[l], d) /\ Covers(h, Released(h, "runlock", l), d.semB[l])
AtomicsOk(h, d) ==
  \A k \in Keys : Behind(d.atomics[k], d) /\ Covers(h, Stored(h, k), d.atomics[k])

SlotOf(c, n) == <<c, (n - 1) % SlotCount(c)>>

\* The sends and receives so far.  The detector counts them too, but not those
\* of the pool of one goroutine, which only a channel with one slot may have.
Sent(h, c) == Number(h, "send", c) - 1
Rcvd(h, c) == Number(h, "recv", c) - 1
NumbersOk(h, d, c) ==
  /\ Rcvd(h, c) <= Sent(h, c) /\ Sent(h, c) <= Rcvd(h, c) + Cap[c]
  /\ Cap[c] = 1 \/ (d.nsend[c] = Sent(h, c) /\ d.nrecv[c] = Rcvd(h, c))
  /\ \A i \in DOMAIN h : h[i].obj = c =>
       /\ h[i].what = "send" => h[i].n \in 1 .. Sent(h, c)
       /\ h[i].what = "recv" => h[i].n \in 1 .. Rcvd(h, c)

\* The slots of a buffered channel: for the values it holds, those of their
\* sends, and for the free ones, those of the receives that freed them.
SendsOk(h, d, c) ==
  \A n \in (Rcvd(h, c) + 1) .. Sent(h, c) :
    Covers(h, Numbered(h, "send", c, n), d.slots[SlotOf(c, n)])
RecvsOk(h, d, c) ==
  \A n \in (Sent(h, c) + 1) .. (Rcvd(h, c) + Cap[c]) :
    Covers(h, Numbered(h, "recv", c, n - Cap[c]), d.slots[SlotOf(c, n)])
Counted(h, d, c) == NumbersOk(h, d, c) /\ SendsOk(h, d, c) /\ RecvsOk(h, d, c)

SlotsOk(h, d) ==
  /\ \A s \in Slots : Behind(d.slots[s], d)
  /\ \A c \in Chans : Cap[c] > 0 => Counted(h, d, c)

HB(h, d, b) ==
  /\ Accounted(h, d, b) /\ ThreadsOk(h, d, b)
  /\ CloseOk(h, d) /\ UnlockOk(h, d) /\ RUnlockOk(h, d) /\ AtomicsOk(h, d) /\ SlotsOk(h, d)

\* A history of the first goroutine alone.
Quiet(h) ==
  /\ h \in Seq(Events)
  /\ \A i \in DOMAIN h : i \in h[i].past /\ h[i].past \in SUBSET (1 .. i)
  /\ \A i \in DOMAIN h : /\ h[i].who = {Main} /\ h[i].what # "go"
                         /\ h[i].what = "access" => /\ h[i].epoch = 0 /\ h[i].kind \in Kinds
                                                    /\ h[i].obj \in Keys \cup Chans
  /\ \A c \in Chans : /\ Cap[c] > 1 => Sent(h, c) = 0 /\ Rcvd(h, c) = 0
                      /\ \A i \in DOMAIN h : h[i].obj = c =>
                           /\ h[i].what = "send" => h[i].n \in 1 .. Sent(h, c)
                           /\ h[i].what = "recv" => h[i].n \in 1 .. Rcvd(h, c)

\* A history with a race, or with an atomic write recorded early.
Racy(h) == \E i, j \in DOMAIN h : RacesIn(h, i, j) \/ EarlyIn(h, i, j)

\* Channels with q queued hold what was sent and not received.
Queued(h, q) ==
  /\ q \in [Chans -> Nat]
  /\ \A c \in Chans : q[c] <= Cap[c] /\ (Cap[c] > 0 => Sent(h, c) = Rcvd(h, c) + q[c])

\* The detector's state d is exact for the history h.
Exact(h, d, q) == HB(h, d, born) /\ Queued(h, q) /\ (Inert => Quiet(h) /\ d = RaceInit)

PoolInv ==
  /\ IsFiniteSet(born) /\ Main \in born /\ born \in SUBSET Procs
  /\ parked \in [Procs -> Chans \cup {None}]
  /\ \A t \in Procs : parked[t] # None => t \in born
  /\ status \in {"running", "raceDetected"}

\* The inductive invariant.
RaceInv ==
  /\ PoolInv
  /\ status = "raceDetected" => Racy(hist)
  /\ status = "running" => Exact(hist, r, queued)

-----------------------------------------------------------------------------
(* Histories. *)

\* g is h with the event e.
Extends(h, g, e) ==
  /\ h \in Seq(Events) /\ g \in Seq(Events) /\ e \in Events
  /\ Len(h) \in Nat /\ Len(g) = Len(h) + 1
  /\ DOMAIN h = 1 .. Len(h)
  /\ DOMAIN g = DOMAIN h \cup {Len(h) + 1} /\ Len(h) + 1 \notin DOMAIN h
  /\ \A i \in DOMAIN h : g[i] = h[i]
  /\ g[Len(h) + 1] = e

\* Every event is before itself, and events before it are not later ones.
Founded(h) == \A i \in DOMAIN h : i \in h[i].past /\ h[i].past \in SUBSET (1 .. i)

\* What synchronizes before an event, besides what its goroutines did.
SyncBefore(h, i, e) ==
  /\ h[i].obj = e.obj
  /\ \/ h[i].what = "unlock" /\ e.what \in {"lock", "rlock"}
     \/ h[i].what = "runlock" /\ e.what = "lock"
     \/ h[i].what = "send" /\ e.what = "recv" /\ e.n = h[i].n
     \/ h[i].what = "recv" /\ e.what = "send" /\ e.n = h[i].n + Cap[e.obj]
     \/ h[i].what = "close" /\ e.what = "zero"
     \/ e.what \in {"observe", "rmw"} /\ i \in LastStore(h, e.obj)

\* g is h with the event that Log adds to it.
Logged(h, g, e, who, what, obj, kind, epoch) ==
  /\ Extends(h, g, e) /\ Founded(h) /\ Founded(g)
  /\ e.who = who /\ e.what = what /\ e.obj = obj /\ e.kind = kind /\ e.epoch = epoch
  /\ e.n = Number(h, what, obj)
  /\ \A i \in DOMAIN h : i \in e.past <=>
       \/ \E t \in who : i \in PastOf(h, t)
       \/ \E j \in DOMAIN h : SyncBefore(h, j, e) /\ i \in h[j].past

\* A sequence and its numbers.
LEMMA NumberType ==
  ASSUME NEW h \in Seq(Events), NEW what, NEW obj
  PROVE  /\ IsFiniteSet({i \in DOMAIN h : h[i].what = what /\ h[i].obj = obj})
         /\ Number(h, what, obj) \in Nat /\ Number(h, what, obj) >= 1
<1> DEFINE S == {i \in DOMAIN h : h[i].what = what /\ h[i].obj = obj}
<1>1. DOMAIN h = 1 .. Len(h) /\ Len(h) \in Nat
  OBVIOUS
<1>2. IsFiniteSet(1 .. Len(h)) /\ S \in SUBSET (1 .. Len(h))
  BY <1>1, FS_Interval
<1>3. IsFiniteSet(S)
  BY <1>2, FS_Subset
<1>4. Cardinality(S) \in Nat
  BY <1>3, FS_CardinalityType
<1> QED
  BY <1>3, <1>4 DEF Number

\* What Log adds.
LEMMA LogLogged ==
  ASSUME NEW h, h \in Seq(Events), Founded(h), NEW who, who \in SUBSET Procs, NEW what, what \in Whats,
         NEW obj, obj \in Objs, NEW kind, kind \in Kinds \cup {"none"}, NEW epoch, epoch \in Nat,
         NEW g, g = Log(h, who, what, obj, kind, epoch)
  PROVE  \E e : Logged(h, g, e, who, what, obj, kind, epoch)
<1> DEFINE n == Number(h, what, obj)
           D == Direct(h, [who |-> who, what |-> what, obj |-> obj, n |-> n])
           p == {Len(h) + 1} \cup UNION {h[i].past : i \in D}
           e == [who |-> who, what |-> what, obj |-> obj, kind |-> kind, n |-> n, epoch |-> epoch,
                 past |-> p]
<1>1. n \in Nat
  BY NumberType
<1>2. /\ DOMAIN h = 1 .. Len(h) /\ Len(h) \in Nat
      /\ \A i \in DOMAIN h : h[i].past \in SUBSET (1 .. Len(h)) /\ i \in h[i].past
  BY DEF Founded
<1>3. D \in SUBSET DOMAIN h
  BY DEF Direct
<1>4. p \in SUBSET (1 .. (Len(h) + 1)) /\ Len(h) + 1 \in p
  <2> HIDE DEF D
  <2> QED
    BY <1>2, <1>3
<1>d. \A j : j \in D <=> /\ j \in DOMAIN h
                         /\ \/ h[j].who \cap who # {}
                            \/ h[j].what = "go" /\ h[j].obj \in who
                            \/ SyncBefore(h, j, e)
  BY DEF Direct, SyncBefore
<1> HIDE DEF n, D, p
<1>5. /\ e \in Events
      /\ e.who = who /\ e.what = what /\ e.obj = obj /\ e.kind = kind /\ e.epoch = epoch
      /\ e.n = n /\ e.past = p
  BY <1>1, <1>4 DEF Events
<1>6. g = Append(h, e)
  BY DEF Log, n, D, p
<1> HIDE DEF e
<1>7. Extends(h, g, e)
  BY <1>2, <1>5, <1>6 DEF Extends
<1>8. Founded(g)
  BY <1>2, <1>4, <1>5, <1>7 DEF Extends, Founded
<1>9. ASSUME NEW i \in DOMAIN h
      PROVE  i \in e.past <=>
               \/ \E t \in who : i \in PastOf(h, t)
               \/ \E j \in DOMAIN h : SyncBefore(h, j, e) /\ i \in h[j].past
  <2>1. i \in e.past <=> \E j \in D : i \in h[j].past
    BY <1>2, <1>5 DEF p
  <2>2. (\E t \in who : i \in PastOf(h, t)) <=>
           \E j \in DOMAIN h : /\ i \in h[j].past
                               /\ h[j].who \cap who # {} \/ (h[j].what = "go" /\ h[j].obj \in who)
    BY DEF PastOf
  <2> QED
    BY <1>d, <2>1, <2>2
<1> QED
  BY <1>5, <1>7, <1>8, <1>9 DEF Logged, n

\* What an event is after in the rules for its kind.
LEMMA PastMoves ==
  ASSUME NEW h, NEW g, NEW e, NEW who, NEW what, NEW obj, NEW kind, NEW epoch,
         Logged(h, g, e, who, what, obj, kind, epoch)
  PROVE  \A i \in DOMAIN h :
           /\ \A t \in who : i \in PastOf(g, t) <=> i \in e.past
           /\ \A t : t \notin who =>
                (i \in PastOf(g, t) <=> \/ i \in PastOf(h, t)
                                        \/ what = "go" /\ obj = t /\ i \in e.past)
<1>1. /\ DOMAIN g = DOMAIN h \cup {Len(h) + 1} /\ Len(h) + 1 \notin DOMAIN h
      /\ \A i \in DOMAIN h : g[i] = h[i]
      /\ g[Len(h) + 1] = e /\ e.who = who /\ e.what = what /\ e.obj = obj
  BY DEF Logged, Extends
<1>2. \A i \in DOMAIN h : \A t \in who : i \in PastOf(h, t) => i \in e.past
  BY DEF Logged
<1>3. ASSUME NEW i \in DOMAIN h, NEW t
      PROVE  i \in PastOf(g, t) <=> \/ i \in PastOf(h, t)
                                    \/ /\ t \in who \/ (what = "go" /\ obj = t)
                                       /\ i \in e.past
  BY <1>1 DEF PastOf
<1> QED
  BY <1>2, <1>3

\* The releases and the stores that an event adds to.
LEMMA ReleasedMoves ==
  ASSUME NEW h, NEW g, NEW e, NEW who, NEW what, NEW obj, NEW kind, NEW epoch,
         Logged(h, g, e, who, what, obj, kind, epoch)
  PROVE  \A i \in DOMAIN h :
           /\ \A w, o : i \in Released(g, w, o) <=> \/ i \in Released(h, w, o)
                                                    \/ w = what /\ o = obj /\ i \in e.past
           /\ \A w, o, n : i \in Numbered(g, w, o, n) <=>
                             \/ i \in Numbered(h, w, o, n)
                             \/ w = what /\ o = obj /\ n = e.n /\ i \in e.past
<1>1. /\ DOMAIN g = DOMAIN h \cup {Len(h) + 1} /\ Len(h) + 1 \notin DOMAIN h
      /\ \A i \in DOMAIN h : g[i] = h[i]
      /\ g[Len(h) + 1] = e /\ e.who = who /\ e.what = what /\ e.obj = obj
  BY DEF Logged, Extends
<1>2. ASSUME NEW i \in DOMAIN h, NEW w, NEW o
      PROVE  i \in Released(g, w, o) <=> \/ i \in Released(h, w, o)
                                         \/ w = what /\ o = obj /\ i \in e.past
  BY <1>1 DEF Released
<1>3. ASSUME NEW i \in DOMAIN h, NEW w, NEW o, NEW n
      PROVE  i \in Numbered(g, w, o, n) <=>
                             \/ i \in Numbered(h, w, o, n)
                             \/ w = what /\ o = obj /\ n = e.n /\ i \in e.past
  BY <1>1 DEF Numbered
<1> QED
  BY <1>2, <1>3

\* A store to a key replaces what is stored there by its own past.
LEMMA StoredMoves ==
  ASSUME NEW h, NEW g, NEW e, NEW who, NEW what, NEW obj, NEW kind, NEW epoch,
         Logged(h, g, e, who, what, obj, kind, epoch), NEW k
  PROVE  \A i \in DOMAIN h :
           i \in Stored(g, k) <=> IF what \in Stores /\ k = obj THEN i \in e.past
                                                              ELSE i \in Stored(h, k)
<1>1. /\ DOMAIN h = 1 .. Len(h) /\ Len(h) \in Nat
      /\ DOMAIN g = DOMAIN h \cup {Len(h) + 1} /\ Len(h) + 1 \notin DOMAIN h
      /\ \A i \in DOMAIN h : g[i] = h[i]
      /\ g[Len(h) + 1] = e /\ e.who = who /\ e.what = what /\ e.obj = obj
  BY DEF Logged, Extends
<1>2. CASE what \in Stores /\ k = obj
  <2>1. \A i : i \in LastStore(g, k) <=> i = Len(h) + 1
    BY <1>1, <1>2 DEF LastStore
  <2> QED
    BY <1>1, <1>2, <2>1 DEF Stored
<1>3. CASE ~(what \in Stores /\ k = obj)
  <2>1. \A i : i \in LastStore(g, k) <=> i \in LastStore(h, k)
    BY <1>1, <1>3 DEF LastStore
  <2>2. \A i \in LastStore(h, k) : i \in DOMAIN h
    BY DEF LastStore
  <2> QED
    BY <1>1, <1>3, <2>1, <2>2 DEF Stored
<1> QED
  BY <1>2, <1>3

-----------------------------------------------------------------------------
(* What clocks cover. *)

\* A synchronization changes nothing about accesses.
LEMMA CoversSync ==
  ASSUME NEW h, NEW g, NEW e, Extends(h, g, e), e.what # "access",
         NEW S, NEW T, NEW vc, Covers(h, S, vc), \A i \in DOMAIN h : i \in T <=> i \in S
  PROVE  Covers(g, T, vc)
BY DEF Covers, Extends

\* Two clocks together cover what each of them does.
LEMMA CoversJoin ==
  ASSUME NEW h, h \in Seq(Events), NEW S, NEW vc, vc \in VC, Covers(h, S, vc),
         NEW T, NEW wc, wc \in VC, Covers(h, T, wc),
         NEW U, \A i \in DOMAIN h : i \in U <=> i \in S \/ i \in T
  PROVE  Covers(h, U, Join(vc, wc)) /\ Join(vc, wc) \in VC
<1>1. \A i \in DOMAIN h : h[i] \in Events
  OBVIOUS
<1>2. \A i \in DOMAIN h : h[i].epoch \in Nat /\ h[i].who \in SUBSET Procs
  BY <1>1 DEF Events
<1>3. Join(vc, wc) \in VC
  BY DEF Join, VC
<1>4. \A u \in Procs : \A x \in Nat : x <= Join(vc, wc)[u] <=> x <= vc[u] \/ x <= wc[u]
  BY DEF Join, VC
<1> QED
  BY <1>2, <1>3, <1>4 DEF Covers

\* A state with some fields.
State(clocks, shadow, slots, nsend, nrecv, closeVC, semA, semB, atomics) ==
  [clocks |-> clocks, shadow |-> shadow, slots |-> slots, nsend |-> nsend, nrecv |-> nrecv,
   closeVC |-> closeVC, semA |-> semA, semB |-> semB, atomics |-> atomics]

\* A release on each field of the state.
LEMMA SetReleasedFields ==
  ASSUME NEW d, d \in RaceStates, NEW t \in Procs, NEW vc, vc \in VC,
         NEW x, x = SetReleased(d, t, vc)
  PROVE  /\ x \in RaceStates
         /\ x.clocks = [d.clocks EXCEPT ![t] = Bump(vc, t)]
         /\ x.shadow = d.shadow /\ x.slots = d.slots /\ x.nsend = d.nsend /\ x.nrecv = d.nrecv
         /\ x.closeVC = d.closeVC /\ x.semA = d.semA /\ x.semB = d.semB /\ x.atomics = d.atomics
<1>1. Bump(vc, t) \in VC
  BY DEF Bump, VC
<1>2. [d.clocks EXCEPT ![t] = Bump(vc, t)] \in [Procs -> VC]
  BY <1>1 DEF RaceStates
<1> QED
  BY <1>1, <1>2 DEF SetReleased, RaceStates

\* Joins are clocks.
LEMMA JoinType ==
  ASSUME NEW vc, vc \in VC, NEW wc, wc \in VC
  PROVE  /\ Join(vc, wc) \in VC
         /\ \A u \in Procs : Join(vc, wc)[u] = IF vc[u] < wc[u] THEN wc[u] ELSE vc[u]
BY DEF Join, VC

\* The slots of a channel.
LEMMA SlotType ==
  ASSUME NEW c \in Chans, NEW n \in Nat
  PROVE  <<c, n % SlotCount(c)>> \in Slots /\ SlotCount(c) \in Nat /\ SlotCount(c) > 0
<1>1. SlotCount(c) \in Nat /\ SlotCount(c) > 0
  BY CapAssumption DEF SlotCount
<1>2. n % SlotCount(c) \in 0 .. (SlotCount(c) - 1)
  BY <1>1
<1> QED
  BY <1>1, <1>2 DEF Slots

SendSlot(d, t, c) == SlotOp(d, t, c, TRUE)
RecvSlot(d, t, c) == SlotOp(d, t, c, FALSE)

SendEffect(d, x, t, c, s, j) ==
  /\ x \in RaceStates
  /\ x.clocks = [d.clocks EXCEPT ![t] = Bump(j, t)]
  /\ x.slots = [d.slots EXCEPT ![s] = j]
  /\ x.nsend = [d.nsend EXCEPT ![c] = @ + 1]
  /\ x.shadow = d.shadow /\ x.nrecv = d.nrecv /\ x.closeVC = d.closeVC /\ x.semA = d.semA
  /\ x.semB = d.semB /\ x.atomics = d.atomics
  /\ s \in Slots /\ j \in VC

\* A send on each field of the state.
LEMMA SendFields ==
  ASSUME NEW d, d \in RaceStates, NEW t \in Procs, NEW c \in Chans,
         NEW s, s = <<c, d.nsend[c] % SlotCount(c)>>, NEW j, j = Join(d.clocks[t], d.slots[s]),
         NEW x, x = SendSlot(d, t, c)
  PROVE  SendEffect(d, x, t, c, s, j)
<1>0. s \in Slots
  BY SlotType DEF RaceStates
<1>1. j \in VC
  BY <1>0, JoinType DEF RaceStates
<1>2. PICK y : y = SetReleased(d, t, j)
  OBVIOUS
<1>3. /\ y \in RaceStates
      /\ y.clocks = [d.clocks EXCEPT ![t] = Bump(j, t)]
      /\ y.shadow = d.shadow /\ y.slots = d.slots /\ y.nsend = d.nsend /\ y.nrecv = d.nrecv
      /\ y.closeVC = d.closeVC /\ y.semA = d.semA /\ y.semB = d.semB /\ y.atomics = d.atomics
  BY <1>1, <1>2, SetReleasedFields
<1>4. PICK S, N, M : /\ S = [y.slots EXCEPT ![s] = j] /\ N = [y.nsend EXCEPT ![c] = @ + 1]
                     /\ M = [y.nrecv EXCEPT ![c] = @]
  OBVIOUS
<1>5. x = [y EXCEPT !.slots = S, !.nsend = N, !.nrecv = M]
  BY <1>2, <1>4 DEF SlotOp, SendSlot
<1>6. /\ S \in [Slots -> VC] /\ N \in [Chans -> Nat] /\ M = y.nrecv
      /\ y.clocks \in [Procs -> VC] /\ y.shadow \in [Keys \cup Chans -> [Kinds -> VC]]
      /\ y.nrecv \in [Chans -> Nat] /\ y.closeVC \in [Chans -> VC]
      /\ y.semA \in [Locks -> VC] /\ y.semB \in [Locks -> VC] /\ y.atomics \in [Keys -> VC]
  BY <1>0, <1>1, <1>3, <1>4 DEF RaceStates
<1>7. x = State(y.clocks, y.shadow, S, N, M, y.closeVC, y.semA, y.semB, y.atomics)
  BY <1>3, <1>5 DEF State, RaceStates
<1>8. /\ x.clocks = y.clocks /\ x.shadow = y.shadow /\ x.slots = S /\ x.nsend = N /\ x.nrecv = M
      /\ x.closeVC = y.closeVC /\ x.semA = y.semA /\ x.semB = y.semB /\ x.atomics = y.atomics
  BY <1>7 DEF State
<1>9. x \in RaceStates
  BY <1>6, <1>7 DEF State, RaceStates
<1> QED
  BY <1>0, <1>1, <1>3, <1>4, <1>6, <1>8, <1>9 DEF SendEffect

RecvEffect(d, x, t, c, s, j) ==
  /\ x \in RaceStates
  /\ x.clocks = [d.clocks EXCEPT ![t] = Bump(j, t)]
  /\ x.slots = [d.slots EXCEPT ![s] = j]
  /\ x.nrecv = [d.nrecv EXCEPT ![c] = @ + 1]
  /\ x.shadow = d.shadow /\ x.nsend = d.nsend /\ x.closeVC = d.closeVC /\ x.semA = d.semA
  /\ x.semB = d.semB /\ x.atomics = d.atomics
  /\ s \in Slots /\ j \in VC

\* A receive on each field of the state.
LEMMA RecvFields ==
  ASSUME NEW d, d \in RaceStates, NEW t \in Procs, NEW c \in Chans,
         NEW s, s = <<c, d.nrecv[c] % SlotCount(c)>>, NEW j, j = Join(d.clocks[t], d.slots[s]),
         NEW x, x = RecvSlot(d, t, c)
  PROVE  RecvEffect(d, x, t, c, s, j)
<1>0. s \in Slots
  BY SlotType DEF RaceStates
<1>1. j \in VC
  BY <1>0, JoinType DEF RaceStates
<1>2. PICK y : y = SetReleased(d, t, j)
  OBVIOUS
<1>3. /\ y \in RaceStates
      /\ y.clocks = [d.clocks EXCEPT ![t] = Bump(j, t)]
      /\ y.shadow = d.shadow /\ y.slots = d.slots /\ y.nsend = d.nsend /\ y.nrecv = d.nrecv
      /\ y.closeVC = d.closeVC /\ y.semA = d.semA /\ y.semB = d.semB /\ y.atomics = d.atomics
  BY <1>1, <1>2, SetReleasedFields
<1>4. PICK S, N, M : /\ S = [y.slots EXCEPT ![s] = j] /\ N = [y.nrecv EXCEPT ![c] = @ + 1]
                     /\ M = [y.nsend EXCEPT ![c] = @]
  OBVIOUS
<1>5. x = [y EXCEPT !.slots = S, !.nsend = M, !.nrecv = N]
  BY <1>2, <1>4 DEF SlotOp, RecvSlot
<1>6. /\ S \in [Slots -> VC] /\ N \in [Chans -> Nat] /\ M = y.nsend
      /\ y.clocks \in [Procs -> VC] /\ y.shadow \in [Keys \cup Chans -> [Kinds -> VC]]
      /\ y.nsend \in [Chans -> Nat] /\ y.closeVC \in [Chans -> VC]
      /\ y.semA \in [Locks -> VC] /\ y.semB \in [Locks -> VC] /\ y.atomics \in [Keys -> VC]
  BY <1>0, <1>1, <1>3, <1>4 DEF RaceStates
<1>7. x = State(y.clocks, y.shadow, S, M, N, y.closeVC, y.semA, y.semB, y.atomics)
  BY <1>3, <1>5 DEF State, RaceStates
<1>8. /\ x.clocks = y.clocks /\ x.shadow = y.shadow /\ x.slots = S /\ x.nsend = M /\ x.nrecv = N
      /\ x.closeVC = y.closeVC /\ x.semA = y.semA /\ x.semB = y.semB /\ x.atomics = y.atomics
  BY <1>7 DEF State
<1>9. x \in RaceStates
  BY <1>6, <1>7 DEF State, RaceStates
<1> QED
  BY <1>0, <1>1, <1>3, <1>4, <1>6, <1>8, <1>9 DEF RecvEffect

\* The releases and acquisitions of locks.
UnlockOp(d, t, l)  == SyncRelease(d, t, l, FALSE)
RUnlockOp(d, t, l) == SyncRelease(d, t, l, TRUE)
LockOp(d, t, l)    == SyncAcquire(d, t, l, TRUE)
RLockOp(d, t, l)   == SyncAcquire(d, t, l, FALSE)

\* A close on each field of the state.
LEMMA CloseFields ==
  ASSUME NEW d, d \in RaceStates, NEW t \in Procs, NEW c \in Chans,
         NEW x, x = CloseOp(d, t, c)
  PROVE  /\ x \in RaceStates
         /\ x.clocks = [d.clocks EXCEPT ![t] = Bump(d.clocks[t], t)]
         /\ x.closeVC = [d.closeVC EXCEPT ![c] = Join(d.clocks[t], d.closeVC[c])]
         /\ x.shadow = d.shadow /\ x.slots = d.slots /\ x.nsend = d.nsend /\ x.nrecv = d.nrecv
         /\ x.semA = d.semA /\ x.semB = d.semB /\ x.atomics = d.atomics
         /\ d.clocks[t] \in VC /\ Join(d.clocks[t], d.closeVC[c]) \in VC
<1>0. d.clocks[t] \in VC /\ Join(d.clocks[t], d.closeVC[c]) \in VC
  BY JoinType DEF RaceStates
<1>2. PICK y : y = SetReleased(d, t, d.clocks[t])
  OBVIOUS
<1>3. /\ y \in RaceStates
      /\ y.clocks = [d.clocks EXCEPT ![t] = Bump(d.clocks[t], t)]
      /\ y.shadow = d.shadow /\ y.slots = d.slots /\ y.nsend = d.nsend /\ y.nrecv = d.nrecv
      /\ y.closeVC = d.closeVC /\ y.semA = d.semA /\ y.semB = d.semB /\ y.atomics = d.atomics
  BY <1>0, <1>2, SetReleasedFields
<1>4. PICK S : S = [d.closeVC EXCEPT ![c] = Join(d.clocks[t], d.closeVC[c])]
  OBVIOUS
<1>5. x = [y EXCEPT !.closeVC = S]
  BY <1>2, <1>3, <1>4 DEF CloseOp
<1>6. S \in [Chans -> VC]
  BY <1>0, <1>4 DEF RaceStates
<1>7. x = State(y.clocks, y.shadow, y.slots, y.nsend, y.nrecv, S, y.semA, y.semB, y.atomics)
  BY <1>3, <1>5 DEF State, RaceStates
<1>8. /\ x.clocks = y.clocks /\ x.shadow = y.shadow /\ x.slots = y.slots /\ x.nsend = y.nsend /\ x.nrecv = y.nrecv
      /\ x.closeVC = S /\ x.semA = y.semA /\ x.semB = y.semB /\ x.atomics = y.atomics
  BY <1>7 DEF State
<1>9. x \in RaceStates
  BY <1>3, <1>6, <1>7 DEF State, RaceStates
<1> QED
  BY <1>0, <1>3, <1>4, <1>8, <1>9

\* An atomic store on each field of the state.
LEMMA StoreFields ==
  ASSUME NEW d, d \in RaceStates, NEW t \in Procs, NEW k \in Keys,
         NEW x, x = AtomicReleaseStore(d, t, k)
  PROVE  /\ x \in RaceStates
         /\ x.clocks = [d.clocks EXCEPT ![t] = Bump(d.clocks[t], t)]
         /\ x.atomics = [d.atomics EXCEPT ![k] = d.clocks[t]]
         /\ x.shadow = d.shadow /\ x.slots = d.slots /\ x.nsend = d.nsend /\ x.nrecv = d.nrecv
         /\ x.closeVC = d.closeVC /\ x.semA = d.semA /\ x.semB = d.semB
         /\ d.clocks[t] \in VC /\ d.clocks[t] \in VC
<1>0. d.clocks[t] \in VC /\ d.clocks[t] \in VC
  BY JoinType DEF RaceStates
<1>2. PICK y : y = SetReleased(d, t, d.clocks[t])
  OBVIOUS
<1>3. /\ y \in RaceStates
      /\ y.clocks = [d.clocks EXCEPT ![t] = Bump(d.clocks[t], t)]
      /\ y.shadow = d.shadow /\ y.slots = d.slots /\ y.nsend = d.nsend /\ y.nrecv = d.nrecv
      /\ y.closeVC = d.closeVC /\ y.semA = d.semA /\ y.semB = d.semB /\ y.atomics = d.atomics
  BY <1>0, <1>2, SetReleasedFields
<1>4. PICK S : S = [d.atomics EXCEPT ![k] = d.clocks[t]]
  OBVIOUS
<1>5. x = [y EXCEPT !.atomics = S]
  BY <1>2, <1>3, <1>4 DEF AtomicReleaseStore
<1>6. S \in [Keys -> VC]
  BY <1>0, <1>4 DEF RaceStates
<1>7. x = State(y.clocks, y.shadow, y.slots, y.nsend, y.nrecv, y.closeVC, y.semA, y.semB, S)
  BY <1>3, <1>5 DEF State, RaceStates
<1>8. /\ x.clocks = y.clocks /\ x.shadow = y.shadow /\ x.slots = y.slots /\ x.nsend = y.nsend /\ x.nrecv = y.nrecv
      /\ x.closeVC = y.closeVC /\ x.semA = y.semA /\ x.semB = y.semB /\ x.atomics = S
  BY <1>7 DEF State
<1>9. x \in RaceStates
  BY <1>3, <1>6, <1>7 DEF State, RaceStates
<1> QED
  BY <1>0, <1>3, <1>4, <1>8, <1>9

\* A read-modify-write on each field of the state.
LEMMA RmwFields ==
  ASSUME NEW d, d \in RaceStates, NEW t \in Procs, NEW k \in Keys,
         NEW x, x = AtomicReleaseAcquire(d, t, k)
  PROVE  /\ x \in RaceStates
         /\ x.clocks = [d.clocks EXCEPT ![t] = Bump(Join(d.clocks[t], d.atomics[k]), t)]
         /\ x.atomics = [d.atomics EXCEPT ![k] = Join(d.clocks[t], d.atomics[k])]
         /\ x.shadow = d.shadow /\ x.slots = d.slots /\ x.nsend = d.nsend /\ x.nrecv = d.nrecv
         /\ x.closeVC = d.closeVC /\ x.semA = d.semA /\ x.semB = d.semB
         /\ Join(d.clocks[t], d.atomics[k]) \in VC /\ Join(d.clocks[t], d.atomics[k]) \in VC
<1>0. Join(d.clocks[t], d.atomics[k]) \in VC /\ Join(d.clocks[t], d.atomics[k]) \in VC
  BY JoinType DEF RaceStates
<1>2. PICK y : y = SetReleased(d, t, Join(d.clocks[t], d.atomics[k]))
  OBVIOUS
<1>3. /\ y \in RaceStates
      /\ y.clocks = [d.clocks EXCEPT ![t] = Bump(Join(d.clocks[t], d.atomics[k]), t)]
      /\ y.shadow = d.shadow /\ y.slots = d.slots /\ y.nsend = d.nsend /\ y.nrecv = d.nrecv
      /\ y.closeVC = d.closeVC /\ y.semA = d.semA /\ y.semB = d.semB /\ y.atomics = d.atomics
  BY <1>0, <1>2, SetReleasedFields
<1>4. PICK S : S = [d.atomics EXCEPT ![k] = Join(d.clocks[t], d.atomics[k])]
  OBVIOUS
<1>5. x = [y EXCEPT !.atomics = S]
  BY <1>2, <1>3, <1>4 DEF AtomicReleaseAcquire
<1>6. S \in [Keys -> VC]
  BY <1>0, <1>4 DEF RaceStates
<1>7. x = State(y.clocks, y.shadow, y.slots, y.nsend, y.nrecv, y.closeVC, y.semA, y.semB, S)
  BY <1>3, <1>5 DEF State, RaceStates
<1>8. /\ x.clocks = y.clocks /\ x.shadow = y.shadow /\ x.slots = y.slots /\ x.nsend = y.nsend /\ x.nrecv = y.nrecv
      /\ x.closeVC = y.closeVC /\ x.semA = y.semA /\ x.semB = y.semB /\ x.atomics = S
  BY <1>7 DEF State
<1>9. x \in RaceStates
  BY <1>3, <1>6, <1>7 DEF State, RaceStates
<1> QED
  BY <1>0, <1>3, <1>4, <1>8, <1>9

\* An Unlock on each field of the state.
LEMMA UnlockFields ==
  ASSUME NEW d, d \in RaceStates, NEW t \in Procs, NEW l \in Locks,
         NEW x, x = UnlockOp(d, t, l)
  PROVE  /\ x \in RaceStates
         /\ x.clocks = [d.clocks EXCEPT ![t] = Bump(d.clocks[t], t)]
         /\ x.semA = [d.semA EXCEPT ![l] = Join(d.semA[l], d.clocks[t])]
         /\ x.shadow = d.shadow /\ x.slots = d.slots /\ x.nsend = d.nsend /\ x.nrecv = d.nrecv
         /\ x.closeVC = d.closeVC /\ x.semB = d.semB /\ x.atomics = d.atomics
         /\ d.clocks[t] \in VC /\ Join(d.semA[l], d.clocks[t]) \in VC
<1>0. d.clocks[t] \in VC /\ Join(d.semA[l], d.clocks[t]) \in VC
  BY JoinType DEF RaceStates
<1>2. PICK y : y = SetReleased(d, t, d.clocks[t])
  OBVIOUS
<1>3. /\ y \in RaceStates
      /\ y.clocks = [d.clocks EXCEPT ![t] = Bump(d.clocks[t], t)]
      /\ y.shadow = d.shadow /\ y.slots = d.slots /\ y.nsend = d.nsend /\ y.nrecv = d.nrecv
      /\ y.closeVC = d.closeVC /\ y.semA = d.semA /\ y.semB = d.semB /\ y.atomics = d.atomics
  BY <1>0, <1>2, SetReleasedFields
<1>4. PICK S, M : M = [y.semB EXCEPT ![l] = @] /\ S = [d.semA EXCEPT ![l] = Join(d.semA[l], d.clocks[t])]
  OBVIOUS
<1>5. x = [y EXCEPT !.semA = S, !.semB = M]
  BY <1>2, <1>3, <1>4 DEF SyncRelease, UnlockOp
<1>6. S \in [Locks -> VC]
  BY <1>0, <1>4 DEF RaceStates
<1>m. M = y.semB
  BY <1>3, <1>4 DEF RaceStates
<1>7. x = State(y.clocks, y.shadow, y.slots, y.nsend, y.nrecv, y.closeVC, S, y.semB, y.atomics)
  BY <1>3, <1>5, <1>m DEF State, RaceStates
<1>8. /\ x.clocks = y.clocks /\ x.shadow = y.shadow /\ x.slots = y.slots /\ x.nsend = y.nsend /\ x.nrecv = y.nrecv
      /\ x.closeVC = y.closeVC /\ x.semA = S /\ x.semB = y.semB /\ x.atomics = y.atomics
  BY <1>7 DEF State
<1>9. x \in RaceStates
  BY <1>3, <1>6, <1>7 DEF State, RaceStates
<1> QED
  BY <1>0, <1>3, <1>4, <1>8, <1>9

\* An RUnlock on each field of the state.
LEMMA RUnlockFields ==
  ASSUME NEW d, d \in RaceStates, NEW t \in Procs, NEW l \in Locks,
         NEW x, x = RUnlockOp(d, t, l)
  PROVE  /\ x \in RaceStates
         /\ x.clocks = [d.clocks EXCEPT ![t] = Bump(d.clocks[t], t)]
         /\ x.semB = [d.semB EXCEPT ![l] = Join(d.semB[l], d.clocks[t])]
         /\ x.shadow = d.shadow /\ x.slots = d.slots /\ x.nsend = d.nsend /\ x.nrecv = d.nrecv
         /\ x.closeVC = d.closeVC /\ x.semA = d.semA /\ x.atomics = d.atomics
         /\ d.clocks[t] \in VC /\ Join(d.semB[l], d.clocks[t]) \in VC
<1>0. d.clocks[t] \in VC /\ Join(d.semB[l], d.clocks[t]) \in VC
  BY JoinType DEF RaceStates
<1>2. PICK y : y = SetReleased(d, t, d.clocks[t])
  OBVIOUS
<1>3. /\ y \in RaceStates
      /\ y.clocks = [d.clocks EXCEPT ![t] = Bump(d.clocks[t], t)]
      /\ y.shadow = d.shadow /\ y.slots = d.slots /\ y.nsend = d.nsend /\ y.nrecv = d.nrecv
      /\ y.closeVC = d.closeVC /\ y.semA = d.semA /\ y.semB = d.semB /\ y.atomics = d.atomics
  BY <1>0, <1>2, SetReleasedFields
<1>4. PICK S, M : M = [y.semA EXCEPT ![l] = @] /\ S = [d.semB EXCEPT ![l] = Join(d.semB[l], d.clocks[t])]
  OBVIOUS
<1>5. x = [y EXCEPT !.semA = M, !.semB = S]
  BY <1>2, <1>3, <1>4 DEF SyncRelease, RUnlockOp
<1>6. S \in [Locks -> VC]
  BY <1>0, <1>4 DEF RaceStates
<1>m. M = y.semA
  BY <1>3, <1>4 DEF RaceStates
<1>7. x = State(y.clocks, y.shadow, y.slots, y.nsend, y.nrecv, y.closeVC, y.semA, S, y.atomics)
  BY <1>3, <1>5, <1>m DEF State, RaceStates
<1>8. /\ x.clocks = y.clocks /\ x.shadow = y.shadow /\ x.slots = y.slots /\ x.nsend = y.nsend /\ x.nrecv = y.nrecv
      /\ x.closeVC = y.closeVC /\ x.semA = y.semA /\ x.semB = S /\ x.atomics = y.atomics
  BY <1>7 DEF State
<1>9. x \in RaceStates
  BY <1>3, <1>6, <1>7 DEF State, RaceStates
<1> QED
  BY <1>0, <1>3, <1>4, <1>8, <1>9

\* A receive that reports a closed channel, on each field of the state.
LEMMA ZeroFields ==
  ASSUME NEW d, d \in RaceStates, NEW t \in Procs, NEW c \in Chans,
         NEW x, x = CloseAcquire(d, t, c)
  PROVE  /\ x \in RaceStates
         /\ x.clocks = [d.clocks EXCEPT ![t] = Join(d.clocks[t], d.closeVC[c])]
         /\ x.shadow = d.shadow /\ x.slots = d.slots /\ x.nsend = d.nsend /\ x.nrecv = d.nrecv
         /\ x.closeVC = d.closeVC /\ x.semA = d.semA /\ x.semB = d.semB /\ x.atomics = d.atomics
         /\ Join(d.clocks[t], d.closeVC[c]) \in VC
<1>0. Join(d.clocks[t], d.closeVC[c]) \in VC
  BY JoinType DEF RaceStates
<1>4. PICK S : S = [d.clocks EXCEPT ![t] = Join(d.clocks[t], d.closeVC[c])]
  OBVIOUS
<1>5. x = [d EXCEPT !.clocks = S]
  BY <1>4 DEF CloseAcquire
<1>6. S \in [Procs -> VC]
  BY <1>0, <1>4 DEF RaceStates
<1> QED
  BY <1>0, <1>4, <1>5, <1>6 DEF RaceStates

\* An atomic acquisition on each field of the state.
LEMMA AcquireFields ==
  ASSUME NEW d, d \in RaceStates, NEW t \in Procs, NEW k \in Keys,
         NEW x, x = AtomicAcquire(d, t, k)
  PROVE  /\ x \in RaceStates
         /\ x.clocks = [d.clocks EXCEPT ![t] = Join(d.clocks[t], d.atomics[k])]
         /\ x.shadow = d.shadow /\ x.slots = d.slots /\ x.nsend = d.nsend /\ x.nrecv = d.nrecv
         /\ x.closeVC = d.closeVC /\ x.semA = d.semA /\ x.semB = d.semB /\ x.atomics = d.atomics
         /\ Join(d.clocks[t], d.atomics[k]) \in VC
<1>0. Join(d.clocks[t], d.atomics[k]) \in VC
  BY JoinType DEF RaceStates
<1>4. PICK S : S = [d.clocks EXCEPT ![t] = Join(d.clocks[t], d.atomics[k])]
  OBVIOUS
<1>5. x = [d EXCEPT !.clocks = S]
  BY <1>4 DEF AtomicAcquire
<1>6. S \in [Procs -> VC]
  BY <1>0, <1>4 DEF RaceStates
<1> QED
  BY <1>0, <1>4, <1>5, <1>6 DEF RaceStates

\* A Lock on each field of the state.
LEMMA LockFields ==
  ASSUME NEW d, d \in RaceStates, NEW t \in Procs, NEW l \in Locks,
         NEW x, x = LockOp(d, t, l)
  PROVE  /\ x \in RaceStates
         /\ x.clocks = [d.clocks EXCEPT ![t] = Join(Join(d.clocks[t], d.semA[l]), d.semB[l])]
         /\ x.shadow = d.shadow /\ x.slots = d.slots /\ x.nsend = d.nsend /\ x.nrecv = d.nrecv
         /\ x.closeVC = d.closeVC /\ x.semA = d.semA /\ x.semB = d.semB /\ x.atomics = d.atomics
         /\ Join(Join(d.clocks[t], d.semA[l]), d.semB[l]) \in VC
<1>0. Join(Join(d.clocks[t], d.semA[l]), d.semB[l]) \in VC
  BY JoinType DEF RaceStates
<1>4. PICK S : S = [d.clocks EXCEPT ![t] = Join(Join(d.clocks[t], d.semA[l]), d.semB[l])]
  OBVIOUS
<1>5. x = [d EXCEPT !.clocks = S]
  BY <1>4 DEF SyncAcquire, LockOp
<1>6. S \in [Procs -> VC]
  BY <1>0, <1>4 DEF RaceStates
<1> QED
  BY <1>0, <1>4, <1>5, <1>6 DEF RaceStates

\* An RLock on each field of the state.
LEMMA RLockFields ==
  ASSUME NEW d, d \in RaceStates, NEW t \in Procs, NEW l \in Locks,
         NEW x, x = RLockOp(d, t, l)
  PROVE  /\ x \in RaceStates
         /\ x.clocks = [d.clocks EXCEPT ![t] = Join(d.clocks[t], d.semA[l])]
         /\ x.shadow = d.shadow /\ x.slots = d.slots /\ x.nsend = d.nsend /\ x.nrecv = d.nrecv
         /\ x.closeVC = d.closeVC /\ x.semA = d.semA /\ x.semB = d.semB /\ x.atomics = d.atomics
         /\ Join(d.clocks[t], d.semA[l]) \in VC
<1>0. Join(d.clocks[t], d.semA[l]) \in VC
  BY JoinType DEF RaceStates
<1>4. PICK S : S = [d.clocks EXCEPT ![t] = Join(d.clocks[t], d.semA[l])]
  OBVIOUS
<1>5. x = [d EXCEPT !.clocks = S]
  BY <1>4 DEF SyncAcquire, RLockOp
<1>6. S \in [Procs -> VC]
  BY <1>0, <1>4 DEF RaceStates
<1> QED
  BY <1>0, <1>4, <1>5, <1>6 DEF RaceStates

-----------------------------------------------------------------------------
(* What a step leaves as it is. *)

\* The new event is after nothing but itself.
LEMMA NewOutside ==
  ASSUME NEW h, NEW g, NEW e, NEW who, NEW what, NEW obj, NEW kind, NEW epoch,
         Logged(h, g, e, who, what, obj, kind, epoch)
  PROVE  /\ \A w, o : Len(h) + 1 \in Released(g, w, o) => w = what /\ o = obj
         /\ \A w, o, n : Len(h) + 1 \in Numbered(g, w, o, n) => w = what /\ o = obj
         /\ \A k : Len(h) + 1 \in Stored(g, k) => what \in Stores
         /\ \A t : Len(h) + 1 \in PastOf(g, t) => t \in who \/ (what = "go" /\ obj = t)
<1>1. /\ Len(h) \in Nat /\ DOMAIN h = 1 .. Len(h)
      /\ DOMAIN g = DOMAIN h \cup {Len(h) + 1} /\ Len(h) + 1 \notin DOMAIN h
      /\ \A i \in DOMAIN h : g[i] = h[i]
      /\ g[Len(h) + 1] = e /\ e.who = who /\ e.what = what /\ e.obj = obj
      /\ \A i \in DOMAIN h : h[i].past \in SUBSET (1 .. i)
  BY DEF Logged, Extends, Founded
<1>2. \A i \in DOMAIN h : Len(h) + 1 \notin g[i].past
  BY <1>1
<1>3. \A w, o : Len(h) + 1 \in Released(g, w, o) => w = what /\ o = obj
  BY <1>1, <1>2 DEF Released
<1>4. \A w, o, n : Len(h) + 1 \in Numbered(g, w, o, n) => w = what /\ o = obj
  BY <1>1, <1>2 DEF Numbered
<1>5. \A k : Len(h) + 1 \in Stored(g, k) => what \in Stores
  BY <1>1, <1>2 DEF Stored, LastStore
<1>6. \A t : Len(h) + 1 \in PastOf(g, t) => t \in who \/ (what = "go" /\ obj = t)
  BY <1>1, <1>2 DEF PastOf
<1> QED
  BY <1>3, <1>4, <1>5, <1>6

\* The epoch of an access is current.
Current(e, d) == e.what = "access" => \A u \in e.who : u \in Procs /\ e.epoch >= d.clocks[u][u]

\* A clock without it covers what it did before.
LEMMA KeepsClock ==
  ASSUME NEW h, NEW g, NEW e, Extends(h, g, e), NEW d, d \in RaceStates, Current(e, d),
         NEW vc, vc \in VC, Behind(vc, d), NEW S, NEW T, Covers(h, S, vc),
         \A i \in DOMAIN h : i \in T <=> i \in S, e.what = "access" => Len(h) + 1 \notin T
  PROVE  Covers(g, T, vc)
<1>1. CASE e.what # "access"
  BY <1>1, CoversSync
<1>2. CASE e.what = "access"
  <2>1. e.epoch \in Nat /\ \A u \in Procs : vc[u] \in Nat /\ d.clocks[u][u] \in Nat
    BY DEF Extends, Events, VC, RaceStates
  <2>2. \A u \in e.who : ~(e.epoch <= vc[u])
    BY <1>2, <2>1 DEF Current, Behind
  <2> QED
    BY <1>2, <2>2 DEF Covers, Extends
<1> QED
  BY <1>1, <1>2

\* Epochs only grow.
Grown(d, x) == \A u \in Procs : x.clocks[u][u] >= d.clocks[u][u]

\* Clocks that only grow leave a clock behind them.
LEMMA KeepsBehind ==
  ASSUME NEW d, d \in RaceStates, NEW x, x \in RaceStates, Grown(d, x),
         NEW vc, vc \in VC, Behind(vc, d)
  PROVE  Behind(vc, x)
<1>1. \A u \in Procs : vc[u] \in Nat /\ d.clocks[u][u] \in Nat /\ x.clocks[u][u] \in Nat
  BY DEF VC, RaceStates
<1> QED
  BY <1>1 DEF Behind, Grown

\* The clocks that a step does not release into.
LEMMA OthersKept ==
  ASSUME NEW h, NEW g, NEW e, NEW who, NEW what, NEW obj, NEW kind, NEW epoch,
         Logged(h, g, e, who, what, obj, kind, epoch),
         NEW d, d \in RaceStates, NEW x, x \in RaceStates, Grown(d, x), Current(e, d)
  PROVE  /\ CloseOk(h, d) /\ x.closeVC = d.closeVC /\ what # "close" => CloseOk(g, x)
         /\ UnlockOk(h, d) /\ x.semA = d.semA /\ what # "unlock" => UnlockOk(g, x)
         /\ RUnlockOk(h, d) /\ x.semB = d.semB /\ what # "runlock" => RUnlockOk(g, x)
         /\ AtomicsOk(h, d) /\ x.atomics = d.atomics /\ what \notin Stores => AtomicsOk(g, x)
<1>1. /\ Extends(h, g, e) /\ e.what = what
  BY DEF Logged
<1>2. ASSUME CloseOk(h, d), x.closeVC = d.closeVC, what # "close"
      PROVE  CloseOk(g, x)
  <2> SUFFICES ASSUME NEW c \in Chans
               PROVE  Behind(x.closeVC[c], x) /\ Covers(g, Released(g, "close", c), x.closeVC[c])
    BY DEF CloseOk
  <2>1. x.closeVC[c] = d.closeVC[c] /\ d.closeVC[c] \in VC
    BY <1>2 DEF RaceStates
  <2>2. Behind(d.closeVC[c], d) /\ Covers(h, Released(h, "close", c), d.closeVC[c])
    BY <1>2 DEF CloseOk
  <2>3. \A i \in DOMAIN h : i \in Released(g, "close", c) <=> i \in Released(h, "close", c)
    BY <1>2, ReleasedMoves
  <2>4. Len(h) + 1 \notin Released(g, "close", c)
    BY <1>2, NewOutside
  <2> QED
    BY <1>1, <2>1, <2>2, <2>3, <2>4, KeepsClock, KeepsBehind
<1>3. ASSUME UnlockOk(h, d), x.semA = d.semA, what # "unlock"
      PROVE  UnlockOk(g, x)
  <2> SUFFICES ASSUME NEW l \in Locks
               PROVE  Behind(x.semA[l], x) /\ Covers(g, Released(g, "unlock", l), x.semA[l])
    BY DEF UnlockOk
  <2>1. x.semA[l] = d.semA[l] /\ d.semA[l] \in VC
    BY <1>3 DEF RaceStates
  <2>2. Behind(d.semA[l], d) /\ Covers(h, Released(h, "unlock", l), d.semA[l])
    BY <1>3 DEF UnlockOk
  <2>3. \A i \in DOMAIN h : i \in Released(g, "unlock", l) <=> i \in Released(h, "unlock", l)
    BY <1>3, ReleasedMoves
  <2>4. Len(h) + 1 \notin Released(g, "unlock", l)
    BY <1>3, NewOutside
  <2> QED
    BY <1>1, <2>1, <2>2, <2>3, <2>4, KeepsClock, KeepsBehind
<1>4. ASSUME RUnlockOk(h, d), x.semB = d.semB, what # "runlock"
      PROVE  RUnlockOk(g, x)
  <2> SUFFICES ASSUME NEW l \in Locks
               PROVE  Behind(x.semB[l], x) /\ Covers(g, Released(g, "runlock", l), x.semB[l])
    BY DEF RUnlockOk
  <2>1. x.semB[l] = d.semB[l] /\ d.semB[l] \in VC
    BY <1>4 DEF RaceStates
  <2>2. Behind(d.semB[l], d) /\ Covers(h, Released(h, "runlock", l), d.semB[l])
    BY <1>4 DEF RUnlockOk
  <2>3. \A i \in DOMAIN h : i \in Released(g, "runlock", l) <=> i \in Released(h, "runlock", l)
    BY <1>4, ReleasedMoves
  <2>4. Len(h) + 1 \notin Released(g, "runlock", l)
    BY <1>4, NewOutside
  <2> QED
    BY <1>1, <2>1, <2>2, <2>3, <2>4, KeepsClock, KeepsBehind
<1>5. ASSUME AtomicsOk(h, d), x.atomics = d.atomics, what \notin Stores
      PROVE  AtomicsOk(g, x)
  <2> SUFFICES ASSUME NEW k \in Keys
               PROVE  Behind(x.atomics[k], x) /\ Covers(g, Stored(g, k), x.atomics[k])
    BY DEF AtomicsOk
  <2>1. x.atomics[k] = d.atomics[k] /\ d.atomics[k] \in VC
    BY <1>5 DEF RaceStates
  <2>2. Behind(d.atomics[k], d) /\ Covers(h, Stored(h, k), d.atomics[k])
    BY <1>5 DEF AtomicsOk
  <2>3. \A i \in DOMAIN h : i \in Stored(g, k) <=> i \in Stored(h, k)
    BY <1>5, StoredMoves
  <2>4. Len(h) + 1 \notin Stored(g, k)
    BY <1>5, NewOutside
  <2> QED
    BY <1>1, <2>1, <2>2, <2>3, <2>4, KeepsClock, KeepsBehind
<1> QED
  BY <1>2, <1>3, <1>4, <1>5

\* The numbers of the sends and receives.
LEMMA NumberMoves ==
  ASSUME NEW h, NEW g, NEW e, NEW who, NEW what, NEW obj, NEW kind, NEW epoch,
         Logged(h, g, e, who, what, obj, kind, epoch)
  PROVE  /\ Number(g, what, obj) = Number(h, what, obj) + 1
         /\ \A w, o : w # what \/ o # obj => Number(g, w, o) = Number(h, w, o)
         /\ e.n = Number(h, what, obj) /\ e.n \in Nat
<1>e. /\ Extends(h, g, e) /\ e.what = what /\ e.obj = obj /\ h \in Seq(Events)
      /\ DOMAIN g = DOMAIN h \cup {Len(h) + 1} /\ Len(h) + 1 \notin DOMAIN h
      /\ \A i \in DOMAIN h : g[i] = h[i]
      /\ g[Len(h) + 1] = e
      /\ e.n = Number(h, what, obj) /\ e \in Events
  BY DEF Logged, Extends
<1>n. e.n \in Nat
  BY <1>e DEF Events
<1>1. ASSUME NEW w, NEW o, w # what \/ o # obj
      PROVE  Number(g, w, o) = Number(h, w, o)
  <2>1. {i \in DOMAIN g : g[i].what = w /\ g[i].obj = o} = {i \in DOMAIN h : h[i].what = w /\ h[i].obj = o}
    BY <1>1, <1>e
  <2> QED
    BY <2>1, Zenon DEF Number
<1>2. Number(g, what, obj) = Number(h, what, obj) + 1
  <2>0. PICK X, Y : /\ X = {i \in DOMAIN h : h[i].what = what /\ h[i].obj = obj}
                    /\ Y = {i \in DOMAIN g : g[i].what = what /\ g[i].obj = obj}
    OBVIOUS
  <2>1. Y = X \cup {Len(h) + 1} /\ Len(h) + 1 \notin X
    BY <1>e, <2>0
  <2>2. IsFiniteSet(X)
    BY <1>e, <2>0, NumberType
  <2>3. Cardinality(X \cup {Len(h) + 1}) = Cardinality(X) + 1 /\ Cardinality(X) \in Nat
    BY <2>1, <2>2, FS_AddElement, FS_CardinalityType
  <2>4. Cardinality(Y) = Cardinality(X \cup {Len(h) + 1})
    BY <2>1, Zenon
  <2>5. Number(h, what, obj) = Cardinality(X) + 1 /\ Number(g, what, obj) = Cardinality(Y) + 1
    BY <2>0, Zenon DEF Number
  <2> QED
    BY <2>3, <2>4, <2>5
<1> QED
  BY <1>1, <1>2, <1>e, <1>n

\* Sends and receives are counted from one.
LEMMA SentType ==
  ASSUME NEW h \in Seq(Events), NEW c
  PROVE  /\ Sent(h, c) \in Nat /\ Rcvd(h, c) \in Nat
         /\ Number(h, "send", c) = Sent(h, c) + 1 /\ Number(h, "recv", c) = Rcvd(h, c) + 1
<1>1. /\ Number(h, "send", c) \in Nat /\ Number(h, "send", c) >= 1
      /\ Number(h, "recv", c) \in Nat /\ Number(h, "recv", c) >= 1
  BY NumberType
<1> QED
  BY <1>1 DEF Sent, Rcvd

\* How an event changes the counts.
LEMMA SentMoves ==
  ASSUME NEW h, NEW g, NEW e, NEW who, NEW what, NEW obj, NEW kind, NEW epoch,
         Logged(h, g, e, who, what, obj, kind, epoch)
  PROVE  \A c : /\ Sent(g, c) = IF what = "send" /\ obj = c THEN Sent(h, c) + 1 ELSE Sent(h, c)
                /\ Rcvd(g, c) = IF what = "recv" /\ obj = c THEN Rcvd(h, c) + 1 ELSE Rcvd(h, c)
                /\ what = "send" /\ obj = c => e.n = Sent(h, c) + 1
                /\ what = "recv" /\ obj = c => e.n = Rcvd(h, c) + 1
                /\ Sent(h, c) \in Nat /\ Rcvd(h, c) \in Nat
<1>1. h \in Seq(Events) /\ g \in Seq(Events)
  BY DEF Logged, Extends
<1> TAKE c
<1>2. /\ Sent(h, c) \in Nat /\ Rcvd(h, c) \in Nat
      /\ Number(h, "send", c) = Sent(h, c) + 1 /\ Number(h, "recv", c) = Rcvd(h, c) + 1
      /\ Sent(g, c) \in Nat /\ Rcvd(g, c) \in Nat
      /\ Number(g, "send", c) = Sent(g, c) + 1 /\ Number(g, "recv", c) = Rcvd(g, c) + 1
  BY <1>1, SentType
<1>3. /\ Number(g, what, obj) = Number(h, what, obj) + 1
      /\ \A w, o : w # what \/ o # obj => Number(g, w, o) = Number(h, w, o)
      /\ e.n = Number(h, what, obj)
  BY NumberMoves
<1>4. Sent(g, c) = IF what = "send" /\ obj = c THEN Sent(h, c) + 1 ELSE Sent(h, c)
  BY <1>2, <1>3
<1>5. Rcvd(g, c) = IF what = "recv" /\ obj = c THEN Rcvd(h, c) + 1 ELSE Rcvd(h, c)
  BY <1>2, <1>3
<1> QED
  BY <1>2, <1>3, <1>4, <1>5

\* Slots are named by channel and number.
LEMMA SlotOfType ==
  ASSUME NEW c \in Chans, NEW n \in Nat, n > 0
  PROVE  SlotOf(c, n) \in Slots
<1>1. n - 1 \in Nat
  OBVIOUS
<1> QED
  BY <1>1, SlotType DEF SlotOf

\* The slots of a channel are left alone.
SameSlots(d, x, c) == \A n \in Nat : n > 0 => x.slots[SlotOf(c, n)] = d.slots[SlotOf(c, n)]

\* Channels that a step does not use.
LEMMA CountedKept ==
  ASSUME NEW h, NEW g, NEW e, NEW who, NEW what, NEW obj, NEW kind, NEW epoch,
         Logged(h, g, e, who, what, obj, kind, epoch),
         NEW d, d \in RaceStates, NEW x, x \in RaceStates, Current(e, d),
         NEW c \in Chans, Counted(h, d, c), what \notin {"send", "recv"} \/ obj # c,
         SlotsOk(h, d), SameSlots(d, x, c),
         x.nsend[c] = d.nsend[c], x.nrecv[c] = d.nrecv[c]
  PROVE  Counted(g, x, c)
<1>e. /\ Extends(h, g, e) /\ e.what = what /\ e.obj = obj
  BY DEF Logged
<1>n. /\ Sent(h, c) \in Nat /\ Rcvd(h, c) \in Nat /\ Cap[c] \in Nat
      /\ Sent(g, c) = Sent(h, c) /\ Rcvd(g, c) = Rcvd(h, c)
  BY SentMoves, CapAssumption
<1>1. NumbersOk(g, x, c)
  <2>2. NumbersOk(h, d, c)
    BY DEF Counted
  <2>3. \A i \in DOMAIN g : g[i].obj = c =>
           /\ g[i].what = "send" => g[i].n \in 1 .. Sent(h, c)
           /\ g[i].what = "recv" => g[i].n \in 1 .. Rcvd(h, c)
    BY <1>e, <2>2 DEF Extends, NumbersOk
  <2> QED
    BY <1>n, <2>2, <2>3 DEF NumbersOk
<1>2. ASSUME NEW w, w \in {"send", "recv"}, NEW m, NEW n \in Nat, n > 0,
             Covers(h, Numbered(h, w, c, m), d.slots[SlotOf(c, n)])
      PROVE  Covers(g, Numbered(g, w, c, m), x.slots[SlotOf(c, n)])
  <2>1. \A i \in DOMAIN h : i \in Numbered(g, w, c, m) <=> i \in Numbered(h, w, c, m)
    BY <1>2, ReleasedMoves
  <2>2. Len(h) + 1 \notin Numbered(g, w, c, m)
    BY <1>2, NewOutside
  <2>3. PICK vc : vc = d.slots[SlotOf(c, n)]
    OBVIOUS
  <2>4. vc \in VC /\ Behind(vc, d) /\ x.slots[SlotOf(c, n)] = vc
    BY <1>2, <2>3, SlotOfType DEF RaceStates, SlotsOk, SameSlots
  <2> QED
    BY <1>2, <1>e, <2>1, <2>2, <2>3, <2>4, KeepsClock
<1>3. SendsOk(g, x, c)
  BY <1>2, <1>n DEF Counted, SendsOk
<1>4. RecvsOk(g, x, c)
  BY <1>2, <1>n DEF Counted, RecvsOk
<1> QED
  BY <1>1, <1>3, <1>4 DEF Counted

\* Events other than sends and receives keep what the slots stand for.
LEMMA SlotsKept ==
  ASSUME NEW h, NEW g, NEW e, NEW who, NEW what, NEW obj, NEW kind, NEW epoch,
         Logged(h, g, e, who, what, obj, kind, epoch),
         NEW d, d \in RaceStates, NEW x, x \in RaceStates, Grown(d, x), Current(e, d),
         SlotsOk(h, d), x.slots = d.slots, x.nsend = d.nsend, x.nrecv = d.nrecv,
         what \notin {"send", "recv"}
  PROVE  SlotsOk(g, x)
<1>1. \A s \in Slots : Behind(d.slots[s], d) /\ d.slots[s] \in VC
  BY DEF SlotsOk, RaceStates
<1>2. \A s \in Slots : Behind(x.slots[s], x)
  BY <1>1, KeepsBehind
<1>3. ASSUME NEW c \in Chans, Cap[c] > 0
      PROVE  Counted(g, x, c)
  <2>1. Counted(h, d, c)
    BY <1>3 DEF SlotsOk
  <2>2. SameSlots(d, x, c)
    BY DEF SameSlots
  <2> QED
    BY <2>1, <2>2, CountedKept
<1> QED
  BY <1>2, <1>3 DEF SlotsOk

-----------------------------------------------------------------------------
(* Synchronizations. *)

\* Every access is accounted for after an event that is none.
LEMMA AccountedSync ==
  ASSUME NEW h, NEW g, NEW e, NEW who, NEW what, NEW obj, NEW kind, NEW epoch,
         Logged(h, g, e, who, what, obj, kind, epoch), what # "access",
         NEW d, NEW x, x \in RaceStates, Grown(d, x), x.shadow = d.shadow,
         NEW b, Accounted(h, d, b), who \in SUBSET b, NEW c, c \in SUBSET Procs, b \in SUBSET c,
         what = "go" => obj \in c, \A u \in c : u \in b \/ (what = "go" /\ obj = u /\ who # {})
  PROVE  Accounted(g, x, c)
<1>1. /\ Extends(h, g, e) /\ Founded(g) /\ e.who = who /\ e.what = what /\ e.obj = obj
      /\ g \in Seq(Events)
  BY DEF Logged, Extends
<1>2. \A i \in DOMAIN g : i \in DOMAIN h \/ g[i] = e
  BY <1>1 DEF Extends
<1>3. \A i \in DOMAIN h : i \in DOMAIN g /\ g[i] = h[i]
  BY <1>1 DEF Extends
<1>4. \A i \in DOMAIN g : /\ g[i].who \in SUBSET c
                          /\ g[i].what = "go" => g[i].obj \in c
                          /\ i \in g[i].past /\ g[i].past \in SUBSET (1 .. i)
  BY <1>1, <1>2, <1>3 DEF Accounted, Founded
<1>5. ASSUME NEW i \in DOMAIN h, \A u \in b : i \in PastOf(h, u)
      PROVE  \A u \in c : i \in PastOf(g, u)
  <2>1. \A t \in who : i \in e.past
    BY <1>5 DEF Logged
  <2> QED
    BY <1>5, <2>1, PastMoves
<1>6. ASSUME NEW i \in DOMAIN g, g[i].what = "access"
      PROVE  \E t \in c : /\ g[i].who = {t} /\ g[i].obj \in Keys \cup Chans /\ g[i].kind \in Kinds
                          /\ g[i].epoch <= x.clocks[t][t]
                          /\ g[i].epoch <= x.shadow[g[i].obj][g[i].kind][t]
                          /\ g[i].epoch = 0 => \A u \in c : i \in PastOf(g, u)
  <2>1. i \in DOMAIN h /\ g[i] = h[i]
    BY <1>1, <1>2, <1>3, <1>6
  <2>2. PICK t \in b : /\ h[i].who = {t} /\ h[i].obj \in Keys \cup Chans /\ h[i].kind \in Kinds
                       /\ h[i].epoch <= d.clocks[t][t]
                       /\ h[i].epoch <= d.shadow[h[i].obj][h[i].kind][t]
                       /\ h[i].epoch = 0 => \A u \in b : i \in PastOf(h, u)
    BY <1>6, <2>1 DEF Accounted
  <2>3. /\ t \in Procs /\ h[i].epoch \in Nat /\ d.clocks[t][t] \in Nat /\ x.clocks[t][t] \in Nat
    <3>1. t \in Procs /\ d \in RaceStates /\ h \in Seq(Events)
      BY DEF Accounted
    <3>2. h[i] \in Events
      BY <2>1, <3>1
    <3> QED
      BY <3>1, <3>2 DEF RaceStates, VC, Events
  <2>4. h[i].epoch <= x.clocks[t][t]
    BY <2>2, <2>3 DEF Grown
  <2> QED
    BY <1>5, <2>1, <2>2, <2>4
<1>7. ASSUME NEW k \in Keys \cup Chans, NEW kd \in Kinds, NEW t \in Procs, x.shadow[k][kd][t] > 0
      PROVE  Accessed(g, k, kd, t, x.shadow[k][kd][t])
  <2>1. Accessed(h, k, kd, t, d.shadow[k][kd][t])
    <3>1. d.shadow[k][kd][t] > 0
      BY <1>7
    <3>2. Witnessed(h, d)
      BY DEF Accounted
    <3> QED
      BY <3>1, <3>2 DEF Witnessed
  <2> QED
    BY <1>3, <2>1 DEF Accessed
<1>8. ASSUME NEW i \in DOMAIN g, NEW j \in DOMAIN g
      PROVE  ~RacesIn(g, i, j)
  <2>1. CASE i \in DOMAIN h /\ j \in DOMAIN h
    <3>1. ~RacesIn(h, i, j)
      BY <2>1 DEF Accounted
    <3> QED
      BY <1>3, <2>1, <3>1 DEF RacesIn, IsAccess
  <2>2. CASE ~(i \in DOMAIN h /\ j \in DOMAIN h)
    BY <1>1, <1>2, <2>2 DEF RacesIn, IsAccess
  <2> QED
    BY <2>1, <2>2
<1>9. Witnessed(g, x)
  BY <1>7 DEF Witnessed
<1> QED
  BY <1>1, <1>4, <1>6, <1>8, <1>9 DEF Accounted

\* J is what the goroutines T know when they synchronize in the event e.
Acquired(h, d, e, T, J) ==
  /\ J \in VC /\ Covers(h, e.past, J)
  /\ \A t \in T : J[t] = d.clocks[t][t]
  /\ \A u \in Procs \ T : J[u] < d.clocks[u][u]

\* The goroutines T take J, each in an epoch of its own.
Moved(d, x, T, J) ==
  /\ \A u \in Procs \ T : x.clocks[u] = d.clocks[u]
  /\ \A t \in T : /\ \A v \in Procs \ {t} : x.clocks[t][v] = J[v]
                  /\ x.clocks[t][t] >= J[t]
                  /\ \A v \in T \ {t} : x.clocks[v][v] > J[v]

\* The goroutines' clocks after it.
LEMMA ThreadsSync ==
  ASSUME NEW h, NEW g, NEW e, NEW T, NEW what, NEW obj, NEW kind, NEW epoch,
         Logged(h, g, e, T, what, obj, kind, epoch), what \notin {"access", "go"},
         NEW d, NEW x, x \in RaceStates, NEW b, Accounted(h, d, b), ThreadsOk(h, d, b),
         T \in SUBSET b, NEW J, Acquired(h, d, e, T, J), Moved(d, x, T, J)
  PROVE  ThreadsOk(g, x, b) /\ Grown(d, x)
<1>1. /\ Extends(h, g, e) /\ e.who = T /\ e.what = what /\ e.obj = obj
  BY DEF Logged
<1>2. /\ d \in RaceStates /\ b \in SUBSET Procs /\ h \in Seq(Events)
      /\ \A t, u \in Procs : d.clocks[t][u] \in Nat /\ x.clocks[t][u] \in Nat /\ J[u] \in Nat
      /\ \A i \in DOMAIN h : h[i].epoch \in Nat
  <2>1. d \in RaceStates /\ b \in SUBSET Procs /\ h \in Seq(Events) /\ J \in VC
    BY DEF Accounted, Acquired
  <2>2. \A i \in DOMAIN h : h[i] \in Events
    BY <2>1
  <2> QED
    BY <2>1, <2>2 DEF RaceStates, VC, Events
<1>3. \A t \in T : J[t] = d.clocks[t][t] /\ x.clocks[t][t] >= J[t]
  BY DEF Acquired, Moved
<1>4. Grown(d, x)
  BY <1>2, <1>3 DEF Grown, Moved
<1>5. Ahead(x, b)
  <2> SUFFICES ASSUME NEW u \in Procs
               PROVE  /\ x.clocks[u][u] > 0 /\ (u \notin b => x.clocks[u][u] = 1)
                      /\ \A t \in Procs \ {u} : x.clocks[t][u] < x.clocks[u][u]
    BY DEF Ahead
  <2>1. /\ d.clocks[u][u] > 0 /\ (u \notin b => d.clocks[u][u] = 1)
        /\ \A t \in Procs \ {u} : d.clocks[t][u] < d.clocks[u][u]
    BY DEF ThreadsOk, Ahead
  <2>2. x.clocks[u][u] >= d.clocks[u][u]
    BY <1>4 DEF Grown
  <2>3. u \notin b => x.clocks[u][u] = d.clocks[u][u]
    BY DEF Moved
  <2>4. ASSUME NEW t \in Procs \ {u}
        PROVE  x.clocks[t][u] < x.clocks[u][u]
    <3>1. CASE t \notin T
      <4>1. x.clocks[t][u] = d.clocks[t][u]
        BY <3>1 DEF Moved
      <4> QED
        BY <1>2, <2>1, <2>2, <4>1
    <3>2. CASE t \in T
      <4>1. x.clocks[t][u] = J[u]
        BY <3>2 DEF Moved
      <4>2. J[u] < x.clocks[u][u]
        <5>1. CASE u \in T
          BY <1>2, <3>2, <5>1 DEF Moved
        <5>2. CASE u \notin T
          BY <1>2, <2>2, <5>2 DEF Acquired
        <5> QED
          BY <5>1, <5>2
      <4> QED
        BY <4>1, <4>2
    <3> QED
      BY <3>1, <3>2
  <2> QED
    BY <1>2, <2>1, <2>2, <2>3, <2>4
<1>6. ASSUME NEW t \in b
      PROVE  Covers(g, PastOf(g, t), x.clocks[t])
  <2>1. CASE t \notin T
    <3>1. x.clocks[t] = d.clocks[t]
      BY <1>2, <2>1 DEF Moved
    <3>2. \A i \in DOMAIN h : i \in PastOf(g, t) <=> i \in PastOf(h, t)
      BY <2>1, PastMoves
    <3>3. Covers(h, PastOf(h, t), d.clocks[t])
      BY DEF ThreadsOk
    <3> QED
      BY <1>1, <3>1, <3>2, <3>3, CoversSync
  <2>2. CASE t \in T
    <3>1. Covers(h, e.past, J) /\ \A v \in Procs \ {t} : x.clocks[t][v] = J[v]
      BY <2>2 DEF Acquired, Moved
    <3>2. ASSUME NEW i \in DOMAIN h, h[i].what = "access", h[i].epoch > 0, NEW u \in h[i].who
          PROVE  i \in e.past <=> h[i].epoch <= x.clocks[t][u]
      <4>1. i \in e.past <=> h[i].epoch <= J[u]
        BY <3>1, <3>2 DEF Covers
      <4>2. u \in b /\ h[i].epoch <= d.clocks[u][u]
        BY <3>2 DEF Accounted
      <4>3. CASE u = t
        BY <1>2, <1>3, <2>2, <4>1, <4>2, <4>3
      <4>4. CASE u # t
        BY <1>2, <3>1, <4>1, <4>2, <4>4
      <4> QED
        BY <4>3, <4>4
    <3>3. Covers(h, e.past, x.clocks[t])
      BY <3>2 DEF Covers
    <3>4. \A i \in DOMAIN h : i \in PastOf(g, t) <=> i \in e.past
      BY <2>2, PastMoves
    <3> QED
      BY <1>1, <3>3, <3>4, CoversSync
  <2> QED
    BY <2>1, <2>2
<1> QED
  BY <1>4, <1>5, <1>6 DEF ThreadsOk

\* What a synchronization leaves to show: the clocks it releases into.
SyncDone(h, g, d, x, b, what) ==
  /\ Accounted(g, x, b) /\ ThreadsOk(g, x, b) /\ Grown(d, x)
  /\ x.closeVC = d.closeVC /\ what # "close" => CloseOk(g, x)
  /\ x.semA = d.semA /\ what # "unlock" => UnlockOk(g, x)
  /\ x.semB = d.semB /\ what # "runlock" => RUnlockOk(g, x)
  /\ x.atomics = d.atomics /\ what \notin Stores => AtomicsOk(g, x)
  /\ (/\ x.slots = d.slots /\ x.nsend = d.nsend /\ x.nrecv = d.nrecv
      /\ what \notin {"send", "recv"}) => SlotsOk(g, x)

\* A synchronising step that joins exactly what happened before keeps the
\* clocks exact.
LEMMA SyncStep ==
  ASSUME NEW h, NEW g, NEW e, NEW T, NEW what, NEW obj, NEW kind, NEW epoch,
         Logged(h, g, e, T, what, obj, kind, epoch), what \notin {"access", "go"},
         NEW d, NEW x, x \in RaceStates, x.shadow = d.shadow, NEW b, HB(h, d, b),
         T \in SUBSET b, NEW J, Acquired(h, d, e, T, J), Moved(d, x, T, J)
  PROVE  SyncDone(h, g, d, x, b, what)
<1>1. /\ Accounted(h, d, b) /\ ThreadsOk(h, d, b)
      /\ CloseOk(h, d) /\ UnlockOk(h, d) /\ RUnlockOk(h, d) /\ AtomicsOk(h, d) /\ SlotsOk(h, d)
  BY DEF HB
<1>2. ThreadsOk(g, x, b) /\ Grown(d, x)
  BY <1>1, ThreadsSync
<1>3. d \in RaceStates /\ b \in SUBSET Procs
  BY <1>1 DEF Accounted
<1>4. Accounted(g, x, b)
  BY <1>1, <1>2, <1>3, AccountedSync
<1>5. Current(e, d)
  BY DEF Logged, Current
<1>6. /\ x.closeVC = d.closeVC /\ what # "close" => CloseOk(g, x)
      /\ x.semA = d.semA /\ what # "unlock" => UnlockOk(g, x)
      /\ x.semB = d.semB /\ what # "runlock" => RUnlockOk(g, x)
      /\ x.atomics = d.atomics /\ what \notin Stores => AtomicsOk(g, x)
  BY <1>1, <1>2, <1>3, <1>5, OthersKept
<1>7. ASSUME x.slots = d.slots, x.nsend = d.nsend, x.nrecv = d.nrecv,
             what \notin {"send", "recv"}
      PROVE  SlotsOk(g, x)
  BY <1>1, <1>2, <1>3, <1>5, <1>7, SlotsKept
<1> QED
  BY <1>2, <1>4, <1>6, <1>7 DEF SyncDone

\* The rules of the memory model, by the kind of the event.
LEMMA SyncPast ==
  ASSUME NEW h, NEW g, NEW e, NEW who, NEW what, NEW obj, NEW kind, NEW epoch,
         Logged(h, g, e, who, what, obj, kind, epoch), what = "send" => obj \in Chans
  PROVE  \A i \in DOMAIN h : i \in e.past <=>
           \/ \E t \in who : i \in PastOf(h, t)
           \/ what \in {"lock", "rlock"} /\ i \in Released(h, "unlock", obj)
           \/ what = "lock" /\ i \in Released(h, "runlock", obj)
           \/ what = "recv" /\ i \in Numbered(h, "send", obj, e.n)
           \/ what = "send" /\ i \in Numbered(h, "recv", obj, e.n - Cap[obj])
           \/ what = "zero" /\ i \in Released(h, "close", obj)
           \/ what \in {"observe", "rmw"} /\ i \in Stored(h, obj)
<1>1. /\ e.what = what /\ e.obj = obj /\ e \in Events /\ h \in Seq(Events)
      /\ \A i \in DOMAIN h : i \in e.past <=>
           \/ \E t \in who : i \in PastOf(h, t)
           \/ \E j \in DOMAIN h : SyncBefore(h, j, e) /\ i \in h[j].past
  BY DEF Logged, Extends
<1>2. \A j \in DOMAIN h : h[j].n \in Nat
  <2>1. \A j \in DOMAIN h : h[j] \in Events
    BY <1>1
  <2> QED
    BY <2>1 DEF Events
<1>3. e.n \in Nat
  BY <1>1 DEF Events
<1>4. what = "send" => \A j \in DOMAIN h : e.n = h[j].n + Cap[obj] <=> h[j].n = e.n - Cap[obj]
  BY <1>2, <1>3, CapAssumption
<1>5. ASSUME NEW i \in DOMAIN h
      PROVE  (\E j \in DOMAIN h : SyncBefore(h, j, e) /\ i \in h[j].past) <=>
               \/ what \in {"lock", "rlock"} /\ i \in Released(h, "unlock", obj)
               \/ what = "lock" /\ i \in Released(h, "runlock", obj)
               \/ what = "recv" /\ i \in Numbered(h, "send", obj, e.n)
               \/ what = "send" /\ i \in Numbered(h, "recv", obj, e.n - Cap[obj])
               \/ what = "zero" /\ i \in Released(h, "close", obj)
               \/ what \in {"observe", "rmw"} /\ i \in Stored(h, obj)
  <2>1. \A w : i \in Released(h, w, obj) <=>
                 \E j \in DOMAIN h : h[j].what = w /\ h[j].obj = obj /\ i \in h[j].past
    BY DEF Released
  <2>2. \A w, n : i \in Numbered(h, w, obj, n) <=>
                 \E j \in DOMAIN h : h[j].what = w /\ h[j].obj = obj /\ h[j].n = n /\ i \in h[j].past
    BY DEF Numbered
  <2>3. i \in Stored(h, obj) <=>
                 \E j \in DOMAIN h : h[j].obj = obj /\ j \in LastStore(h, obj) /\ i \in h[j].past
    BY DEF Stored, LastStore
  <2>4. \A j : SyncBefore(h, j, e) <=>
                 /\ h[j].obj = obj
                 /\ \/ h[j].what = "unlock" /\ what \in {"lock", "rlock"}
                    \/ h[j].what = "runlock" /\ what = "lock"
                    \/ h[j].what = "send" /\ what = "recv" /\ h[j].n = e.n
                    \/ h[j].what = "recv" /\ what = "send" /\ e.n = h[j].n + Cap[obj]
                    \/ h[j].what = "close" /\ what = "zero"
                    \/ what \in {"observe", "rmw"} /\ j \in LastStore(h, obj)
    BY <1>1 DEF SyncBefore
  <2> QED
    BY <1>4, <2>1, <2>2, <2>3, <2>4
<1> QED
  BY <1>1, <1>5

\* A goroutine that acquires the clock vc.
LEMMA JoinAcquired ==
  ASSUME NEW h, NEW d, NEW b, HB(h, d, b), NEW t \in b, NEW e, NEW S,
         NEW vc, vc \in VC, Behind(vc, d), Covers(h, S, vc),
         \A i \in DOMAIN h : i \in e.past <=> i \in PastOf(h, t) \/ i \in S
  PROVE  Acquired(h, d, e, {t}, Join(d.clocks[t], vc))
<1>1. /\ d \in RaceStates /\ t \in Procs /\ h \in Seq(Events) /\ d.clocks[t] \in VC
      /\ Covers(h, PastOf(h, t), d.clocks[t])
  BY DEF HB, Accounted, ThreadsOk, RaceStates
<1>2. /\ Covers(h, e.past, Join(d.clocks[t], vc)) /\ Join(d.clocks[t], vc) \in VC
  BY <1>1, CoversJoin
<1>3. /\ \A u \in Procs : d.clocks[t][u] \in Nat /\ vc[u] \in Nat /\ d.clocks[u][u] \in Nat
      /\ \A u \in Procs \ {t} : d.clocks[t][u] < d.clocks[u][u]
      /\ \A u \in Procs : vc[u] < d.clocks[u][u]
  BY <1>1 DEF VC, RaceStates, HB, ThreadsOk, Ahead, Behind
<1>4. \A u \in Procs : Join(d.clocks[t], vc)[u] = IF d.clocks[t][u] < vc[u] THEN vc[u] ELSE d.clocks[t][u]
  BY <1>1, JoinType
<1> QED
  BY <1>1, <1>2, <1>3, <1>4 DEF Acquired

\* A goroutine that acquires nothing.
LEMMA OwnAcquired ==
  ASSUME NEW h, NEW d, NEW b, HB(h, d, b), NEW t \in b, NEW e,
         \A i \in DOMAIN h : i \in e.past <=> i \in PastOf(h, t)
  PROVE  Acquired(h, d, e, {t}, d.clocks[t])
<1>1. /\ d \in RaceStates /\ t \in Procs /\ d.clocks[t] \in VC
      /\ Covers(h, PastOf(h, t), d.clocks[t])
  BY DEF HB, Accounted, ThreadsOk, RaceStates
<1>2. Covers(h, e.past, d.clocks[t])
  BY <1>1 DEF Covers
<1>3. \A u \in Procs \ {t} : d.clocks[t][u] < d.clocks[u][u]
  BY <1>1 DEF HB, ThreadsOk, Ahead
<1> QED
  BY <1>1, <1>2, <1>3 DEF Acquired

\* The movement of one goroutine, without and with a new epoch.
LEMMA OneMoved ==
  ASSUME NEW d, d \in RaceStates, NEW x, x \in RaceStates, NEW t \in Procs, NEW J, J \in VC
  PROVE  /\ x.clocks = [d.clocks EXCEPT ![t] = J] => Moved(d, x, {t}, J)
         /\ x.clocks = [d.clocks EXCEPT ![t] = Bump(J, t)] => Moved(d, x, {t}, J)
<1>1. /\ d.clocks \in [Procs -> VC] /\ \A u \in Procs : J[u] \in Nat
      /\ \A u \in Procs : Bump(J, t)[u] = IF u = t THEN J[t] + 1 ELSE J[u]
  BY DEF RaceStates, VC, Bump
<1>2. ASSUME x.clocks = [d.clocks EXCEPT ![t] = J]
      PROVE  Moved(d, x, {t}, J)
  BY <1>1, <1>2 DEF Moved
<1>3. ASSUME x.clocks = [d.clocks EXCEPT ![t] = Bump(J, t)]
      PROVE  Moved(d, x, {t}, J)
  BY <1>1, <1>3 DEF Moved
<1> QED
  BY <1>2, <1>3

\* What a goroutine releases, it has left behind.
LEMMA ReleasedBehind ==
  ASSUME NEW h, NEW d, d \in RaceStates, NEW x, x \in RaceStates, NEW t \in Procs, NEW e, NEW J,
         Acquired(h, d, e, {t}, J), x.clocks = [d.clocks EXCEPT ![t] = Bump(J, t)]
  PROVE  Behind(J, x)
<1>1. /\ d.clocks \in [Procs -> VC] /\ \A u \in Procs : J[u] \in Nat /\ d.clocks[u][u] \in Nat
      /\ \A u \in Procs : Bump(J, t)[u] = IF u = t THEN J[t] + 1 ELSE J[u]
      /\ \A u \in Procs \ {t} : J[u] < d.clocks[u][u]
  BY DEF RaceStates, VC, Bump, Acquired
<1> QED
  BY <1>1 DEF Behind

\* Two clocks that are behind.
LEMMA JoinBehind ==
  ASSUME NEW x, NEW vc, vc \in VC, Behind(vc, x), NEW wc, wc \in VC, Behind(wc, x)
  PROVE  Behind(Join(vc, wc), x)
BY JoinType DEF Behind

\* Acquisitions: the locks', the atomics' and those of closed channels.
LEMMA AcquireHB ==
  ASSUME NEW h, NEW g, NEW e, NEW t, NEW what, NEW obj, NEW kind, NEW epoch,
         Logged(h, g, e, {t}, what, obj, kind, epoch), what \in {"lock", "rlock", "observe", "zero"},
         NEW d, NEW x, x \in RaceStates, NEW b, HB(h, d, b), t \in b, NEW S,
         NEW vc, vc \in VC, Behind(vc, d), Covers(h, S, vc),
         \A i \in DOMAIN h : i \in e.past <=> i \in PastOf(h, t) \/ i \in S,
         x.clocks = [d.clocks EXCEPT ![t] = Join(d.clocks[t], vc)],
         x.shadow = d.shadow, x.slots = d.slots, x.nsend = d.nsend, x.nrecv = d.nrecv,
         x.closeVC = d.closeVC, x.semA = d.semA, x.semB = d.semB, x.atomics = d.atomics
  PROVE  HB(g, x, b)
<1>1. d \in RaceStates /\ t \in Procs /\ d.clocks[t] \in VC
  BY DEF HB, Accounted, RaceStates
<1>2. PICK J : J = Join(d.clocks[t], vc)
  OBVIOUS
<1>3. J \in VC
  BY <1>1, <1>2, JoinType
<1>4. Acquired(h, d, e, {t}, J)
  BY <1>2, JoinAcquired
<1>5. Moved(d, x, {t}, J)
  BY <1>1, <1>2, <1>3, OneMoved
<1>6. SyncDone(h, g, d, x, b, what)
  BY <1>4, <1>5, SyncStep
<1> QED
  BY <1>6 DEF SyncDone, HB, Stores

\* Joining clocks is associative.
LEMMA JoinAssoc ==
  ASSUME NEW vc, vc \in VC, NEW wc, wc \in VC, NEW zc, zc \in VC
  PROVE  Join(Join(vc, wc), zc) = Join(vc, Join(wc, zc))
BY DEF Join, VC

\* Lock joins what the last unlock and read-unlocks left.
LEMMA LockHB ==
  ASSUME NEW h, NEW g, NEW e, NEW t, NEW l \in Locks, NEW kind, NEW epoch,
         Logged(h, g, e, {t}, "lock", l, kind, epoch),
         NEW d, NEW x, x = LockOp(d, t, l), NEW b, HB(h, d, b), t \in b
  PROVE  HB(g, x, b)
<1>1. d \in RaceStates /\ t \in Procs /\ h \in Seq(Events)
  BY DEF HB, Accounted
<1>2. /\ d.clocks[t] \in VC /\ d.semA[l] \in VC /\ d.semB[l] \in VC
      /\ Behind(d.semA[l], d) /\ Covers(h, Released(h, "unlock", l), d.semA[l])
      /\ Behind(d.semB[l], d) /\ Covers(h, Released(h, "runlock", l), d.semB[l])
  BY <1>1 DEF HB, UnlockOk, RUnlockOk, RaceStates
<1>3. PICK vc, S : vc = Join(d.semA[l], d.semB[l]) /\ S = Released(h, "unlock", l) \cup Released(h, "runlock", l)
  OBVIOUS
<1>4. vc \in VC /\ Behind(vc, d) /\ Covers(h, S, vc)
  BY <1>1, <1>2, <1>3, JoinBehind, CoversJoin
<1>5. \A i \in DOMAIN h : i \in e.past <=> i \in PastOf(h, t) \/ i \in S
  BY <1>3, SyncPast
<1>6. Join(Join(d.clocks[t], d.semA[l]), d.semB[l]) = Join(d.clocks[t], vc)
  BY <1>2, <1>3, JoinAssoc
<1>7. /\ x \in RaceStates
      /\ x.clocks = [d.clocks EXCEPT ![t] = Join(d.clocks[t], vc)]
      /\ x.shadow = d.shadow /\ x.slots = d.slots /\ x.nsend = d.nsend /\ x.nrecv = d.nrecv
      /\ x.closeVC = d.closeVC /\ x.semA = d.semA /\ x.semB = d.semB /\ x.atomics = d.atomics
  BY <1>1, <1>6, LockFields
<1> QED
  BY <1>4, <1>5, <1>7, AcquireHB

\* RLock joins what the last unlock left.
LEMMA RLockHB ==
  ASSUME NEW h, NEW g, NEW e, NEW t, NEW l \in Locks, NEW kind, NEW epoch,
         Logged(h, g, e, {t}, "rlock", l, kind, epoch),
         NEW d, NEW x, x = RLockOp(d, t, l), NEW b, HB(h, d, b), t \in b
  PROVE  HB(g, x, b)
<1>1. d \in RaceStates /\ t \in Procs
  BY DEF HB, Accounted
<1>2. /\ d.semA[l] \in VC
      /\ Behind(d.semA[l], d) /\ Covers(h, Released(h, "unlock", l), d.semA[l])
  BY <1>1 DEF HB, UnlockOk, RaceStates
<1>3. \A i \in DOMAIN h : i \in e.past <=> i \in PastOf(h, t) \/ i \in Released(h, "unlock", l)
  BY SyncPast
<1>4. /\ x \in RaceStates
      /\ x.clocks = [d.clocks EXCEPT ![t] = Join(d.clocks[t], d.semA[l])]
      /\ x.shadow = d.shadow /\ x.slots = d.slots /\ x.nsend = d.nsend /\ x.nrecv = d.nrecv
      /\ x.closeVC = d.closeVC /\ x.semA = d.semA /\ x.semB = d.semB /\ x.atomics = d.atomics
  BY <1>1, RLockFields
<1> QED
  BY <1>2, <1>3, <1>4, AcquireHB

\* An atomic load joins what was last stored.
LEMMA ObserveHB ==
  ASSUME NEW h, NEW g, NEW e, NEW t, NEW k \in Keys, NEW kind, NEW epoch,
         Logged(h, g, e, {t}, "observe", k, kind, epoch),
         NEW d, NEW x, x = AtomicAcquire(d, t, k), NEW b, HB(h, d, b), t \in b
  PROVE  HB(g, x, b)
<1>1. d \in RaceStates /\ t \in Procs
  BY DEF HB, Accounted
<1>2. /\ d.atomics[k] \in VC
      /\ Behind(d.atomics[k], d) /\ Covers(h, Stored(h, k), d.atomics[k])
  BY <1>1 DEF HB, AtomicsOk, RaceStates
<1>3. \A i \in DOMAIN h : i \in e.past <=> i \in PastOf(h, t) \/ i \in Stored(h, k)
  BY SyncPast
<1>4. /\ x \in RaceStates
      /\ x.clocks = [d.clocks EXCEPT ![t] = Join(d.clocks[t], d.atomics[k])]
      /\ x.shadow = d.shadow /\ x.slots = d.slots /\ x.nsend = d.nsend /\ x.nrecv = d.nrecv
      /\ x.closeVC = d.closeVC /\ x.semA = d.semA /\ x.semB = d.semB /\ x.atomics = d.atomics
  BY <1>1, AcquireFields
<1> QED
  BY <1>2, <1>3, <1>4, AcquireHB

\* A receive of the zero value joins what the close left.
LEMMA ZeroHB ==
  ASSUME NEW h, NEW g, NEW e, NEW t, NEW c \in Chans, NEW kind, NEW epoch,
         Logged(h, g, e, {t}, "zero", c, kind, epoch),
         NEW d, NEW x, x = CloseAcquire(d, t, c), NEW b, HB(h, d, b), t \in b
  PROVE  HB(g, x, b)
<1>1. d \in RaceStates /\ t \in Procs
  BY DEF HB, Accounted
<1>2. /\ d.closeVC[c] \in VC
      /\ Behind(d.closeVC[c], d) /\ Covers(h, Released(h, "close", c), d.closeVC[c])
  BY <1>1 DEF HB, CloseOk, RaceStates
<1>3. \A i \in DOMAIN h : i \in e.past <=> i \in PastOf(h, t) \/ i \in Released(h, "close", c)
  BY SyncPast
<1>4. /\ x \in RaceStates
      /\ x.clocks = [d.clocks EXCEPT ![t] = Join(d.clocks[t], d.closeVC[c])]
      /\ x.shadow = d.shadow /\ x.slots = d.slots /\ x.nsend = d.nsend /\ x.nrecv = d.nrecv
      /\ x.closeVC = d.closeVC /\ x.semA = d.semA /\ x.semB = d.semB /\ x.atomics = d.atomics
  BY <1>1, ZeroFields
<1> QED
  BY <1>2, <1>3, <1>4, AcquireHB

\* T is the union of S and P in a history.
Together(h, T, S, P) == \A i \in DOMAIN h : i \in T <=> i \in S \/ i \in P

\* g and x are what a synchronization makes of h and d.
Synced(h, g, e, d, x) ==
  /\ h \in Seq(Events) /\ Extends(h, g, e) /\ e.what # "access"
  /\ d \in RaceStates /\ x \in RaceStates /\ Grown(d, x)

\* A clock that a synchronization leaves alone.
LEMMA SyncKeeps ==
  ASSUME NEW h, NEW g, NEW e, NEW d, NEW x, Synced(h, g, e, d, x),
         NEW vc, vc \in VC, Behind(vc, d), NEW S, Covers(h, S, vc),
         NEW T, Together(h, T, S, {})
  PROVE  Behind(vc, x) /\ Covers(g, T, vc)
<1>1. /\ Extends(h, g, e) /\ e.what # "access"
      /\ d \in RaceStates /\ x \in RaceStates /\ Grown(d, x)
      /\ \A i \in DOMAIN h : i \in T <=> i \in S
  BY DEF Synced, Together
<1> QED
  BY <1>1, CoversSync, KeepsBehind

\* A clock that a goroutine adds what it knows to.
LEMMA SyncAdds ==
  ASSUME NEW h, NEW g, NEW e, NEW d, NEW x, Synced(h, g, e, d, x),
         NEW vc, vc \in VC, Behind(vc, d), NEW S, Covers(h, S, vc),
         NEW J, J \in VC, Behind(J, x), NEW P, Covers(h, P, J),
         NEW T, Together(h, T, S, P)
  PROVE  /\ Behind(Join(vc, J), x) /\ Covers(g, T, Join(vc, J))
         /\ Behind(Join(J, vc), x) /\ Covers(g, T, Join(J, vc))
<1>0. /\ h \in Seq(Events) /\ Extends(h, g, e) /\ e.what # "access"
      /\ d \in RaceStates /\ x \in RaceStates /\ Grown(d, x)
  BY DEF Synced
<1>1. Behind(vc, x)
  BY <1>0, KeepsBehind
<1>2. Behind(Join(vc, J), x) /\ Behind(Join(J, vc), x)
  BY <1>1, JoinBehind
<1>3. \A i \in DOMAIN h : (i \in T <=> i \in S \/ i \in P) /\ (i \in T <=> i \in P \/ i \in S)
  BY DEF Together
<1>4. Covers(h, T, Join(vc, J)) /\ Covers(h, T, Join(J, vc))
  BY <1>0, <1>3, CoversJoin
<1> QED
  BY <1>0, <1>2, <1>4, CoversSync

\* Unlock leaves its goroutine's past.
LEMMA UnlockHB ==
  ASSUME NEW h, NEW g, NEW e, NEW t, NEW l \in Locks, NEW kind, NEW epoch,
         Logged(h, g, e, {t}, "unlock", l, kind, epoch),
         NEW d, NEW x, x = UnlockOp(d, t, l), NEW b, HB(h, d, b), t \in b
  PROVE  HB(g, x, b)
<1>1. /\ d \in RaceStates /\ t \in Procs /\ h \in Seq(Events) /\ UnlockOk(h, d)
      /\ Extends(h, g, e) /\ e.what = "unlock"
  BY DEF HB, Accounted, Logged
<1> DEFINE J == d.clocks[t]
<1>3. /\ x \in RaceStates /\ x.clocks = [d.clocks EXCEPT ![t] = Bump(J, t)]
      /\ x.semA = [d.semA EXCEPT ![l] = Join(d.semA[l], J)]
      /\ x.shadow = d.shadow /\ x.slots = d.slots /\ x.nsend = d.nsend /\ x.nrecv = d.nrecv
      /\ x.closeVC = d.closeVC /\ x.semB = d.semB /\ x.atomics = d.atomics /\ J \in VC
  BY <1>1, UnlockFields
<1>4. Acquired(h, d, e, {t}, J)
  <2>1. \A i \in DOMAIN h : i \in e.past <=> i \in PastOf(h, t)
    BY SyncPast
  <2> QED
    BY <2>1, OwnAcquired
<1> HIDE DEF J
<1>5. Moved(d, x, {t}, J) /\ Behind(J, x)
  BY <1>1, <1>3, <1>4, OneMoved, ReleasedBehind
<1>6. SyncDone(h, g, d, x, b, "unlock")
  BY <1>3, <1>4, <1>5, SyncStep
<1>7. Grown(d, x) /\ Covers(h, e.past, J)
  BY <1>4, <1>6 DEF SyncDone, Acquired
<1>8. ASSUME NEW m \in Locks
      PROVE  Behind(x.semA[m], x) /\ Covers(g, Released(g, "unlock", m), x.semA[m])
  <2>1. Behind(d.semA[m], d) /\ Covers(h, Released(h, "unlock", m), d.semA[m]) /\ d.semA[m] \in VC
    BY <1>1 DEF UnlockOk, RaceStates
  <2>2. CASE m = l
    <3>1. x.semA[m] = Join(d.semA[m], J)
      BY <1>1, <1>3, <2>2 DEF RaceStates
    <3>2. Together(h, Released(g, "unlock", m), Released(h, "unlock", m), e.past)
      BY <2>2, ReleasedMoves DEF Together
    <3>3. Synced(h, g, e, d, x)
      BY <1>1, <1>3, <1>7 DEF Synced
    <3> QED
      BY <1>3, <1>5, <1>7, <2>1, <3>1, <3>2, <3>3, SyncAdds
  <2>3. CASE m # l
    <3>1. x.semA[m] = d.semA[m]
      BY <1>1, <1>3, <2>3 DEF RaceStates
    <3>2. Together(h, Released(g, "unlock", m), Released(h, "unlock", m), {})
      BY <2>3, ReleasedMoves DEF Together
    <3>3. Synced(h, g, e, d, x)
      BY <1>1, <1>3, <1>7 DEF Synced
    <3> QED
      BY <2>1, <3>1, <3>2, <3>3, SyncKeeps
  <2> QED
    BY <2>2, <2>3
<1> QED
  BY <1>3, <1>6, <1>8 DEF SyncDone, HB, Stores, UnlockOk

\* RUnlock adds its goroutine's past.
LEMMA RUnlockHB ==
  ASSUME NEW h, NEW g, NEW e, NEW t, NEW l \in Locks, NEW kind, NEW epoch,
         Logged(h, g, e, {t}, "runlock", l, kind, epoch),
         NEW d, NEW x, x = RUnlockOp(d, t, l), NEW b, HB(h, d, b), t \in b
  PROVE  HB(g, x, b)
<1>1. /\ d \in RaceStates /\ t \in Procs /\ h \in Seq(Events) /\ RUnlockOk(h, d)
      /\ Extends(h, g, e) /\ e.what = "runlock"
  BY DEF HB, Accounted, Logged
<1> DEFINE J == d.clocks[t]
<1>3. /\ x \in RaceStates /\ x.clocks = [d.clocks EXCEPT ![t] = Bump(J, t)]
      /\ x.semB = [d.semB EXCEPT ![l] = Join(d.semB[l], J)]
      /\ x.shadow = d.shadow /\ x.slots = d.slots /\ x.nsend = d.nsend /\ x.nrecv = d.nrecv
      /\ x.closeVC = d.closeVC /\ x.semA = d.semA /\ x.atomics = d.atomics /\ J \in VC
  BY <1>1, RUnlockFields
<1>4. Acquired(h, d, e, {t}, J)
  <2>1. \A i \in DOMAIN h : i \in e.past <=> i \in PastOf(h, t)
    BY SyncPast
  <2> QED
    BY <2>1, OwnAcquired
<1> HIDE DEF J
<1>5. Moved(d, x, {t}, J) /\ Behind(J, x)
  BY <1>1, <1>3, <1>4, OneMoved, ReleasedBehind
<1>6. SyncDone(h, g, d, x, b, "runlock")
  BY <1>3, <1>4, <1>5, SyncStep
<1>7. Grown(d, x) /\ Covers(h, e.past, J)
  BY <1>4, <1>6 DEF SyncDone, Acquired
<1>8. ASSUME NEW m \in Locks
      PROVE  Behind(x.semB[m], x) /\ Covers(g, Released(g, "runlock", m), x.semB[m])
  <2>1. Behind(d.semB[m], d) /\ Covers(h, Released(h, "runlock", m), d.semB[m]) /\ d.semB[m] \in VC
    BY <1>1 DEF RUnlockOk, RaceStates
  <2>2. CASE m = l
    <3>1. x.semB[m] = Join(d.semB[m], J)
      BY <1>1, <1>3, <2>2 DEF RaceStates
    <3>2. Together(h, Released(g, "runlock", m), Released(h, "runlock", m), e.past)
      BY <2>2, ReleasedMoves DEF Together
    <3>3. Synced(h, g, e, d, x)
      BY <1>1, <1>3, <1>7 DEF Synced
    <3> QED
      BY <1>3, <1>5, <1>7, <2>1, <3>1, <3>2, <3>3, SyncAdds
  <2>3. CASE m # l
    <3>1. x.semB[m] = d.semB[m]
      BY <1>1, <1>3, <2>3 DEF RaceStates
    <3>2. Together(h, Released(g, "runlock", m), Released(h, "runlock", m), {})
      BY <2>3, ReleasedMoves DEF Together
    <3>3. Synced(h, g, e, d, x)
      BY <1>1, <1>3, <1>7 DEF Synced
    <3> QED
      BY <2>1, <3>1, <3>2, <3>3, SyncKeeps
  <2> QED
    BY <2>2, <2>3
<1> QED
  BY <1>3, <1>6, <1>8 DEF SyncDone, HB, Stores, RUnlockOk

\* Close leaves its goroutine's past.
LEMMA CloseHB ==
  ASSUME NEW h, NEW g, NEW e, NEW t, NEW l \in Chans, NEW kind, NEW epoch,
         Logged(h, g, e, {t}, "close", l, kind, epoch),
         NEW d, NEW x, x = CloseOp(d, t, l), NEW b, HB(h, d, b), t \in b
  PROVE  HB(g, x, b)
<1>1. /\ d \in RaceStates /\ t \in Procs /\ h \in Seq(Events) /\ CloseOk(h, d)
      /\ Extends(h, g, e) /\ e.what = "close"
  BY DEF HB, Accounted, Logged
<1> DEFINE J == d.clocks[t]
<1>3. /\ x \in RaceStates /\ x.clocks = [d.clocks EXCEPT ![t] = Bump(J, t)]
      /\ x.closeVC = [d.closeVC EXCEPT ![l] = Join(J, d.closeVC[l])]
      /\ x.shadow = d.shadow /\ x.slots = d.slots /\ x.nsend = d.nsend /\ x.nrecv = d.nrecv
      /\ x.semA = d.semA /\ x.semB = d.semB /\ x.atomics = d.atomics /\ J \in VC
  BY <1>1, CloseFields
<1>4. Acquired(h, d, e, {t}, J)
  <2>1. \A i \in DOMAIN h : i \in e.past <=> i \in PastOf(h, t)
    BY SyncPast
  <2> QED
    BY <2>1, OwnAcquired
<1> HIDE DEF J
<1>5. Moved(d, x, {t}, J) /\ Behind(J, x)
  BY <1>1, <1>3, <1>4, OneMoved, ReleasedBehind
<1>6. SyncDone(h, g, d, x, b, "close")
  BY <1>3, <1>4, <1>5, SyncStep
<1>7. Grown(d, x) /\ Covers(h, e.past, J)
  BY <1>4, <1>6 DEF SyncDone, Acquired
<1>8. ASSUME NEW m \in Chans
      PROVE  Behind(x.closeVC[m], x) /\ Covers(g, Released(g, "close", m), x.closeVC[m])
  <2>1. Behind(d.closeVC[m], d) /\ Covers(h, Released(h, "close", m), d.closeVC[m]) /\ d.closeVC[m] \in VC
    BY <1>1 DEF CloseOk, RaceStates
  <2>2. CASE m = l
    <3>1. x.closeVC[m] = Join(J, d.closeVC[m])
      BY <1>1, <1>3, <2>2 DEF RaceStates
    <3>2. Together(h, Released(g, "close", m), Released(h, "close", m), e.past)
      BY <2>2, ReleasedMoves DEF Together
    <3>3. Synced(h, g, e, d, x)
      BY <1>1, <1>3, <1>7 DEF Synced
    <3> QED
      BY <1>3, <1>5, <1>7, <2>1, <3>1, <3>2, <3>3, SyncAdds
  <2>3. CASE m # l
    <3>1. x.closeVC[m] = d.closeVC[m]
      BY <1>1, <1>3, <2>3 DEF RaceStates
    <3>2. Together(h, Released(g, "close", m), Released(h, "close", m), {})
      BY <2>3, ReleasedMoves DEF Together
    <3>3. Synced(h, g, e, d, x)
      BY <1>1, <1>3, <1>7 DEF Synced
    <3> QED
      BY <2>1, <3>1, <3>2, <3>3, SyncKeeps
  <2> QED
    BY <2>2, <2>3
<1> QED
  BY <1>3, <1>6, <1>8 DEF SyncDone, HB, Stores, CloseOk

\* An atomic store leaves its goroutine's past.
LEMMA StoreHB ==
  ASSUME NEW h, NEW g, NEW e, NEW t, NEW k \in Keys, NEW kind, NEW epoch,
         Logged(h, g, e, {t}, "store", k, kind, epoch),
         NEW d, NEW x, x = AtomicReleaseStore(d, t, k), NEW b, HB(h, d, b), t \in b
  PROVE  HB(g, x, b)
<1>1. /\ d \in RaceStates /\ t \in Procs /\ h \in Seq(Events) /\ AtomicsOk(h, d)
      /\ Extends(h, g, e) /\ e.what = "store"
  BY DEF HB, Accounted, Logged
<1> DEFINE J == d.clocks[t]
<1>3. /\ x \in RaceStates /\ x.clocks = [d.clocks EXCEPT ![t] = Bump(J, t)]
      /\ x.atomics = [d.atomics EXCEPT ![k] = J]
      /\ x.shadow = d.shadow /\ x.slots = d.slots /\ x.nsend = d.nsend /\ x.nrecv = d.nrecv
      /\ x.closeVC = d.closeVC /\ x.semA = d.semA /\ x.semB = d.semB /\ J \in VC
  BY <1>1, StoreFields
<1>4. Acquired(h, d, e, {t}, J)
  <2>1. \A i \in DOMAIN h : i \in e.past <=> i \in PastOf(h, t)
    BY SyncPast
  <2> QED
    BY <2>1, OwnAcquired
<1> HIDE DEF J
<1>5. Moved(d, x, {t}, J) /\ Behind(J, x)
  BY <1>1, <1>3, <1>4, OneMoved, ReleasedBehind
<1>6. SyncDone(h, g, d, x, b, "store")
  BY <1>3, <1>4, <1>5, SyncStep
<1>7. Grown(d, x) /\ Covers(h, e.past, J)
  BY <1>4, <1>6 DEF SyncDone, Acquired
<1>8. ASSUME NEW m \in Keys
      PROVE  Behind(x.atomics[m], x) /\ Covers(g, Stored(g, m), x.atomics[m])
  <2>1. Behind(d.atomics[m], d) /\ Covers(h, Stored(h, m), d.atomics[m]) /\ d.atomics[m] \in VC
    BY <1>1 DEF AtomicsOk, RaceStates
  <2>2. CASE m = k
    <3>1. x.atomics[m] = J
      BY <1>1, <1>3, <2>2 DEF RaceStates
    <3>2. \A i \in DOMAIN h : i \in Stored(g, m) <=> i \in e.past
      BY <2>2, StoredMoves DEF Stores
    <3> QED
      BY <1>1, <1>5, <1>7, <3>1, <3>2, CoversSync
  <2>3. CASE m # k
    <3>1. x.atomics[m] = d.atomics[m]
      BY <1>1, <1>3, <2>3 DEF RaceStates
    <3>2. Together(h, Stored(g, m), Stored(h, m), {})
      BY <2>3, StoredMoves DEF Together
    <3>3. Synced(h, g, e, d, x)
      BY <1>1, <1>3, <1>7 DEF Synced
    <3> QED
      BY <2>1, <3>1, <3>2, <3>3, SyncKeeps
  <2> QED
    BY <2>2, <2>3
<1> QED
  BY <1>3, <1>6, <1>8 DEF SyncDone, HB, AtomicsOk

\* An atomic read-modify-write joins what was stored and leaves the result.
LEMMA RmwHB ==
  ASSUME NEW h, NEW g, NEW e, NEW t, NEW k \in Keys, NEW kind, NEW epoch,
         Logged(h, g, e, {t}, "rmw", k, kind, epoch),
         NEW d, NEW x, x = AtomicReleaseAcquire(d, t, k), NEW b, HB(h, d, b), t \in b
  PROVE  HB(g, x, b)
<1>1. /\ d \in RaceStates /\ t \in Procs /\ h \in Seq(Events) /\ AtomicsOk(h, d)
      /\ Extends(h, g, e) /\ e.what = "rmw"
  BY DEF HB, Accounted, Logged
<1> DEFINE J == Join(d.clocks[t], d.atomics[k])
<1>3. /\ x \in RaceStates /\ x.clocks = [d.clocks EXCEPT ![t] = Bump(J, t)]
      /\ x.atomics = [d.atomics EXCEPT ![k] = J]
      /\ x.shadow = d.shadow /\ x.slots = d.slots /\ x.nsend = d.nsend /\ x.nrecv = d.nrecv
      /\ x.closeVC = d.closeVC /\ x.semA = d.semA /\ x.semB = d.semB /\ J \in VC
  BY <1>1, RmwFields
<1>4. Acquired(h, d, e, {t}, J)
  <2>1. Behind(d.atomics[k], d) /\ Covers(h, Stored(h, k), d.atomics[k]) /\ d.atomics[k] \in VC
    BY <1>1 DEF AtomicsOk, RaceStates
  <2>2. \A i \in DOMAIN h : i \in e.past <=> i \in PastOf(h, t) \/ i \in Stored(h, k)
    BY SyncPast
  <2> QED
    BY <2>1, <2>2, JoinAcquired
<1> HIDE DEF J
<1>5. Moved(d, x, {t}, J) /\ Behind(J, x)
  BY <1>1, <1>3, <1>4, OneMoved, ReleasedBehind
<1>6. SyncDone(h, g, d, x, b, "rmw")
  BY <1>3, <1>4, <1>5, SyncStep
<1>7. Grown(d, x) /\ Covers(h, e.past, J)
  BY <1>4, <1>6 DEF SyncDone, Acquired
<1>8. ASSUME NEW m \in Keys
      PROVE  Behind(x.atomics[m], x) /\ Covers(g, Stored(g, m), x.atomics[m])
  <2>1. Behind(d.atomics[m], d) /\ Covers(h, Stored(h, m), d.atomics[m]) /\ d.atomics[m] \in VC
    BY <1>1 DEF AtomicsOk, RaceStates
  <2>2. CASE m = k
    <3>1. x.atomics[m] = J
      BY <1>1, <1>3, <2>2 DEF RaceStates
    <3>2. \A i \in DOMAIN h : i \in Stored(g, m) <=> i \in e.past
      BY <2>2, StoredMoves DEF Stores
    <3> QED
      BY <1>1, <1>5, <1>7, <3>1, <3>2, CoversSync
  <2>3. CASE m # k
    <3>1. x.atomics[m] = d.atomics[m]
      BY <1>1, <1>3, <2>3 DEF RaceStates
    <3>2. Together(h, Stored(g, m), Stored(h, m), {})
      BY <2>3, StoredMoves DEF Together
    <3>3. Synced(h, g, e, d, x)
      BY <1>1, <1>3, <1>7 DEF Synced
    <3> QED
      BY <2>1, <3>1, <3>2, <3>3, SyncKeeps
  <2> QED
    BY <2>2, <2>3
<1> QED
  BY <1>3, <1>6, <1>8 DEF SyncDone, HB, AtomicsOk

-----------------------------------------------------------------------------
(* Channels. *)

\* Division.
LEMMA Multiples ==
  ASSUME NEW q \in Int, NEW p \in Int, NEW n \in Nat, n > 0, q < p
  PROVE  n * q + n <= n * p
OBVIOUS

\* Division with remainder.
LEMMA Division ==
  ASSUME NEW a \in Nat, NEW n \in Nat, n > 0
  PROVE  \E q \in Int, m \in 0 .. (n - 1) : a = n * q + m /\ m = a % n
<1>1. a = n * (a \div n) + (a % n)
  OBVIOUS
<1>2. a % n \in 0 .. (n - 1) /\ a \div n \in Int
  OBVIOUS
<1> QED
  BY <1>1, <1>2

\* The remainder is unique.
LEMMA Remainders ==
  ASSUME NEW q \in Int, NEW p \in Int, NEW n \in Nat, n > 0,
         NEW m \in 0 .. (n - 1), NEW k \in 0 .. (n - 1), n * q + m = n * p + k
  PROVE  m = k
<1>0. n * q \in Int /\ n * p \in Int
  OBVIOUS
<1>1. CASE q < p
  <2>1. n * q + n <= n * p
    BY <1>1, Multiples
  <2> QED
    BY <1>0, <2>1
<1>2. CASE p < q
  <2>1. n * p + n <= n * q
    BY <1>2, Multiples
  <2> QED
    BY <1>0, <2>1
<1>3. CASE p = q
  BY <1>3
<1> QED
  BY <1>1, <1>2, <1>3

\* A slot is used again after as many operations as there are slots,
LEMMA ModShift ==
  ASSUME NEW a \in Nat, NEW n \in Nat, n > 0
  PROVE  (a + n) % n = a % n
<1>1. PICK q \in Int, m \in 0 .. (n - 1) : a = n * q + m /\ m = a % n
  BY Division
<1>2. a + n \in Nat
  OBVIOUS
<1>3. PICK p \in Int, k \in 0 .. (n - 1) : a + n = n * p + k /\ k = (a + n) % n
  BY <1>2, Division
<1>4. n * (q + 1) = n * q + n /\ q + 1 \in Int /\ n * q \in Int
  BY Z3
<1>5. n * (q + 1) + m = n * p + k
  BY <1>1, <1>3, <1>4
<1> QED
  BY <1>1, <1>3, <1>4, <1>5, Remainders

\* and not before.
LEMMA ModDistinct ==
  ASSUME NEW a \in Nat, NEW z \in Nat, NEW n \in Nat, n > 0, a < z, z < a + n
  PROVE  a % n # z % n
<1>1. PICK q \in Int, m \in 0 .. (n - 1) : a = n * q + m /\ m = a % n
  BY Division
<1>2. PICK p \in Int, k \in 0 .. (n - 1) : z = n * p + k /\ k = z % n
  BY Division
<1>3. n * q \in Int /\ n * p \in Int
  OBVIOUS
<1>4. ASSUME m = k
      PROVE  FALSE
  <2>1. n * q < n * p /\ n * p < n * q + n
    BY <1>1, <1>2, <1>3, <1>4
  <2>2. CASE p > q
    BY <2>1, <2>2, <1>3, Multiples
  <2>3. CASE p = q
    BY <2>1, <2>3, <1>3
  <2>4. CASE p < q
    BY <2>1, <2>4, <1>3, Multiples
  <2> QED
    BY <2>2, <2>3, <2>4
<1> QED
  BY <1>1, <1>2, <1>4

\* The slots of a channel's window are different, and come round.
LEMMA SlotOfDistinct ==
  ASSUME NEW c \in Chans, Cap[c] > 0, NEW n \in Nat, NEW m \in Nat, n > 0, m > n
  PROVE  /\ m < n + Cap[c] => SlotOf(c, n) # SlotOf(c, m)
         /\ SlotOf(c, n + Cap[c]) = SlotOf(c, n)
<1>1. SlotCount(c) = Cap[c] /\ Cap[c] \in Nat
  BY CapAssumption DEF SlotCount
<1>2. n - 1 \in Nat /\ m - 1 \in Nat /\ (n - 1) + Cap[c] = (n + Cap[c]) - 1
  BY <1>1
<1>3. m < n + Cap[c] => (n - 1) % Cap[c] # (m - 1) % Cap[c]
  <2> HAVE m < n + Cap[c]
  <2>1. PICK p, q, w : p = n - 1 /\ q = m - 1 /\ w = Cap[c]
    OBVIOUS
  <2>2. p \in Nat /\ q \in Nat /\ w \in Nat /\ w > 0 /\ p < q /\ q < p + w
    BY <1>1, <1>2, <2>1
  <2>3. p % w # q % w
    BY <2>2, ModDistinct
  <2> QED
    BY <2>1, <2>3
<1>4. ((n - 1) + Cap[c]) % Cap[c] = (n - 1) % Cap[c]
  BY <1>1, <1>2, ModShift
<1> QED
  BY <1>1, <1>2, <1>3, <1>4 DEF SlotOf

\* A buffered send joins the receive that emptied its slot, and leaves its
\* past there.
LEMMA SendHB ==
  ASSUME NEW h, NEW g, NEW e, NEW t, NEW c \in Chans, NEW kind, NEW epoch,
         Logged(h, g, e, {t}, "send", c, kind, epoch),
         NEW d, NEW x, x = SendSlot(d, t, c), NEW b, HB(h, d, b), t \in b,
         Sent(h, c) < Rcvd(h, c) + Cap[c], Rcvd(h, c) <= Sent(h, c)
  PROVE  HB(g, x, b)
<1>1. /\ d \in RaceStates /\ t \in Procs /\ h \in Seq(Events) /\ SlotsOk(h, d)
      /\ Extends(h, g, e) /\ e.what = "send" /\ e.obj = c
      /\ d.nsend \in [Chans -> Nat] /\ d.slots \in [Slots -> VC]
  BY DEF HB, Accounted, Logged, RaceStates
<1>n. Rcvd(h, c) \in Nat /\ Sent(h, c) \in Nat /\ Cap[c] \in Nat /\ Cap[c] > 0
  BY <1>1, SentType, CapAssumption
<1>2. PICK N, R, C : N = Sent(h, c) /\ R = Rcvd(h, c) /\ C = Cap[c]
  OBVIOUS
<1>3. /\ N \in Nat /\ R \in Nat /\ C \in Nat /\ C > 0 /\ R <= N /\ N < R + C
  BY <1>n, <1>2
<1>4. /\ \A s \in Slots : Behind(d.slots[s], d)
      /\ NumbersOk(h, d, c) /\ SendsOk(h, d, c) /\ RecvsOk(h, d, c)
  BY <1>1, <1>n DEF SlotsOk, Counted
<1>5. PICK s : s = <<c, d.nsend[c] % SlotCount(c)>>
  OBVIOUS
<1>6. s = SlotOf(c, N + 1) /\ s \in Slots /\ d.slots[s] \in VC /\ Behind(d.slots[s], d)
  <2>1. (N + 1) - 1 = N
    BY <1>3
  <2>2. s = SlotOf(c, N + 1)
    <3>1. d.nsend[c] \in Nat /\ SlotCount(c) = Cap[c]
      BY <1>1, <1>n DEF SlotCount
    <3>2. CASE Cap[c] = 1
      <4>1. \A n \in Nat : n % 1 = 0
        OBVIOUS
      <4> QED
        BY <1>3, <1>5, <2>1, <3>1, <3>2, <4>1 DEF SlotOf
    <3>3. CASE Cap[c] # 1
      BY <1>2, <1>4, <1>5, <2>1, <3>3 DEF SlotOf, NumbersOk
    <3> QED
      BY <3>2, <3>3
  <2>3. s \in Slots
    BY <1>3, <2>2, SlotOfType
  <2> QED
    BY <1>1, <1>4, <2>2, <2>3
<1>7. e.n = N + 1 /\ Sent(g, c) = N + 1 /\ Rcvd(g, c) = R
  BY <1>2, SentMoves
<1>8. Covers(h, Numbered(h, "recv", c, (N + 1) - C), d.slots[s])
  BY <1>2, <1>3, <1>4, <1>6 DEF RecvsOk
<1>9. \A i \in DOMAIN h : i \in e.past <=> i \in PastOf(h, t) \/ i \in Numbered(h, "recv", c, (N + 1) - C)
  BY <1>2, <1>7, SyncPast
<1>j. PICK J : J = Join(d.clocks[t], d.slots[s])
  OBVIOUS
<1>10. SendEffect(d, x, t, c, s, J)
  BY <1>1, <1>5, <1>j, SendFields
<1>a. /\ x \in RaceStates /\ x.clocks = [d.clocks EXCEPT ![t] = Bump(J, t)] /\ J \in VC
      /\ x.shadow = d.shadow
  BY <1>10 DEF SendEffect
<1>b. /\ x.nrecv = d.nrecv /\ x.closeVC = d.closeVC /\ x.semA = d.semA
      /\ x.semB = d.semB /\ x.atomics = d.atomics
  BY <1>10 DEF SendEffect
<1>11. Acquired(h, d, e, {t}, J)
  BY <1>6, <1>8, <1>9, <1>j, JoinAcquired
<1>12. Moved(d, x, {t}, J) /\ Behind(J, x)
  BY <1>1, <1>a, <1>11, OneMoved, ReleasedBehind
<1>13. SyncDone(h, g, d, x, b, "send")
  BY <1>a, <1>11, <1>12, SyncStep
<1>14. Grown(d, x) /\ Covers(h, e.past, J) /\ Synced(h, g, e, d, x)
  BY <1>1, <1>a, <1>11, <1>13 DEF SyncDone, Acquired, Synced
<1>15. /\ x.slots[s] = J /\ \A z \in Slots : z # s => x.slots[z] = d.slots[z]
       /\ x.nsend[c] = d.nsend[c] + 1 /\ x.nrecv[c] = d.nrecv[c]
       /\ \A a \in Chans \ {c} : x.nsend[a] = d.nsend[a] /\ x.nrecv[a] = d.nrecv[a]
  BY <1>1, <1>2, <1>6, <1>10 DEF SendEffect
<1>16. \A z \in Slots : Behind(x.slots[z], x)
  BY <1>1, <1>4, <1>a, <1>12, <1>14, <1>15, KeepsBehind
<1>17. ASSUME NEW a \in Chans \ {c}, Cap[a] > 0
       PROVE  Counted(g, x, a)
  <2>1. Counted(h, d, a)
    BY <1>1, <1>17 DEF SlotsOk
  <2>2. SameSlots(d, x, a)
    <3> SUFFICES \A n \in Nat : n > 0 => x.slots[SlotOf(a, n)] = d.slots[SlotOf(a, n)]
      BY DEF SameSlots
    <3> TAKE n \in Nat
    <3> HAVE n > 0
    <3>1. SlotOf(a, n) \in Slots /\ SlotOf(a, n) # s
      BY <1>5, SlotOfType DEF SlotOf
    <3> QED
      BY <1>15, <3>1
  <2>3. Current(e, d)
    BY <1>1 DEF Current
  <2> QED
    BY <1>1, <1>4, <1>a, <1>15, <2>1, <2>2, <2>3, CountedKept
<1>18. NumbersOk(g, x, c)
  <2>1. \A i \in DOMAIN h : h[i].obj = c =>
          /\ h[i].what = "send" => h[i].n \in 1 .. N
          /\ h[i].what = "recv" => h[i].n \in 1 .. R
    BY <1>2, <1>4 DEF NumbersOk
  <2>2. \A i \in DOMAIN g : g[i].obj = c =>
          /\ g[i].what = "send" => g[i].n \in 1 .. (N + 1)
          /\ g[i].what = "recv" => g[i].n \in 1 .. R
    BY <1>1, <1>3, <1>7, <2>1 DEF Extends
  <2> QED
    BY <1>2, <1>3, <1>4, <1>7, <1>15, <2>2 DEF NumbersOk
<1>19. ASSUME NEW n \in Nat, n > R, n <= R + C, n # N + 1
       PROVE  /\ x.slots[SlotOf(c, n)] = d.slots[SlotOf(c, n)]
              /\ d.slots[SlotOf(c, n)] \in VC /\ Behind(d.slots[SlotOf(c, n)], d)
  <2>1. SlotOf(c, n) \in Slots
    BY <1>3, <1>19, SlotOfType
  <2>2. SlotOf(c, n) # s
    <3>1. CASE n < N + 1
      BY <1>2, <1>3, <1>6, <1>n, <1>19, <3>1, SlotOfDistinct
    <3>2. CASE n > N + 1
      BY <1>2, <1>3, <1>6, <1>n, <1>19, <3>2, SlotOfDistinct
    <3> QED
      BY <1>3, <1>19, <3>1, <3>2
  <2> QED
    BY <1>1, <1>4, <1>15, <2>1, <2>2
<1>20. SendsOk(g, x, c)
  <2> SUFFICES ASSUME NEW n \in (R + 1) .. (N + 1)
               PROVE  Covers(g, Numbered(g, "send", c, n), x.slots[SlotOf(c, n)])
    BY <1>7 DEF SendsOk
  <2>1. CASE n = N + 1
    <3>1. \A i \in DOMAIN h : i \notin Numbered(h, "send", c, n)
      BY <1>2, <1>3, <1>4, <2>1 DEF NumbersOk, Numbered
    <3>2. \A i \in DOMAIN h : i \in Numbered(g, "send", c, n) <=> i \in e.past
      BY <1>7, <2>1, <3>1, ReleasedMoves
    <3> QED
      BY <1>1, <1>6, <1>14, <1>15, <2>1, <3>2, CoversSync
  <2>2. CASE n # N + 1
    <3>1. n \in Nat /\ n > R /\ n <= N /\ n <= R + C
      BY <1>3, <2>2
    <3>2. Covers(h, Numbered(h, "send", c, n), d.slots[SlotOf(c, n)])
      BY <1>2, <1>3, <1>4, <3>1 DEF SendsOk
    <3>3. Together(h, Numbered(g, "send", c, n), Numbered(h, "send", c, n), {})
      BY <1>7, <2>2, ReleasedMoves DEF Together
    <3> QED
      BY <1>14, <1>19, <2>2, <3>1, <3>2, <3>3, SyncKeeps
  <2> QED
    BY <2>1, <2>2
<1>21. RecvsOk(g, x, c)
  <2> SUFFICES ASSUME NEW n \in (N + 2) .. (R + C)
               PROVE  Covers(g, Numbered(g, "recv", c, n - C), x.slots[SlotOf(c, n)])
    BY <1>2, <1>3, <1>7 DEF RecvsOk
  <2>1. n \in Nat /\ n > R /\ n <= R + C /\ n # N + 1 /\ n >= N + 1
    BY <1>3
  <2>2. Covers(h, Numbered(h, "recv", c, n - C), d.slots[SlotOf(c, n)])
    BY <1>2, <1>3, <1>4, <2>1 DEF RecvsOk
  <2>3. Together(h, Numbered(g, "recv", c, n - C), Numbered(h, "recv", c, n - C), {})
    BY ReleasedMoves DEF Together
  <2> QED
    BY <1>14, <1>19, <2>1, <2>2, <2>3, SyncKeeps
<1>22. SlotsOk(g, x)
  BY <1>16, <1>17, <1>18, <1>20, <1>21 DEF SlotsOk, Counted
<1> QED
  BY <1>b, <1>13, <1>22 DEF SyncDone, HB, Stores

\* A buffered receive joins the send that filled its slot, and leaves its
\* past there.
LEMMA RecvHB ==
  ASSUME NEW h, NEW g, NEW e, NEW t, NEW c \in Chans, NEW kind, NEW epoch,
         Logged(h, g, e, {t}, "recv", c, kind, epoch),
         NEW d, NEW x, x = RecvSlot(d, t, c), NEW b, HB(h, d, b), t \in b,
         Rcvd(h, c) < Sent(h, c), Sent(h, c) <= Rcvd(h, c) + Cap[c]
  PROVE  HB(g, x, b)
<1>1. /\ d \in RaceStates /\ t \in Procs /\ h \in Seq(Events) /\ SlotsOk(h, d)
      /\ Extends(h, g, e) /\ e.what = "recv" /\ e.obj = c
      /\ d.nrecv \in [Chans -> Nat] /\ d.slots \in [Slots -> VC]
  BY DEF HB, Accounted, Logged, RaceStates
<1>n. Rcvd(h, c) \in Nat /\ Sent(h, c) \in Nat /\ Cap[c] \in Nat /\ Cap[c] > 0
  BY <1>1, SentType, CapAssumption
<1>2. PICK N, R, C : N = Sent(h, c) /\ R = Rcvd(h, c) /\ C = Cap[c]
  OBVIOUS
<1>3. /\ N \in Nat /\ R \in Nat /\ C \in Nat /\ C > 0 /\ R < N /\ N <= R + C
  BY <1>n, <1>2
<1>4. /\ \A s \in Slots : Behind(d.slots[s], d)
      /\ NumbersOk(h, d, c) /\ SendsOk(h, d, c) /\ RecvsOk(h, d, c)
  BY <1>1, <1>n DEF SlotsOk, Counted
<1>5. PICK s : s = <<c, d.nrecv[c] % SlotCount(c)>>
  OBVIOUS
<1>6. s = SlotOf(c, R + 1) /\ s \in Slots /\ d.slots[s] \in VC /\ Behind(d.slots[s], d)
  <2>1. (R + 1) - 1 = R
    BY <1>3
  <2>2. s = SlotOf(c, R + 1)
    <3>1. d.nrecv[c] \in Nat /\ SlotCount(c) = Cap[c]
      BY <1>1, <1>n DEF SlotCount
    <3>2. CASE Cap[c] = 1
      <4>1. \A n \in Nat : n % 1 = 0
        OBVIOUS
      <4> QED
        BY <1>3, <1>5, <2>1, <3>1, <3>2, <4>1 DEF SlotOf
    <3>3. CASE Cap[c] # 1
      BY <1>2, <1>4, <1>5, <2>1, <3>3 DEF SlotOf, NumbersOk
    <3> QED
      BY <3>2, <3>3
  <2>3. s \in Slots
    BY <1>3, <2>2, SlotOfType
  <2> QED
    BY <1>1, <1>4, <2>2, <2>3
<1>7. e.n = R + 1 /\ Rcvd(g, c) = R + 1 /\ Sent(g, c) = N
  BY <1>2, SentMoves
<1>8. Covers(h, Numbered(h, "send", c, R + 1), d.slots[s])
  BY <1>2, <1>3, <1>4, <1>6 DEF SendsOk
<1>9. \A i \in DOMAIN h : i \in e.past <=> i \in PastOf(h, t) \/ i \in Numbered(h, "send", c, R + 1)
  BY <1>2, <1>7, SyncPast
<1>j. PICK J : J = Join(d.clocks[t], d.slots[s])
  OBVIOUS
<1>10. RecvEffect(d, x, t, c, s, J)
  BY <1>1, <1>5, <1>j, RecvFields
<1>a. /\ x \in RaceStates /\ x.clocks = [d.clocks EXCEPT ![t] = Bump(J, t)] /\ J \in VC
      /\ x.shadow = d.shadow
  BY <1>10 DEF RecvEffect
<1>b. /\ x.nsend = d.nsend /\ x.closeVC = d.closeVC /\ x.semA = d.semA
      /\ x.semB = d.semB /\ x.atomics = d.atomics
  BY <1>10 DEF RecvEffect
<1>11. Acquired(h, d, e, {t}, J)
  BY <1>6, <1>8, <1>9, <1>j, JoinAcquired
<1>12. Moved(d, x, {t}, J) /\ Behind(J, x)
  BY <1>1, <1>a, <1>11, OneMoved, ReleasedBehind
<1>13. SyncDone(h, g, d, x, b, "recv")
  BY <1>a, <1>11, <1>12, SyncStep
<1>14. Grown(d, x) /\ Covers(h, e.past, J) /\ Synced(h, g, e, d, x)
  BY <1>1, <1>a, <1>11, <1>13 DEF SyncDone, Acquired, Synced
<1>15. /\ x.slots[s] = J /\ \A z \in Slots : z # s => x.slots[z] = d.slots[z]
       /\ x.nsend[c] = d.nsend[c] /\ x.nrecv[c] = d.nrecv[c] + 1
       /\ \A a \in Chans \ {c} : x.nsend[a] = d.nsend[a] /\ x.nrecv[a] = d.nrecv[a]
  BY <1>1, <1>2, <1>6, <1>10 DEF RecvEffect
<1>16. \A z \in Slots : Behind(x.slots[z], x)
  BY <1>1, <1>4, <1>a, <1>12, <1>14, <1>15, KeepsBehind
<1>17. ASSUME NEW a \in Chans \ {c}, Cap[a] > 0
       PROVE  Counted(g, x, a)
  <2>1. Counted(h, d, a)
    BY <1>1, <1>17 DEF SlotsOk
  <2>2. SameSlots(d, x, a)
    <3> SUFFICES \A n \in Nat : n > 0 => x.slots[SlotOf(a, n)] = d.slots[SlotOf(a, n)]
      BY DEF SameSlots
    <3> TAKE n \in Nat
    <3> HAVE n > 0
    <3>1. SlotOf(a, n) \in Slots /\ SlotOf(a, n) # s
      BY <1>5, SlotOfType DEF SlotOf
    <3> QED
      BY <1>15, <3>1
  <2>3. Current(e, d)
    BY <1>1 DEF Current
  <2> QED
    BY <1>1, <1>4, <1>a, <1>15, <2>1, <2>2, <2>3, CountedKept
<1>18. NumbersOk(g, x, c)
  <2>1. \A i \in DOMAIN h : h[i].obj = c =>
          /\ h[i].what = "send" => h[i].n \in 1 .. N
          /\ h[i].what = "recv" => h[i].n \in 1 .. R
    BY <1>2, <1>4 DEF NumbersOk
  <2>2. \A i \in DOMAIN g : g[i].obj = c =>
          /\ g[i].what = "send" => g[i].n \in 1 .. N
          /\ g[i].what = "recv" => g[i].n \in 1 .. (R + 1)
    BY <1>1, <1>3, <1>7, <2>1 DEF Extends
  <2> QED
    BY <1>2, <1>3, <1>4, <1>7, <1>15, <2>2 DEF NumbersOk
<1>19. ASSUME NEW n \in Nat, n > R + 1, n <= R + C
       PROVE  /\ x.slots[SlotOf(c, n)] = d.slots[SlotOf(c, n)]
              /\ d.slots[SlotOf(c, n)] \in VC /\ Behind(d.slots[SlotOf(c, n)], d)
  <2>1. SlotOf(c, n) \in Slots
    BY <1>3, <1>19, SlotOfType
  <2>2. SlotOf(c, n) # s
    BY <1>2, <1>3, <1>6, <1>n, <1>19, SlotOfDistinct
  <2> QED
    BY <1>1, <1>4, <1>15, <2>1, <2>2
<1>20. SendsOk(g, x, c)
  <2> SUFFICES ASSUME NEW n \in (R + 2) .. N
               PROVE  Covers(g, Numbered(g, "send", c, n), x.slots[SlotOf(c, n)])
    BY <1>3, <1>7 DEF SendsOk
  <2>1. n \in Nat /\ n > R + 1 /\ n <= N /\ n <= R + C
    BY <1>3
  <2>2. Covers(h, Numbered(h, "send", c, n), d.slots[SlotOf(c, n)])
    BY <1>2, <1>3, <1>4, <2>1 DEF SendsOk
  <2>3. Together(h, Numbered(g, "send", c, n), Numbered(h, "send", c, n), {})
    BY ReleasedMoves DEF Together
  <2> QED
    BY <1>14, <1>19, <2>1, <2>2, <2>3, SyncKeeps
<1>21. RecvsOk(g, x, c)
  <2> SUFFICES ASSUME NEW n \in (N + 1) .. ((R + 1) + C)
               PROVE  Covers(g, Numbered(g, "recv", c, n - C), x.slots[SlotOf(c, n)])
    BY <1>2, <1>3, <1>7 DEF RecvsOk
  <2>1. CASE n = (R + 1) + C
    <3>0. n - C = R + 1
      BY <1>3, <2>1
    <3>1. \A i \in DOMAIN h : i \notin Numbered(h, "recv", c, R + 1)
      BY <1>2, <1>3, <1>4 DEF NumbersOk, Numbered
    <3>2. \A i \in DOMAIN h : i \in Numbered(g, "recv", c, n - C) <=> i \in e.past
      BY <1>7, <3>0, <3>1, ReleasedMoves
    <3>3. SlotOf(c, n) = s
      <4>1. R + 1 \in Nat /\ R + 1 > 0 /\ R + 2 \in Nat /\ R + 2 > R + 1
        BY <1>3
      <4>2. SlotOf(c, (R + 1) + Cap[c]) = SlotOf(c, R + 1)
        BY <1>n, <4>1, SlotOfDistinct
      <4> QED
        BY <1>2, <1>6, <2>1, <4>2
    <3> QED
      BY <1>1, <1>14, <1>15, <3>2, <3>3, CoversSync
  <2>2. CASE n # (R + 1) + C
    <3>1. n \in Nat /\ n > R + 1 /\ n <= R + C /\ n >= N + 1
      BY <1>3, <2>2
    <3>2. Covers(h, Numbered(h, "recv", c, n - C), d.slots[SlotOf(c, n)])
      BY <1>2, <1>3, <1>4, <3>1 DEF RecvsOk
    <3>3. n - C # R + 1
      BY <1>3, <2>2
    <3>4. Together(h, Numbered(g, "recv", c, n - C), Numbered(h, "recv", c, n - C), {})
      BY <1>7, <3>3, ReleasedMoves DEF Together
    <3> QED
      BY <1>14, <1>19, <3>1, <3>2, <3>4, SyncKeeps
  <2> QED
    BY <2>1, <2>2
<1>22. SlotsOk(g, x)
  BY <1>16, <1>17, <1>18, <1>20, <1>21 DEF SlotsOk, Counted
<1> QED
  BY <1>b, <1>13, <1>22 DEF SyncDone, HB, Stores

\* A rendezvous on each field of the state.
LEMMA MeetFields ==
  ASSUME NEW d, d \in RaceStates, NEW t \in Procs, NEW u \in Procs,
         NEW j, j = Join(d.clocks[t], d.clocks[u]), NEW x, x = Rendezvous(d, t, u)
  PROVE  /\ x \in RaceStates /\ j \in VC
         /\ x.clocks = [[d.clocks EXCEPT ![t] = Bump(j, t)] EXCEPT ![u] = Bump(j, u)]
         /\ x.shadow = d.shadow /\ x.slots = d.slots /\ x.nsend = d.nsend /\ x.nrecv = d.nrecv
         /\ x.closeVC = d.closeVC /\ x.semA = d.semA /\ x.semB = d.semB /\ x.atomics = d.atomics
<1>1. j \in VC
  BY JoinType DEF RaceStates
<1>2. PICK y : y = SetReleased(d, t, j)
  OBVIOUS
<1>3. /\ y \in RaceStates
      /\ y.clocks = [d.clocks EXCEPT ![t] = Bump(j, t)]
      /\ y.shadow = d.shadow /\ y.slots = d.slots /\ y.nsend = d.nsend /\ y.nrecv = d.nrecv
      /\ y.closeVC = d.closeVC /\ y.semA = d.semA /\ y.semB = d.semB /\ y.atomics = d.atomics
  BY <1>1, <1>2, SetReleasedFields
<1>4. x = SetReleased(y, u, j)
  BY <1>2 DEF Rendezvous
<1>5. /\ x \in RaceStates
      /\ x.clocks = [y.clocks EXCEPT ![u] = Bump(j, u)]
      /\ x.shadow = y.shadow /\ x.slots = y.slots /\ x.nsend = y.nsend /\ x.nrecv = y.nrecv
      /\ x.closeVC = y.closeVC /\ x.semA = y.semA /\ x.semB = y.semB /\ x.atomics = y.atomics
  BY <1>1, <1>3, <1>4, SetReleasedFields
<1> QED
  BY <1>1, <1>3, <1>5

\* An unbuffered pair joins its two pasts.
LEMMA MeetHB ==
  ASSUME NEW h, NEW g, NEW e, NEW t, NEW u, NEW c \in Chans, NEW kind, NEW epoch,
         Logged(h, g, e, {t, u}, "meet", c, kind, epoch),
         NEW d, NEW x, x = Rendezvous(d, t, u), NEW b, HB(h, d, b), t \in b, u \in b, t # u
  PROVE  HB(g, x, b)
<1>1. /\ d \in RaceStates /\ t \in Procs /\ u \in Procs /\ h \in Seq(Events)
      /\ d.clocks \in [Procs -> VC]
  BY DEF HB, Accounted, RaceStates
<1>2. PICK J : J = Join(d.clocks[t], d.clocks[u])
  OBVIOUS
<1>3. /\ x \in RaceStates /\ J \in VC
      /\ x.clocks = [[d.clocks EXCEPT ![t] = Bump(J, t)] EXCEPT ![u] = Bump(J, u)]
      /\ x.shadow = d.shadow /\ x.slots = d.slots /\ x.nsend = d.nsend /\ x.nrecv = d.nrecv
      /\ x.closeVC = d.closeVC /\ x.semA = d.semA /\ x.semB = d.semB /\ x.atomics = d.atomics
  BY <1>1, <1>2, MeetFields
<1>4. /\ \A v, w \in Procs : d.clocks[v][w] \in Nat
      /\ \A v \in Procs : J[v] \in Nat
      /\ \A v \in Procs : J[v] = IF d.clocks[t][v] < d.clocks[u][v] THEN d.clocks[u][v] ELSE d.clocks[t][v]
      /\ \A v, w \in Procs : v # w => d.clocks[v][w] < d.clocks[w][w]
  <2>1. d.clocks[t] \in VC /\ d.clocks[u] \in VC
    BY <1>1
  <2>2. \A v \in Procs : J[v] = IF d.clocks[t][v] < d.clocks[u][v] THEN d.clocks[u][v] ELSE d.clocks[t][v]
    BY <1>2, <2>1, JoinType
  <2>3. \A v, w \in Procs : v # w => d.clocks[v][w] < d.clocks[w][w]
    BY DEF HB, ThreadsOk, Ahead
  <2> QED
    BY <1>1, <1>3, <2>2, <2>3 DEF VC
<1>5. Acquired(h, d, e, {t, u}, J)
  <2>1. \A i \in DOMAIN h : i \in e.past <=> i \in PastOf(h, t) \/ i \in PastOf(h, u)
    BY SyncPast
  <2>2. Covers(h, PastOf(h, t), d.clocks[t]) /\ Covers(h, PastOf(h, u), d.clocks[u])
    BY DEF HB, ThreadsOk
  <2>3. d.clocks[t] \in VC /\ d.clocks[u] \in VC
    BY <1>1
  <2>4. Covers(h, e.past, J)
    BY <1>1, <1>2, <2>1, <2>2, <2>3, CoversJoin
  <2>5. J[t] = d.clocks[t][t] /\ J[u] = d.clocks[u][u]
    BY <1>1, <1>4
  <2>6. \A v \in Procs \ {t, u} : J[v] < d.clocks[v][v]
    BY <1>1, <1>4
  <2> QED
    BY <1>3, <2>4, <2>5, <2>6 DEF Acquired
<1>6. Moved(d, x, {t, u}, J)
  <2>1. /\ x.clocks[t] = Bump(J, t) /\ x.clocks[u] = Bump(J, u)
        /\ \A v \in Procs \ {t, u} : x.clocks[v] = d.clocks[v]
    BY <1>1, <1>3
  <2>2. /\ \A v \in Procs : Bump(J, t)[v] = IF v = t THEN J[t] + 1 ELSE J[v]
        /\ \A v \in Procs : Bump(J, u)[v] = IF v = u THEN J[u] + 1 ELSE J[v]
    BY <1>1, <1>3 DEF Bump, VC
  <2> QED
    BY <1>1, <1>4, <2>1, <2>2 DEF Moved
<1>7. SyncDone(h, g, d, x, b, "meet")
  BY <1>3, <1>5, <1>6, SyncStep
<1> QED
  BY <1>3, <1>7 DEF SyncDone, HB, Stores

-----------------------------------------------------------------------------
(* Goroutines. *)

\* A go statement on each field of the state.
SpawnEffect(d, x, t, u) ==
  /\ x \in RaceStates
  /\ x.clocks = [[d.clocks EXCEPT ![t] = Bump(d.clocks[t], t)]
                    EXCEPT ![u] = [d.clocks[t] EXCEPT ![u] = 1]]
  /\ x.shadow = d.shadow /\ x.slots = d.slots /\ x.nsend = d.nsend /\ x.nrecv = d.nrecv
  /\ x.closeVC = d.closeVC /\ x.semA = d.semA /\ x.semB = d.semB /\ x.atomics = d.atomics

\* What a go statement changes in the detector's state.
LEMMA SpawnFields ==
  ASSUME NEW d, d \in RaceStates, NEW t \in Procs, NEW u \in Procs, NEW x, x = SpawnEdge(d, t, u)
  PROVE  SpawnEffect(d, x, t, u)
<1>0. d.clocks[t] \in VC /\ [d.clocks[t] EXCEPT ![u] = 1] \in VC
  BY DEF RaceStates, VC
<1>2. PICK y : y = SetReleased(d, t, d.clocks[t])
  OBVIOUS
<1>3. /\ y \in RaceStates
      /\ y.clocks = [d.clocks EXCEPT ![t] = Bump(d.clocks[t], t)]
      /\ y.shadow = d.shadow /\ y.slots = d.slots /\ y.nsend = d.nsend /\ y.nrecv = d.nrecv
      /\ y.closeVC = d.closeVC /\ y.semA = d.semA /\ y.semB = d.semB /\ y.atomics = d.atomics
  BY <1>0, <1>2, SetReleasedFields
<1>4. PICK z, S : z = [d.clocks[t] EXCEPT ![u] = 1] /\ S = [y.clocks EXCEPT ![u] = z]
  OBVIOUS
<1>5. x = [y EXCEPT !.clocks = S]
  BY <1>2, <1>4 DEF SpawnEdge
<1>6. S \in [Procs -> VC]
  BY <1>0, <1>3, <1>4 DEF RaceStates
<1>7. x.clocks = S /\ x \in RaceStates
  BY <1>3, <1>5, <1>6 DEF RaceStates
<1>8. /\ x.shadow = y.shadow /\ x.slots = y.slots /\ x.nsend = y.nsend /\ x.nrecv = y.nrecv
      /\ x.closeVC = y.closeVC /\ x.semA = y.semA /\ x.semB = y.semB /\ x.atomics = y.atomics
  BY <1>3, <1>5 DEF RaceStates
<1> QED
  BY <1>3, <1>4, <1>7, <1>8 DEF SpawnEffect

\* The child starts from the parent's past.
LEMMA GoHB ==
  ASSUME NEW h, NEW g, NEW e, NEW t, NEW u \in Procs, NEW kind, NEW epoch,
         Logged(h, g, e, {t}, "go", u, kind, epoch),
         NEW d, NEW x, x = SpawnEdge(d, t, u), NEW b, HB(h, d, b), t \in b, u \notin b
  PROVE  HB(g, x, b \cup {u})
<1>1. /\ d \in RaceStates /\ t \in Procs /\ h \in Seq(Events) /\ b \in SUBSET Procs /\ t # u
      /\ d.clocks \in [Procs -> VC] /\ Extends(h, g, e) /\ e.what = "go" /\ Accounted(h, d, b)
      /\ CloseOk(h, d) /\ UnlockOk(h, d) /\ RUnlockOk(h, d) /\ AtomicsOk(h, d) /\ SlotsOk(h, d)
  BY DEF HB, Accounted, RaceStates, Logged
<1>2. SpawnEffect(d, x, t, u)
  BY <1>1, SpawnFields
<1> DEFINE J == d.clocks[t]
<1>3. /\ x \in RaceStates
      /\ x.clocks = [[d.clocks EXCEPT ![t] = Bump(J, t)] EXCEPT ![u] = [J EXCEPT ![u] = 1]]
      /\ x.shadow = d.shadow /\ x.slots = d.slots /\ x.nsend = d.nsend /\ x.nrecv = d.nrecv
      /\ x.closeVC = d.closeVC /\ x.semA = d.semA /\ x.semB = d.semB /\ x.atomics = d.atomics
  BY <1>2, Zenon DEF SpawnEffect
<1>4. /\ x.clocks[t] = Bump(J, t) /\ x.clocks[u] = [J EXCEPT ![u] = 1]
      /\ \A v \in Procs \ {t, u} : x.clocks[v] = d.clocks[v]
  BY <1>1, <1>3
<1>5. /\ J \in VC /\ \A v, w \in Procs : d.clocks[v][w] \in Nat
      /\ \A v \in Procs : J[v] = d.clocks[t][v]
  BY <1>1 DEF VC
<1> HIDE DEF J
<1>6. /\ \A v \in Procs : x.clocks[t][v] = IF v = t THEN J[t] + 1 ELSE J[v]
      /\ \A v \in Procs : x.clocks[u][v] = IF v = u THEN 1 ELSE J[v]
  BY <1>1, <1>4, <1>5 DEF Bump, VC
<1>7. /\ \A v \in Procs : d.clocks[v][v] > 0 /\ (v \notin b => d.clocks[v][v] = 1)
      /\ \A v, w \in Procs : v # w => d.clocks[v][w] < d.clocks[w][w]
  BY DEF HB, ThreadsOk, Ahead
<1>8. Grown(d, x)
  <2> SUFFICES ASSUME NEW v \in Procs
               PROVE  x.clocks[v][v] >= d.clocks[v][v]
    BY DEF Grown
  <2>1. CASE v = t
    BY <1>1, <1>5, <1>6, <2>1
  <2>2. CASE v = u
    BY <1>1, <1>5, <1>6, <1>7, <2>2
  <2>3. CASE v # t /\ v # u
    BY <1>4, <1>5, <2>3
  <2> QED
    BY <2>1, <2>2, <2>3
<1>9. Ahead(x, b \cup {u})
  <2> SUFFICES ASSUME NEW w \in Procs
               PROVE  /\ x.clocks[w][w] > 0 /\ (w \notin b \cup {u} => x.clocks[w][w] = 1)
                      /\ \A v \in Procs \ {w} : x.clocks[v][w] < x.clocks[w][w]
    BY DEF Ahead
  <2>1. ASSUME NEW v \in Procs \ {w}
        PROVE  x.clocks[v][w] < x.clocks[w][w]
    <3>1. CASE w = u
      <4>1. x.clocks[w][w] = 1 /\ d.clocks[v][w] < 1 /\ d.clocks[t][w] < 1
        BY <1>1, <1>6, <1>7, <3>1
      <4>2. CASE v = t
        BY <1>1, <1>5, <1>6, <3>1, <4>1, <4>2
      <4>3. CASE v # t
        BY <1>1, <1>4, <3>1, <4>1, <4>3
      <4> QED
        BY <4>2, <4>3
    <3>2. CASE w = t
      <4>1. x.clocks[w][w] = d.clocks[w][w] + 1
        BY <1>1, <1>5, <1>6, <3>2
      <4>2. CASE v = u
        BY <1>1, <1>5, <1>6, <3>2, <4>1, <4>2
      <4>3. CASE v # u
        <5>1. x.clocks[v][w] = d.clocks[v][w]
          BY <1>4, <3>2, <4>3
        <5> QED
          BY <1>5, <1>7, <4>1, <5>1
      <4> QED
        BY <4>2, <4>3
    <3>3. CASE w # u /\ w # t
      <4>1. x.clocks[w][w] = d.clocks[w][w]
        BY <1>4, <3>3
      <4>2. CASE v = u \/ v = t
        <5>1. x.clocks[v][w] = d.clocks[t][w]
          BY <1>5, <1>6, <3>3, <4>2
        <5> QED
          BY <1>1, <1>7, <3>3, <4>1, <5>1
      <4>3. CASE v # u /\ v # t
        <5>1. x.clocks[v][w] = d.clocks[v][w]
          BY <1>4, <4>3
        <5> QED
          BY <1>7, <4>1, <5>1
      <4> QED
        BY <4>2, <4>3
    <3> QED
      BY <3>1, <3>2, <3>3
  <2>2. x.clocks[w][w] >= d.clocks[w][w] /\ x.clocks[w][w] \in Nat
    <3>1. x \in RaceStates
      BY <1>3
    <3> QED
      BY <1>8, <3>1 DEF Grown, RaceStates, VC
  <2>3. w \notin b \cup {u} => x.clocks[w][w] = 1
    BY <1>4, <1>7
  <2> QED
    BY <1>5, <1>7, <2>1, <2>2, <2>3
<1>10. Covers(h, PastOf(h, t), J) /\ \A v \in b : Covers(h, PastOf(h, v), d.clocks[v])
  BY DEF HB, ThreadsOk, J
<1>11. \A i \in DOMAIN h : i \in e.past <=> i \in PastOf(h, t)
  BY SyncPast
<1>12. ASSUME NEW i \in DOMAIN h, h[i].what = "access", h[i].epoch > 0, NEW w \in h[i].who
       PROVE  /\ i \in e.past <=> h[i].epoch <= x.clocks[t][w]
              /\ i \in e.past <=> h[i].epoch <= x.clocks[u][w]
  <2>1. w \in b /\ h[i].epoch <= d.clocks[w][w]
    BY <1>1, <1>12 DEF Accounted
  <2>2. w \in Procs /\ w # u /\ h[i].epoch \in Nat
    <3>1. h[i] \in Events
      BY <1>1
    <3> QED
      BY <1>1, <2>1, <3>1 DEF Events
  <2>3. i \in e.past <=> h[i].epoch <= J[w]
    BY <1>10, <1>11, <1>12 DEF Covers
  <2> QED
    BY <1>1, <1>5, <1>6, <2>1, <2>2, <2>3
<1>13. Covers(h, e.past, x.clocks[t]) /\ Covers(h, e.past, x.clocks[u])
  BY <1>12 DEF Covers
<1>14. ASSUME NEW v \in b \cup {u}
       PROVE  Covers(g, PastOf(g, v), x.clocks[v])
  <2>1. CASE v = t
    <3>1. \A i \in DOMAIN h : i \in PastOf(g, v) <=> i \in e.past
      BY <2>1, PastMoves
    <3> QED
      BY <1>1, <1>13, <2>1, <3>1, CoversSync
  <2>2. CASE v = u
    <3>1. \A i \in DOMAIN h : i \notin PastOf(h, u)
      BY <1>1 DEF Accounted, PastOf
    <3>2. \A i \in DOMAIN h : i \in PastOf(g, v) <=> i \in e.past
      BY <1>1, <2>2, <3>1, PastMoves
    <3> QED
      BY <1>1, <1>13, <2>2, <3>2, CoversSync
  <2>3. CASE v # t /\ v # u
    <3>1. \A i \in DOMAIN h : i \in PastOf(g, v) <=> i \in PastOf(h, v)
      BY <2>3, PastMoves
    <3>2. x.clocks[v] = d.clocks[v] /\ v \in b
      BY <1>1, <1>4, <2>3
    <3> QED
      BY <1>1, <1>10, <3>1, <3>2, CoversSync
  <2> QED
    BY <2>1, <2>2, <2>3
<1>15. ThreadsOk(g, x, b \cup {u})
  BY <1>9, <1>14 DEF ThreadsOk
<1>16. Accounted(g, x, b \cup {u})
  <2>1. PICK c : c = b \cup {u}
    OBVIOUS
  <2>2. /\ c \in SUBSET Procs /\ b \in SUBSET c /\ u \in c /\ {t} \in SUBSET b /\ {t} # {}
        /\ \A v \in c : v \in b \/ u = v
    BY <1>1, <2>1
  <2>3. Accounted(g, x, c)
    BY <1>1, <1>3, <1>8, <2>2, AccountedSync
  <2> QED
    BY <2>1, <2>3
<1>17. Current(e, d)
  BY <1>1 DEF Current
<1>18. CloseOk(g, x) /\ UnlockOk(g, x) /\ RUnlockOk(g, x) /\ AtomicsOk(g, x)
  BY <1>1, <1>3, <1>8, <1>17, OthersKept DEF Stores
<1>19. SlotsOk(g, x)
  BY <1>1, <1>3, <1>8, <1>17, SlotsKept
<1> QED
  BY <1>15, <1>16, <1>18, <1>19 DEF HB

-----------------------------------------------------------------------------
(* Accesses. *)

\* A recorded access on each field of the state.
LEMMA RecordFields ==
  ASSUME NEW d, d \in RaceStates, NEW t \in Procs, NEW k \in Keys \cup Chans, NEW kind \in Kinds,
         NEW x, x = Record(d, t, kind, k)
  PROVE  /\ x \in RaceStates
         /\ \A j \in Keys \cup Chans, kd \in Kinds, u \in Procs :
              x.shadow[j][kd][u] = IF j = k /\ kd = kind /\ u = t THEN d.clocks[t][t]
                                                                  ELSE d.shadow[j][kd][u]
         /\ x.clocks = d.clocks /\ x.slots = d.slots /\ x.nsend = d.nsend /\ x.nrecv = d.nrecv
         /\ x.closeVC = d.closeVC /\ x.semA = d.semA /\ x.semB = d.semB /\ x.atomics = d.atomics
<1>1. /\ d.shadow \in [Keys \cup Chans -> [Kinds -> VC]] /\ d.clocks[t][t] \in Nat
  BY DEF RaceStates, VC
<1>2. PICK w : w = d.clocks[t][t]
  OBVIOUS
<1>3. PICK p : p = [d.shadow[k][kind] EXCEPT ![t] = w]
  OBVIOUS
<1>4. PICK q : q = [d.shadow[k] EXCEPT ![kind] = p]
  OBVIOUS
<1>5. PICK S : S = [d.shadow EXCEPT ![k] = q]
  OBVIOUS
<1>6. x = [d EXCEPT !.shadow = S]
  BY <1>2, <1>3, <1>4, <1>5 DEF Record
<1>7. /\ p \in VC /\ p[t] = w /\ \A u \in Procs \ {t} : p[u] = d.shadow[k][kind][u]
  BY <1>1, <1>2, <1>3 DEF VC
<1>8. /\ q \in [Kinds -> VC] /\ q[kind] = p /\ \A kd \in Kinds \ {kind} : q[kd] = d.shadow[k][kd]
  BY <1>1, <1>4, <1>7
<1>9. /\ S \in [Keys \cup Chans -> [Kinds -> VC]] /\ S[k] = q
      /\ \A j \in (Keys \cup Chans) \ {k} : S[j] = d.shadow[j]
  BY <1>1, <1>5, <1>8
<1>10. /\ x \in RaceStates /\ x.shadow = S
       /\ x.clocks = d.clocks /\ x.slots = d.slots /\ x.nsend = d.nsend /\ x.nrecv = d.nrecv
       /\ x.closeVC = d.closeVC /\ x.semA = d.semA /\ x.semB = d.semB /\ x.atomics = d.atomics
  BY <1>6, <1>9 DEF RaceStates
<1>11. \A j \in Keys \cup Chans, kd \in Kinds, u \in Procs :
         S[j][kd][u] = IF j = k /\ kd = kind /\ u = t THEN w ELSE d.shadow[j][kd][u]
  BY <1>7, <1>8, <1>9
<1> QED
  BY <1>2, <1>10, <1>11

\* Paths overlap and kinds conflict either way round.
LEMMA ConflictSymmetric ==
  ASSUME NEW j, NEW k, NEW a, NEW z
  PROVE  (Overlap(j, k) <=> Overlap(k, j)) /\ (Conflicting(a, z) <=> Conflicting(z, a))
BY DEF Overlap, Conflicting

\* An access that the detector lets pass is ordered after those it conflicts with.
LEMMA NoNewRace ==
  ASSUME NEW h, NEW g, NEW e, NEW t, NEW k \in Keys \cup Chans, NEW kind \in Kinds, NEW epoch,
         Logged(h, g, e, {t}, "access", k, kind, epoch),
         NEW d, NEW b, HB(h, d, b), t \in b, ~Conflict(d, t, kind, k),
         NEW i \in DOMAIN h, h[i].what = "access", t \notin h[i].who,
         Overlap(k, h[i].obj), Conflicting(kind, h[i].kind)
  PROVE  i \in e.past
<1>1. /\ d \in RaceStates /\ t \in Procs /\ b \in SUBSET Procs /\ h \in Seq(Events) /\ Accounted(h, d, b)
      /\ DOMAIN d.shadow = Keys \cup Chans /\ Covers(h, PastOf(h, t), d.clocks[t])
  BY DEF HB, ThreadsOk, Accounted, RaceStates
<1>2. PICK u \in b : /\ h[i].who = {u} /\ h[i].obj \in Keys \cup Chans /\ h[i].kind \in Kinds
                     /\ h[i].epoch <= d.shadow[h[i].obj][h[i].kind][u]
                     /\ h[i].epoch = 0 => \A v \in b : i \in PastOf(h, v)
  BY <1>1 DEF Accounted
<1>3. u \in Procs \ {t}
  BY <1>1, <1>2
<1>4. ~(d.shadow[h[i].obj][h[i].kind][u] > d.clocks[t][u])
  BY <1>1, <1>2, <1>3 DEF Conflict
<1>5. h[i].epoch \in Nat /\ d.shadow[h[i].obj][h[i].kind][u] \in Nat /\ d.clocks[t][u] \in Nat
  <2>1. h[i] \in Events
    BY <1>1
  <2> QED
    BY <1>1, <1>2, <1>3, <2>1 DEF Events, RaceStates, VC
<1>6. h[i].epoch <= d.clocks[t][u]
  BY <1>2, <1>4, <1>5
<1>7. i \in PastOf(h, t)
  <2>1. CASE h[i].epoch = 0
    BY <1>2, <2>1
  <2>2. CASE h[i].epoch > 0
    BY <1>1, <1>2, <1>6, <2>2 DEF Covers
  <2> QED
    BY <1>5, <2>1, <2>2
<1> QED
  BY <1>7, SyncPast

\* An access that does not conflict is recorded and joins nothing.
LEMMA AccessHB ==
  ASSUME NEW h, NEW g, NEW e, NEW t, NEW k \in Keys \cup Chans, NEW kind \in Kinds, NEW epoch,
         Logged(h, g, e, {t}, "access", k, kind, epoch),
         NEW d, epoch = d.clocks[t][t], NEW x, x = Record(d, t, kind, k),
         NEW b, HB(h, d, b), t \in b, ~Conflict(d, t, kind, k)
  PROVE  HB(g, x, b)
<1>1. /\ d \in RaceStates /\ t \in Procs /\ b \in SUBSET Procs /\ h \in Seq(Events) /\ Accounted(h, d, b)
      /\ ThreadsOk(h, d, b)
      /\ CloseOk(h, d) /\ UnlockOk(h, d) /\ RUnlockOk(h, d) /\ AtomicsOk(h, d) /\ SlotsOk(h, d)
  BY DEF HB, Accounted
<1>e. /\ Extends(h, g, e) /\ g \in Seq(Events) /\ Founded(g)
      /\ e.who = {t} /\ e.what = "access" /\ e.obj = k /\ e.kind = kind /\ e.epoch = d.clocks[t][t]
      /\ DOMAIN g = DOMAIN h \cup {Len(h) + 1} /\ Len(h) + 1 \notin DOMAIN h
      /\ \A i \in DOMAIN h : g[i] = h[i]
      /\ g[Len(h) + 1] = e
  BY DEF Logged, Extends
<1>2. /\ x \in RaceStates
      /\ \A j \in Keys \cup Chans, kd \in Kinds, u \in Procs :
           x.shadow[j][kd][u] = IF j = k /\ kd = kind /\ u = t THEN d.clocks[t][t]
                                                               ELSE d.shadow[j][kd][u]
  BY <1>1, RecordFields
<1>3. /\ x.clocks = d.clocks /\ x.slots = d.slots /\ x.nsend = d.nsend /\ x.nrecv = d.nrecv
      /\ x.closeVC = d.closeVC /\ x.semA = d.semA /\ x.semB = d.semB /\ x.atomics = d.atomics
  BY <1>1, RecordFields
<1>4. /\ \A u, v \in Procs : d.clocks[u][v] \in Nat /\ (u # v => d.clocks[u][v] < d.clocks[v][v])
      /\ d.clocks[t][t] > 0
  BY <1>1 DEF RaceStates, VC, ThreadsOk, Ahead
<1>5. Grown(d, x)
  BY <1>3, <1>4 DEF Grown
<1>6. Current(e, d)
  BY <1>1, <1>4, <1>e DEF Current
<1>7. ThreadsOk(g, x, b)
  <2>1. Ahead(x, b)
    BY <1>1, <1>3 DEF ThreadsOk, Ahead
  <2>2. ASSUME NEW v \in b
        PROVE  Covers(g, PastOf(g, v), x.clocks[v])
    <3>1. Covers(h, PastOf(h, v), d.clocks[v]) /\ x.clocks[v] = d.clocks[v] /\ v \in Procs
      BY <1>1, <1>3 DEF ThreadsOk
    <3>2. \A i \in DOMAIN h : i \in PastOf(g, v) <=> i \in PastOf(h, v)
      BY PastMoves, SyncPast
    <3>3. CASE v = t
      <4>1. Len(h) + 1 \in PastOf(g, v)
        BY <1>e, <3>3 DEF PastOf, Founded
      <4>2. e.epoch <= d.clocks[v][t]
        BY <1>1, <1>4, <1>e, <3>3
      <4> QED
        BY <1>e, <3>1, <3>2, <4>1, <4>2 DEF Covers
    <3>4. CASE v # t
      <4>1. Len(h) + 1 \notin PastOf(g, v)
        BY <3>4, NewOutside
      <4>2. ~(e.epoch <= d.clocks[v][t])
        BY <1>1, <1>4, <1>e, <3>1, <3>4
      <4> QED
        BY <1>e, <3>1, <3>2, <4>1, <4>2 DEF Covers
    <3> QED
      BY <3>3, <3>4
  <2> QED
    BY <2>1, <2>2 DEF ThreadsOk
<1>8. \A i \in DOMAIN g : /\ g[i].who \in SUBSET b
                          /\ g[i].what = "go" => g[i].obj \in b
                          /\ i \in g[i].past /\ g[i].past \in SUBSET (1 .. i)
  BY <1>1, <1>e DEF Accounted, Founded
<1>9. ASSUME NEW i \in DOMAIN g, g[i].what = "access"
      PROVE  \E v \in b : /\ g[i].who = {v} /\ g[i].obj \in Keys \cup Chans /\ g[i].kind \in Kinds
                          /\ g[i].epoch <= x.clocks[v][v]
                          /\ g[i].epoch <= x.shadow[g[i].obj][g[i].kind][v]
                          /\ g[i].epoch = 0 => \A u \in b : i \in PastOf(g, u)
  <2>1. CASE i = Len(h) + 1
    BY <1>1, <1>2, <1>3, <1>4, <1>e, <2>1
  <2>2. CASE i \in DOMAIN h
    <3>0. g[i] = h[i] /\ h[i].epoch \in Nat
      <4>1. h[i] \in Events
        BY <1>1, <2>2
      <4> QED
        BY <1>e, <2>2, <4>1 DEF Events
    <3>1. PICK v \in b : /\ h[i].who = {v} /\ h[i].obj \in Keys \cup Chans /\ h[i].kind \in Kinds
                         /\ h[i].epoch <= d.clocks[v][v]
                         /\ h[i].epoch <= d.shadow[h[i].obj][h[i].kind][v]
                         /\ h[i].epoch = 0 => \A u \in b : i \in PastOf(h, u)
      BY <1>1, <1>9, <2>2, <3>0 DEF Accounted
    <3>2. h[i].epoch <= x.shadow[h[i].obj][h[i].kind][v]
      BY <1>1, <1>2, <3>1
    <3>3. \A u \in b : i \in PastOf(h, u) => i \in PastOf(g, u)
      BY <2>2, PastMoves, SyncPast
    <3> QED
      BY <1>3, <3>0, <3>1, <3>2, <3>3
  <2> QED
    BY <1>e, <2>1, <2>2
<1>10. Witnessed(g, x)
  <2> SUFFICES ASSUME NEW j \in Keys \cup Chans, NEW kd \in Kinds, NEW u \in Procs, x.shadow[j][kd][u] > 0
               PROVE  Accessed(g, j, kd, u, x.shadow[j][kd][u])
    BY DEF Witnessed
  <2>1. CASE j = k /\ kd = kind /\ u = t
    BY <1>2, <1>e, <2>1 DEF Accessed
  <2>2. CASE ~(j = k /\ kd = kind /\ u = t)
    <3>1. x.shadow[j][kd][u] = d.shadow[j][kd][u] /\ d.shadow[j][kd][u] > 0
      BY <1>2, <2>2
    <3>2. Witnessed(h, d)
      BY <1>1 DEF Accounted
    <3>3. Accessed(h, j, kd, u, d.shadow[j][kd][u])
      BY <3>1, <3>2 DEF Witnessed
    <3> QED
      BY <1>e, <3>1, <3>3 DEF Accessed
  <2> QED
    BY <2>1, <2>2
<1>11. ASSUME NEW i \in DOMAIN g, NEW j \in DOMAIN g, RacesIn(g, i, j)
       PROVE  FALSE
  <2>1. CASE i \in DOMAIN h /\ j \in DOMAIN h
    <3>1. ~RacesIn(h, i, j)
      BY <1>1, <2>1 DEF Accounted
    <3> QED
      BY <1>11, <1>e, <2>1, <3>1 DEF RacesIn, IsAccess
  <2>2. CASE i = Len(h) + 1 /\ j = Len(h) + 1
    BY <1>11, <1>e, <2>2 DEF RacesIn
  <2>3. CASE i = Len(h) + 1 /\ j \in DOMAIN h
    <3>1. /\ h[j].what = "access" /\ t \notin h[j].who
          /\ Overlap(k, h[j].obj) /\ Conflicting(kind, h[j].kind) /\ j \notin e.past
      BY <1>11, <1>e, <2>3 DEF RacesIn, IsAccess
    <3> QED
      BY <2>3, <3>1, NoNewRace
  <2>4. CASE j = Len(h) + 1 /\ i \in DOMAIN h
    <3>1. /\ h[i].what = "access" /\ t \notin h[i].who
          /\ Overlap(h[i].obj, k) /\ Conflicting(h[i].kind, kind) /\ i \notin e.past
      BY <1>11, <1>e, <2>4 DEF RacesIn, IsAccess
    <3> QED
      BY <2>4, <3>1, NoNewRace, ConflictSymmetric
  <2> QED
    BY <1>e, <2>1, <2>2, <2>3, <2>4
<1>12. Accounted(g, x, b)
  BY <1>1, <1>2, <1>8, <1>9, <1>10, <1>11, <1>e DEF Accounted
<1>13. CloseOk(g, x) /\ UnlockOk(g, x) /\ RUnlockOk(g, x) /\ AtomicsOk(g, x)
  BY <1>1, <1>2, <1>3, <1>5, <1>6, OthersKept DEF Stores
<1>14. SlotsOk(g, x)
  BY <1>1, <1>2, <1>3, <1>5, <1>6, SlotsKept
<1> QED
  BY <1>7, <1>12, <1>13, <1>14 DEF HB

\* An access that the detector refuses races with one it recorded.
LEMMA ConflictRaces ==
  ASSUME NEW h, NEW g, NEW e, NEW t, NEW k, NEW kind, NEW epoch,
         Logged(h, g, e, {t}, "access", k, kind, epoch),
         NEW d, NEW b, HB(h, d, b), t \in b, Conflict(d, t, kind, k)
  PROVE  \E i, j \in DOMAIN g : RacesIn(g, i, j)
<1>1. /\ d \in RaceStates /\ t \in Procs /\ Accounted(h, d, b)
      /\ DOMAIN d.shadow = Keys \cup Chans /\ Covers(h, PastOf(h, t), d.clocks[t])
  BY DEF HB, ThreadsOk, Accounted, RaceStates
<1>e. /\ e.who = {t} /\ e.what = "access" /\ e.obj = k /\ e.kind = kind
      /\ Len(h) \in Nat /\ DOMAIN h = 1 .. Len(h)
      /\ DOMAIN g = DOMAIN h \cup {Len(h) + 1} /\ Len(h) + 1 \notin DOMAIN h
      /\ \A i \in DOMAIN h : g[i] = h[i] /\ h[i].past \in SUBSET (1 .. i)
      /\ g[Len(h) + 1] = e
  BY DEF Logged, Extends, Founded
<1>2. PICK k2 \in Keys \cup Chans, kd \in Kinds, u \in Procs \ {t} :
         /\ Overlap(k, k2) /\ Conflicting(kind, kd)
         /\ d.shadow[k2][kd][u] > d.clocks[t][u]
  BY <1>1 DEF Conflict
<1>3. d.shadow[k2][kd][u] \in Nat /\ d.clocks[t][u] \in Nat
  BY <1>1, <1>2 DEF RaceStates, VC
<1>4. Witnessed(h, d) /\ d.shadow[k2][kd][u] > 0
  BY <1>1, <1>2, <1>3 DEF Accounted
<1>5. PICK i \in DOMAIN h : /\ h[i].what = "access" /\ h[i].who = {u} /\ h[i].obj = k2
                            /\ h[i].kind = kd /\ h[i].epoch = d.shadow[k2][kd][u]
  <2>1. Accessed(h, k2, kd, u, d.shadow[k2][kd][u])
    BY <1>2, <1>4 DEF Witnessed
  <2> QED
    BY <2>1 DEF Accessed
<1>6. i \notin PastOf(h, t)
  BY <1>1, <1>2, <1>3, <1>4, <1>5 DEF Covers
<1>7. i \notin e.past
  BY <1>6, SyncPast
<1>8. Len(h) + 1 \notin h[i].past
  BY <1>e
<1>9. RacesIn(g, Len(h) + 1, i)
  BY <1>2, <1>5, <1>7, <1>8, <1>e DEF RacesIn, IsAccess
<1> QED
  BY <1>9, <1>e

\* What was before a goroutine's later steps remains so.
LEMMA PastRemains ==
  ASSUME NEW h, NEW g, NEW e, Extends(h, g, e), NEW t, NEW n \in Int, n <= Len(h)
  PROVE  PastUpTo(g, t, n) = PastUpTo(h, t, n)
<1>1. \A i \in 1 .. n : g[i] = h[i]
  BY DEF Extends
<1>2. {j \in 1 .. n : t \in g[j].who \/ (g[j].what = "go" /\ g[j].obj = t)}
        = {j \in 1 .. n : t \in h[j].who \/ (h[j].what = "go" /\ h[j].obj = t)}
  BY <1>1
<1> QED
  BY <1>1, <1>2 DEF PastUpTo

\* A race remains one, and so does an early record.
LEMMA RacesRemain ==
  ASSUME NEW h, NEW g, NEW e, Extends(h, g, e), Racy(h)
  PROVE  Racy(g)
<1>1. PICK i \in DOMAIN h, j \in DOMAIN h : RacesIn(h, i, j) \/ EarlyIn(h, i, j)
  BY DEF Racy
<1>2. i \in DOMAIN g /\ j \in DOMAIN g /\ g[i] = h[i] /\ g[j] = h[j] /\ j \in 1 .. Len(h) /\ Len(h) \in Nat
  BY DEF Extends
<1>3. CASE RacesIn(h, i, j)
  BY <1>2, <1>3 DEF RacesIn, IsAccess, Racy
<1>4. CASE EarlyIn(h, i, j)
  <2>1. j - 1 \in DOMAIN h /\ j - 1 \in DOMAIN g /\ g[j - 1] = h[j - 1]
    BY <1>4 DEF EarlyIn, Extends
  <2>2. \A t : PastUpTo(g, t, j - 2) = PastUpTo(h, t, j - 2)
    <3>1. j - 2 \in Int /\ j - 2 <= Len(h)
      BY <1>2
    <3> QED
      BY <3>1, PastRemains
  <2>3. EarlyIn(g, i, j)
    BY <1>2, <1>4, <2>1, <2>2 DEF EarlyIn, IsAccess
  <2> QED
    BY <1>2, <2>3 DEF Racy
<1> QED
  BY <1>1, <1>3, <1>4

-----------------------------------------------------------------------------
(* The pool of one goroutine. *)

\* What it does is recorded without epochs.
LEMMA QuietLog ==
  ASSUME NEW h, NEW g, NEW e, NEW what, NEW obj, NEW kind,
         Logged(h, g, e, {Main}, what, obj, kind, 0), Quiet(h), what # "go",
         what = "access" => kind \in Kinds /\ obj \in Keys \cup Chans,
         \A c \in Chans : Cap[c] > 1 /\ obj = c => what \notin {"send", "recv"}
  PROVE  Quiet(g)
<1>1. /\ g \in Seq(Events) /\ Founded(g)
      /\ e.who = {Main} /\ e.what = what /\ e.obj = obj /\ e.kind = kind /\ e.epoch = 0
      /\ DOMAIN g = DOMAIN h \cup {Len(h) + 1} /\ Len(h) + 1 \notin DOMAIN h
      /\ \A i \in DOMAIN h : g[i] = h[i]
      /\ g[Len(h) + 1] = e
  BY DEF Logged, Extends
<1>2. \A i \in DOMAIN g : i \in g[i].past /\ g[i].past \in SUBSET (1 .. i)
  BY <1>1 DEF Founded
<1>3. \A i \in DOMAIN g : /\ g[i].who = {Main} /\ g[i].what # "go"
                          /\ g[i].what = "access" => /\ g[i].epoch = 0 /\ g[i].kind \in Kinds
                                                     /\ g[i].obj \in Keys \cup Chans
  BY <1>1 DEF Quiet
<1>4. ASSUME NEW c \in Chans
      PROVE  /\ Cap[c] > 1 => Sent(g, c) = 0 /\ Rcvd(g, c) = 0
             /\ \A i \in DOMAIN g : g[i].obj = c =>
                  /\ g[i].what = "send" => g[i].n \in 1 .. Sent(g, c)
                  /\ g[i].what = "recv" => g[i].n \in 1 .. Rcvd(g, c)
  <2>1. /\ Sent(g, c) = IF what = "send" /\ obj = c THEN Sent(h, c) + 1 ELSE Sent(h, c)
        /\ Rcvd(g, c) = IF what = "recv" /\ obj = c THEN Rcvd(h, c) + 1 ELSE Rcvd(h, c)
        /\ what = "send" /\ obj = c => e.n = Sent(h, c) + 1
        /\ what = "recv" /\ obj = c => e.n = Rcvd(h, c) + 1
        /\ Sent(h, c) \in Nat /\ Rcvd(h, c) \in Nat
    BY SentMoves
  <2>2. /\ Cap[c] > 1 => Sent(h, c) = 0 /\ Rcvd(h, c) = 0
        /\ \A i \in DOMAIN h : h[i].obj = c =>
             /\ h[i].what = "send" => h[i].n \in 1 .. Sent(h, c)
             /\ h[i].what = "recv" => h[i].n \in 1 .. Rcvd(h, c)
    BY DEF Quiet
  <2>3. Cap[c] > 1 => Sent(g, c) = 0 /\ Rcvd(g, c) = 0
    BY <2>1, <2>2
  <2>4. ASSUME NEW i \in DOMAIN g, g[i].obj = c
        PROVE  /\ g[i].what = "send" => g[i].n \in 1 .. Sent(g, c)
               /\ g[i].what = "recv" => g[i].n \in 1 .. Rcvd(g, c)
    <3>1. CASE i \in DOMAIN h
      BY <1>1, <2>1, <2>2, <2>4, <3>1
    <3>2. CASE i = Len(h) + 1
      BY <1>1, <2>1, <2>4, <3>2
    <3> QED
      BY <1>1, <3>1, <3>2
  <2> QED
    BY <2>3, <2>4
<1> QED
  BY <1>1, <1>2, <1>3, <1>4 DEF Quiet

\* It keeps the detector's state as it was, which is exact.
LEMMA QuietHB ==
  ASSUME NEW h, Quiet(h),
         \A c \in Chans : Cap[c] > 0 => Rcvd(h, c) <= Sent(h, c) /\ Sent(h, c) <= Rcvd(h, c) + Cap[c]
  PROVE  HB(h, RaceInit, {Main})
<1>1. PICK d : d = RaceInit
  OBVIOUS
<1>2. Zero \in VC /\ (\A t \in Procs : Zero[t] = 0)
  BY DEF Zero, VC
<1>3. \A t \in Procs : Birth(t) \in VC /\ \A u \in Procs : Birth(t)[u] = IF u = t THEN 1 ELSE 0
  BY <1>2 DEF Birth, VC
<1>4. PICK cl, sh, sl, ns, cv, se, at :
        /\ cl = [t \in Procs |-> Birth(t)] /\ sh = [k \in Keys \cup Chans |-> [kind \in Kinds |-> Zero]]
        /\ sl = [s \in Slots |-> Zero] /\ ns = [c \in Chans |-> 0] /\ cv = [c \in Chans |-> Zero]
        /\ se = [l \in Locks |-> Zero] /\ at = [k \in Keys |-> Zero]
  OBVIOUS
<1>5. d = State(cl, sh, sl, ns, ns, cv, se, se, at)
  BY <1>1, <1>4 DEF RaceInit, State
<1>6. /\ cl \in [Procs -> VC] /\ sl \in [Slots -> VC] /\ ns \in [Chans -> Nat]
      /\ sh \in [Keys \cup Chans -> [Kinds -> VC]]
      /\ cv \in [Chans -> VC] /\ se \in [Locks -> VC] /\ at \in [Keys -> VC]
  BY <1>2, <1>3, <1>4
<1>7. /\ d.clocks = cl /\ d.shadow = sh /\ d.slots = sl /\ d.nsend = ns /\ d.nrecv = ns
      /\ d.closeVC = cv /\ d.semA = se /\ d.semB = se /\ d.atomics = at
  BY <1>5 DEF State
<1>8. d \in RaceStates
  BY <1>5, <1>6 DEF State, RaceStates
<1>9. /\ \A t, u \in Procs : d.clocks[t][u] = IF u = t THEN 1 ELSE 0
      /\ \A k \in Keys \cup Chans, kd \in Kinds, t \in Procs : d.shadow[k][kd][t] = 0
      /\ \A s \in Slots : d.slots[s] = Zero
      /\ \A c \in Chans : d.closeVC[c] = Zero
      /\ \A l \in Locks : d.semA[l] = Zero /\ d.semB[l] = Zero
      /\ \A k \in Keys : d.atomics[k] = Zero
      /\ \A c \in Chans : d.nsend[c] = 0 /\ d.nrecv[c] = 0
  <2>1. \A t \in Procs : cl[t] = Birth(t)
    BY <1>4
  <2>2. \A k \in Keys \cup Chans, kd \in Kinds : sh[k][kd] = Zero
    BY <1>4
  <2> QED
    BY <1>2, <1>3, <1>4, <1>7, <2>1, <2>2
<1>10. Behind(Zero, d)
  BY <1>2, <1>9 DEF Behind
<1>11. \A S, vc : Covers(h, S, vc)
  BY DEF Quiet, Covers
<1>12. ThreadsOk(h, d, {Main})
  <2>1. Ahead(d, {Main})
    BY <1>9 DEF Ahead
  <2> QED
    BY <1>11, <2>1 DEF ThreadsOk
<1>13. CloseOk(h, d)
  BY <1>9, <1>10, <1>11 DEF CloseOk
<1>14. UnlockOk(h, d) /\ RUnlockOk(h, d)
  BY <1>9, <1>10, <1>11 DEF UnlockOk, RUnlockOk
<1>15. AtomicsOk(h, d)
  BY <1>9, <1>10, <1>11 DEF AtomicsOk
<1>16. SlotsOk(h, d)
  <2>1. \A s \in Slots : Behind(d.slots[s], d)
    BY <1>9, <1>10
  <2>2. ASSUME NEW c \in Chans, Cap[c] > 0
        PROVE  Counted(h, d, c)
    <3>1. SendsOk(h, d, c) /\ RecvsOk(h, d, c)
      BY <1>11 DEF SendsOk, RecvsOk
    <3>2. Cap[c] \in Nat
      BY CapAssumption
    <3>3. NumbersOk(h, d, c)
      BY <1>9, <2>2, <3>2 DEF NumbersOk, Quiet
    <3> QED
      BY <3>1, <3>3 DEF Counted
  <2> QED
    BY <2>1, <2>2 DEF SlotsOk
<1>17. Accounted(h, d, {Main})
  <2>1. /\ h \in Seq(Events) /\ {Main} \in SUBSET Procs
        /\ \A i \in DOMAIN h : /\ h[i].who \in SUBSET {Main}
                               /\ h[i].what = "go" => h[i].obj \in {Main}
                               /\ i \in h[i].past /\ h[i].past \in SUBSET (1 .. i)
    BY MainAssumption DEF Quiet
  <2>2. \A i \in DOMAIN h : i \in PastOf(h, Main)
    BY DEF Quiet, PastOf
  <2>3. ASSUME NEW i \in DOMAIN h, h[i].what = "access"
        PROVE  \E t \in {Main} : /\ h[i].who = {t} /\ h[i].obj \in Keys \cup Chans /\ h[i].kind \in Kinds
                                 /\ h[i].epoch <= d.clocks[t][t]
                                 /\ h[i].epoch <= d.shadow[h[i].obj][h[i].kind][t]
                                 /\ h[i].epoch = 0 => \A u \in {Main} : i \in PastOf(h, u)
    <3>1. /\ h[i].who = {Main} /\ h[i].epoch = 0 /\ h[i].kind \in Kinds /\ h[i].obj \in Keys \cup Chans
      BY <2>3 DEF Quiet
    <3>2. d.clocks[Main][Main] = 1 /\ d.shadow[h[i].obj][h[i].kind][Main] = 0
      BY <1>9, <3>1, MainAssumption
    <3> QED
      BY <2>2, <3>1, <3>2
  <2>4. Witnessed(h, d)
    BY <1>9 DEF Witnessed
  <2>5. \A i, j \in DOMAIN h : ~RacesIn(h, i, j)
    BY DEF Quiet, RacesIn
  <2> QED
    BY <1>8, <2>1, <2>3, <2>4, <2>5 DEF Accounted
<1>18. HB(h, d, {Main})
  BY <1>12, <1>13, <1>14, <1>15, <1>16, <1>17 DEF HB
<1> QED
  BY <1>1, <1>18

-----------------------------------------------------------------------------
(* One event of the pool. *)

\* A history that Log can extend.
Sound(h) == h \in Seq(Events) /\ Founded(h)

\* An exact detector is of its type, and so is the history.
LEMMA ExactSound ==
  ASSUME NEW h, NEW d, NEW q, Exact(h, d, q)
  PROVE  Sound(h) /\ d \in RaceStates /\ (\A t \in born : t \in Procs) /\ born \in SUBSET Procs
BY DEF Exact, HB, Accounted, Sound, Founded

\* A pool with one goroutine is the main one.
LEMMA AloneMain ==
  ASSUME PoolInv, Inert
  PROVE  born = {Main}
<1>1. Cardinality(born) \in Nat /\ IsFiniteSet(born)
  BY FS_CardinalityType DEF PoolInv
<1>2. Cardinality({Main}) = 1 /\ IsFiniteSet({Main})
  BY FS_Singleton
<1>3. {Main} \in SUBSET born
  BY DEF PoolInv
<1>4. Cardinality({Main}) <= Cardinality(born) /\ (Cardinality({Main}) = Cardinality(born) => {Main} = born)
  BY <1>1, <1>3, FS_Subset
<1> QED
  BY <1>1, <1>2, <1>4 DEF Inert

\* A race stays in the history.
LEMMA RacyLogged ==
  ASSUME NEW h, NEW g, NEW e, NEW who, NEW what, NEW obj, NEW kind, NEW epoch,
         Logged(h, g, e, who, what, obj, kind, epoch), Racy(h)
  PROVE  Racy(g)
<1>1. Extends(h, g, e)
  BY DEF Logged
<1> QED
  BY <1>1, RacesRemain

\* Only sends and receives change what is queued.
LEMMA QueuedKept ==
  ASSUME NEW h, NEW g, NEW e, NEW who, NEW what, NEW obj, NEW kind, NEW epoch,
         Logged(h, g, e, who, what, obj, kind, epoch), what \notin {"send", "recv"},
         NEW q, Queued(h, q)
  PROVE  Queued(g, q)
<1>1. \A c : Sent(g, c) = Sent(h, c) /\ Rcvd(g, c) = Rcvd(h, c)
  BY SentMoves
<1> QED
  BY <1>1 DEF Queued

More(q, p, c) == p = [q EXCEPT ![c] = @ + 1]
Less(q, p, c) == p = [q EXCEPT ![c] = @ - 1]

\* The buffer's length after a send,
LEMMA QueuedSend ==
  ASSUME NEW h, NEW g, NEW e, NEW who, NEW c \in Chans, NEW kind, NEW epoch,
         Logged(h, g, e, who, "send", c, kind, epoch),
         NEW q, Queued(h, q), q[c] < Cap[c], NEW p, More(q, p, c)
  PROVE  Queued(g, p)
<1>1. \A a \in Chans : /\ Sent(g, a) = IF a = c THEN Sent(h, a) + 1 ELSE Sent(h, a)
                       /\ Rcvd(g, a) = Rcvd(h, a) /\ Sent(h, a) \in Nat /\ Rcvd(h, a) \in Nat
  BY SentMoves
<1>3. \A a \in Chans : Cap[a] \in Nat /\ q[a] \in Nat
  BY CapAssumption DEF Queued
<1>2. p \in [Chans -> Nat] /\ \A a \in Chans : p[a] = IF a = c THEN q[a] + 1 ELSE q[a]
  BY <1>3 DEF Queued, More
<1>4. ASSUME NEW a \in Chans
      PROVE  p[a] <= Cap[a] /\ (Cap[a] > 0 => Sent(g, a) = Rcvd(g, a) + p[a])
  <2>1. q[a] <= Cap[a] /\ (Cap[a] > 0 => Sent(h, a) = Rcvd(h, a) + q[a])
    BY DEF Queued
  <2> QED
    BY <1>1, <1>2, <1>3, <2>1
<1> QED
  BY <1>2, <1>4 DEF Queued

\* and after a receive.
LEMMA QueuedRecv ==
  ASSUME NEW h, NEW g, NEW e, NEW who, NEW c \in Chans, NEW kind, NEW epoch,
         Logged(h, g, e, who, "recv", c, kind, epoch),
         NEW q, Queued(h, q), q[c] > 0, NEW p, Less(q, p, c)
  PROVE  Queued(g, p)
<1>1. \A a \in Chans : /\ Rcvd(g, a) = IF a = c THEN Rcvd(h, a) + 1 ELSE Rcvd(h, a)
                       /\ Sent(g, a) = Sent(h, a) /\ Sent(h, a) \in Nat /\ Rcvd(h, a) \in Nat
  BY SentMoves
<1>3. \A a \in Chans : Cap[a] \in Nat /\ q[a] \in Nat
  BY CapAssumption DEF Queued
<1>2. p \in [Chans -> Nat] /\ \A a \in Chans : p[a] = IF a = c THEN q[a] - 1 ELSE q[a]
  BY <1>3 DEF Queued, Less
<1>4. ASSUME NEW a \in Chans
      PROVE  p[a] <= Cap[a] /\ (Cap[a] > 0 => Sent(g, a) = Rcvd(g, a) + p[a])
  <2>1. q[a] <= Cap[a] /\ (Cap[a] > 0 => Sent(h, a) = Rcvd(h, a) + q[a])
    BY DEF Queued
  <2> QED
    BY <1>1, <1>2, <1>3, <2>1
<1> QED
  BY <1>2, <1>4 DEF Queued

\* An event keeps the state exact: the detector's when it looks, and that of
\* the pool of one goroutine when it does not.
LEMMA ExactEvent ==
  ASSUME PoolInv, NEW h, NEW g, NEW e, NEW t \in born, NEW what, NEW obj, NEW kind, NEW epoch,
         Logged(h, g, e, {t}, what, obj, kind, epoch), what # "go",
         what = "access" => kind \in Kinds /\ obj \in Keys \cup Chans,
         NEW d, NEW q, Exact(h, d, q), NEW p, Queued(g, p),
         NEW x, ~Inert => HB(g, x, born), NEW z, z = IF Inert THEN d ELSE x,
         Inert => epoch = 0 /\ \A c \in Chans : Cap[c] > 1 /\ obj = c => what \notin {"send", "recv"}
  PROVE  Exact(g, z, p)
<1>1. CASE ~Inert
  BY <1>1 DEF Exact
<1>2. CASE Inert
  <2>1. born = {Main} /\ t = Main /\ Quiet(h) /\ d = RaceInit /\ z = RaceInit
    BY <1>2, AloneMain DEF Exact
  <2>2. Quiet(g)
    <3>1. Logged(h, g, e, {Main}, what, obj, kind, 0)
      BY <1>2, <2>1
    <3> QED
      BY <1>2, <2>1, <3>1, QuietLog
  <2>3. \A c \in Chans : Cap[c] > 0 => Rcvd(g, c) <= Sent(g, c) /\ Sent(g, c) <= Rcvd(g, c) + Cap[c]
    <3> TAKE c \in Chans
    <3>1. Rcvd(g, c) \in Nat /\ p[c] \in Nat /\ Cap[c] \in Nat
      BY SentType, CapAssumption DEF Queued, Logged, Extends
    <3>2. p[c] <= Cap[c] /\ (Cap[c] > 0 => Sent(g, c) = Rcvd(g, c) + p[c])
      BY DEF Queued
    <3> QED
      BY <3>1, <3>2
  <2>4. HB(g, RaceInit, {Main})
    BY <2>2, <2>3, QuietHB
  <2> QED
    BY <2>1, <2>2, <2>4 DEF Exact
<1> QED
  BY <1>1, <1>2

-----------------------------------------------------------------------------
(* The events of the pool's steps: an access, and each kind of            *)
(* synchronization.                                                       *)

\* A refused access makes the history racy, any other keeps the state exact.
LEMMA ExactAccess ==
  ASSUME PoolInv, NEW h, NEW d, NEW q, Exact(h, d, q), NEW t \in born,
         NEW kind \in Kinds, NEW k \in Keys \cup Chans,
         NEW g, g = LogAccess(h, d, t, kind, k),
         NEW z, z = IF Inert THEN d ELSE Record(d, t, kind, k)
  PROVE  /\ Sound(g)
         /\ ~Inert /\ Conflict(d, t, kind, k) => Racy(g)
         /\ Inert \/ ~Conflict(d, t, kind, k) => Exact(g, z, q)
<1>1. Sound(h) /\ d \in RaceStates /\ t \in Procs /\ HB(h, d, born) /\ Queued(h, q)
  BY ExactSound DEF Exact
<1>2. PICK epoch : epoch = IF Inert THEN 0 ELSE d.clocks[t][t]
  OBVIOUS
<1>3. epoch \in Nat
  BY <1>1, <1>2 DEF RaceStates, VC
<1>4. g = Log(h, {t}, "access", k, kind, epoch)
  BY <1>2 DEF LogAccess
<1>5. PICK e : Logged(h, g, e, {t}, "access", k, kind, epoch)
  <2>1. h \in Seq(Events) /\ Founded(h) /\ {t} \in SUBSET Procs /\ "access" \in Whats /\ k \in Objs
        /\ kind \in Kinds \cup {"none"}
    BY <1>1 DEF Sound, Whats, Objs
  <2> QED
    BY <1>3, <1>4, <2>1, LogLogged
<1>6. Sound(g)
  BY <1>5 DEF Logged, Extends, Sound
<1>7. ASSUME ~Inert, Conflict(d, t, kind, k)
      PROVE  Racy(g)
  BY <1>1, <1>5, <1>7, ConflictRaces DEF Racy
<1>8. ASSUME Inert \/ ~Conflict(d, t, kind, k)
      PROVE  Exact(g, z, q)
  <2>1. Queued(g, q)
    BY <1>1, <1>5, QueuedKept
  <2>2. PICK x : x = Record(d, t, kind, k)
    OBVIOUS
  <2>3. ~Inert => HB(g, x, born)
    BY <1>1, <1>2, <1>5, <1>8, <2>2, AccessHB
  <2>4. z = IF Inert THEN d ELSE x
    BY <2>2
  <2>5. Inert => epoch = 0
    BY <1>2
  <2> QED
    BY <1>5, <2>1, <2>3, <2>4, <2>5, ExactEvent
<1> QED
  BY <1>6, <1>7, <1>8

\* A history goes on after a step's access.
LEMMA SyncLogged ==
  ASSUME NEW h, Sound(h), NEW t \in Procs, NEW what \in Whats, NEW obj \in Objs,
         NEW g, g = LogSync(h, t, what, obj)
  PROVE  \E e : Logged(h, g, e, {t}, what, obj, "none", 0)
<1>1. g = Log(h, {t}, what, obj, "none", 0)
  BY DEF LogSync
<1>2. h \in Seq(Events) /\ Founded(h) /\ {t} \in SUBSET Procs /\ "none" \in Kinds \cup {"none"} /\ 0 \in Nat
  BY DEF Sound
<1> QED
  BY <1>1, <1>2, LogLogged

\* A synchronising event is logged soundly and hides no race.
LEMMA RacySync ==
  ASSUME NEW h, Sound(h), NEW t \in Procs, NEW what \in Whats, NEW obj \in Objs,
         NEW g, g = LogSync(h, t, what, obj)
  PROVE  Sound(g) /\ (Racy(h) => Racy(g))
<1>1. PICK e : Logged(h, g, e, {t}, what, obj, "none", 0)
  BY SyncLogged
<1>2. Racy(h) => Racy(g)
  BY <1>1, RacyLogged
<1>3. Sound(g)
  BY <1>1 DEF Logged, Extends, Sound
<1> QED
  BY <1>2, <1>3

\* Lock keeps the detector exact, also while it is idle.
LEMMA ExactLock ==
  ASSUME PoolInv, NEW h, NEW d, NEW q, Exact(h, d, q), NEW t \in born, NEW l \in Locks,
         NEW g, g = LogSync(h, t, "lock", l),
         NEW z, z = IF Inert THEN d ELSE LockOp(d, t, l)
  PROVE  Exact(g, z, q)
<1>1. Sound(h) /\ t \in Procs /\ HB(h, d, born) /\ Queued(h, q)
  BY ExactSound DEF Exact
<1>2. "lock" \in Whats /\ l \in Objs /\ "lock" \notin {"send", "recv", "go", "access"}
  BY DEF Whats, Objs
<1>3. PICK e : Logged(h, g, e, {t}, "lock", l, "none", 0)
  BY <1>1, <1>2, SyncLogged
<1>4. PICK x : x = LockOp(d, t, l)
  OBVIOUS
<1>5. HB(g, x, born) /\ Queued(g, q)
  BY <1>1, <1>2, <1>3, <1>4, LockHB, QueuedKept
<1>6. z = IF Inert THEN d ELSE x
  BY <1>4
<1> QED
  BY <1>2, <1>3, <1>5, <1>6, ExactEvent

\* So does RLock,
LEMMA ExactRLock ==
  ASSUME PoolInv, NEW h, NEW d, NEW q, Exact(h, d, q), NEW t \in born, NEW l \in Locks,
         NEW g, g = LogSync(h, t, "rlock", l),
         NEW z, z = IF Inert THEN d ELSE RLockOp(d, t, l)
  PROVE  Exact(g, z, q)
<1>1. Sound(h) /\ t \in Procs /\ HB(h, d, born) /\ Queued(h, q)
  BY ExactSound DEF Exact
<1>2. "rlock" \in Whats /\ l \in Objs /\ "rlock" \notin {"send", "recv", "go", "access"}
  BY DEF Whats, Objs
<1>3. PICK e : Logged(h, g, e, {t}, "rlock", l, "none", 0)
  BY <1>1, <1>2, SyncLogged
<1>4. PICK x : x = RLockOp(d, t, l)
  OBVIOUS
<1>5. HB(g, x, born) /\ Queued(g, q)
  BY <1>1, <1>2, <1>3, <1>4, RLockHB, QueuedKept
<1>6. z = IF Inert THEN d ELSE x
  BY <1>4
<1> QED
  BY <1>2, <1>3, <1>5, <1>6, ExactEvent

\* Unlock,
LEMMA ExactUnlock ==
  ASSUME PoolInv, NEW h, NEW d, NEW q, Exact(h, d, q), NEW t \in born, NEW l \in Locks,
         NEW g, g = LogSync(h, t, "unlock", l),
         NEW z, z = IF Inert THEN d ELSE UnlockOp(d, t, l)
  PROVE  Exact(g, z, q)
<1>1. Sound(h) /\ t \in Procs /\ HB(h, d, born) /\ Queued(h, q)
  BY ExactSound DEF Exact
<1>2. "unlock" \in Whats /\ l \in Objs /\ "unlock" \notin {"send", "recv", "go", "access"}
  BY DEF Whats, Objs
<1>3. PICK e : Logged(h, g, e, {t}, "unlock", l, "none", 0)
  BY <1>1, <1>2, SyncLogged
<1>4. PICK x : x = UnlockOp(d, t, l)
  OBVIOUS
<1>5. HB(g, x, born) /\ Queued(g, q)
  BY <1>1, <1>2, <1>3, <1>4, UnlockHB, QueuedKept
<1>6. z = IF Inert THEN d ELSE x
  BY <1>4
<1> QED
  BY <1>2, <1>3, <1>5, <1>6, ExactEvent

\* RUnlock,
LEMMA ExactRUnlock ==
  ASSUME PoolInv, NEW h, NEW d, NEW q, Exact(h, d, q), NEW t \in born, NEW l \in Locks,
         NEW g, g = LogSync(h, t, "runlock", l),
         NEW z, z = IF Inert THEN d ELSE RUnlockOp(d, t, l)
  PROVE  Exact(g, z, q)
<1>1. Sound(h) /\ t \in Procs /\ HB(h, d, born) /\ Queued(h, q)
  BY ExactSound DEF Exact
<1>2. "runlock" \in Whats /\ l \in Objs /\ "runlock" \notin {"send", "recv", "go", "access"}
  BY DEF Whats, Objs
<1>3. PICK e : Logged(h, g, e, {t}, "runlock", l, "none", 0)
  BY <1>1, <1>2, SyncLogged
<1>4. PICK x : x = RUnlockOp(d, t, l)
  OBVIOUS
<1>5. HB(g, x, born) /\ Queued(g, q)
  BY <1>1, <1>2, <1>3, <1>4, RUnlockHB, QueuedKept
<1>6. z = IF Inert THEN d ELSE x
  BY <1>4
<1> QED
  BY <1>2, <1>3, <1>5, <1>6, ExactEvent

\* an atomic load,
LEMMA ExactObserve ==
  ASSUME PoolInv, NEW h, NEW d, NEW q, Exact(h, d, q), NEW t \in born, NEW k \in Keys,
         NEW g, g = LogSync(h, t, "observe", k),
         NEW z, z = IF Inert THEN d ELSE AtomicAcquire(d, t, k)
  PROVE  Exact(g, z, q)
<1>1. Sound(h) /\ t \in Procs /\ HB(h, d, born) /\ Queued(h, q)
  BY ExactSound DEF Exact
<1>2. "observe" \in Whats /\ k \in Objs /\ "observe" \notin {"send", "recv", "go", "access"}
  BY DEF Whats, Objs
<1>3. PICK e : Logged(h, g, e, {t}, "observe", k, "none", 0)
  BY <1>1, <1>2, SyncLogged
<1>4. PICK x : x = AtomicAcquire(d, t, k)
  OBVIOUS
<1>5. HB(g, x, born) /\ Queued(g, q)
  BY <1>1, <1>2, <1>3, <1>4, ObserveHB, QueuedKept
<1>6. z = IF Inert THEN d ELSE x
  BY <1>4
<1> QED
  BY <1>2, <1>3, <1>5, <1>6, ExactEvent

\* an atomic store,
LEMMA ExactStore ==
  ASSUME PoolInv, NEW h, NEW d, NEW q, Exact(h, d, q), NEW t \in born, NEW k \in Keys,
         NEW g, g = LogSync(h, t, "store", k),
         NEW z, z = IF Inert THEN d ELSE AtomicReleaseStore(d, t, k)
  PROVE  Exact(g, z, q)
<1>1. Sound(h) /\ t \in Procs /\ HB(h, d, born) /\ Queued(h, q)
  BY ExactSound DEF Exact
<1>2. "store" \in Whats /\ k \in Objs /\ "store" \notin {"send", "recv", "go", "access"}
  BY DEF Whats, Objs
<1>3. PICK e : Logged(h, g, e, {t}, "store", k, "none", 0)
  BY <1>1, <1>2, SyncLogged
<1>4. PICK x : x = AtomicReleaseStore(d, t, k)
  OBVIOUS
<1>5. HB(g, x, born) /\ Queued(g, q)
  BY <1>1, <1>2, <1>3, <1>4, StoreHB, QueuedKept
<1>6. z = IF Inert THEN d ELSE x
  BY <1>4
<1> QED
  BY <1>2, <1>3, <1>5, <1>6, ExactEvent

\* an atomic read-modify-write,
LEMMA ExactRmw ==
  ASSUME PoolInv, NEW h, NEW d, NEW q, Exact(h, d, q), NEW t \in born, NEW k \in Keys,
         NEW g, g = LogSync(h, t, "rmw", k),
         NEW z, z = IF Inert THEN d ELSE AtomicReleaseAcquire(d, t, k)
  PROVE  Exact(g, z, q)
<1>1. Sound(h) /\ t \in Procs /\ HB(h, d, born) /\ Queued(h, q)
  BY ExactSound DEF Exact
<1>2. "rmw" \in Whats /\ k \in Objs /\ "rmw" \notin {"send", "recv", "go", "access"}
  BY DEF Whats, Objs
<1>3. PICK e : Logged(h, g, e, {t}, "rmw", k, "none", 0)
  BY <1>1, <1>2, SyncLogged
<1>4. PICK x : x = AtomicReleaseAcquire(d, t, k)
  OBVIOUS
<1>5. HB(g, x, born) /\ Queued(g, q)
  BY <1>1, <1>2, <1>3, <1>4, RmwHB, QueuedKept
<1>6. z = IF Inert THEN d ELSE x
  BY <1>4
<1> QED
  BY <1>2, <1>3, <1>5, <1>6, ExactEvent

\* close,
LEMMA ExactClose ==
  ASSUME PoolInv, NEW h, NEW d, NEW q, Exact(h, d, q), NEW t \in born, NEW c \in Chans,
         NEW g, g = LogSync(h, t, "close", c),
         NEW z, z = IF Inert THEN d ELSE CloseOp(d, t, c)
  PROVE  Exact(g, z, q)
<1>1. Sound(h) /\ t \in Procs /\ HB(h, d, born) /\ Queued(h, q)
  BY ExactSound DEF Exact
<1>2. "close" \in Whats /\ c \in Objs /\ "close" \notin {"send", "recv", "go", "access"}
  BY DEF Whats, Objs
<1>3. PICK e : Logged(h, g, e, {t}, "close", c, "none", 0)
  BY <1>1, <1>2, SyncLogged
<1>4. PICK x : x = CloseOp(d, t, c)
  OBVIOUS
<1>5. HB(g, x, born) /\ Queued(g, q)
  BY <1>1, <1>2, <1>3, <1>4, CloseHB, QueuedKept
<1>6. z = IF Inert THEN d ELSE x
  BY <1>4
<1> QED
  BY <1>2, <1>3, <1>5, <1>6, ExactEvent

\* a receive of the zero value,
LEMMA ExactZero ==
  ASSUME PoolInv, NEW h, NEW d, NEW q, Exact(h, d, q), NEW t \in born, NEW c \in Chans,
         NEW g, g = LogSync(h, t, "zero", c),
         NEW z, z = IF Inert THEN d ELSE CloseAcquire(d, t, c)
  PROVE  Exact(g, z, q)
<1>1. Sound(h) /\ t \in Procs /\ HB(h, d, born) /\ Queued(h, q)
  BY ExactSound DEF Exact
<1>2. "zero" \in Whats /\ c \in Objs /\ "zero" \notin {"send", "recv", "go", "access"}
  BY DEF Whats, Objs
<1>3. PICK e : Logged(h, g, e, {t}, "zero", c, "none", 0)
  BY <1>1, <1>2, SyncLogged
<1>4. PICK x : x = CloseAcquire(d, t, c)
  OBVIOUS
<1>5. HB(g, x, born) /\ Queued(g, q)
  BY <1>1, <1>2, <1>3, <1>4, ZeroHB, QueuedKept
<1>6. z = IF Inert THEN d ELSE x
  BY <1>4
<1> QED
  BY <1>2, <1>3, <1>5, <1>6, ExactEvent

\* a buffered send, with at most one slot while the detector is idle,
LEMMA ExactSend ==
  ASSUME PoolInv, NEW h, NEW d, NEW q, Exact(h, d, q), NEW t \in born, NEW c \in Chans,
         q[c] < Cap[c], Inert => Cap[c] <= 1,
         NEW g, g = LogSync(h, t, "send", c), NEW p, More(q, p, c),
         NEW z, z = IF Inert THEN d ELSE SendSlot(d, t, c)
  PROVE  Exact(g, z, p)
<1>1. Sound(h) /\ t \in Procs /\ HB(h, d, born) /\ Queued(h, q) /\ h \in Seq(Events)
  BY ExactSound DEF Exact, Sound
<1>2. "send" \in Whats /\ c \in Objs /\ "send" \notin {"go", "access"}
  BY DEF Whats, Objs
<1>3. PICK e : Logged(h, g, e, {t}, "send", c, "none", 0)
  BY <1>1, <1>2, SyncLogged
<1>4. PICK x : x = SendSlot(d, t, c)
  OBVIOUS
<1>5. Sent(h, c) < Rcvd(h, c) + Cap[c] /\ Rcvd(h, c) <= Sent(h, c)
  <2>1. Rcvd(h, c) \in Nat /\ Sent(h, c) \in Nat /\ q[c] \in Nat /\ Cap[c] \in Nat
    BY <1>1, SentType, CapAssumption DEF Queued
  <2>2. q[c] <= Cap[c] /\ (Cap[c] > 0 => Sent(h, c) = Rcvd(h, c) + q[c])
    BY <1>1 DEF Queued
  <2> QED
    BY <2>1, <2>2
<1>6. HB(g, x, born)
  BY <1>1, <1>3, <1>4, <1>5, SendHB
<1>7. Queued(g, p)
  BY <1>1, <1>3, QueuedSend
<1>8. z = IF Inert THEN d ELSE x
  BY <1>4
<1>9. Inert => \A a \in Chans : Cap[a] > 1 /\ c = a => "send" \notin {"send", "recv"}
  BY CapAssumption
<1> QED
  BY <1>2, <1>3, <1>6, <1>7, <1>8, <1>9, ExactEvent

\* and a buffered receive, likewise.
LEMMA ExactRecv ==
  ASSUME PoolInv, NEW h, NEW d, NEW q, Exact(h, d, q), NEW t \in born, NEW c \in Chans,
         q[c] > 0, Inert => Cap[c] <= 1,
         NEW g, g = LogSync(h, t, "recv", c), NEW p, Less(q, p, c),
         NEW z, z = IF Inert THEN d ELSE RecvSlot(d, t, c)
  PROVE  Exact(g, z, p)
<1>1. Sound(h) /\ t \in Procs /\ HB(h, d, born) /\ Queued(h, q) /\ h \in Seq(Events)
  BY ExactSound DEF Exact, Sound
<1>2. "recv" \in Whats /\ c \in Objs /\ "recv" \notin {"go", "access"}
  BY DEF Whats, Objs
<1>3. PICK e : Logged(h, g, e, {t}, "recv", c, "none", 0)
  BY <1>1, <1>2, SyncLogged
<1>4. PICK x : x = RecvSlot(d, t, c)
  OBVIOUS
<1>5. Rcvd(h, c) < Sent(h, c) /\ Sent(h, c) <= Rcvd(h, c) + Cap[c]
  <2>1. Rcvd(h, c) \in Nat /\ Sent(h, c) \in Nat /\ q[c] \in Nat /\ Cap[c] \in Nat
    BY <1>1, SentType, CapAssumption DEF Queued
  <2>2. q[c] <= Cap[c] /\ (Cap[c] > 0 => Sent(h, c) = Rcvd(h, c) + q[c])
    BY <1>1 DEF Queued
  <2> QED
    BY <2>1, <2>2
<1>6. HB(g, x, born)
  BY <1>1, <1>3, <1>4, <1>5, RecvHB
<1>7. Queued(g, p)
  BY <1>1, <1>3, QueuedRecv
<1>8. z = IF Inert THEN d ELSE x
  BY <1>4
<1>9. Inert => \A a \in Chans : Cap[a] > 1 /\ c = a => "recv" \notin {"send", "recv"}
  BY CapAssumption
<1> QED
  BY <1>2, <1>3, <1>6, <1>7, <1>8, <1>9, ExactEvent

\* Two goroutines meet, so the detector looks.
LEMMA ExactMeet ==
  ASSUME NEW h, NEW d, NEW q, Exact(h, d, q), NEW t \in born, NEW u \in born, t # u,
         NEW c \in Chans, ~Inert,
         NEW g, g = Log(h, {t, u}, "meet", c, "none", 0), NEW z, z = Rendezvous(d, t, u)
  PROVE  Exact(g, z, q)
<1>1. Sound(h) /\ t \in Procs /\ u \in Procs /\ HB(h, d, born) /\ Queued(h, q)
  BY ExactSound DEF Exact
<1>2. PICK e : Logged(h, g, e, {t, u}, "meet", c, "none", 0)
  <2>1. h \in Seq(Events) /\ Founded(h) /\ {t, u} \in SUBSET Procs /\ "none" \in Kinds \cup {"none"}
        /\ 0 \in Nat /\ "meet" \in Whats /\ c \in Objs
    BY <1>1 DEF Sound, Whats, Objs
  <2> QED
    BY <2>1, LogLogged
<1>3. HB(g, z, born) /\ Queued(g, q)
  BY <1>1, <1>2, MeetHB, QueuedKept
<1> QED
  BY <1>3 DEF Exact


-----------------------------------------------------------------------------
(* The steps. *)

\* After a step: the run was refused and its history is racy, or it goes on.
Settled(s, h, d, q) ==
  \/ s = "raceDetected" /\ Racy(h)
  \/ s = "running" /\ Exact(h, d, q)

\* The hypothesis of the theorems: if main uses buffered channels before any go
\* statement, they have one slot.  raceUpdate ignores those uses, and the
\* detector's slot counters then disagree with the channel's.
OneEarlySlot == EarlySlots => \A c \in Chans : Cap[c] <= 1

\* A goroutine that can step is one of a running pool with an exact detector.
LEMMA AbleExact ==
  ASSUME RaceInv, NEW t, Able(t)
  PROVE  PoolInv /\ Exact(hist, r, queued) /\ t \in born /\ t \in Procs /\ status = "running"
         /\ Sound(hist) /\ parked[t] = None
<1>1. PoolInv /\ Exact(hist, r, queued) /\ t \in born /\ status = "running" /\ parked[t] = None
  BY DEF RaceInv, Able
<1> QED
  BY <1>1, ExactSound

\* Lock leaves an exact detector or a verdict.
LEMMA LockStep ==
  ASSUME RaceInv, NEW t, NEW l \in Locks, Lock(t, l)
  PROVE  Settled(status', hist', r', queued')
<1>1. PoolInv /\ Exact(hist, r, queued) /\ t \in born /\ status = "running"
  BY AbleExact DEF Lock
<1>2. hist' = LogSync(hist, t, "lock", l) /\ status' = status /\ queued' = queued
  BY DEF Lock, RaceUpdate, cellVars
<1>3. r' = IF Inert THEN r ELSE LockOp(r, t, l)
  BY DEF Lock, RaceUpdate, LockOp, SyncAcquire
<1>4. Exact(hist', r', queued)
  BY <1>1, <1>2, <1>3, ExactLock
<1> QED
  BY <1>1, <1>2, <1>4 DEF Settled

\* So does RLock,
LEMMA RLockStep ==
  ASSUME RaceInv, NEW t, NEW l \in Locks, RLock(t, l)
  PROVE  Settled(status', hist', r', queued')
<1>1. PoolInv /\ Exact(hist, r, queued) /\ t \in born /\ status = "running"
  BY AbleExact DEF RLock
<1>2. hist' = LogSync(hist, t, "rlock", l) /\ status' = status /\ queued' = queued
  BY DEF RLock, RaceUpdate, cellVars
<1>3. r' = IF Inert THEN r ELSE RLockOp(r, t, l)
  BY DEF RLock, RaceUpdate, RLockOp, SyncAcquire
<1>4. Exact(hist', r', queued)
  BY <1>1, <1>2, <1>3, ExactRLock
<1> QED
  BY <1>1, <1>2, <1>4 DEF Settled

\* Unlock,
LEMMA UnlockStep ==
  ASSUME RaceInv, NEW t, NEW l \in Locks, Unlock(t, l)
  PROVE  Settled(status', hist', r', queued')
<1>1. PoolInv /\ Exact(hist, r, queued) /\ t \in born /\ status = "running"
  BY AbleExact DEF Unlock
<1>2. hist' = LogSync(hist, t, "unlock", l) /\ status' = status /\ queued' = queued
  BY DEF Unlock, RaceUpdate, cellVars
<1>3. r' = IF Inert THEN r ELSE UnlockOp(r, t, l)
  BY DEF Unlock, RaceUpdate, UnlockOp, SyncRelease
<1>4. Exact(hist', r', queued)
  BY <1>1, <1>2, <1>3, ExactUnlock
<1> QED
  BY <1>1, <1>2, <1>4 DEF Settled

\* RUnlock,
LEMMA RUnlockStep ==
  ASSUME RaceInv, NEW t, NEW l \in Locks, RUnlock(t, l)
  PROVE  Settled(status', hist', r', queued')
<1>1. PoolInv /\ Exact(hist, r, queued) /\ t \in born /\ status = "running"
  BY AbleExact DEF RUnlock
<1>2. hist' = LogSync(hist, t, "runlock", l) /\ status' = status /\ queued' = queued
  BY DEF RUnlock, RaceUpdate, cellVars
<1>3. r' = IF Inert THEN r ELSE RUnlockOp(r, t, l)
  BY DEF RUnlock, RaceUpdate, RUnlockOp, SyncRelease
<1>4. Exact(hist', r', queued)
  BY <1>1, <1>2, <1>3, ExactRUnlock
<1> QED
  BY <1>1, <1>2, <1>4 DEF Settled

\* a receive of the zero value,
LEMMA ReceiveZeroStep ==
  ASSUME RaceInv, NEW t, NEW c \in Chans, ReceiveZero(t, c)
  PROVE  Settled(status', hist', r', queued')
<1>1. PoolInv /\ Exact(hist, r, queued) /\ t \in born /\ status = "running"
  BY AbleExact DEF ReceiveZero
<1>2. hist' = LogSync(hist, t, "zero", c) /\ status' = status /\ queued' = queued
  BY DEF ReceiveZero, RaceUpdate, cellVars
<1>3. r' = IF Inert THEN r ELSE CloseAcquire(r, t, c)
  BY DEF ReceiveZero, RaceUpdate
<1>4. Exact(hist', r', queued)
  BY <1>1, <1>2, <1>3, ExactZero
<1> QED
  BY <1>1, <1>2, <1>4 DEF Settled

\* Steps that access memory and nothing else.
LEMMA AccessSettles ==
  ASSUME PoolInv, Exact(hist, r, queued), status = "running", NEW t \in born,
         NEW kind \in Kinds, NEW k \in Keys \cup Chans,
         RaceUpdate(Conflict(r, t, kind, k), Record(r, t, kind, k), LogAccess(hist, r, t, kind, k)),
         queued' = queued
  PROVE  Settled(status', hist', r', queued')
<1>1. PICK z : z = IF Inert THEN r ELSE Record(r, t, kind, k)
  OBVIOUS
<1>2. hist' = LogAccess(hist, r, t, kind, k)
  BY DEF RaceUpdate
<1>3. /\ ~Inert /\ Conflict(r, t, kind, k) => Racy(hist')
      /\ Inert \/ ~Conflict(r, t, kind, k) => Exact(hist', z, queued)
  BY <1>1, <1>2, ExactAccess
<1>4. CASE ~Inert /\ Conflict(r, t, kind, k)
  BY <1>3, <1>4 DEF Settled, RaceUpdate
<1>5. CASE Inert \/ ~Conflict(r, t, kind, k)
  <2>1. r' = z /\ status' = status
    BY <1>1, <1>5 DEF RaceUpdate
  <2> QED
    BY <1>3, <1>5, <2>1 DEF Settled
<1> QED
  BY <1>4, <1>5

\* a plain access,
LEMMA AccessStep ==
  ASSUME RaceInv, NEW t, NEW kind \in {"read", "write"}, NEW k \in Keys, Access(t, kind, k)
  PROVE  Settled(status', hist', r', queued')
<1>1. PoolInv /\ Exact(hist, r, queued) /\ t \in born /\ status = "running"
  BY AbleExact DEF Access
<1>2. kind \in Kinds /\ k \in Keys \cup Chans
  BY DEF Kinds
<1>3. /\ RaceUpdate(Conflict(r, t, kind, k), Record(r, t, kind, k), LogAccess(hist, r, t, kind, k))
      /\ queued' = queued
  BY DEF Access, cellVars
<1> QED
  BY <1>1, <1>2, <1>3, AccessSettles

\* parking at a send,
LEMMA ParkSendStep ==
  ASSUME RaceInv, NEW t, NEW k \in Chans, ParkSend(t, k)
  PROVE  Settled(status', hist', r', queued')
<1>1. PoolInv /\ Exact(hist, r, queued) /\ t \in born /\ status = "running"
  BY AbleExact DEF ParkSend
<1>2. "read" \in Kinds /\ k \in Keys \cup Chans
  BY DEF Kinds
<1>3. /\ RaceUpdate(Conflict(r, t, "read", k), Record(r, t, "read", k), LogAccess(hist, r, t, "read", k))
      /\ queued' = queued
  BY DEF ParkSend, cellVars
<1> QED
  BY <1>1, <1>2, <1>3, AccessSettles

\* a poll without a communication,
LEMMA PollStep ==
  ASSUME RaceInv, NEW t, NEW k \in Chans, Poll(t, k)
  PROVE  Settled(status', hist', r', queued')
<1>1. PoolInv /\ Exact(hist, r, queued) /\ t \in born /\ status = "running"
  BY AbleExact DEF Poll
<1>2. "read" \in Kinds /\ k \in Keys \cup Chans
  BY DEF Kinds
<1>3. /\ RaceUpdate(Conflict(r, t, "read", k), Record(r, t, "read", k), LogAccess(hist, r, t, "read", k))
      /\ queued' = queued
  BY DEF Poll, cellVars
<1> QED
  BY <1>1, <1>2, <1>3, AccessSettles

\* Steps that access memory and then synchronize.
LEMMA ThenSettles ==
  ASSUME PoolInv, Exact(hist, r, queued), status = "running", NEW t \in born,
         NEW kind \in Kinds, NEW k \in Keys \cup Chans, NEW what \in Whats, NEW d, NEW g, NEW q,
         g = LogAccess(hist, r, t, kind, k),
         RaceUpdate(Conflict(r, t, kind, k), d, LogSync(g, t, what, k)),
         NEW z, z = IF Inert THEN r ELSE Record(r, t, kind, k), NEW y, y = IF Inert THEN r ELSE d,
         Exact(g, z, queued) => Exact(hist', y, q)
  PROVE  Settled(status', hist', r', q)
<1>2. hist' = LogSync(g, t, what, k) /\ t \in Procs /\ k \in Objs
  BY ExactSound DEF RaceUpdate, Objs
<1>3. /\ ~Inert /\ Conflict(r, t, kind, k) => Racy(g)
      /\ Inert \/ ~Conflict(r, t, kind, k) => Exact(g, z, queued)
      /\ Sound(g)
  BY ExactAccess
<1>4. CASE ~Inert /\ Conflict(r, t, kind, k)
  <2>1. Racy(hist')
    BY <1>2, <1>3, <1>4, RacySync
  <2> QED
    BY <1>4, <2>1 DEF Settled, RaceUpdate
<1>5. CASE Inert \/ ~Conflict(r, t, kind, k)
  <2>1. r' = y /\ status' = status
    BY <1>5 DEF RaceUpdate
  <2>2. Exact(hist', y, q)
    BY <1>3, <1>5
  <2> QED
    BY <2>1, <2>2 DEF Settled
<1> QED
  BY <1>4, <1>5


\* an atomic store,
LEMMA StoreStep ==
  ASSUME RaceInv, NEW t, NEW k \in Keys, AtomicWrite(t, k, "store")
  PROVE  Settled(status', hist', r', queued')
<1>1. PoolInv /\ Exact(hist, r, queued) /\ t \in born /\ status = "running"
  BY AbleExact DEF AtomicWrite
<1>2. "atomicWrite" \in Kinds /\ k \in Keys \cup Chans /\ "store" \in Whats
  BY DEF Kinds, Whats
<1>3. PICK g, z, y :
        /\ g = LogAccess(hist, r, t, "atomicWrite", k)
        /\ z = IF Inert THEN r ELSE Record(r, t, "atomicWrite", k)
        /\ y = IF Inert THEN r ELSE AtomicReleaseStore(Record(r, t, "atomicWrite", k), t, k)
  OBVIOUS
<1>4. /\ RaceUpdate(Conflict(r, t, "atomicWrite", k), AtomicReleaseStore(Record(r, t, "atomicWrite", k), t, k),
                    LogSync(g, t, "store", k))
      /\ queued' = queued
  BY <1>3 DEF AtomicWrite, cellVars
<1>5. hist' = LogSync(g, t, "store", k)
  BY <1>4 DEF RaceUpdate
<1>6. y = IF Inert THEN z ELSE AtomicReleaseStore(z, t, k)
  BY <1>3
<1>7. ASSUME Exact(g, z, queued)
      PROVE  Exact(hist', y, queued')
  BY <1>1, <1>4, <1>5, <1>6, <1>7, ExactStore
<1>8. Settled(status', hist', r', queued')
  BY <1>1, <1>2, <1>3, <1>4, <1>7, ThenSettles
<1> QED
  BY <1>8

\* An atomic write that is refused before it acquires: the access it meets is
\* unordered with it, or ordered only by the store that it observes.
LEMMA RefusedEarly ==
  ASSUME NEW h, NEW d, NEW q, Exact(h, d, q), NEW t \in born, NEW k \in Keys, NEW epoch \in Nat,
         Conflict(d, t, "atomicWrite", k),
         NEW o, o = LogSync(h, t, "observe", k),
         NEW g, g = Log(o, {t}, "access", k, "atomicWrite", epoch)
  PROVE  Sound(g) /\ Racy(g)
<1>1. /\ Sound(h) /\ d \in RaceStates /\ t \in Procs /\ Accounted(h, d, born)
      /\ DOMAIN d.shadow = Keys \cup Chans /\ Covers(h, PastOf(h, t), d.clocks[t])
  <2>1. HB(h, d, born) /\ Sound(h) /\ d \in RaceStates /\ t \in Procs
    BY ExactSound DEF Exact
  <2> QED
    BY <2>1 DEF HB, ThreadsOk, RaceStates
<1>2. PICK e : Logged(h, o, e, {t}, "observe", k, "none", 0)
  BY <1>1, SyncLogged DEF Whats, Objs
<1>3. Sound(o)
  BY <1>2 DEF Logged, Extends, Sound
<1>4. PICK f : Logged(o, g, f, {t}, "access", k, "atomicWrite", epoch)
  <2>1. o \in Seq(Events) /\ Founded(o) /\ {t} \in SUBSET Procs /\ "access" \in Whats /\ k \in Objs
        /\ "atomicWrite" \in Kinds \cup {"none"}
    BY <1>1, <1>3 DEF Sound, Whats, Objs, Kinds
  <2> QED
    BY <2>1, LogLogged
<1>5. Sound(g)
  BY <1>4 DEF Logged, Extends, Sound
<1>6. PICK j : j = Len(h) + 2
  OBVIOUS
<1>7. /\ Extends(h, o, e) /\ Extends(o, g, f) /\ Len(h) \in Nat /\ Len(o) = Len(h) + 1
      /\ j \in Nat /\ j = Len(o) + 1 /\ j - 1 = Len(o) /\ j - 2 = Len(h)
      /\ j \in DOMAIN g /\ g[j] = f /\ j - 1 \in DOMAIN g /\ g[j - 1] = e
      /\ \A i \in DOMAIN h : i \in DOMAIN g /\ g[i] = h[i] /\ i \in 1 .. Len(h)
      /\ DOMAIN h = 1 .. Len(h)
  <2>1. Extends(h, o, e) /\ Extends(o, g, f)
    BY <1>2, <1>4 DEF Logged
  <2>2. /\ Len(h) \in Nat /\ Len(o) = Len(h) + 1 /\ DOMAIN h = 1 .. Len(h) /\ o[Len(h) + 1] = e
        /\ DOMAIN o = DOMAIN h \cup {Len(h) + 1} /\ \A i \in DOMAIN h : o[i] = h[i]
    BY <2>1 DEF Extends
  <2>3. /\ DOMAIN g = DOMAIN o \cup {Len(o) + 1} /\ \A i \in DOMAIN o : g[i] = o[i]
        /\ g[Len(o) + 1] = f
    BY <2>1 DEF Extends
  <2>4. j \in Nat /\ j = Len(o) + 1 /\ j - 1 = Len(o) /\ j - 2 = Len(h)
    BY <1>6, <2>2
  <2>5. j - 1 \in DOMAIN o /\ o[j - 1] = e
    BY <2>2, <2>4
  <2> QED
    BY ONLY <2>1, <2>2, <2>3, <2>4, <2>5
<1>8. /\ f.who = {t} /\ f.what = "access" /\ f.obj = k /\ f.kind = "atomicWrite"
      /\ e.who = {t} /\ e.what = "observe"
  BY <1>2, <1>4 DEF Logged
<1>9. PICK k2 \in Keys \cup Chans, kd \in Kinds, u \in Procs \ {t} :
         /\ Overlap(k, k2) /\ Conflicting("atomicWrite", kd)
         /\ d.shadow[k2][kd][u] > d.clocks[t][u]
  BY <1>1 DEF Conflict
<1>10. d.shadow[k2][kd][u] \in Nat /\ d.clocks[t][u] \in Nat
  BY <1>1, <1>9 DEF RaceStates, VC
<1>11. Witnessed(h, d) /\ d.shadow[k2][kd][u] > 0
  BY <1>1, <1>9, <1>10 DEF Accounted
<1>12. PICK i \in DOMAIN h : /\ h[i].what = "access" /\ h[i].who = {u} /\ h[i].obj = k2
                             /\ h[i].kind = kd /\ h[i].epoch = d.shadow[k2][kd][u]
  <2>1. Accessed(h, k2, kd, u, d.shadow[k2][kd][u])
    BY <1>9, <1>11 DEF Witnessed
  <2> QED
    BY <2>1 DEF Accessed
<1>13. i \notin PastOf(h, t)
  BY <1>1, <1>9, <1>10, <1>11, <1>12 DEF Covers
<1>14. PastUpTo(g, t, j - 2) = PastOf(h, t)
  <2>1. PastUpTo(g, t, Len(h)) = PastUpTo(o, t, Len(h))
    BY <1>7, PastRemains
  <2>2. PastUpTo(o, t, Len(h)) = PastUpTo(h, t, Len(h))
    BY <1>7, PastRemains
  <2>3. PastUpTo(h, t, Len(h)) = PastOf(h, t)
    BY <1>7 DEF PastUpTo, PastOf
  <2> QED
    BY <1>7, <2>1, <2>2, <2>3
<1>15. Overlap(k2, k) /\ Conflicting(kd, "atomicWrite") /\ {u} \cap {t} = {}
  BY <1>9, ConflictSymmetric
<1>16. i \in DOMAIN g /\ g[i] = h[i] /\ j \notin g[i].past
  <2>1. h[i].past \in SUBSET (1 .. i) /\ i \in 1 .. Len(h) /\ i \in DOMAIN g /\ g[i] = h[i]
    BY <1>1, <1>7, <1>12 DEF Accounted
  <2>2. j \notin 1 .. i
    BY <1>6, <1>7, <2>1
  <2> QED
    BY <2>1, <2>2
<1>17. CASE i \in f.past
  <2>1. IsAccess(g, i) /\ IsAccess(g, j)
    BY <1>7, <1>8, <1>12, <1>16 DEF IsAccess
  <2>2. \A v \in g[j].who : i \notin PastUpTo(g, v, j - 2)
    BY <1>7, <1>8, <1>13, <1>14
  <2>3. g[i].who = {u} /\ g[i].obj = k2 /\ g[i].kind = kd
    BY <1>12, <1>16
  <2>4. g[j].who = {t} /\ g[j].obj = k /\ g[j].kind = "atomicWrite" /\ i \in g[j].past
    BY <1>7, <1>8, <1>17
  <2>5. j - 1 \in DOMAIN g /\ g[j - 1].what = "observe" /\ g[j - 1].who = g[j].who
    BY <1>7, <1>8
  <2>6. EarlyIn(g, i, j)
    BY ONLY <1>15, <2>1, <2>2, <2>3, <2>4, <2>5 DEF EarlyIn
  <2> QED
    BY <1>5, <1>7, <1>16, <2>6 DEF Racy
<1>18. CASE i \notin f.past
  <2>1. RacesIn(g, i, j)
    BY <1>7, <1>8, <1>12, <1>15, <1>16, <1>18 DEF RacesIn, IsAccess
  <2> QED
    BY <1>5, <1>7, <1>16, <2>1 DEF Racy
<1> QED
  BY <1>17, <1>18

\* Detector states with the same fields are the same.
LEMMA SameState ==
  ASSUME NEW x, NEW y, x \in RaceStates, y \in RaceStates,
         x.clocks = y.clocks, x.shadow = y.shadow, x.slots = y.slots, x.nsend = y.nsend,
         x.nrecv = y.nrecv, x.closeVC = y.closeVC, x.semA = y.semA, x.semB = y.semB,
         x.atomics = y.atomics
  PROVE  x = y
BY DEF RaceStates

\* Acquiring before or after the record leaves the same state: what the clock of
\* an address holds of a goroutine is behind that goroutine.
LEMMA OrderOfRecord ==
  ASSUME NEW h, NEW d, NEW q, Exact(h, d, q), NEW t \in born, NEW k \in Keys,
         NEW a, a = AtomicAcquire(d, t, k), NEW z, z = Record(a, t, "atomicWrite", k),
         NEW y, y = Record(d, t, "atomicWrite", k)
  PROVE  /\ a.clocks[t][t] = d.clocks[t][t]
         /\ \A u \in Procs : a.clocks[t][u] >= d.clocks[t][u]
         /\ a.shadow = d.shadow
         /\ z = AtomicAcquire(y, t, k)
         /\ AtomicReleaseAcquire(z, t, k) = AtomicReleaseAcquire(y, t, k)
<1>1. d \in RaceStates /\ t \in Procs /\ AtomicsOk(h, d)
  BY ExactSound DEF Exact, HB
<1>2. PICK J : J = Join(d.clocks[t], d.atomics[k])
  OBVIOUS
<1>3. d.clocks[t] \in VC /\ d.atomics[k] \in VC /\ d.clocks \in [Procs -> VC] /\ Behind(d.atomics[k], d)
  BY <1>1 DEF RaceStates, AtomicsOk
<1>4. /\ J \in VC
      /\ \A u \in Procs : J[u] = IF d.clocks[t][u] < d.atomics[k][u] THEN d.atomics[k][u] ELSE d.clocks[t][u]
  BY <1>2, <1>3, JoinType DEF Join
<1>5. J[t] = d.clocks[t][t] /\ \A u \in Procs : J[u] >= d.clocks[t][u] /\ ~(J[u] < d.atomics[k][u])
  BY <1>1, <1>3, <1>4 DEF Behind, VC
<1>6. /\ a \in RaceStates /\ a.clocks = [d.clocks EXCEPT ![t] = J]
      /\ a.shadow = d.shadow /\ a.slots = d.slots /\ a.nsend = d.nsend /\ a.nrecv = d.nrecv
      /\ a.closeVC = d.closeVC /\ a.semA = d.semA /\ a.semB = d.semB /\ a.atomics = d.atomics
  BY <1>1, <1>2, AcquireFields
<1>7. a.clocks[t] = J
  BY <1>1, <1>3, <1>6
<1>8. "atomicWrite" \in Kinds /\ k \in Keys \cup Chans
  BY DEF Kinds
<1>9. /\ z \in RaceStates /\ y \in RaceStates
      /\ z.clocks = a.clocks /\ z.slots = a.slots /\ z.nsend = a.nsend /\ z.nrecv = a.nrecv
      /\ z.closeVC = a.closeVC /\ z.semA = a.semA /\ z.semB = a.semB /\ z.atomics = a.atomics
      /\ y.clocks = d.clocks /\ y.slots = d.slots /\ y.nsend = d.nsend /\ y.nrecv = d.nrecv
      /\ y.closeVC = d.closeVC /\ y.semA = d.semA /\ y.semB = d.semB /\ y.atomics = d.atomics
  BY <1>1, <1>6, <1>8, RecordFields
<1>10. z.shadow = y.shadow
  <2>1. PICK S : S = [d.shadow EXCEPT ![k]["atomicWrite"][t] = d.clocks[t][t]]
    OBVIOUS
  <2>2. z = [a EXCEPT !.shadow = S]
    BY <1>5, <1>6, <1>7, <2>1 DEF Record
  <2>3. y = [d EXCEPT !.shadow = S]
    BY <2>1 DEF Record
  <2> QED
    BY <1>1, <1>6, <2>2, <2>3 DEF RaceStates
<1>11. PICK w : w = AtomicAcquire(y, t, k)
  OBVIOUS
<1>12. /\ w \in RaceStates /\ w.clocks = [y.clocks EXCEPT ![t] = Join(y.clocks[t], y.atomics[k])]
       /\ w.shadow = y.shadow /\ w.slots = y.slots /\ w.nsend = y.nsend /\ w.nrecv = y.nrecv
       /\ w.closeVC = y.closeVC /\ w.semA = y.semA /\ w.semB = y.semB /\ w.atomics = y.atomics
  BY <1>1, <1>9, <1>11, AcquireFields
<1>13. w.clocks = z.clocks
  BY <1>2, <1>6, <1>9, <1>12
<1>14. z = w
  BY <1>6, <1>9, <1>10, <1>12, <1>13, SameState
<1>15. Join(J, d.atomics[k]) = J
  BY <1>4, <1>5 DEF Join, VC
<1>16. PICK v, x : v = AtomicReleaseAcquire(z, t, k) /\ x = AtomicReleaseAcquire(y, t, k)
  OBVIOUS
<1>17. /\ v \in RaceStates /\ v.clocks = [z.clocks EXCEPT ![t] = Bump(Join(z.clocks[t], z.atomics[k]), t)]
       /\ v.atomics = [z.atomics EXCEPT ![k] = Join(z.clocks[t], z.atomics[k])]
       /\ v.shadow = z.shadow /\ v.slots = z.slots /\ v.nsend = z.nsend /\ v.nrecv = z.nrecv
       /\ v.closeVC = z.closeVC /\ v.semA = z.semA /\ v.semB = z.semB
  <2>1. z \in RaceStates /\ v = AtomicReleaseAcquire(z, t, k)
    BY <1>9, <1>16
  <2> QED
    BY ONLY <1>1, <2>1, k \in Keys, RmwFields
<1>18. /\ x \in RaceStates /\ x.clocks = [y.clocks EXCEPT ![t] = Bump(Join(y.clocks[t], y.atomics[k]), t)]
       /\ x.atomics = [y.atomics EXCEPT ![k] = Join(y.clocks[t], y.atomics[k])]
       /\ x.shadow = y.shadow /\ x.slots = y.slots /\ x.nsend = y.nsend /\ x.nrecv = y.nrecv
       /\ x.closeVC = y.closeVC /\ x.semA = y.semA /\ x.semB = y.semB
  <2>1. y \in RaceStates /\ x = AtomicReleaseAcquire(y, t, k)
    BY <1>9, <1>16
  <2> QED
    BY ONLY <1>1, <2>1, k \in Keys, RmwFields
<1>19. Join(z.clocks[t], z.atomics[k]) = J /\ Join(y.clocks[t], y.atomics[k]) = J
  BY <1>2, <1>6, <1>7, <1>9, <1>15
<1>20. v.clocks = x.clocks
  <2>1. PICK B : B = Bump(J, t)
    OBVIOUS
  <2>2. v.clocks = [[d.clocks EXCEPT ![t] = J] EXCEPT ![t] = B] /\ x.clocks = [d.clocks EXCEPT ![t] = B]
    BY <1>6, <1>9, <1>17, <1>18, <1>19, <2>1
  <2> QED
    BY <1>3, <2>2
<1>21. v.atomics = x.atomics
  BY <1>6, <1>9, <1>17, <1>18, <1>19
<1>22. v = x
  BY <1>6, <1>9, <1>10, <1>17, <1>18, <1>20, <1>21, SameState
<1> QED
  BY <1>5, <1>6, <1>7, <1>11, <1>14, <1>16, <1>22

\* An atomic operation that observes: refused, or exact once it has acquired and
\* is recorded.
LEMMA ObservedWrite ==
  ASSUME PoolInv, NEW h, NEW d, NEW q, Exact(h, d, q), NEW t \in born, NEW k \in Keys,
         NEW o, o = LogSync(h, t, "observe", k),
         NEW g, g = LogAccess(o, d, t, "atomicWrite", k),
         NEW z, z = IF Inert THEN d ELSE AtomicAcquire(Record(d, t, "atomicWrite", k), t, k)
  PROVE  /\ Sound(g)
         /\ ~Inert /\ Conflict(d, t, "atomicWrite", k) => Racy(g)
         /\ Inert \/ ~Conflict(d, t, "atomicWrite", k) => Exact(g, z, q)
<1>1. d \in RaceStates /\ t \in Procs
  BY ExactSound
<1>2. PICK a, y : a = AtomicAcquire(d, t, k) /\ y = IF Inert THEN d ELSE a
  OBVIOUS
<1>3. Exact(o, y, q)
  BY <1>2, ExactObserve
<1>4. /\ a.clocks[t][t] = d.clocks[t][t] /\ a.shadow = d.shadow
      /\ \A u \in Procs : a.clocks[t][u] >= d.clocks[t][u]
      /\ Record(a, t, "atomicWrite", k) = AtomicAcquire(Record(d, t, "atomicWrite", k), t, k)
  BY <1>2, OrderOfRecord
<1>5. g = LogAccess(o, y, t, "atomicWrite", k)
  BY <1>2, <1>4 DEF LogAccess
<1>6. z = IF Inert THEN y ELSE Record(y, t, "atomicWrite", k)
  BY <1>2, <1>4
<1>7. "atomicWrite" \in Kinds /\ k \in Keys \cup Chans
  BY DEF Kinds
<1>8. /\ Sound(g)
      /\ Inert \/ ~Conflict(y, t, "atomicWrite", k) => Exact(g, z, q)
  BY <1>3, <1>5, <1>6, <1>7, ExactAccess
<1>9. ASSUME ~Inert, ~Conflict(d, t, "atomicWrite", k)
      PROVE  ~Conflict(y, t, "atomicWrite", k)
  <2>1. SUFFICES ASSUME NEW k2 \in DOMAIN a.shadow, NEW kd \in Kinds, NEW u \in Procs \ {t},
                        Overlap(k, k2), Conflicting("atomicWrite", kd),
                        a.shadow[k2][kd][u] > a.clocks[t][u]
                 PROVE  FALSE
    BY <1>2, <1>9 DEF Conflict
  <2>2. a \in RaceStates
    BY <1>1, <1>2, AcquireFields
  <2>3. a.shadow[k2][kd][u] \in Nat /\ a.clocks[t][u] \in Nat /\ d.clocks[t][u] \in Nat
    BY <1>1, <2>2 DEF RaceStates, VC
  <2>4. d.shadow[k2][kd][u] > d.clocks[t][u] /\ k2 \in DOMAIN d.shadow
    BY <1>4, <2>1, <2>3
  <2> QED
    BY <1>9, <2>1, <2>4 DEF Conflict
<1>10. ASSUME ~Inert, Conflict(d, t, "atomicWrite", k)
       PROVE  Racy(g)
  <2>1. g = Log(o, {t}, "access", k, "atomicWrite", d.clocks[t][t]) /\ d.clocks[t][t] \in Nat
    BY <1>1, <1>10 DEF LogAccess, RaceStates, VC
  <2> QED
    BY <1>10, <2>1, RefusedEarly
<1> QED
  BY <1>8, <1>9, <1>10

\* an atomic read-modify-write,
LEMMA RmwStep ==
  ASSUME RaceInv, NEW t, NEW k \in Keys, AtomicWrite(t, k, "rmw")
  PROVE  Settled(status', hist', r', queued')
<1>1. PoolInv /\ Exact(hist, r, queued) /\ t \in born /\ status = "running" /\ t \in Procs
  BY AbleExact DEF AtomicWrite
<1>2. PICK o, g, a, z, y :
        /\ o = LogSync(hist, t, "observe", k)
        /\ g = LogAccess(o, r, t, "atomicWrite", k)
        /\ a = AtomicAcquire(Record(r, t, "atomicWrite", k), t, k)
        /\ z = IF Inert THEN r ELSE a
        /\ y = AtomicReleaseAcquire(Record(r, t, "atomicWrite", k), t, k)
  OBVIOUS
<1>3. /\ RaceUpdate(Conflict(r, t, "atomicWrite", k), y, LogSync(g, t, "rmw", k))
      /\ queued' = queued
  BY <1>2 DEF AtomicWrite, cellVars
<1>4. hist' = LogSync(g, t, "rmw", k) /\ "rmw" \in Whats /\ k \in Objs
  BY <1>3 DEF RaceUpdate, Whats, Objs
<1>5. /\ Sound(g)
      /\ ~Inert /\ Conflict(r, t, "atomicWrite", k) => Racy(g)
      /\ Inert \/ ~Conflict(r, t, "atomicWrite", k) => Exact(g, z, queued)
  BY <1>1, <1>2, ObservedWrite
<1>6. y = AtomicReleaseAcquire(a, t, k)
  BY <1>1, <1>2, OrderOfRecord
<1>7. CASE ~Inert /\ Conflict(r, t, "atomicWrite", k)
  <2>1. Racy(hist')
    BY <1>1, <1>4, <1>5, <1>7, RacySync
  <2> QED
    BY <1>3, <1>7, <2>1 DEF Settled, RaceUpdate
<1>8. CASE Inert \/ ~Conflict(r, t, "atomicWrite", k)
  <2>1. r' = (IF Inert THEN z ELSE AtomicReleaseAcquire(z, t, k)) /\ status' = status
    BY <1>2, <1>3, <1>6, <1>8 DEF RaceUpdate
  <2>2. Exact(hist', r', queued)
    BY <1>1, <1>4, <1>5, <1>8, <2>1, ExactRmw
  <2> QED
    BY <1>1, <1>3, <2>1, <2>2 DEF Settled
<1> QED
  BY <1>7, <1>8

\* a failed compare-and-swap,
LEMMA ObserveStep ==
  ASSUME RaceInv, NEW t, NEW k \in Keys, AtomicWrite(t, k, "observe")
  PROVE  Settled(status', hist', r', queued')
<1>1. PoolInv /\ Exact(hist, r, queued) /\ t \in born /\ status = "running"
  BY AbleExact DEF AtomicWrite
<1>2. PICK o, g, a, z :
        /\ o = LogSync(hist, t, "observe", k)
        /\ g = LogAccess(o, r, t, "atomicWrite", k)
        /\ a = AtomicAcquire(Record(r, t, "atomicWrite", k), t, k)
        /\ z = IF Inert THEN r ELSE a
  OBVIOUS
<1>3. RaceUpdate(Conflict(r, t, "atomicWrite", k), a, g) /\ queued' = queued
  BY <1>2 DEF AtomicWrite, cellVars
<1>4. /\ ~Inert /\ Conflict(r, t, "atomicWrite", k) => Racy(g)
      /\ Inert \/ ~Conflict(r, t, "atomicWrite", k) => Exact(g, z, queued)
  BY <1>1, <1>2, ObservedWrite
<1> QED
  BY <1>1, <1>2, <1>3, <1>4 DEF Settled, RaceUpdate

\* close,
LEMMA CloseStep ==
  ASSUME RaceInv, NEW t, NEW c \in Chans, Close(t, c)
  PROVE  Settled(status', hist', r', queued')
<1>1. PoolInv /\ Exact(hist, r, queued) /\ t \in born /\ status = "running"
  BY AbleExact DEF Close
<1>2. "write" \in Kinds /\ c \in Keys \cup Chans /\ "close" \in Whats
  BY DEF Kinds, Whats
<1>3. PICK g, z, y :
        /\ g = LogAccess(hist, r, t, "write", c)
        /\ z = IF Inert THEN r ELSE Record(r, t, "write", c)
        /\ y = IF Inert THEN r ELSE CloseOp(Record(r, t, "write", c), t, c)
  OBVIOUS
<1>4. /\ RaceUpdate(Conflict(r, t, "write", c), CloseOp(Record(r, t, "write", c), t, c),
                    LogSync(g, t, "close", c))
      /\ queued' = queued
  BY <1>3 DEF Close, cellVars
<1>5. hist' = LogSync(g, t, "close", c)
  BY <1>4 DEF RaceUpdate
<1>6. y = IF Inert THEN z ELSE CloseOp(z, t, c)
  BY <1>3
<1>7. ASSUME Exact(g, z, queued)
      PROVE  Exact(hist', y, queued')
  BY <1>1, <1>4, <1>5, <1>6, <1>7, ExactClose
<1>8. Settled(status', hist', r', queued')
  BY <1>1, <1>2, <1>3, <1>4, <1>7, ThenSettles
<1> QED
  BY <1>8

\* a buffered send,
LEMMA SendStep ==
  ASSUME RaceInv, OneEarlySlot, NEW t, NEW c \in Chans, Send(t, c)
  PROVE  Settled(status', hist', r', queued')
<1>1. PoolInv /\ Exact(hist, r, queued) /\ t \in born /\ status = "running"
  BY AbleExact DEF Send
<1>2. "read" \in Kinds /\ c \in Keys \cup Chans /\ "send" \in Whats
  BY DEF Kinds, Whats
<1>3. PICK g, z, y :
        /\ g = LogAccess(hist, r, t, "read", c)
        /\ z = IF Inert THEN r ELSE Record(r, t, "read", c)
        /\ y = IF Inert THEN r ELSE SendSlot(Record(r, t, "read", c), t, c)
  OBVIOUS
<1>4. /\ RaceUpdate(Conflict(r, t, "read", c), SendSlot(Record(r, t, "read", c), t, c),
                    LogSync(g, t, "send", c))
      /\ More(queued, queued', c)
  BY <1>3 DEF Send, cellVars, More, SendSlot
<1>5. hist' = LogSync(g, t, "send", c)
  BY <1>4 DEF RaceUpdate
<1>6. y = IF Inert THEN z ELSE SendSlot(z, t, c)
  BY <1>3
<1>9. queued[c] < Cap[c] /\ (Inert => Cap[c] <= 1)
  BY CapAssumption DEF Send, MayUse, OneEarlySlot
<1>7. ASSUME Exact(g, z, queued)
      PROVE  Exact(hist', y, queued')
  BY <1>1, <1>4, <1>5, <1>6, <1>7, ExactSend, <1>9
<1>8. Settled(status', hist', r', queued')
  BY <1>1, <1>2, <1>3, <1>4, <1>7, ThenSettles
<1> QED
  BY <1>8

\* a buffered receive,
LEMMA ReceiveStep ==
  ASSUME RaceInv, OneEarlySlot, NEW t, NEW c \in Chans, Receive(t, c)
  PROVE  Settled(status', hist', r', queued')
<1>1. PoolInv /\ Exact(hist, r, queued) /\ t \in born /\ status = "running"
  BY AbleExact DEF Receive
<1>2. hist' = LogSync(hist, t, "recv", c) /\ status' = status /\ Less(queued, queued', c)
  BY DEF Receive, RaceUpdate, Less
<1>3. r' = IF Inert THEN r ELSE RecvSlot(r, t, c)
  BY DEF Receive, RaceUpdate, RecvSlot
<1>4. queued[c] > 0 /\ (Inert => Cap[c] <= 1)
  BY CapAssumption DEF Receive, MayUse, OneEarlySlot
<1>5. Exact(hist', r', queued')
  BY <1>1, <1>2, <1>3, <1>4, ExactRecv
<1> QED
  BY <1>1, <1>2, <1>5 DEF Settled

\* an atomic load,
LEMMA LoadStep ==
  ASSUME RaceInv, NEW t, NEW k \in Keys, Load(t, k)
  PROVE  Settled(status', hist', r', queued')
<1>1. PoolInv /\ Exact(hist, r, queued) /\ t \in born /\ status = "running"
  BY AbleExact DEF Load
<1>2. PICK g, d, z : /\ g = LogSync(hist, t, "observe", k) /\ d = AtomicAcquire(r, t, k)
                     /\ z = IF Inert THEN r ELSE d
  OBVIOUS
<1>3. Exact(g, z, queued)
  BY <1>1, <1>2, ExactObserve
<1>4. /\ RaceUpdate(Conflict(d, t, "atomicRead", k), Record(d, t, "atomicRead", k),
                    LogAccess(g, d, t, "atomicRead", k))
      /\ queued' = queued
  BY <1>2 DEF Load, cellVars
<1>5. LogAccess(g, d, t, "atomicRead", k) = LogAccess(g, z, t, "atomicRead", k)
  BY <1>2 DEF LogAccess
<1>6. PICK y : y = IF Inert THEN z ELSE Record(z, t, "atomicRead", k)
  OBVIOUS
<1>7. hist' = LogAccess(g, z, t, "atomicRead", k) /\ "atomicRead" \in Kinds /\ k \in Keys \cup Chans
  BY <1>4, <1>5 DEF RaceUpdate, Kinds
<1>8. /\ ~Inert /\ Conflict(z, t, "atomicRead", k) => Racy(hist')
      /\ Inert \/ ~Conflict(z, t, "atomicRead", k) => Exact(hist', y, queued)
  BY <1>1, <1>3, <1>6, <1>7, ExactAccess
<1>9. CASE Inert
  BY <1>1, <1>2, <1>4, <1>6, <1>8, <1>9 DEF RaceUpdate, Settled
<1>10. CASE ~Inert
  <2>1. z = d
    BY <1>2, <1>10
  <2> QED
    BY <1>1, <1>4, <1>6, <1>8, <1>10, <2>1 DEF RaceUpdate, Settled
<1> QED
  BY <1>9, <1>10

\* Two goroutines are not a pool of one.
LEMMA TwoLook ==
  ASSUME PoolInv, NEW t \in born, NEW u \in born, t # u
  PROVE  ~Inert
BY AloneMain

\* Adding a value to a buffer and taking one undo each other.
LEMMA ThereAndBack ==
  ASSUME NEW q \in [Chans -> Nat], NEW c \in Chans, NEW p
  PROVE  /\ More(q, p, c) => Less(p, q, c) /\ p[c] > 0
         /\ Less(q, p, c) /\ q[c] > 0 => More(p, q, c) /\ p[c] = q[c] - 1
<1>1. ASSUME More(q, p, c)
      PROVE  Less(p, q, c) /\ p[c] > 0
  <2>1. p \in [Chans -> Nat] /\ p[c] = q[c] + 1 /\ \A a \in Chans \ {c} : p[a] = q[a]
    BY <1>1 DEF More
  <2>2. PICK f : f = [p EXCEPT ![c] = @ - 1]
    OBVIOUS
  <2>3. f = [a \in Chans |-> f[a]] /\ q = [a \in Chans |-> q[a]]
    BY <2>1, <2>2
  <2>4. \A a \in Chans : f[a] = q[a]
    BY <2>1, <2>2
  <2>5. f = q
    BY <2>3, <2>4
  <2> QED
    BY <2>1, <2>2, <2>5 DEF Less
<1>2. ASSUME Less(q, p, c), q[c] > 0
      PROVE  More(p, q, c) /\ p[c] = q[c] - 1
  <2>1. p \in [Chans -> Nat] /\ p[c] = q[c] - 1 /\ \A a \in Chans \ {c} : p[a] = q[a]
    BY <1>2 DEF Less
  <2>2. PICK f : f = [p EXCEPT ![c] = @ + 1]
    OBVIOUS
  <2>3. f = [a \in Chans |-> f[a]] /\ q = [a \in Chans |-> q[a]]
    BY <2>1, <2>2
  <2>4. \A a \in Chans : f[a] = q[a]
    BY <2>1, <2>2
  <2>5. f = q
    BY <2>3, <2>4
  <2> QED
    BY <2>1, <2>2, <2>5 DEF More
<1> QED
  BY <1>1, <1>2

\* A send to a parked receiver leaves an exact detector or a verdict.
LEMMA SendToStep ==
  ASSUME RaceInv, NEW t, NEW u, NEW c \in Chans, SendTo(t, u, c)
  PROVE  Settled(status', hist', r', queued')
<1>1. /\ PoolInv /\ Exact(hist, r, queued) /\ t \in born /\ status = "running"
      /\ u \in born /\ t # u /\ t \in Procs /\ u \in Procs
  BY AbleExact DEF SendTo
<1>2. ~Inert
  BY <1>1, TwoLook
<1>3. PICK g, d : g = LogAccess(hist, r, t, "read", c) /\ d = Record(r, t, "read", c)
  OBVIOUS
<1>4. "read" \in Kinds /\ c \in Keys \cup Chans /\ c \in Objs /\ d = IF Inert THEN r ELSE Record(r, t, "read", c)
  BY <1>2, <1>3 DEF Kinds, Objs
<1>5. /\ Sound(g) /\ (Conflict(r, t, "read", c) => Racy(g))
      /\ ~Conflict(r, t, "read", c) => Exact(g, d, queued)
  BY <1>1, <1>2, <1>3, <1>4, ExactAccess
<1>q. queued' = queued /\ queued[c] = 0 /\ queued \in [Chans -> Nat] /\ Cap[c] \in Nat
  BY <1>1, CapAssumption DEF SendTo, cellVars, Exact, Queued
<1>6. CASE Cap[c] = 0
  <2>1. PICK h, x : h = Log(g, {t, u}, "meet", c, "none", 0) /\ x = Rendezvous(d, t, u)
    OBVIOUS
  <2>2. RaceUpdate(Conflict(r, t, "read", c), x, h)
    BY <1>3, <1>6, <2>1 DEF SendTo
  <2>3. CASE Conflict(r, t, "read", c)
    <3>1. PICK e : Logged(g, h, e, {t, u}, "meet", c, "none", 0)
      <4>1. g \in Seq(Events) /\ Founded(g) /\ {t, u} \in SUBSET Procs /\ "none" \in Kinds \cup {"none"}
            /\ 0 \in Nat /\ "meet" \in Whats
        BY <1>1, <1>5 DEF Sound, Whats
      <4> QED
        BY <1>4, <2>1, <4>1, LogLogged
    <3>2. Racy(h)
      BY <1>5, <2>3, <3>1, RacyLogged
    <3> QED
      BY <1>2, <2>2, <2>3, <3>2 DEF RaceUpdate, Settled
  <2>4. CASE ~Conflict(r, t, "read", c)
    <3>1. Exact(h, x, queued)
      BY <1>1, <1>2, <1>5, <2>1, <2>4, ExactMeet
    <3> QED
      BY <1>1, <1>2, <1>q, <2>2, <2>4, <3>1 DEF RaceUpdate, Settled
  <2> QED
    BY <2>3, <2>4
<1>7. CASE Cap[c] # 0
  <2>1. PICK h, x, q : h = LogSync(g, t, "send", c) /\ x = SendSlot(d, t, c) /\ q = [queued EXCEPT ![c] = @ + 1]
    OBVIOUS
  <2>2. PICK f, y : f = LogSync(h, u, "recv", c) /\ y = RecvSlot(x, u, c)
    OBVIOUS
  <2>3. RaceUpdate(Conflict(r, t, "read", c), y, f)
    BY <1>3, <1>7, <2>1, <2>2 DEF SendTo, SendSlot, RecvSlot
  <2>4. "send" \in Whats /\ "recv" \in Whats
    BY DEF Whats
  <2>5. CASE Conflict(r, t, "read", c)
    <3>1. Racy(h) /\ Sound(h)
      BY <1>1, <1>4, <1>5, <2>1, <2>4, <2>5, RacySync
    <3>2. Racy(f)
      BY <1>1, <1>4, <2>2, <2>4, <3>1, RacySync
    <3> QED
      BY <1>2, <2>3, <2>5, <3>2 DEF RaceUpdate, Settled
  <2>6. CASE ~Conflict(r, t, "read", c)
    <3>0. More(queued, q, c)
      BY <2>1 DEF More
    <3>1. queued[c] < Cap[c] /\ More(queued, q, c) /\ q[c] > 0 /\ Less(q, queued, c)
      BY <1>q, <1>7, <3>0, ThereAndBack
    <3>2. x = IF Inert THEN d ELSE SendSlot(d, t, c)
      BY <1>2, <2>1
    <3>3. y = IF Inert THEN x ELSE RecvSlot(x, u, c)
      BY <1>2, <2>2
    <3>4. Exact(h, x, q)
      BY <1>1, <1>2, <1>5, <2>1, <2>6, <3>1, <3>2, ExactSend
    <3>5. Exact(f, y, queued)
      BY <1>1, <1>2, <2>2, <3>1, <3>3, <3>4, ExactRecv
    <3> QED
      BY <1>1, <1>2, <1>q, <2>3, <2>6, <3>5 DEF RaceUpdate, Settled
  <2> QED
    BY <2>5, <2>6
<1> QED
  BY <1>6, <1>7

\* So does a receive from a parked sender.
LEMMA ReceiveFromStep ==
  ASSUME RaceInv, NEW t, NEW u \in Procs, NEW c \in Chans, ReceiveFrom(t, u, c)
  PROVE  Settled(status', hist', r', queued')
<1>1. /\ PoolInv /\ Exact(hist, r, queued) /\ t \in born /\ status = "running" /\ parked[t] = None
      /\ parked[u] = c
  BY AbleExact DEF ReceiveFrom
<1>2. u \in born /\ t # u
  BY <1>1, DisjointAssumption DEF PoolInv
<1>3. ~Inert
  BY <1>1, <1>2, TwoLook
<1>q. /\ queued' = queued /\ queued \in [Chans -> Nat] /\ Cap[c] \in Nat
      /\ queued[c] <= Cap[c]
  BY <1>1, CapAssumption DEF ReceiveFrom, Exact, Queued
<1>6. CASE queued[c] = 0
  <2>1. PICK h, x : h = Log(hist, {t, u}, "meet", c, "none", 0) /\ x = Rendezvous(r, t, u)
    OBVIOUS
  <2>2. hist' = h /\ r' = x /\ status' = status
    BY <1>3, <1>6, <2>1 DEF ReceiveFrom, RaceUpdate
  <2>3. Exact(h, x, queued)
    BY <1>1, <1>2, <1>3, <2>1, ExactMeet
  <2> QED
    BY <1>1, <1>q, <2>2, <2>3 DEF Settled
<1>7. CASE queued[c] # 0
  <2>1. PICK h, x, q : h = LogSync(hist, t, "recv", c) /\ x = RecvSlot(r, t, c) /\ q = [queued EXCEPT ![c] = @ - 1]
    OBVIOUS
  <2>2. PICK f, y : f = LogSync(h, u, "send", c) /\ y = SendSlot(x, u, c)
    OBVIOUS
  <2>3. hist' = f /\ r' = y /\ status' = status
    BY <1>3, <1>7, <2>1, <2>2 DEF ReceiveFrom, RaceUpdate, SendSlot, RecvSlot
  <2>0. Less(queued, q, c) /\ queued[c] > 0
    BY <1>q, <1>7, <2>1 DEF Less
  <2>4. queued[c] > 0 /\ Less(queued, q, c) /\ q[c] < Cap[c] /\ More(q, queued, c)
    BY <1>q, <2>0, ThereAndBack
  <2>5. x = IF Inert THEN r ELSE RecvSlot(r, t, c)
    BY <1>3, <2>1
  <2>6. y = IF Inert THEN x ELSE SendSlot(x, u, c)
    BY <1>3, <2>2
  <2>7. Exact(h, x, q)
    BY <1>1, <1>3, <2>1, <2>4, <2>5, ExactRecv
  <2>8. Exact(f, y, queued)
    BY <1>1, <1>2, <1>3, <2>2, <2>4, <2>6, <2>7, ExactSend
  <2> QED
    BY <1>1, <1>q, <2>3, <2>8 DEF Settled
<1> QED
  BY <1>6, <1>7


-----------------------------------------------------------------------------
(* Go, and the invariant. *)

\* A go statement leaves an exact detector, which is idle no longer.
LEMMA GoStep ==
  ASSUME RaceInv, NEW t, NEW u \in Procs, Go(t, u)
  PROVE  status' = "running" /\ Exact(hist, r, queued)' /\ ~Inert'
<1>1. /\ PoolInv /\ Exact(hist, r, queued) /\ t \in born /\ status = "running" /\ t \in Procs
      /\ Sound(hist)
  BY AbleExact DEF Go
<1>2. /\ u \notin born /\ born' = born \cup {u} /\ r' = SpawnEdge(r, t, u)
      /\ hist' = LogSync(hist, t, "go", u) /\ status' = status /\ queued' = queued
  BY DEF Go, cellVars
<1>3. "go" \in Whats /\ u \in Objs
  BY DEF Whats, Objs
<1>4. PICK e : Logged(hist, hist', e, {t}, "go", u, "none", 0)
  BY <1>1, <1>2, <1>3, SyncLogged
<1>5. HB(hist', r', born \cup {u})
  BY <1>1, <1>2, <1>4, GoHB DEF Exact
<1>6. Queued(hist', queued)
  BY <1>1, <1>4, QueuedKept DEF Exact
<1>7. ~(Cardinality(born') <= 1)
  <2>1. IsFiniteSet(born) /\ Main \in born
    BY <1>1 DEF PoolInv
  <2>2. Cardinality(born \cup {u}) = Cardinality(born) + 1 /\ Cardinality(born) \in Nat
    BY <1>2, <2>1, FS_AddElement, FS_CardinalityType
  <2>3. Cardinality(born) # 0
    BY <2>1, FS_EmptySet
  <2>4. Cardinality(born') = Cardinality(born \cup {u})
    BY <1>2, Zenon
  <2> QED
    BY <2>2, <2>3, <2>4
<1> QED
  BY <1>1, <1>2, <1>5, <1>6, <1>7 DEF Exact, Inert

\* Every step keeps the pool's own invariant.
LEMMA PoolInvStep ==
  ASSUME PoolInv, [Next]_vars
  PROVE  PoolInv'
<1> USE DEF PoolInv
<1>1. ASSUME NEW t \in Procs, NEW u \in Procs, Go(t, u)
      PROVE  PoolInv'
  <2>1. IsFiniteSet(born \cup {u})
    BY FS_AddElement
  <2> QED
    BY <1>1, <2>1 DEF Go, cellVars
<1>2. ASSUME NEW t \in Procs, NEW k \in Keys,
             \/ \E kind \in {"read", "write"} : Access(t, kind, k)
             \/ Load(t, k)
             \/ \E what \in {"store", "rmw", "observe"} : AtomicWrite(t, k, what)
      PROVE  PoolInv'
  <2>1. born' = born /\ parked' = parked /\ status' \in {status, "raceDetected"}
    BY <1>2 DEF Access, Load, AtomicWrite, RaceUpdate, cellVars
  <2> QED
    BY <2>1
<1>3. ASSUME NEW t \in Procs, NEW l \in Locks, Lock(t, l) \/ RLock(t, l) \/ Unlock(t, l) \/ RUnlock(t, l)
      PROVE  PoolInv'
  <2>1. born' = born /\ parked' = parked /\ status' \in {status, "raceDetected"}
    BY <1>3 DEF Lock, RLock, Unlock, RUnlock, RaceUpdate
  <2> QED
    BY <2>1
<1>4. ASSUME NEW t \in Procs, NEW c \in Chans, ChanStep(t, c)
      PROVE  PoolInv'
  <2>1. CASE \/ Send(t, c) \/ Receive(t, c) \/ Close(t, c) \/ ReceiveZero(t, c) \/ Poll(t, c)
             \/ \E u \in Procs : SendTo(t, u, c)
    <3>1. born' = born /\ parked' = parked /\ status' \in {status, "raceDetected"}
      BY <2>1 DEF Send, Receive, Close, ReceiveZero, Poll, SendTo, RaceUpdate, cellVars
    <3> QED
      BY <3>1
  <2>2. CASE ParkSend(t, c)
    <3>1. born' = born /\ parked' = [parked EXCEPT ![t] = c] /\ status' \in {status, "raceDetected"} /\ t \in born
      BY <2>2 DEF ParkSend, RaceUpdate, Able
    <3> QED
      BY <3>1
  <2>3. ASSUME NEW u \in Procs, ReceiveFrom(t, u, c)
        PROVE  PoolInv'
    <3>1. born' = born /\ parked' = [parked EXCEPT ![u] = None] /\ status' \in {status, "raceDetected"}
      BY <2>3 DEF ReceiveFrom, RaceUpdate
    <3> QED
      BY <3>1
  <2> QED
    BY <1>4, <2>1, <2>2, <2>3 DEF ChanStep, ChanUse
<1>5. CASE UNCHANGED vars
  BY <1>5 DEF vars, cellVars
<1> QED
  BY <1>1, <1>2, <1>3, <1>4, <1>5 DEF Next

\* An exact detector or a verdict is the invariant.
LEMMA SettledInv ==
  ASSUME PoolInv', born' = born, Settled(status', hist', r', queued')
  PROVE  RaceInv'
<1>1. (Exact(hist, r, queued)') <=> Exact(hist', r', queued')
  BY DEF Exact, Inert
<1> QED
  BY <1>1 DEF Settled, RaceInv

\* The invariant holds initially,
LEMMA RaceInvInit ==
  ASSUME Init
  PROVE  RaceInv
<1>1. PoolInv
  BY FS_Singleton, MainAssumption DEF Init, PoolInv
<1>2. hist = <<>> /\ r = RaceInit /\ born = {Main} /\ status = "running" /\ queued = [c \in Chans |-> 0]
  BY DEF Init
<1>3. hist \in Seq(Events) /\ DOMAIN hist = {}
  BY <1>2
<1>4. \A c : Sent(hist, c) = 0 /\ Rcvd(hist, c) = 0
  <2> TAKE c
  <2>1. \A w : {i \in DOMAIN hist : hist[i].what = w /\ hist[i].obj = c} = {}
    BY <1>3
  <2>2. \A w : Number(hist, w, c) = 0 + 1
    BY <2>1, FS_EmptySet DEF Number
  <2> QED
    BY <2>2 DEF Sent, Rcvd
<1>5. Quiet(hist)
  BY <1>3, <1>4 DEF Quiet
<1>6. Queued(hist, queued)
  BY <1>2, <1>4, CapAssumption DEF Queued
<1>7. \A c \in Chans : Cap[c] > 0 => Rcvd(hist, c) <= Sent(hist, c) /\ Sent(hist, c) <= Rcvd(hist, c) + Cap[c]
  BY <1>4, CapAssumption
<1>8. HB(hist, r, born)
  BY <1>2, <1>5, <1>7, QuietHB
<1> QED
  BY <1>1, <1>2, <1>5, <1>6, <1>8 DEF RaceInv, Exact

\* and after every step.
LEMMA RaceInvStep ==
  ASSUME OneEarlySlot, RaceInv, [Next]_vars
  PROVE  RaceInv'
<1>0. PoolInv'
  BY PoolInvStep DEF RaceInv
<1>1. ASSUME NEW t \in Procs, NEW u \in Procs, Go(t, u)
      PROVE  RaceInv'
  BY <1>0, <1>1, GoStep DEF RaceInv
<1>2. ASSUME NEW t \in Procs, NEW k \in Keys,
             \/ \E kind \in {"read", "write"} : Access(t, kind, k)
             \/ Load(t, k)
             \/ \E what \in {"store", "rmw", "observe"} : AtomicWrite(t, k, what)
      PROVE  RaceInv'
  <2>1. born' = born
    BY <1>2 DEF Access, Load, AtomicWrite
  <2>2. Settled(status', hist', r', queued')
    BY <1>2, AccessStep, LoadStep, StoreStep, RmwStep, ObserveStep
  <2> QED
    BY <1>0, <2>1, <2>2, SettledInv
<1>3. ASSUME NEW t \in Procs, NEW l \in Locks, Lock(t, l) \/ RLock(t, l) \/ Unlock(t, l) \/ RUnlock(t, l)
      PROVE  RaceInv'
  <2>1. born' = born
    BY <1>3 DEF Lock, RLock, Unlock, RUnlock
  <2>2. Settled(status', hist', r', queued')
    BY <1>3, LockStep, RLockStep, UnlockStep, RUnlockStep
  <2> QED
    BY <1>0, <2>1, <2>2, SettledInv
<1>4. ASSUME NEW t \in Procs, NEW c \in Chans, ChanStep(t, c)
      PROVE  RaceInv'
  <2>1. born' = born
    BY <1>4 DEF ChanStep, ChanUse, Send, ParkSend, Receive, Close, ReceiveZero, Poll, SendTo, ReceiveFrom
  <2>2. Settled(status', hist', r', queued')
    BY <1>4, SendStep, ParkSendStep, ReceiveStep, CloseStep, ReceiveZeroStep, PollStep, SendToStep,
       ReceiveFromStep DEF ChanStep, ChanUse
  <2> QED
    BY <1>0, <2>1, <2>2, SettledInv
<1>5. CASE UNCHANGED vars
  BY <1>0, <1>5 DEF vars, cellVars, RaceInv, Exact, Inert
<1> QED
  BY <1>1, <1>2, <1>3, <1>4, <1>5 DEF Next

-----------------------------------------------------------------------------
(* Parked senders. *)

\* The detector's state for goroutine v's reads of channels is as before.
Spares(d, x, v) ==
  /\ x \in RaceStates /\ x.clocks[v] = d.clocks[v]
  /\ \A c \in Chans : x.shadow[c]["read"][v] = d.shadow[c]["read"][v]

\* Two steps that spare an epoch spare it together.
LEMMA SparesTwice ==
  ASSUME NEW d, NEW x, NEW y, NEW v, Spares(d, x, v), Spares(x, y, v)
  PROVE  Spares(d, y, v)
BY DEF Spares

\* An operation of goroutine t spares the others.
LEMMA OperationSpares ==
  ASSUME NEW d, d \in RaceStates, NEW t \in Procs, NEW v \in Procs, v # t
  PROVE  /\ \A l \in Locks : Spares(d, LockOp(d, t, l), v)
         /\ \A l \in Locks : Spares(d, RLockOp(d, t, l), v)
         /\ \A l \in Locks : Spares(d, UnlockOp(d, t, l), v)
         /\ \A l \in Locks : Spares(d, RUnlockOp(d, t, l), v)
         /\ \A k \in Keys : Spares(d, AtomicAcquire(d, t, k), v)
         /\ \A k \in Keys : Spares(d, AtomicReleaseStore(d, t, k), v)
         /\ \A k \in Keys : Spares(d, AtomicReleaseAcquire(d, t, k), v)
         /\ \A c \in Chans : Spares(d, CloseOp(d, t, c), v)
         /\ \A c \in Chans : Spares(d, CloseAcquire(d, t, c), v)
         /\ \A c \in Chans : Spares(d, SendSlot(d, t, c), v)
         /\ \A c \in Chans : Spares(d, RecvSlot(d, t, c), v)
         /\ \A kind \in Kinds, k \in Keys \cup Chans : Spares(d, Record(d, t, kind, k), v)
         /\ \A u \in Procs : v # u => Spares(d, Rendezvous(d, t, u), v) /\ Spares(d, SpawnEdge(d, t, u), v)
<1>1. ASSUME NEW l \in Locks
      PROVE  Spares(d, LockOp(d, t, l), v)
  <2>1. PICK x : x = LockOp(d, t, l)
    OBVIOUS
  <2>2. /\ x \in RaceStates
        /\ x.clocks = [d.clocks EXCEPT ![t] = Join(Join(d.clocks[t], d.semA[l]), d.semB[l])]
        /\ x.shadow = d.shadow /\ x.slots = d.slots /\ x.nsend = d.nsend /\ x.nrecv = d.nrecv
        /\ x.closeVC = d.closeVC /\ x.semA = d.semA /\ x.semB = d.semB /\ x.atomics = d.atomics
        /\ Join(Join(d.clocks[t], d.semA[l]), d.semB[l]) \in VC
    BY <2>1, LockFields
  <2>3. x \in RaceStates /\ x.shadow = d.shadow
    BY <2>2
  <2>4. x.clocks = [d.clocks EXCEPT ![t] = Join(Join(d.clocks[t], d.semA[l]), d.semB[l])]
    BY <2>2
  <2>5. x.clocks[v] = d.clocks[v]
    BY <2>4 DEF RaceStates
  <2> QED
    BY <2>1, <2>3, <2>5 DEF Spares
<1>2. ASSUME NEW l \in Locks
      PROVE  Spares(d, RLockOp(d, t, l), v)
  <2>1. PICK x : x = RLockOp(d, t, l)
    OBVIOUS
  <2>2. /\ x \in RaceStates
        /\ x.clocks = [d.clocks EXCEPT ![t] = Join(d.clocks[t], d.semA[l])]
        /\ x.shadow = d.shadow /\ x.slots = d.slots /\ x.nsend = d.nsend /\ x.nrecv = d.nrecv
        /\ x.closeVC = d.closeVC /\ x.semA = d.semA /\ x.semB = d.semB /\ x.atomics = d.atomics
        /\ Join(d.clocks[t], d.semA[l]) \in VC
    BY <2>1, RLockFields
  <2>3. x \in RaceStates /\ x.shadow = d.shadow
    BY <2>2
  <2>4. x.clocks = [d.clocks EXCEPT ![t] = Join(d.clocks[t], d.semA[l])]
    BY <2>2
  <2>5. x.clocks[v] = d.clocks[v]
    BY <2>4 DEF RaceStates
  <2> QED
    BY <2>1, <2>3, <2>5 DEF Spares
<1>3. ASSUME NEW l \in Locks
      PROVE  Spares(d, UnlockOp(d, t, l), v)
  <2>1. PICK x : x = UnlockOp(d, t, l)
    OBVIOUS
  <2>2. /\ x \in RaceStates
        /\ x.clocks = [d.clocks EXCEPT ![t] = Bump(d.clocks[t], t)]
        /\ x.semA = [d.semA EXCEPT ![l] = Join(d.semA[l], d.clocks[t])]
        /\ x.shadow = d.shadow /\ x.slots = d.slots /\ x.nsend = d.nsend /\ x.nrecv = d.nrecv
        /\ x.closeVC = d.closeVC /\ x.semB = d.semB /\ x.atomics = d.atomics
        /\ d.clocks[t] \in VC /\ Join(d.semA[l], d.clocks[t]) \in VC
    BY <2>1, UnlockFields
  <2>3. x \in RaceStates /\ x.shadow = d.shadow
    BY <2>2
  <2>4. x.clocks = [d.clocks EXCEPT ![t] = Bump(d.clocks[t], t)]
    BY <2>2
  <2>5. x.clocks[v] = d.clocks[v]
    BY <2>4 DEF RaceStates
  <2> QED
    BY <2>1, <2>3, <2>5 DEF Spares
<1>4. ASSUME NEW l \in Locks
      PROVE  Spares(d, RUnlockOp(d, t, l), v)
  <2>1. PICK x : x = RUnlockOp(d, t, l)
    OBVIOUS
  <2>2. /\ x \in RaceStates
        /\ x.clocks = [d.clocks EXCEPT ![t] = Bump(d.clocks[t], t)]
        /\ x.semB = [d.semB EXCEPT ![l] = Join(d.semB[l], d.clocks[t])]
        /\ x.shadow = d.shadow /\ x.slots = d.slots /\ x.nsend = d.nsend /\ x.nrecv = d.nrecv
        /\ x.closeVC = d.closeVC /\ x.semA = d.semA /\ x.atomics = d.atomics
        /\ d.clocks[t] \in VC /\ Join(d.semB[l], d.clocks[t]) \in VC
    BY <2>1, RUnlockFields
  <2>3. x \in RaceStates /\ x.shadow = d.shadow
    BY <2>2
  <2>4. x.clocks = [d.clocks EXCEPT ![t] = Bump(d.clocks[t], t)]
    BY <2>2
  <2>5. x.clocks[v] = d.clocks[v]
    BY <2>4 DEF RaceStates
  <2> QED
    BY <2>1, <2>3, <2>5 DEF Spares
<1>5. ASSUME NEW k \in Keys
      PROVE  Spares(d, AtomicAcquire(d, t, k), v)
  <2>1. PICK x : x = AtomicAcquire(d, t, k)
    OBVIOUS
  <2>2. /\ x \in RaceStates
        /\ x.clocks = [d.clocks EXCEPT ![t] = Join(d.clocks[t], d.atomics[k])]
        /\ x.shadow = d.shadow /\ x.slots = d.slots /\ x.nsend = d.nsend /\ x.nrecv = d.nrecv
        /\ x.closeVC = d.closeVC /\ x.semA = d.semA /\ x.semB = d.semB /\ x.atomics = d.atomics
        /\ Join(d.clocks[t], d.atomics[k]) \in VC
    BY <2>1, AcquireFields
  <2>3. x \in RaceStates /\ x.shadow = d.shadow
    BY <2>2
  <2>4. x.clocks = [d.clocks EXCEPT ![t] = Join(d.clocks[t], d.atomics[k])]
    BY <2>2
  <2>5. x.clocks[v] = d.clocks[v]
    BY <2>4 DEF RaceStates
  <2> QED
    BY <2>1, <2>3, <2>5 DEF Spares
<1>6. ASSUME NEW k \in Keys
      PROVE  Spares(d, AtomicReleaseStore(d, t, k), v)
  <2>1. PICK x : x = AtomicReleaseStore(d, t, k)
    OBVIOUS
  <2>2. /\ x \in RaceStates
        /\ x.clocks = [d.clocks EXCEPT ![t] = Bump(d.clocks[t], t)]
        /\ x.atomics = [d.atomics EXCEPT ![k] = d.clocks[t]]
        /\ x.shadow = d.shadow /\ x.slots = d.slots /\ x.nsend = d.nsend /\ x.nrecv = d.nrecv
        /\ x.closeVC = d.closeVC /\ x.semA = d.semA /\ x.semB = d.semB
        /\ d.clocks[t] \in VC /\ d.clocks[t] \in VC
    BY <2>1, StoreFields
  <2>3. x \in RaceStates /\ x.shadow = d.shadow
    BY <2>2
  <2>4. x.clocks = [d.clocks EXCEPT ![t] = Bump(d.clocks[t], t)]
    BY <2>2
  <2>5. x.clocks[v] = d.clocks[v]
    BY <2>4 DEF RaceStates
  <2> QED
    BY <2>1, <2>3, <2>5 DEF Spares
<1>7. ASSUME NEW k \in Keys
      PROVE  Spares(d, AtomicReleaseAcquire(d, t, k), v)
  <2>1. PICK x : x = AtomicReleaseAcquire(d, t, k)
    OBVIOUS
  <2>2. /\ x \in RaceStates
        /\ x.clocks = [d.clocks EXCEPT ![t] = Bump(Join(d.clocks[t], d.atomics[k]), t)]
        /\ x.atomics = [d.atomics EXCEPT ![k] = Join(d.clocks[t], d.atomics[k])]
        /\ x.shadow = d.shadow /\ x.slots = d.slots /\ x.nsend = d.nsend /\ x.nrecv = d.nrecv
        /\ x.closeVC = d.closeVC /\ x.semA = d.semA /\ x.semB = d.semB
        /\ Join(d.clocks[t], d.atomics[k]) \in VC /\ Join(d.clocks[t], d.atomics[k]) \in VC
    BY <2>1, RmwFields
  <2>3. x \in RaceStates /\ x.shadow = d.shadow
    BY <2>2
  <2>4. x.clocks = [d.clocks EXCEPT ![t] = Bump(Join(d.clocks[t], d.atomics[k]), t)]
    BY <2>2
  <2>5. x.clocks[v] = d.clocks[v]
    BY <2>4 DEF RaceStates
  <2> QED
    BY <2>1, <2>3, <2>5 DEF Spares
<1>8. ASSUME NEW c \in Chans
      PROVE  Spares(d, CloseOp(d, t, c), v)
  <2>1. PICK x : x = CloseOp(d, t, c)
    OBVIOUS
  <2>2. /\ x \in RaceStates
        /\ x.clocks = [d.clocks EXCEPT ![t] = Bump(d.clocks[t], t)]
        /\ x.closeVC = [d.closeVC EXCEPT ![c] = Join(d.clocks[t], d.closeVC[c])]
        /\ x.shadow = d.shadow /\ x.slots = d.slots /\ x.nsend = d.nsend /\ x.nrecv = d.nrecv
        /\ x.semA = d.semA /\ x.semB = d.semB /\ x.atomics = d.atomics
        /\ d.clocks[t] \in VC /\ Join(d.clocks[t], d.closeVC[c]) \in VC
    BY <2>1, CloseFields
  <2>3. x \in RaceStates /\ x.shadow = d.shadow
    BY <2>2
  <2>4. x.clocks = [d.clocks EXCEPT ![t] = Bump(d.clocks[t], t)]
    BY <2>2
  <2>5. x.clocks[v] = d.clocks[v]
    BY <2>4 DEF RaceStates
  <2> QED
    BY <2>1, <2>3, <2>5 DEF Spares
<1>9. ASSUME NEW c \in Chans
      PROVE  Spares(d, CloseAcquire(d, t, c), v)
  <2>1. PICK x : x = CloseAcquire(d, t, c)
    OBVIOUS
  <2>2. /\ x \in RaceStates
        /\ x.clocks = [d.clocks EXCEPT ![t] = Join(d.clocks[t], d.closeVC[c])]
        /\ x.shadow = d.shadow /\ x.slots = d.slots /\ x.nsend = d.nsend /\ x.nrecv = d.nrecv
        /\ x.closeVC = d.closeVC /\ x.semA = d.semA /\ x.semB = d.semB /\ x.atomics = d.atomics
        /\ Join(d.clocks[t], d.closeVC[c]) \in VC
    BY <2>1, ZeroFields
  <2>3. x \in RaceStates /\ x.shadow = d.shadow
    BY <2>2
  <2>4. x.clocks = [d.clocks EXCEPT ![t] = Join(d.clocks[t], d.closeVC[c])]
    BY <2>2
  <2>5. x.clocks[v] = d.clocks[v]
    BY <2>4 DEF RaceStates
  <2> QED
    BY <2>1, <2>3, <2>5 DEF Spares
<1>10. ASSUME NEW c \in Chans
      PROVE  Spares(d, SendSlot(d, t, c), v)
  <2>1. PICK x, s, j : /\ x = SendSlot(d, t, c) /\ s = <<c, d.nsend[c] % SlotCount(c)>>
                       /\ j = Join(d.clocks[t], d.slots[s])
    OBVIOUS
  <2>2. SendEffect(d, x, t, c, s, j)
    BY <2>1, SendFields
  <2>3. x \in RaceStates /\ x.shadow = d.shadow /\ \E a : x.clocks = [d.clocks EXCEPT ![t] = a]
    BY <2>2 DEF SendEffect
  <2>4. x.clocks[v] = d.clocks[v]
    BY <2>3 DEF RaceStates
  <2> QED
    BY <2>1, <2>3, <2>4 DEF Spares
<1>11. ASSUME NEW c \in Chans
      PROVE  Spares(d, RecvSlot(d, t, c), v)
  <2>1. PICK x, s, j : /\ x = RecvSlot(d, t, c) /\ s = <<c, d.nrecv[c] % SlotCount(c)>>
                       /\ j = Join(d.clocks[t], d.slots[s])
    OBVIOUS
  <2>2. RecvEffect(d, x, t, c, s, j)
    BY <2>1, RecvFields
  <2>3. x \in RaceStates /\ x.shadow = d.shadow /\ \E a : x.clocks = [d.clocks EXCEPT ![t] = a]
    BY <2>2 DEF RecvEffect
  <2>4. x.clocks[v] = d.clocks[v]
    BY <2>3 DEF RaceStates
  <2> QED
    BY <2>1, <2>3, <2>4 DEF Spares
<1>12. ASSUME NEW kind \in Kinds, NEW k \in Keys \cup Chans
      PROVE  Spares(d, Record(d, t, kind, k), v)
  <2>1. PICK x : x = Record(d, t, kind, k)
    OBVIOUS
  <2>2. /\ x \in RaceStates /\ x.clocks = d.clocks
        /\ \A j \in Keys \cup Chans, kd \in Kinds : x.shadow[j][kd][v] = d.shadow[j][kd][v]
    BY <2>1, RecordFields
  <2>3. "read" \in Kinds
    BY DEF Kinds
  <2> QED
    BY <2>1, <2>2, <2>3 DEF Spares
<1>13. ASSUME NEW u \in Procs, v # u
       PROVE  Spares(d, Rendezvous(d, t, u), v)
  <2>1. PICK x, j : x = Rendezvous(d, t, u) /\ j = Join(d.clocks[t], d.clocks[u])
    OBVIOUS
  <2>2. /\ x \in RaceStates /\ j \in VC
        /\ x.clocks = [[d.clocks EXCEPT ![t] = Bump(j, t)] EXCEPT ![u] = Bump(j, u)]
        /\ x.shadow = d.shadow /\ x.slots = d.slots /\ x.nsend = d.nsend /\ x.nrecv = d.nrecv
        /\ x.closeVC = d.closeVC /\ x.semA = d.semA /\ x.semB = d.semB /\ x.atomics = d.atomics
    BY <2>1, MeetFields
  <2>3. x.clocks = [[d.clocks EXCEPT ![t] = Bump(j, t)] EXCEPT ![u] = Bump(j, u)]
    BY <2>2
  <2>4. x.clocks[v] = d.clocks[v]
    BY <1>13, <2>3 DEF RaceStates
  <2>5. x \in RaceStates /\ x.shadow = d.shadow
    BY <2>2
  <2> QED
    BY <2>1, <2>4, <2>5 DEF Spares
<1>14. ASSUME NEW u \in Procs, v # u
       PROVE  Spares(d, SpawnEdge(d, t, u), v)
  <2>1. PICK x : x = SpawnEdge(d, t, u)
    OBVIOUS
  <2>2. SpawnEffect(d, x, t, u)
    BY <2>1, SpawnFields
  <2>3. \E a, z : x.clocks = [[d.clocks EXCEPT ![t] = a] EXCEPT ![u] = z]
    BY <2>2, Zenon DEF SpawnEffect
  <2>4. x.clocks[v] = d.clocks[v]
    BY <1>14, <2>3 DEF RaceStates
  <2>5. x \in RaceStates /\ x.shadow = d.shadow
    BY <2>2 DEF SpawnEffect
  <2> QED
    BY <2>1, <2>4, <2>5 DEF Spares
<1> QED
  BY <1>1, <1>2, <1>3, <1>4, <1>5, <1>6, <1>7, <1>8, <1>9, <1>10, <1>11, <1>12, <1>13, <1>14


\* A parked sender read the channel, which no one has closed, in its current epoch.
ParkedOk(v) ==
  parked[v] # None => /\ ~closed[parked[v]]
                      /\ Inert \/ r.shadow[parked[v]]["read"][v] = r.clocks[v][v]
ParkedInv == closed \in [Chans -> BOOLEAN] /\ (status = "running" => \A v \in Procs : ParkedOk(v))

\* A step of the others leaves it so, or it is received from.
LEMMA ParkedSpared ==
  ASSUME RaceInv, Next, status' = "running", NEW v \in Procs, parked[v] # None
  PROVE  ~Inert /\ (parked'[v] = None \/ (parked'[v] = parked[v] /\ Spares(r, r', v)))
<1>0. v \in born /\ parked \in [Procs -> Chans \cup {None}]
  BY DEF RaceInv, PoolInv
<1>1. ASSUME NEW t \in Procs, Able(t)
      PROVE  t # v /\ ~Inert /\ r \in RaceStates /\ PoolInv
  <2>1. t # v /\ t \in born /\ PoolInv /\ Exact(hist, r, queued)
    BY <1>1, AbleExact
  <2> QED
    BY <1>0, <2>1, TwoLook, ExactSound
<1>2. ASSUME NEW t \in Procs, NEW u \in Procs, Go(t, u)
      PROVE  ~Inert /\ parked'[v] = parked[v] /\ Spares(r, r', v)
  <2>1. Able(t) /\ u # v /\ parked' = parked /\ r' = SpawnEdge(r, t, u)
    BY <1>0, <1>2 DEF Go, cellVars
  <2> QED
    BY <1>1, <2>1, OperationSpares
<1>3. ASSUME NEW t \in Procs, NEW k \in Keys, NEW kind \in {"read", "write"}, Access(t, kind, k)
      PROVE  ~Inert /\ parked'[v] = parked[v] /\ Spares(r, r', v)
  <2>1. Able(t) /\ parked' = parked
    BY <1>3 DEF Access, cellVars
  <2>2. ~Inert /\ r \in RaceStates /\ t # v /\ kind \in Kinds /\ k \in Keys \cup Chans
    BY <1>1, <2>1 DEF Kinds
  <2>3. r' = Record(r, t, kind, k)
    BY <1>3, <2>2 DEF Access, RaceUpdate
  <2> QED
    BY <2>1, <2>2, <2>3, OperationSpares
<1>4. ASSUME NEW t \in Procs, NEW k \in Keys, Load(t, k)
      PROVE  ~Inert /\ parked'[v] = parked[v] /\ Spares(r, r', v)
  <2>1. Able(t) /\ parked' = parked
    BY <1>4 DEF Load, cellVars
  <2>2. ~Inert /\ r \in RaceStates /\ t # v /\ "atomicRead" \in Kinds /\ k \in Keys \cup Chans
    BY <1>1, <2>1 DEF Kinds
  <2>3. PICK d : d = AtomicAcquire(r, t, k)
    OBVIOUS
  <2>4. r' = Record(d, t, "atomicRead", k)
    BY <1>4, <2>2, <2>3 DEF Load, RaceUpdate
  <2>5. Spares(r, d, v)
    BY <2>2, <2>3, OperationSpares
  <2>6. d \in RaceStates
    BY <2>5 DEF Spares
  <2>7. Spares(d, r', v)
    BY <2>2, <2>4, <2>6, OperationSpares
  <2> QED
    BY <2>1, <2>2, <2>5, <2>7, SparesTwice
<1>5. ASSUME NEW t \in Procs, NEW k \in Keys, NEW what \in {"store", "rmw", "observe"}, AtomicWrite(t, k, what)
      PROVE  ~Inert /\ parked'[v] = parked[v] /\ Spares(r, r', v)
  <2>1. Able(t) /\ parked' = parked
    BY <1>5 DEF AtomicWrite, cellVars
  <2>2. ~Inert /\ r \in RaceStates /\ t # v /\ "atomicWrite" \in Kinds /\ k \in Keys \cup Chans
    BY <1>1, <2>1 DEF Kinds
  <2>3. PICK d : d = Record(r, t, "atomicWrite", k)
    OBVIOUS
  <2>4. r' \in {AtomicReleaseStore(d, t, k), AtomicReleaseAcquire(d, t, k), AtomicAcquire(d, t, k)}
    BY <1>5, <2>2, <2>3 DEF AtomicWrite, RaceUpdate
  <2>5. Spares(r, d, v)
    BY <2>2, <2>3, OperationSpares
  <2>6. d \in RaceStates
    BY <2>5 DEF Spares
  <2>7. Spares(d, r', v)
    BY <2>2, <2>4, <2>6, OperationSpares
  <2> QED
    BY <2>1, <2>2, <2>5, <2>7, SparesTwice
<1>6. ASSUME NEW t \in Procs, NEW l \in Locks, Lock(t, l) \/ RLock(t, l) \/ Unlock(t, l) \/ RUnlock(t, l)
      PROVE  ~Inert /\ parked'[v] = parked[v] /\ Spares(r, r', v)
  <2>1. Able(t) /\ parked' = parked
    BY <1>6 DEF Lock, RLock, Unlock, RUnlock
  <2>2. ~Inert /\ r \in RaceStates /\ t # v
    BY <1>1, <2>1
  <2>3. r' \in {LockOp(r, t, l), RLockOp(r, t, l), UnlockOp(r, t, l), RUnlockOp(r, t, l)}
    BY <1>6, <2>2 DEF Lock, RLock, Unlock, RUnlock, RaceUpdate, LockOp, RLockOp, UnlockOp, RUnlockOp,
                      SyncAcquire, SyncRelease
  <2> QED
    BY <2>1, <2>2, <2>3, OperationSpares
<1>7. ASSUME NEW t \in Procs, NEW c \in Chans, Send(t, c) \/ Close(t, c)
      PROVE  ~Inert /\ parked'[v] = parked[v] /\ Spares(r, r', v)
  <2>1. Able(t) /\ parked' = parked
    BY <1>7 DEF Send, Close
  <2>2. ~Inert /\ r \in RaceStates /\ t # v /\ {"read", "write"} \in SUBSET Kinds /\ c \in Keys \cup Chans
    BY <1>1, <2>1 DEF Kinds
  <2>3. PICK kind \in {"read", "write"} : LET d == Record(r, t, kind, c)
                                          IN  r' = SendSlot(d, t, c) \/ r' = CloseOp(d, t, c)
    BY <1>7, <2>2 DEF Send, Close, RaceUpdate, SendSlot
  <2>4. PICK d : /\ d = Record(r, t, kind, c)
                 /\ r' = SendSlot(d, t, c) \/ r' = CloseOp(d, t, c)
    BY <2>3
  <2>5. Spares(r, d, v)
    BY <2>2, <2>4, OperationSpares
  <2>6. d \in RaceStates
    BY <2>5 DEF Spares
  <2>7. Spares(d, r', v)
    BY <2>2, <2>4, <2>6, OperationSpares
  <2> QED
    BY <2>1, <2>2, <2>5, <2>7, SparesTwice
<1>8. ASSUME NEW t \in Procs, NEW c \in Chans, ParkSend(t, c) \/ Poll(t, c)
      PROVE  ~Inert /\ parked'[v] = parked[v] /\ Spares(r, r', v)
  <2>1. Able(t)
    BY <1>8 DEF ParkSend, Poll
  <2>2. ~Inert /\ r \in RaceStates /\ t # v /\ "read" \in Kinds /\ c \in Keys \cup Chans
    BY <1>1, <2>1 DEF Kinds
  <2>3. r' = Record(r, t, "read", c)
    BY <1>8, <2>2 DEF ParkSend, Poll, RaceUpdate
  <2>4. parked'[v] = parked[v]
    BY <1>0, <1>8, <2>2 DEF ParkSend, Poll, cellVars
  <2> QED
    BY <2>2, <2>3, <2>4, OperationSpares
<1>9. ASSUME NEW t \in Procs, NEW c \in Chans, Receive(t, c) \/ ReceiveZero(t, c)
      PROVE  ~Inert /\ parked'[v] = parked[v] /\ Spares(r, r', v)
  <2>1. Able(t) /\ parked' = parked
    BY <1>9 DEF Receive, ReceiveZero, cellVars
  <2>2. ~Inert /\ r \in RaceStates /\ t # v
    BY <1>1, <2>1
  <2>3. r' = RecvSlot(r, t, c) \/ r' = CloseAcquire(r, t, c)
    BY <1>9, <2>2 DEF Receive, ReceiveZero, RaceUpdate, RecvSlot
  <2> QED
    BY <2>1, <2>2, <2>3, OperationSpares
<1>10. ASSUME NEW t \in Procs, NEW c \in Chans, NEW u \in Procs, SendTo(t, u, c)
      PROVE  ~Inert /\ parked'[v] = parked[v] /\ Spares(r, r', v)
  <2>1. Able(t) /\ Able(u) /\ parked' = parked
    BY <1>10 DEF SendTo, cellVars
  <2>2. ~Inert /\ r \in RaceStates /\ t # v /\ u # v /\ "read" \in Kinds /\ c \in Keys \cup Chans
    BY <1>1, <2>1 DEF Kinds
  <2>3. PICK d, x : d = Record(r, t, "read", c) /\ x = SendSlot(d, t, c)
    OBVIOUS
  <2>4. r' = Rendezvous(d, t, u) \/ r' = RecvSlot(x, u, c)
    BY <1>10, <2>2, <2>3 DEF SendTo, RaceUpdate, SendSlot, RecvSlot
  <2>5. Spares(r, d, v)
    BY <2>2, <2>3, OperationSpares
  <2>6. d \in RaceStates
    BY <2>5 DEF Spares
  <2>7. Spares(d, x, v) /\ Spares(d, Rendezvous(d, t, u), v)
    BY <2>2, <2>3, <2>6, OperationSpares
  <2>8. x \in RaceStates
    BY <2>7 DEF Spares
  <2>9. Spares(x, RecvSlot(x, u, c), v)
    BY <2>2, <2>8, OperationSpares
  <2>10. Spares(d, r', v)
    BY <2>4, <2>7, <2>9, SparesTwice
  <2> QED
    BY <2>1, <2>2, <2>5, <2>10, SparesTwice
<1>11. ASSUME NEW t \in Procs, NEW c \in Chans, NEW u \in Procs, ReceiveFrom(t, u, c)
      PROVE  ~Inert /\ (parked'[v] = None \/ (parked'[v] = parked[v] /\ Spares(r, r', v)))
  <2>1. Able(t) /\ parked' = [parked EXCEPT ![u] = None]
    BY <1>11 DEF ReceiveFrom
  <2>2. ~Inert /\ r \in RaceStates /\ t # v
    BY <1>1, <2>1
  <2>3. CASE u = v
    BY <1>0, <2>1, <2>2, <2>3
  <2>4. CASE u # v
    <3>1. PICK x : x = RecvSlot(r, t, c)
      OBVIOUS
    <3>2. r' = Rendezvous(r, t, u) \/ r' = SendSlot(x, u, c)
      BY <1>11, <2>2, <3>1 DEF ReceiveFrom, RaceUpdate, SendSlot, RecvSlot
    <3>3. Spares(r, x, v) /\ Spares(r, Rendezvous(r, t, u), v)
      BY <2>2, <2>4, <3>1, OperationSpares
    <3>4. x \in RaceStates
      BY <3>3 DEF Spares
    <3>5. Spares(x, SendSlot(x, u, c), v)
      BY <2>4, <3>4, OperationSpares
    <3>6. Spares(r, r', v)
      BY <3>2, <3>3, <3>5, SparesTwice
    <3>7. parked'[v] = parked[v]
      BY <1>0, <2>1, <2>4
    <3> QED
      BY <2>2, <3>6, <3>7
  <2> QED
    BY <2>3, <2>4
<1> QED
  BY <1>2, <1>3, <1>4, <1>5, <1>6, <1>7, <1>8, <1>9, <1>10, <1>11 DEF Next, ChanStep, ChanUse

\* Closing a channel with a parked sender is refused.
LEMMA CloseRefused ==
  ASSUME RaceInv, status = "running", NEW v \in Procs, NEW t \in Procs, t # v, NEW c \in Chans,
         r.shadow[c]["read"][v] = r.clocks[v][v]
  PROVE  Conflict(r, t, "write", c)
<1>1. r \in RaceStates /\ Ahead(r, born)
  BY ExactSound DEF RaceInv, Exact, HB, ThreadsOk
<1>2. c \in DOMAIN r.shadow /\ "read" \in Kinds
  BY <1>1 DEF RaceStates, Kinds
<1>3. r.clocks[v][v] \in Nat /\ r.clocks[t][v] \in Nat /\ r.clocks[t][v] < r.clocks[v][v]
  BY <1>1 DEF RaceStates, VC, Ahead
<1>4. r.shadow[c]["read"][v] > r.clocks[t][v]
  BY <1>3
<1>5. Overlap(c, c) /\ Conflicting("write", "read")
  BY DEF Overlap, Conflicting, IsWrite, IsAtomic
<1> QED
  BY <1>2, <1>4, <1>5 DEF Conflict

\* What a step does to closed channels and parked senders.
ClosesOrParks ==
  /\ status = "running"
  /\ closed' = closed \/ \E t \in Procs, c \in Chans : Close(t, c)
  /\ \/ parked' = parked
     \/ \E t \in Procs, c \in Chans : ParkSend(t, c)
     \/ \E u \in Procs : parked' = [parked EXCEPT ![u] = None]

\* Each step closes, parks a sender or leaves the parked ones alone.
LEMMA StepParks ==
  ASSUME Next
  PROVE  ClosesOrParks
<1>1. ASSUME NEW t \in Procs, NEW u \in Procs, Go(t, u)
      PROVE  ClosesOrParks
  BY <1>1 DEF Go, cellVars, Able, ClosesOrParks
<1>2. ASSUME NEW t \in Procs, NEW k \in Keys,
             \/ \E kind \in {"read", "write"} : Access(t, kind, k)
             \/ Load(t, k)
             \/ \E what \in {"store", "rmw", "observe"} : AtomicWrite(t, k, what)
      PROVE  ClosesOrParks
  <2>1. closed' = closed /\ parked' = parked /\ status = "running"
    BY <1>2 DEF Access, Load, AtomicWrite, cellVars, Able
  <2> QED
    BY <2>1 DEF ClosesOrParks
<1>3. ASSUME NEW t \in Procs, NEW l \in Locks, Lock(t, l) \/ RLock(t, l) \/ Unlock(t, l) \/ RUnlock(t, l)
      PROVE  ClosesOrParks
  <2>1. closed' = closed /\ parked' = parked /\ status = "running"
    BY <1>3 DEF Lock, RLock, Unlock, RUnlock, Able
  <2> QED
    BY <2>1 DEF ClosesOrParks
<1>4. ASSUME NEW t \in Procs, NEW c \in Chans, ChanStep(t, c)
      PROVE  ClosesOrParks
  <2>1. CASE \/ Send(t, c) \/ Receive(t, c) \/ ReceiveZero(t, c) \/ Poll(t, c)
             \/ \E u \in Procs : SendTo(t, u, c)
    <3>1. closed' = closed /\ parked' = parked /\ status = "running"
      BY <2>1 DEF Send, Receive, ReceiveZero, Poll, SendTo, cellVars, Able
    <3> QED
      BY <3>1 DEF ClosesOrParks
  <2>2. CASE ParkSend(t, c)
    <3>1. closed' = closed /\ status = "running"
      BY <2>2 DEF ParkSend, Able
    <3> QED
      BY <2>2, <3>1 DEF ClosesOrParks
  <2>3. CASE Close(t, c)
    <3>1. parked' = parked /\ status = "running"
      BY <2>3 DEF Close, Able
    <3> QED
      BY <2>3, <3>1 DEF ClosesOrParks
  <2>4. ASSUME NEW u \in Procs, ReceiveFrom(t, u, c)
        PROVE  ClosesOrParks
    <3>1. closed' = closed /\ status = "running" /\ parked' = [parked EXCEPT ![u] = None]
      BY <2>4 DEF ReceiveFrom, Able
    <3> QED
      BY <3>1 DEF ClosesOrParks
  <2> QED
    BY <1>4, <2>1, <2>2, <2>3, <2>4 DEF ChanStep, ChanUse
<1> QED
  BY <1>1, <1>2, <1>3, <1>4 DEF Next

\* The access of a parked sender stays on record.
LEMMA ParkedInvStep ==
  ASSUME RaceInv, ParkedInv, [Next]_vars
  PROVE  ParkedInv'
<1>1. CASE UNCHANGED vars
  BY <1>1 DEF vars, cellVars, ParkedInv, ParkedOk, Inert
<1>2. CASE Next
  <2>0. ClosesOrParks
    BY <1>2, StepParks
  <2>1. \/ closed' = closed
        \/ \E t \in Procs, c \in Chans : Close(t, c) /\ closed' = [closed EXCEPT ![c] = TRUE]
    BY <2>0 DEF ClosesOrParks, Close
  <2>2. closed' \in [Chans -> BOOLEAN] /\ closed \in [Chans -> BOOLEAN]
    BY <2>1 DEF ParkedInv
  <2>3. status = "running"
    BY <2>0 DEF ClosesOrParks
  <2>4. parked \in [Procs -> Chans \cup {None}]
    BY DEF RaceInv, PoolInv
  <2>5. ASSUME status' = "running", NEW v \in Procs, parked[v] # None
        PROVE  ParkedOk(v)'
    <3>1. ~Inert /\ (parked'[v] = None \/ (parked'[v] = parked[v] /\ Spares(r, r', v)))
      BY <1>2, <2>5, ParkedSpared
    <3>2. ~closed[parked[v]] /\ r.shadow[parked[v]]["read"][v] = r.clocks[v][v] /\ parked[v] \in Chans
      BY <2>3, <2>4, <2>5, <3>1 DEF ParkedInv, ParkedOk
    <3>3. ~closed'[parked[v]]
      <4>1. CASE closed' = closed
        BY <3>2, <4>1
      <4>2. ASSUME NEW t \in Procs, NEW c \in Chans, Close(t, c), closed' = [closed EXCEPT ![c] = TRUE]
            PROVE  ~closed'[parked[v]]
        <5>1. ~Conflict(r, t, "write", c) /\ parked[t] = None
          BY <2>5, <3>1, <4>2 DEF Close, RaceUpdate, Able
        <5>2. parked[v] # c
          BY <2>3, <2>5, <3>2, <5>1, CloseRefused
        <5> QED
          BY <2>2, <3>2, <4>2, <5>2
      <4> QED
        BY <2>1, <4>1, <4>2
    <3>4. CASE parked'[v] = None
      BY <3>4 DEF ParkedOk
    <3>5. CASE parked'[v] = parked[v] /\ Spares(r, r', v)
      <4>1. r'.shadow[parked[v]]["read"][v] = r'.clocks[v][v]
        BY <3>2, <3>5 DEF Spares
      <4> QED
        BY <3>3, <3>5, <4>1 DEF ParkedOk
    <3> QED
      BY <3>1, <3>4, <3>5
  <2>6. ASSUME status' = "running", NEW v \in Procs, parked[v] = None
        PROVE  ParkedOk(v)'
    <3>1. CASE parked'[v] = None
      BY <3>1 DEF ParkedOk
    <3>2. CASE parked'[v] # None
      <4>1. PICK c \in Chans : ParkSend(v, c)
        <5>1. \A t \in Procs, c \in Chans : ParkSend(t, c) => parked' = [parked EXCEPT ![t] = c]
          BY DEF ParkSend
        <5>2. PICK t \in Procs, c \in Chans : ParkSend(t, c)
          BY <2>0, <2>4, <2>6, <3>2 DEF ClosesOrParks
        <5>3. t = v
          BY <2>4, <2>6, <3>2, <5>1, <5>2
        <5> QED
          BY <5>2, <5>3
      <4>2. parked'[v] = c /\ ~closed'[c] /\ born' = born /\ Able(v)
        BY <2>4, <4>1 DEF ParkSend
      <4>3. CASE Inert
        BY <4>2, <4>3 DEF ParkedOk, Inert
      <4>4. CASE ~Inert
        <5>1. r \in RaceStates
          BY <2>3, ExactSound DEF RaceInv
        <5>2. r' = Record(r, v, "read", c)
          BY <2>6, <4>1, <4>4 DEF ParkSend, RaceUpdate
        <5>3. "read" \in Kinds /\ c \in Keys \cup Chans
          BY DEF Kinds
        <5>4. /\ r' \in RaceStates
              /\ \A j \in Keys \cup Chans, kd \in Kinds, u \in Procs :
                   r'.shadow[j][kd][u] = IF j = c /\ kd = "read" /\ u = v THEN r.clocks[v][v]
                                                                  ELSE r.shadow[j][kd][u]
              /\ r'.clocks = r.clocks /\ r'.slots = r.slots /\ r'.nsend = r.nsend /\ r'.nrecv = r.nrecv
              /\ r'.closeVC = r.closeVC /\ r'.semA = r.semA /\ r'.semB = r.semB /\ r'.atomics = r.atomics
          BY <5>1, <5>2, <5>3, RecordFields
        <5>5. r'.shadow[c]["read"][v] = r'.clocks[v][v]
          BY <5>3, <5>4
        <5> QED
          BY <4>2, <5>5 DEF ParkedOk
      <4> QED
        BY <4>3, <4>4
    <3> QED
      BY <3>1, <3>2
  <2>7. status' = "running" => \A v \in Procs : ParkedOk(v)'
    BY <2>5, <2>6
  <2> QED
    BY <2>2, <2>7 DEF ParkedInv
<1> QED
  BY <1>1, <1>2

-----------------------------------------------------------------------------
(* The theorems. *)

\* The histories of the properties are those of the invariant.
LEMMA AsRaces ==
  /\ (\E i, j \in Accesses : Races(i, j) \/ RecordedEarly(i, j)) <=> Racy(hist)
  /\ (\A i, j \in Accesses : ~Races(i, j)) <=> (\A i, j \in DOMAIN hist : ~RacesIn(hist, i, j))
<1>1. \A i, j \in Accesses : (Races(i, j) <=> RacesIn(hist, i, j)) /\ (RecordedEarly(i, j) <=> EarlyIn(hist, i, j))
  BY DEF Accesses, Races, RecordedEarly, Contend, RacesIn, EarlyIn, IsAccess, Past, PastUpTo
<1>2. \A i, j \in DOMAIN hist : RacesIn(hist, i, j) \/ EarlyIn(hist, i, j) => i \in Accesses /\ j \in Accesses
  BY DEF RacesIn, EarlyIn, IsAccess, Accesses
<1>3. Accesses \in SUBSET DOMAIN hist
  BY DEF Accesses
<1> QED
  BY <1>1, <1>2, <1>3 DEF Racy

\* The invariant says that verdicts and clocks are right.
LEMMA RaceInvImplies ==
  ASSUME RaceInv
  PROVE  NoFalseRace /\ NoMissedRace /\ ClockExact
<1>1. NoFalseRace
  BY AsRaces DEF RaceInv, NoFalseRace
<1>2. NoMissedRace
  BY AsRaces DEF RaceInv, Exact, HB, Accounted, NoMissedRace
<1>3. ClockExact
  <2>1. SUFFICES ASSUME status = "running", NEW i \in Accesses, NEW u \in hist[i].who, NEW t \in born \ {u}
                 PROVE  i \in Past(t, Len(hist)) <=> hist[i].epoch <= r.clocks[t][u]
    BY DEF ClockExact
  <2>2. HB(hist, r, born) /\ Accounted(hist, r, born) /\ r \in RaceStates /\ born \in SUBSET Procs
        /\ hist \in Seq(Events)
    BY <2>1 DEF RaceInv, Exact, HB, Accounted
  <2>3. i \in DOMAIN hist /\ hist[i].what = "access" /\ Past(t, Len(hist)) = PastOf(hist, t)
    BY <2>2 DEF Accesses, Past, PastOf
  <2>4. PICK w \in born : hist[i].who = {w} /\ (hist[i].epoch = 0 => \A v \in born : i \in PastOf(hist, v))
    BY <2>2, <2>3 DEF Accounted
  <2>5. hist[i].epoch \in Nat /\ r.clocks[t][u] \in Nat
    <3>1. hist[i] \in Events /\ u \in Procs /\ t \in Procs
      BY <2>2, <2>3, <2>4
    <3> QED
      BY <2>2, <3>1 DEF Events, RaceStates, VC
  <2>6. CASE hist[i].epoch = 0
    BY <2>3, <2>4, <2>5, <2>6
  <2>7. CASE hist[i].epoch > 0
    <3>1. Covers(hist, PastOf(hist, t), r.clocks[t])
      BY <2>2 DEF HB, ThreadsOk
    <3> QED
      BY <2>3, <2>7, <3>1 DEF Covers
  <2> QED
    BY <2>5, <2>6, <2>7
<1> QED
  BY <1>1, <1>2, <1>3

\* The inductive invariant holds: in a run that goes on the clocks of
\* goroutines, locks, atomics, closes and slots cover the events before them
\* (RaceState.hbAction), and a run that was refused has a race.
THEOREM RaceInvCorrect == ASSUME OneEarlySlot PROVE Spec => []RaceInv
<1>1. Init => RaceInv
  BY RaceInvInit
<1>2. RaceInv /\ [Next]_vars => RaceInv'
  BY RaceInvStep
<1> QED
  BY <1>1, <1>2, PTL DEF Spec

\* The clocks hold exactly the happens-before of the Go memory model
\* (RaceState.hbAction): an access by one goroutine is before what another does
\* next just when its epoch is covered by the other's clock.
THEOREM ClockExactCorrect == ASSUME OneEarlySlot PROVE Spec => []ClockExact
<1>1. RaceInv => ClockExact
  BY RaceInvImplies
<1> QED
  BY <1>1, RaceInvCorrect, PTL

\* accessKey refuses no run without a data race.
THEOREM NoFalseRaceCorrect == ASSUME OneEarlySlot PROVE Spec => []NoFalseRace
<1>1. RaceInv => NoFalseRace
  BY RaceInvImplies
<1> QED
  BY <1>1, RaceInvCorrect, PTL

\* accessKey refuses every run with a data race, although the shadow keeps one
\* epoch for each goroutine and kind of access.
THEOREM NoMissedRaceCorrect == ASSUME OneEarlySlot PROVE Spec => []NoMissedRace
<1>1. RaceInv => NoMissedRace
  BY RaceInvImplies
<1> QED
  BY <1>1, RaceInvCorrect, PTL

\* A close over a parked sender is refused as a race of the close's write with
\* the sender's read, so that no run goes on with one.
THEOREM ParkedSenderRefusesCloseCorrect == ASSUME OneEarlySlot PROVE Spec => []ParkedSenderRefusesClose
<1>1. Init => ParkedInv
  BY DEF Init, ParkedInv, ParkedOk
<1>2. RaceInv /\ ParkedInv /\ [Next]_vars => ParkedInv'
  BY ParkedInvStep
<1>3. ParkedInv => ParkedSenderRefusesClose
  BY DEF ParkedInv, ParkedOk, ParkedSenderRefusesClose
<1> QED
  BY <1>1, <1>2, <1>3, RaceInvCorrect, PTL DEF Spec
=============================================================================
