--------------------------- MODULE RaftLogProofs ---------------------------
(***************************************************************************)
(* What RaftLog promises, for any leaders' logs and any bounds.            *)
(*                                                                         *)
(* The argument follows a log through the pipeline.  A stage is the whole  *)
(* log as a message carries it: T[1] is what the storage holds, T[j + 1]   *)
(* what it will hold after the j-th message of appendQ, V what the node    *)
(* reads, and B[j] what it read when it asked for the j-th response of     *)
(* appendBack.  Each is a prefix of some leader's log.                     *)
(***************************************************************************)
EXTENDS RaftLog, FiniteSetTheorems, NaturalsInduction, TLAPS

Ids     == [index : Nat, term : Nat]
Hards   == [term : Nat, commit : Nat]
Resps   == [term : Nat, id : Ids, snap : Ids]
Acks    == [term : Nat, index : Nat]
Appends == [first : Nat, ents : Seq(Nat), hs : Hards, snap : Ids, answers : SUBSET Acks,
            resp : Seq(Resps)]
Applies == [to : Nat, size : Nat]
Stores  == [base : Nat, ents : Seq(Nat), hs : Hards]
Unstables == [offset : Nat, inProgress : Nat, entries : Seq(Nat), snap : Ids, snapBusy : BOOLEAN]
CursorSet == [committed : Nat, applying : Nat, applied : Nat, size : Nat, paused : BOOLEAN]

-----------------------------------------------------------------------------
(* Stages.  L is the leaders' logs. *)

Stages(L) == [term : 0 .. Len(L), lt : DOMAIN L, last : Nat, commit : Nat]

EntryOf(L, s, i) == IF i = 0 THEN 0 ELSE L[s.lt][i]

Has(L, s, i, e) == i \in 1 .. s.last /\ L[s.lt][i] = e

LeaderHas(L, t, i, e) == t \in DOMAIN L /\ i \in 1 .. Len(L[t]) /\ L[t][i] = e

SameTo(L, a, b, i) == i <= a.last /\ i <= b.last /\ \A j \in 1 .. i : L[a.lt][j] = L[b.lt][j]

\* What the stage commits is in its log and in that of every leader from its
\* term on.
StageOk(L, s) ==
  /\ s \in Stages(L) /\ s.last <= Len(L[s.lt]) /\ s.commit <= s.last
  /\ \A t \in DOMAIN L : t >= s.term =>
        s.commit <= Len(L[t]) /\ \A i \in 1 .. s.commit : L[t][i] = L[s.lt][i]

\* b comes after a.  Within a term what is new is the leader's, and what is
\* the leader's stays: so an entry that is there before and after was there
\* all the time.  And nothing is only cut off.
InTerm(L, a, b) ==
  /\ \A i \in 1 .. b.last : \/ LeaderHas(L, b.term, i, L[b.lt][i])
                            \/ Has(L, a, i, L[b.lt][i])
  /\ \A i \in 1 .. a.last : LeaderHas(L, b.term, i, L[a.lt][i]) => Has(L, b, i, L[a.lt][i])
  /\ b.last < a.last => ~SameTo(L, a, b, b.last)

Later(L, a, b) ==
  a.term <= b.term /\ a.commit <= b.commit /\ (a.term = b.term => InTerm(L, a, b))

StagesOk(L, B, T, V) ==
  /\ B \in Seq(Stages(L)) /\ T \in Seq(Stages(L)) /\ T # <<>>
  /\ \A j \in DOMAIN B : StageOk(L, B[j]) /\ Later(L, B[j], T[1])
  /\ \A j \in DOMAIN T : StageOk(L, T[j]) /\ Later(L, T[j], V)
  /\ \A j \in DOMAIN T : \A k \in j .. Len(T) : Later(L, T[j], T[k])
  /\ StageOk(L, V)

-----------------------------------------------------------------------------
(* The storage and the messages. *)

StoreOk(L, m, s) ==
  /\ m \in Stores /\ m.base <= s.last /\ Len(m.ents) = s.last - m.base + 1
  /\ \A j \in 1 .. Len(m.ents) : m.ents[j] = EntryOf(L, s, m.base + j - 1)
  /\ m.hs = [term |-> s.term, commit |-> s.commit]

\* A response names the last entry of the log it is about.
RespOk(L, r, b) ==
  /\ r \in Resps /\ r.term = b.term /\ r.snap.index <= b.commit
  /\ r.id # None => b.last > 0 /\ r.id = [index |-> b.last, term |-> L[b.lt][b.last]]

EntsOk(L, m, b) ==
  /\ m.first > 0 /\ m.first + Len(m.ents) = b.last + 1
  /\ \A j \in 1 .. Len(m.ents) : m.ents[j] = L[b.lt][m.first + j - 1]

\* Writing m makes a to b.
WritesOk(L, m, a, b) ==
  /\ m.ents # <<>> => EntsOk(L, m, b)
  /\ IF m.snap = None
     THEN /\ m.ents = <<>> => b.last = a.last /\ SameTo(L, a, b, a.last)
          /\ m.ents # <<>> => m.first > a.commit /\ SameTo(L, a, b, m.first - 1)
          /\ m.ents # <<>> /\ a.term = b.term => ~Has(L, a, m.first, L[b.lt][m.first])
     ELSE /\ a.commit < m.snap.index /\ m.snap.index <= b.commit
          /\ L[b.lt][m.snap.index] = m.snap.term
          /\ m.ents = <<>> => b.last = m.snap.index
          /\ m.ents # <<>> => m.first = m.snap.index + 1

MsgOk(L, m, a, b) ==
  /\ m \in Appends /\ m.hs = [term |-> b.term, commit |-> b.commit]
  /\ WritesOk(L, m, a, b)
  /\ Len(m.resp) <= 1
  /\ m.resp # <<>> => RespOk(L, m.resp[1], b) /\ m.resp[1].snap = m.snap
  /\ m.snap # None => m.resp # <<>>

QueueOk(L, q, T) ==
  /\ q \in Seq(Appends) /\ Len(T) = Len(q) + 1
  /\ \A j \in DOMAIN q : MsgOk(L, q[j], T[j], T[j + 1])

BackOk(L, b, B) ==
  /\ b \in Seq(Resps) /\ Len(b) = Len(B)
  /\ \A j \in DOMAIN b : RespOk(L, b[j], B[j])

-----------------------------------------------------------------------------
(* The unstable log. *)

EntriesOk(L, un, V) ==
  /\ un \in Unstables /\ un.offset > 0 /\ un.offset + Len(un.entries) = V.last + 1
  /\ \A j \in 1 .. Len(un.entries) : un.entries[j] = L[V.lt][un.offset + j - 1]
  /\ un.offset <= un.inProgress /\ un.inProgress <= V.last + 1

\* What is on its way to the storage, K, is the log up to inProgress; and if
\* it was sent in this term, it is not the log at inProgress.
InProgressOk(L, un, K, V) ==
  /\ SameTo(L, K, V, un.inProgress - 1)
  /\ un.inProgress = V.last + 1 => K.last = V.last
  /\ un.inProgress <= V.last /\ K.term = V.term => ~Has(L, K, un.inProgress, L[V.lt][un.inProgress])

\* What was dropped from memory is in the storage, and stays.
StableOk(L, un, T, V) ==
  \A j \in DOMAIN T : /\ SameTo(L, T[j], V, un.offset - 1)
                      /\ un.entries = <<>> => T[j].last = V.last

\* Before a snapshot nothing of the same term had it.
LacksSnap(L, s, x, V) ==
  x.commit < s.index /\ x.term = V.term => ~Has(L, x, s.index, s.term)

\* The first of what is in flight that commits the snapshot carries it.
Carried(s, q, b, B) ==
  \/ \E j \in DOMAIN b : b[j].snap.index = s.index /\ \A k \in 1 .. j - 1 : B[k].commit < s.index
  \/ /\ \E j \in DOMAIN q : q[j].snap.index = s.index
     /\ \A k \in DOMAIN B : B[k].commit < s.index

SnapOk(L, un, q, b, B, T, V) ==
  /\ un.offset = un.snap.index + 1 /\ 0 < un.snap.index /\ un.snap.index <= V.commit
  /\ L[V.lt][un.snap.index] = un.snap.term
  /\ \A j \in DOMAIN B : LacksSnap(L, un.snap, B[j], V)
  /\ \A j \in DOMAIN T : LacksSnap(L, un.snap, T[j], V)
  /\ \A j \in DOMAIN T : un.entries = <<>> /\ T[j].commit >= un.snap.index => T[j].last = V.last
  /\ un.snapBusy  => Carried(un.snap, q, b, B)
  /\ ~un.snapBusy => T[Len(T)].commit < un.snap.index /\ un.inProgress = un.offset

UnstableOk(L, un, q, b, B, T, V) ==
  /\ EntriesOk(L, un, V)
  /\ un.inProgress > T[Len(T)].commit
  /\ un.snap = None \/ un.snapBusy => InProgressOk(L, un, T[Len(T)], V)
  /\ un.snap = None => StableOk(L, un, T, V)
  /\ un.snap # None => SnapOk(L, un, q, b, B, T, V)

-----------------------------------------------------------------------------
(* Cursors and acknowledgements. *)

CursorOk(L, c, un, m, q, T, V) ==
  /\ c \in CursorSet /\ c.committed = V.commit
  /\ c.applied <= c.applying /\ c.applying <= c.committed /\ c.applying < un.offset
  /\ \A j \in DOMAIN T : SameTo(L, T[j], V, c.applying)
  /\ m.base <= MaxOf(c.applying, un.snap.index)
  /\ \A j \in DOMAIN q : q[j].snap.index <= MaxOf(c.applying, un.snap.index)

\* Compaction may overtake the storing of the commit index, not what is being
\* applied; and what is on its way to the storage lies beyond that.
FlightOk(c, un, m, q, T) ==
  /\ m.base <= c.applying \/ m.base <= T[1].commit
  /\ \A j \in DOMAIN q : /\ q[j].ents # <<>> => q[j].first > c.applying
                         /\ q[j].snap # None => q[j].snap.index > c.applying
                         /\ un.snap = None => q[j].snap = None
                         /\ un.snap = None /\ q[j].ents # <<>> => q[j].first >= un.offset
  /\ un.snap # None /\ ~un.snapBusy => c.applying < un.snap.index

\* A snapshot whose response is on its way back is stored.
SnapsStored(b, m) == \A j \in DOMAIN b : b[j].snap.index <= m.base

ApplyingOk(q, c) == q \in Seq(Applies) /\ \A j \in DOMAIN q : q[j].to <= c.applying

\* s has what was acknowledged to leader t, if no later term is known.
Backed(L, s, t, i) ==
  /\ t \in DOMAIN L /\ t <= s.term /\ i <= Len(L[t])
  /\ t = s.term /\ i > 0 => Has(L, s, i, L[t][i])

AcksOk(L, ack, af, q, T, V) ==
  /\ ack \in [DOMAIN L -> Nat] /\ af \in SUBSET Acks
  /\ \A t \in DOMAIN L : ack[t] > 0 => Backed(L, T[1], t, ack[t])
  /\ \A j \in DOMAIN q : \A a \in q[j].answers : Backed(L, T[j + 1], a.term, a.index)
  /\ \A a \in af : Backed(L, V, a.term, a.index)

GhostInv(B, T, V) ==
  /\ ~panicked /\ leader \in Histories /\ crashes \in Nat
  /\ V.term = term
  /\ StagesOk(leader, B, T, V)
  /\ StoreOk(leader, ms, T[1])
  /\ QueueOk(leader, appendQ, T)
  /\ BackOk(leader, appendBack, B) /\ SnapsStored(appendBack, ms)
  /\ UnstableOk(leader, u, appendQ, appendBack, B, T, V)
  /\ CursorOk(leader, cur, u, ms, appendQ, T, V) /\ FlightOk(cur, u, ms, appendQ, T)
  /\ ApplyingOk(applyQ, cur) /\ ApplyingOk(applyBack, cur)
  /\ AcksOk(leader, acked, after, appendQ, T, V)

\* loadState has panicked: the storage holds x, compacted beyond its commit.
LoadInv(x) ==
  /\ panicked /\ leader \in Histories
  /\ StageOk(leader, x) /\ StoreOk(leader, ms, x) /\ x.commit < ms.base
  /\ u = EmptyUnstable(x.last + 1) /\ cur = Cursors(ms.base, x.commit)
  /\ acked \in [DOMAIN leader -> Nat]
  /\ \A t \in DOMAIN leader : acked[t] > 0 => Backed(leader, x, t, acked[t])

LogInv ==
  \/ \E B, T \in Seq(Stages(leader)), V \in Stages(leader) : GhostInv(B, T, V)
  \/ \E x \in Stages(leader) : LoadInv(x)

-----------------------------------------------------------------------------
(* Numbers. *)

\* A nonempty set of natural numbers has a least element.
LEMMA LeastOf ==
  ASSUME NEW W \in SUBSET Nat, W # {}
  PROVE  \E m \in W : \A n \in W : m <= n
<1>1. PICK m \in W : \A n \in W : ~(<<n, m>> \in OpToRel(<, Nat))
  BY WFMin, NatLessThanWellFounded
<1>2. ASSUME NEW n \in W
      PROVE  m <= n
  <2>1. m \in Nat /\ n \in Nat
    OBVIOUS
  <2>2. ~(n < m)
    BY <1>1, <2>1 DEF OpToRel
  <2> QED
    BY <2>1, <2>2
<1> QED
  BY <1>2

\* A nonempty bounded one has a highest.
LEMMA HighestOf ==
  ASSUME NEW n \in Nat, NEW S, S \in SUBSET (0 .. n), S # {}
  PROVE  Highest(S) \in S /\ \A j \in S : j <= Highest(S)
<1> DEFINE W == {n - j : j \in S}
<1>1. W \in SUBSET Nat /\ W # {}
  OBVIOUS
<1>2. PICK m \in W : \A k \in W : m <= k
  BY <1>1, LeastOf
<1>3. PICK i \in S : m = n - i
  BY <1>2
<1>4. \A j \in S : j <= i
  <2> TAKE j \in S
  <2>1. m <= n - j
    BY <1>2
  <2> QED
    BY <1>3, <2>1
<1>5. \E k \in S : \A j \in S : j <= k
  BY <1>4
<1> QED
  BY <1>5 DEF Highest

-----------------------------------------------------------------------------
(* The leaders' logs. *)

\* Two logs with the same entry agree up to it.
Matching(L) ==
  \A a, b \in DOMAIN L : \A i \in 1 .. Len(L[a]) :
     i <= Len(L[b]) /\ L[a][i] = L[b][i] => \A j \in 1 .. i : L[a][j] = L[b][j]

ClusterOk(L) ==
  /\ L \in Seq(Seq(Nat)) /\ Len(L) > 0
  /\ \A t \in DOMAIN L : \A i \in 1 .. Len(L[t]) : L[t][i] > 0
  /\ Matching(L)

\* The entry at i of leader a's log came from the leader of its term, with
\* everything before it.
Sourced(L, a) ==
  \A i \in 1 .. Len(L[a]) :
     /\ L[a][i] \in DOMAIN L /\ i <= Len(L[L[a][i]])
     /\ \A j \in 1 .. i : L[a][j] = L[L[a][i]][j]

\* A leader's log is a sequence of positive terms.
LEMMA LogIsSeq ==
  ASSUME NEW g \in Logs
  PROVE  g \in Seq(Nat) /\ \A i \in 1 .. Len(g) : g[i] > 0
<1>1. PICK k \in Indexes : g \in [1 .. k -> 1 .. MaxTerm]
  BY DEF Logs
<1>2. k \in Nat /\ MaxTerm \in Nat
  BY BoundsAssumption DEF Indexes
<1>3. g \in [1 .. k -> Nat]
  BY <1>1, <1>2
<1>4. g \in Seq(Nat)
  BY <1>2, <1>3
<1>5. Len(g) = k
  BY <1>1, <1>2, <1>4
<1> QED
  BY <1>1, <1>2, <1>4, <1>5

\* What Cluster says of the logs' shapes.
LEMMA ClusterType ==
  ASSUME NEW L \in Cluster
  PROVE  /\ L \in Seq(Seq(Nat)) /\ Len(L) > 0
         /\ \A t \in DOMAIN L : \A i \in 1 .. Len(L[t]) : L[t][i] > 0
         /\ \A t \in DOMAIN L : Grows(L, t)
<1>1. PICK n \in 1 .. MaxTerm : L \in [1 .. n -> Logs] /\ \A t \in 1 .. n : Grows(L, t)
  BY DEF Cluster
<1>2. n \in Nat /\ n > 0
  BY BoundsAssumption
<1>3. \A t \in 1 .. n : L[t] \in Seq(Nat) /\ \A i \in 1 .. Len(L[t]) : L[t][i] > 0
  BY <1>1, LogIsSeq
<1>4. L \in [1 .. n -> Seq(Nat)]
  BY <1>1, <1>3
<1>5. L \in Seq(Seq(Nat))
  BY <1>2, <1>4
<1>6. Len(L) = n /\ DOMAIN L = 1 .. n
  BY <1>2, <1>4, <1>5
<1> QED
  BY <1>1, <1>2, <1>3, <1>5, <1>6

\* A prefix has the log's entries.
LEMMA PrefixEntry ==
  ASSUME NEW g \in Seq(Nat), NEW k \in 0 .. Len(g), NEW j \in 1 .. k
  PROVE  SubSeq(g, 1, k)[j] = g[j]
OBVIOUS

\* If all earlier leaders' entries are sourced, so are the next leader's: it
\* starts from a prefix of one of them and adds entries of its own term.
LEMMA SourcedStep ==
  ASSUME NEW L \in Seq(Seq(Nat)), NEW a \in DOMAIN L, Grows(L, a),
         \A s \in 1 .. a - 1 : Sourced(L, s)
  PROVE  Sourced(L, a)
<1>1. PICK k \in 0 .. Len(L[a]) - 1 :
         /\ \A i \in k + 1 .. Len(L[a]) : L[a][i] = a
         /\ \/ k = 0
            \/ \E s \in 1 .. a - 1 :
                 k <= Len(L[s]) /\ SubSeq(L[a], 1, k) = SubSeq(L[s], 1, k)
  BY DEF Grows
<1>2. L[a] \in Seq(Nat) /\ a \in Nat
  OBVIOUS
<1> SUFFICES ASSUME NEW i \in 1 .. Len(L[a])
             PROVE  /\ L[a][i] \in DOMAIN L /\ i <= Len(L[L[a][i]])
                    /\ \A j \in 1 .. i : L[a][j] = L[L[a][i]][j]
  BY DEF Sourced
<1>3. CASE i > k
  <2>1. L[a][i] = a
    BY <1>1, <1>2, <1>3
  <2> QED
    BY <1>2, <2>1
<1>4. CASE i <= k
  <2>1. PICK s \in 1 .. a - 1 : k <= Len(L[s]) /\ SubSeq(L[a], 1, k) = SubSeq(L[s], 1, k)
    BY <1>1, <1>2, <1>4
  <2>2. s \in DOMAIN L /\ L[s] \in Seq(Nat)
    BY <2>1
  <2>3. ASSUME NEW j \in 1 .. k
        PROVE  L[a][j] = L[s][j]
    <3>0. k \in 0 .. Len(L[a]) /\ k \in 0 .. Len(L[s])
      BY <1>2, <2>1, <2>2
    <3>1. SubSeq(L[a], 1, k)[j] = L[a][j]
      BY <1>2, <3>0, PrefixEntry
    <3>2. SubSeq(L[s], 1, k)[j] = L[s][j]
      BY <2>2, <3>0, PrefixEntry
    <3> QED
      BY <2>1, <3>1, <3>2
  <2>4. i \in 1 .. k /\ i \in 1 .. Len(L[s])
    BY <1>1, <1>2, <1>4, <2>1, <2>2
  <2>5. Sourced(L, s)
    BY <2>1
  <2>6. /\ L[s][i] \in DOMAIN L /\ i <= Len(L[L[s][i]])
        /\ \A j \in 1 .. i : L[s][j] = L[L[s][i]][j]
    BY <2>4, <2>5 DEF Sourced
  <2>7. \A j \in 1 .. i : j \in 1 .. k
    BY <2>4
  <2> QED
    BY <2>3, <2>4, <2>6, <2>7
<1> QED
  BY <1>1, <1>2, <1>3, <1>4

\* So all are, by strong induction on the term.
LEMMA AllSourced ==
  ASSUME NEW L \in Cluster
  PROVE  \A a \in DOMAIN L : Sourced(L, a)
<1>1. L \in Seq(Seq(Nat)) /\ \A t \in DOMAIN L : Grows(L, t)
  BY ClusterType
<1> DEFINE W == {a \in DOMAIN L : ~Sourced(L, a)}
<1>2. W \in SUBSET Nat
  BY <1>1
<1> SUFFICES ASSUME W # {}
             PROVE  FALSE
  OBVIOUS
<1>3. PICK a \in W : \A n \in W : a <= n
  BY <1>2, LeastOf
<1>4. a \in DOMAIN L /\ a \in Nat /\ ~Sourced(L, a)
  BY <1>2, <1>3
<1>5. ASSUME NEW s \in 1 .. a - 1
      PROVE  Sourced(L, s)
  <2>1. s \in DOMAIN L /\ ~(a <= s)
    BY <1>1, <1>4
  <2> QED
    BY <1>3, <2>1
<1>6. Sourced(L, a)
  BY <1>1, <1>4, <1>5, SourcedStep
<1> QED
  BY <1>4, <1>6

\* Hence log matching, for every history of the instance.
LEMMA ClusterIs ==
  ASSUME NEW L \in Histories
  PROVE  ClusterOk(L)
<1>1. L \in Cluster
  BY HistoriesAssumption
<1>2. /\ L \in Seq(Seq(Nat)) /\ Len(L) > 0
      /\ \A t \in DOMAIN L : \A i \in 1 .. Len(L[t]) : L[t][i] > 0
  BY <1>1, ClusterType
<1>3. \A a \in DOMAIN L : Sourced(L, a)
  BY <1>1, AllSourced
<1>4. ASSUME NEW a \in DOMAIN L, NEW b \in DOMAIN L, NEW i \in 1 .. Len(L[a]),
             i <= Len(L[b]), L[a][i] = L[b][i], NEW j \in 1 .. i
      PROVE  L[a][j] = L[b][j]
  <2>1. i \in 1 .. Len(L[b])
    BY <1>2, <1>4
  <2>2. L[a][j] = L[L[a][i]][j]
    BY <1>3 DEF Sourced
  <2>3. L[b][j] = L[L[b][i]][j]
    BY <1>3, <2>1 DEF Sourced
  <2> QED
    BY <1>4, <2>2, <2>3
<1>5. Matching(L)
  BY <1>4 DEF Matching
<1> QED
  BY <1>2, <1>5 DEF ClusterOk

-----------------------------------------------------------------------------
(* Stages. *)

\* The types of a stage's parts.
LEMMA StageType ==
  ASSUME NEW L, ClusterOk(L), NEW s, StageOk(L, s)
  PROVE  /\ s.term \in 0 .. Len(L) /\ s.lt \in DOMAIN L /\ s.last \in Nat /\ s.commit \in Nat
         /\ Len(L) \in Nat \ {0} /\ Len(L) \in DOMAIN L /\ DOMAIN L = 1 .. Len(L)
         /\ L[s.lt] \in Seq(Nat) /\ Len(L[s.lt]) \in Nat
         /\ s.last <= Len(L[s.lt]) /\ s.commit <= s.last
         /\ \A i \in 1 .. s.last : L[s.lt][i] \in Nat \ {0}
<1>1. /\ s.term \in 0 .. Len(L) /\ s.lt \in DOMAIN L /\ s.last \in Nat /\ s.commit \in Nat
      /\ s.last <= Len(L[s.lt]) /\ s.commit <= s.last
  BY DEF StageOk, Stages
<1>2. L \in Seq(Seq(Nat)) /\ Len(L) > 0
  BY DEF ClusterOk
<1>3. /\ Len(L) \in Nat \ {0} /\ Len(L) \in DOMAIN L /\ DOMAIN L = 1 .. Len(L)
      /\ L[s.lt] \in Seq(Nat)
  BY <1>1, <1>2
<1>4. Len(L[s.lt]) \in Nat /\ \A i \in 1 .. Len(L[s.lt]) : L[s.lt][i] \in Nat
  BY <1>3
<1>5. \A i \in 1 .. Len(L[s.lt]) : L[s.lt][i] > 0
  BY <1>1 DEF ClusterOk
<1>6. \A i \in 1 .. s.last : i \in 1 .. Len(L[s.lt])
  BY <1>1, <1>4
<1>7. \A i \in 1 .. s.last : L[s.lt][i] \in Nat \ {0}
  BY <1>4, <1>5, <1>6
<1> QED
  BY <1>1, <1>3, <1>4, <1>7

\* The types of a leader's log.
LEMMA LeaderType ==
  ASSUME NEW L, ClusterOk(L), NEW t \in DOMAIN L
  PROVE  /\ t \in 1 .. Len(L) /\ t \in Nat /\ L[t] \in Seq(Nat) /\ Len(L[t]) \in Nat
         /\ \A i \in 1 .. Len(L[t]) : L[t][i] \in Nat \ {0}
BY DEF ClusterOk

\* Log matching, between two stages.
LEMMA SameEntry ==
  ASSUME NEW L, ClusterOk(L), NEW a, StageOk(L, a), NEW b, StageOk(L, b),
         NEW i \in Nat, i > 0, i <= a.last, i <= b.last, L[a.lt][i] = L[b.lt][i]
  PROVE  SameTo(L, a, b, i)
<1>1. i \in 1 .. Len(L[a.lt]) /\ i <= Len(L[b.lt]) /\ a.lt \in DOMAIN L /\ b.lt \in DOMAIN L
  BY StageType
<1>2. \A j \in 1 .. i : L[a.lt][j] = L[b.lt][j]
  BY <1>1 DEF ClusterOk, Matching
<1> QED
  BY <1>2 DEF SameTo

\* Log matching, between a stage and a leader.
LEMMA SameLeader ==
  ASSUME NEW L, ClusterOk(L), NEW a, StageOk(L, a), NEW t \in DOMAIN L,
         NEW i \in Nat, i > 0, i <= a.last, i <= Len(L[t]), L[a.lt][i] = L[t][i]
  PROVE  \A j \in 1 .. i : L[a.lt][j] = L[t][j]
<1>1. i \in 1 .. Len(L[a.lt]) /\ a.lt \in DOMAIN L
  BY StageType
<1> QED
  BY <1>1 DEF ClusterOk, Matching

\* SameTo is symmetric,
LEMMA SameSym ==
  ASSUME NEW L, NEW a, NEW b, NEW i, SameTo(L, a, b, i)
  PROVE  SameTo(L, b, a, i)
BY DEF SameTo

\* holds below where it holds,
LEMMA SameBelow ==
  ASSUME NEW L, NEW a, NEW b, NEW i \in Int, NEW k \in Int, SameTo(L, a, b, i), k <= i,
         a.last \in Nat, b.last \in Nat
  PROVE  SameTo(L, a, b, k)
<1>1. \A j \in 1 .. k : j \in 1 .. i
  OBVIOUS
<1> QED
  BY <1>1 DEF SameTo

\* is transitive,
LEMMA SameTrans ==
  ASSUME NEW L, NEW a, NEW b, NEW c, NEW i, SameTo(L, a, b, i), SameTo(L, b, c, i)
  PROVE  SameTo(L, a, c, i)
BY DEF SameTo

\* and reflexive.
LEMMA SameRefl ==
  ASSUME NEW L, NEW a, NEW i \in Int, i <= a.last
  PROVE  SameTo(L, a, a, i)
BY DEF SameTo

\* A stage is no earlier than itself.
LEMMA LaterRefl ==
  ASSUME NEW L, ClusterOk(L), NEW a, StageOk(L, a)
  PROVE  Later(L, a, a)
BY StageType DEF Later, InTerm, Has

\* An entry that is there before and after was there in between.
LEMMA Between ==
  ASSUME NEW L, ClusterOk(L), NEW a, StageOk(L, a), NEW b, StageOk(L, b), NEW c, StageOk(L, c),
         b.term = c.term, InTerm(L, a, b), InTerm(L, b, c),
         NEW i \in Nat, i > 0, i <= a.last, i <= c.last, L[a.lt][i] = L[c.lt][i]
  PROVE  SameTo(L, b, c, i)
<1>1. a.last \in Nat /\ b.last \in Nat /\ c.last \in Nat
  BY StageType
<1>4. Has(L, b, i, L[c.lt][i])
  <2>1. CASE LeaderHas(L, c.term, i, L[c.lt][i])
    BY <1>1, <2>1 DEF InTerm
  <2>2. CASE ~LeaderHas(L, c.term, i, L[c.lt][i])
    BY <1>1, <2>2 DEF InTerm
  <2> QED
    BY <2>1, <2>2
<1>5. i <= b.last /\ L[b.lt][i] = L[c.lt][i]
  BY <1>1, <1>4 DEF Has
<1> QED
  BY <1>5, SameEntry

\* Within a term the order of stages is transitive:
LEMMA InTermTrans ==
  ASSUME NEW L, ClusterOk(L), NEW a, StageOk(L, a), NEW b, StageOk(L, b), NEW c, StageOk(L, c),
         a.last \in Nat, b.last \in Nat, c.last \in Nat,
         b.term = c.term, InTerm(L, a, b), InTerm(L, b, c)
  PROVE  InTerm(L, a, c)
<1>1. ASSUME NEW i \in 1 .. c.last
      PROVE  LeaderHas(L, c.term, i, L[c.lt][i]) \/ Has(L, a, i, L[c.lt][i])
  <2>1. LeaderHas(L, c.term, i, L[c.lt][i]) \/ Has(L, b, i, L[c.lt][i])
    BY DEF InTerm
  <2>2. CASE Has(L, b, i, L[c.lt][i])
    <3>1. i \in 1 .. b.last /\ L[b.lt][i] = L[c.lt][i]
      BY <2>2 DEF Has
    <3>2. LeaderHas(L, b.term, i, L[b.lt][i]) \/ Has(L, a, i, L[b.lt][i])
      BY <3>1 DEF InTerm
    <3> QED
      BY <3>1, <3>2
  <2> QED
    BY <2>1, <2>2
<1>2. ASSUME NEW i \in 1 .. a.last, LeaderHas(L, c.term, i, L[a.lt][i])
      PROVE  Has(L, c, i, L[a.lt][i])
  <2>1. Has(L, b, i, L[a.lt][i])
    BY <1>2 DEF InTerm
  <2>2. i \in 1 .. b.last /\ L[b.lt][i] = L[a.lt][i]
    BY <2>1 DEF Has
  <2>3. Has(L, c, i, L[b.lt][i])
    BY <1>2, <2>2 DEF InTerm
  <2> QED
    BY <2>2, <2>3
<1>3. ASSUME c.last < a.last, SameTo(L, a, c, c.last)
      PROVE  FALSE
  <2>1. SameTo(L, b, c, c.last)
    <3>1. CASE c.last = 0
      BY <3>1 DEF SameTo
    <3>2. CASE c.last > 0
      BY <1>3, <3>2, Between DEF SameTo
    <3> QED
      BY <3>1, <3>2
  <2>2. c.last <= b.last
    BY <2>1 DEF SameTo
  <2>3. ~(c.last < b.last)
    BY <2>1 DEF InTerm
  <2>4. b.last = c.last
    BY <2>2, <2>3
  <2>5. SameTo(L, c, b, b.last)
    BY <2>1, <2>4, SameSym
  <2>6. SameTo(L, a, b, b.last)
    BY <1>3, <2>4, <2>5, SameTrans
  <2> QED
    BY <1>3, <2>4, <2>6 DEF InTerm
<1> QED
  BY <1>1, <1>2, <1>3 DEF InTerm

\* and so it is in general.
LEMMA LaterTrans ==
  ASSUME NEW L, ClusterOk(L), NEW a, StageOk(L, a), NEW b, StageOk(L, b), NEW c, StageOk(L, c),
         Later(L, a, b), Later(L, b, c)
  PROVE  Later(L, a, c)
<1>1. /\ a.term \in Nat /\ b.term \in Nat /\ c.term \in Nat
      /\ a.commit \in Nat /\ b.commit \in Nat /\ c.commit \in Nat
      /\ a.last \in Nat /\ b.last \in Nat /\ c.last \in Nat
  BY StageType
<1>2. a.term <= c.term /\ a.commit <= c.commit
  BY <1>1 DEF Later
<1>3. ASSUME a.term = c.term
      PROVE  InTerm(L, a, c)
  <2>1. a.term = b.term /\ b.term = c.term
    BY <1>1, <1>3 DEF Later
  <2>2. InTerm(L, a, b) /\ InTerm(L, b, c)
    BY <2>1 DEF Later
  <2> QED
    BY <1>1, <2>1, <2>2, InTermTrans
<1> QED
  BY <1>2, <1>3 DEF Later

\* What a stage commits is in every later one.
LEMMA CommitStays ==
  ASSUME NEW L, ClusterOk(L), NEW a, StageOk(L, a), NEW b, StageOk(L, b), a.commit <= b.commit
  PROVE  SameTo(L, a, b, a.commit)
<1>1. /\ Len(L) \in DOMAIN L /\ Len(L) >= a.term /\ Len(L) >= b.term
      /\ a.commit \in Nat /\ b.commit \in Nat /\ a.commit <= a.last /\ b.commit <= b.last
      /\ a.last \in Nat /\ b.last \in Nat
  BY StageType
<1>2. \A i \in 1 .. a.commit : L[Len(L)][i] = L[a.lt][i]
  BY <1>1 DEF StageOk
<1>3. \A i \in 1 .. b.commit : L[Len(L)][i] = L[b.lt][i]
  BY <1>1 DEF StageOk
<1>4. \A i \in 1 .. a.commit : i \in 1 .. b.commit
  BY <1>1
<1> QED
  BY <1>1, <1>2, <1>3, <1>4 DEF SameTo

\* Acknowledged entries stay.
LEMMA BackedLater ==
  ASSUME NEW L, ClusterOk(L), NEW a, StageOk(L, a), NEW b, StageOk(L, b), Later(L, a, b),
         NEW t, NEW i \in Nat, Backed(L, a, t, i)
  PROVE  Backed(L, b, t, i)
<1>1. t \in DOMAIN L /\ t <= a.term /\ i <= Len(L[t]) /\ a.term <= b.term
  BY DEF Backed, Later
<1>2. t \in Nat /\ a.term \in Nat /\ b.term \in Nat /\ Len(L[t]) \in Nat
  BY <1>1, StageType, LeaderType
<1>3. ASSUME t = b.term, i > 0
      PROVE  Has(L, b, i, L[t][i])
  <2>1. t = a.term /\ a.term = b.term
    BY <1>1, <1>2, <1>3
  <2>2. i \in 1 .. a.last /\ L[a.lt][i] = L[t][i]
    BY <1>3, <2>1 DEF Backed, Has
  <2>3. LeaderHas(L, t, i, L[t][i])
    BY <1>1, <1>2, <1>3 DEF LeaderHas
  <2>4. InTerm(L, a, b)
    BY <2>1 DEF Later
  <2>5. Has(L, b, i, L[a.lt][i])
    BY <1>3, <2>2, <2>3, <2>4 DEF InTerm
  <2> QED
    BY <2>2, <2>5
<1> QED
  BY <1>1, <1>2, <1>3 DEF Backed

\* An entry that a stage and a later one of its term share is in every stage
\* between them: why a late response of the current term is safe to act on.
LEMMA Throughout ==
  ASSUME NEW L, ClusterOk(L), NEW a, StageOk(L, a), NEW b, StageOk(L, b), NEW c, StageOk(L, c),
         Later(L, a, b), Later(L, b, c), a.term = c.term,
         NEW i \in Nat, i > 0, i <= a.last, i <= c.last, L[a.lt][i] = L[c.lt][i]
  PROVE  SameTo(L, b, c, i)
<1>1. /\ a.term \in Nat /\ b.term \in Nat /\ c.term \in Nat
      /\ a.last \in Nat /\ b.last \in Nat /\ c.last \in Nat
  BY StageType
<1>2. a.term = b.term /\ b.term = c.term
  BY <1>1 DEF Later
<1>3. InTerm(L, a, b) /\ InTerm(L, b, c)
  BY <1>2 DEF Later
<1> QED
  BY <1>2, <1>3, Between

\* The parts of StagesOk.
LEMMA ConstStages ==
  ASSUME NEW L, NEW B, NEW T, NEW V, StagesOk(L, B, T, V)
  PROVE  /\ StageOk(L, V) /\ 1 \in DOMAIN T /\ Len(T) \in DOMAIN T /\ Len(T) \in Nat
         /\ DOMAIN T = 1 .. Len(T) /\ DOMAIN B = 1 .. Len(B) /\ Len(B) \in Nat
         /\ \A j \in DOMAIN B : StageOk(L, B[j]) /\ Later(L, B[j], T[1])
         /\ \A j \in DOMAIN T : StageOk(L, T[j]) /\ Later(L, T[j], V)
         /\ \A j \in DOMAIN T : \A k \in DOMAIN T : j <= k => Later(L, T[j], T[k])
<1>1. B \in Seq(Stages(L)) /\ T \in Seq(Stages(L)) /\ T # <<>>
  BY DEF StagesOk
<1>2. /\ 1 \in DOMAIN T /\ Len(T) \in DOMAIN T /\ Len(T) \in Nat
      /\ DOMAIN T = 1 .. Len(T) /\ DOMAIN B = 1 .. Len(B) /\ Len(B) \in Nat
  BY <1>1
<1>3. \A j \in DOMAIN T : \A k \in DOMAIN T : j <= k => Later(L, T[j], T[k])
  BY <1>2 DEF StagesOk
<1> QED
  BY <1>2, <1>3 DEF StagesOk

-----------------------------------------------------------------------------
(* What a leader knows to be committed. *)

\* A downward closed set of indexes contains the numbers up to its size.
LEMMA DownSet ==
  ASSUME NEW n \in Nat, NEW K \in SUBSET (1 .. n), \A k \in K : \A j \in 1 .. k : j \in K
  PROVE  /\ Cardinality(K) \in Nat
         /\ \A c \in 1 .. Cardinality(K) : c \in K
<1>1. IsFiniteSet(1 .. n)
  BY FS_Interval
<1>2. IsFiniteSet(K)
  BY <1>1, FS_Subset
<1>3. Cardinality(K) \in Nat
  BY <1>2, FS_CardinalityType
<1>4. ASSUME NEW c \in 1 .. Cardinality(K), c \notin K
      PROVE  FALSE
  <2>1. c \in Nat /\ c > 0 /\ c <= Cardinality(K)
    BY <1>3
  <2>2. \A k \in K : k \in 1 .. c - 1
    BY <1>4, <2>1
  <2>3. IsFiniteSet(1 .. c - 1) /\ Cardinality(1 .. c - 1) = c - 1
    BY <2>1, FS_Interval
  <2>4. Cardinality(K) <= c - 1
    BY <2>2, <2>3, FS_Subset
  <2> QED
    BY <1>3, <2>1, <2>4
<1> QED
  BY <1>3, <1>4

\* What leader t may announce as committed is in the log of every leader from
\* t on.
LEMMA SafeIs ==
  ASSUME ClusterOk(leader), NEW t \in Terms, NEW c \in 0 .. Safe(t)
  PROVE  /\ Safe(t) \in Nat /\ c \in Nat /\ c <= Len(leader[t])
         /\ \A s \in Terms : s >= t =>
              c <= Len(leader[s]) /\ \A i \in 1 .. c : leader[s][i] = leader[t][i]
<1>1. PICK n : n = Len(leader[t])
  OBVIOUS
<1>2. PICK K : K = {k \in 1 .. n : \A s \in t .. Len(leader) :
                       Len(leader[s]) >= k /\ leader[s][k] = leader[t][k]}
  OBVIOUS
<1>3. /\ t \in DOMAIN leader /\ t \in Nat /\ DOMAIN leader = 1 .. Len(leader)
      /\ Len(leader) \in Nat /\ n \in Nat /\ K \in SUBSET (1 .. n)
  BY <1>1, <1>2, LeaderType DEF Terms, ClusterOk
<1>4. \A k \in K : \A j \in 1 .. k : j \in K
  <2> SUFFICES ASSUME NEW k \in K, NEW j \in 1 .. k
               PROVE  j \in K
    OBVIOUS
  <2>1. k \in 1 .. n /\ j \in 1 .. n
    BY <1>3
  <2>2. ASSUME NEW s \in t .. Len(leader)
        PROVE  Len(leader[s]) >= j /\ leader[s][j] = leader[t][j]
    <3>1. s \in DOMAIN leader /\ Len(leader[s]) \in Nat
      BY <1>3, LeaderType
    <3>2. Len(leader[s]) >= k /\ leader[s][k] = leader[t][k]
      BY <1>2, <2>2
    <3>3. leader[s][j] = leader[t][j]
      BY <1>1, <1>3, <2>1, <3>1, <3>2 DEF ClusterOk, Matching
    <3> QED
      BY <2>1, <3>1, <3>2, <3>3
  <2> QED
    BY <1>2, <2>1, <2>2
<1>5. Cardinality(K) \in Nat /\ \A k \in 1 .. Cardinality(K) : k \in K
  BY <1>3, <1>4, DownSet
<1>6. Safe(t) \in Nat /\ c \in Nat /\ c <= Cardinality(K)
  <2>1. Safe(t) = Cardinality(K)
    BY <1>1, <1>2 DEF Safe
  <2> QED
    BY <1>5, <2>1
<1>7. CASE c = 0
  BY <1>3, <1>6, <1>7, LeaderType DEF Terms
<1>8. CASE c > 0
  <2>1. c \in K
    BY <1>8, <1>5, <1>6
  <2>2. c <= Len(leader[t])
    BY <1>1, <1>3, <2>1
  <2>3. ASSUME NEW s \in Terms, s >= t
        PROVE  c <= Len(leader[s]) /\ \A i \in 1 .. c : leader[s][i] = leader[t][i]
    <3>1. s \in t .. Len(leader)
      BY <1>3, <2>3 DEF Terms
    <3>2. c <= Len(leader[s])
      BY <1>2, <1>3, <1>6, <2>1, <3>1, LeaderType DEF Terms
    <3>3. \A i \in 1 .. c : i \in K
      BY <1>4, <2>1
    <3> QED
      BY <1>2, <3>1, <3>2, <3>3
  <2> QED
    BY <1>6, <2>2, <2>3
<1> QED
  BY <1>6, <1>7, <1>8

-----------------------------------------------------------------------------
(* The node's log moves on from V to W. *)

Advance(L, V, W) == StageOk(L, W) /\ Later(L, V, W)

\* When the node's log moves on, the stages behind it stay in order.
LEMMA StagesAdvance ==
  ASSUME NEW L, ClusterOk(L), NEW B, NEW T, NEW V, StagesOk(L, B, T, V), NEW W, Advance(L, V, W)
  PROVE  StagesOk(L, B, T, W)
<1>1. StageOk(L, W) /\ Later(L, V, W) /\ StageOk(L, V)
  BY DEF Advance, StagesOk
<1>2. \A j \in DOMAIN T : Later(L, T[j], W)
  BY <1>1, ConstStages, LaterTrans
<1> QED
  BY <1>1, <1>2 DEF StagesOk

\* The node's log moves on without touching what is committed.
LEMMA AdvanceSame ==
  ASSUME NEW L, ClusterOk(L), NEW V, StageOk(L, V), NEW W, Advance(L, V, W)
  PROVE  SameTo(L, V, W, V.commit) /\ V.commit <= W.commit /\ V.term <= W.term
BY CommitStays DEF Advance, Later

\* The types of a message to the append thread.
LEMMA AppendType ==
  ASSUME NEW q \in Seq(Appends), NEW j \in DOMAIN q
  PROVE  q[j] \in Appends /\ q[j].snap \in Ids /\ q[j].resp \in Seq(Resps) /\ q[j].ents \in Seq(Nat)
<1>1. q[j] \in Appends
  OBVIOUS
<1> QED
  BY <1>1 DEF Appends

\* What may change of the rest when the log moves on.
CursorMoves(c, c2, un, un2, W) ==
  /\ c2 = [c EXCEPT !.committed = W.commit]
  /\ c.applying < un2.offset /\ un2.snap \in Ids /\ un.snap.index <= un2.snap.index
  /\ un2.snap = None => un.snap = None /\ un2.offset <= un.offset
  /\ un2.snap # None /\ ~un2.snapBusy => c.applying < un2.snap.index

\* The cursors keep their relations when the node's log moves on.
LEMMA CursorAdvance ==
  ASSUME NEW L, ClusterOk(L), NEW B, NEW T, NEW V, StagesOk(L, B, T, V), NEW W, Advance(L, V, W),
         NEW c, NEW c2, NEW un \in Unstables, NEW un2, NEW m \in Stores, NEW q \in Seq(Appends),
         CursorOk(L, c, un, m, q, T, V), CursorMoves(c, c2, un, un2, W)
  PROVE  CursorOk(L, c2, un2, m, q, T, W)
<1>1. /\ c \in CursorSet /\ c.committed = V.commit
      /\ c.applied <= c.applying /\ c.applying <= c.committed
      /\ m.base <= MaxOf(c.applying, un.snap.index)
      /\ \A j \in DOMAIN q : q[j].snap.index <= MaxOf(c.applying, un.snap.index)
  BY DEF CursorOk
<1>2. StageOk(L, V) /\ StageOk(L, W) /\ V.commit <= W.commit /\ SameTo(L, V, W, V.commit)
  BY AdvanceSame DEF StagesOk, Advance
<1>3. V.commit \in Nat /\ W.commit \in Nat /\ V.last \in Nat /\ W.last \in Nat
  BY <1>2, StageType
<1>4. /\ c2 \in CursorSet /\ c2.committed = W.commit /\ c2.applied = c.applied
      /\ c2.applying = c.applying
  BY <1>1, <1>3 DEF CursorMoves, CursorSet
<1>5. c.applying \in Nat /\ c.applied \in Nat /\ c.applying <= V.commit
  BY <1>1 DEF CursorSet
<1>6. ASSUME NEW j \in DOMAIN T
      PROVE  SameTo(L, T[j], W, c.applying)
  <2>1. SameTo(L, T[j], V, c.applying)
    BY DEF CursorOk
  <2>2. SameTo(L, V, W, c.applying)
    BY <1>2, <1>3, <1>5, SameBelow
  <2> QED
    BY <2>1, <2>2, SameTrans
<1>7. un.snap.index \in Nat /\ un2.snap.index \in Nat /\ un.snap.index <= un2.snap.index
  BY DEF CursorMoves, Unstables, Ids
<1>8. MaxOf(c.applying, un.snap.index) <= MaxOf(c.applying, un2.snap.index)
  BY <1>5, <1>7 DEF MaxOf
<1>9. /\ MaxOf(c.applying, un.snap.index) \in Nat /\ MaxOf(c.applying, un2.snap.index) \in Nat
      /\ m.base \in Nat
  BY <1>5, <1>7 DEF MaxOf, Stores
<1>10. \A j \in DOMAIN q : q[j].snap.index \in Nat
  BY AppendType DEF Ids
<1>11. /\ m.base <= MaxOf(c.applying, un2.snap.index)
       /\ \A j \in DOMAIN q : q[j].snap.index <= MaxOf(c.applying, un2.snap.index)
  BY <1>1, <1>8, <1>9, <1>10
<1>12. c.applying < un2.offset
  BY DEF CursorMoves
<1>13. c.applying <= W.commit
  BY <1>2, <1>3, <1>5
<1> QED
  BY <1>1, <1>4, <1>6, <1>11, <1>12, <1>13 DEF CursorOk

\* What is in flight stays beyond what is being applied.
LEMMA FlightAdvance ==
  ASSUME NEW T, NEW W, NEW c \in CursorSet, NEW c2, NEW un, un.offset \in Nat,
         NEW un2, un2.offset \in Nat, NEW m, NEW q \in Seq(Appends),
         FlightOk(c, un, m, q, T), CursorMoves(c, c2, un, un2, W)
  PROVE  FlightOk(c2, un2, m, q, T)
<1>1. /\ c2.applying = c.applying
      /\ un2.snap = None => un.snap = None /\ un2.offset <= un.offset
      /\ un2.snap # None /\ ~un2.snapBusy => c.applying < un2.snap.index
  BY DEF CursorMoves, CursorSet
<1>2. ASSUME NEW j \in DOMAIN q
      PROVE  /\ q[j].ents # <<>> => q[j].first > c.applying
             /\ q[j].snap # None => q[j].snap.index > c.applying
             /\ un2.snap = None => q[j].snap = None
             /\ un2.snap = None /\ q[j].ents # <<>> => q[j].first >= un2.offset
  <2>1. q[j].first \in Nat
    BY AppendType DEF Appends
  <2> QED
    BY <1>1, <2>1 DEF FlightOk
<1> QED
  BY <1>1, <1>2 DEF FlightOk

\* The acknowledgements stay backed when the node's log moves on.
LEMMA AcksAdvance ==
  ASSUME NEW L, NEW T, NEW V, NEW W, NEW ack, NEW af, NEW q, AcksOk(L, ack, af, q, T, V),
         NEW af2 \in SUBSET Acks, \A a \in af2 : Backed(L, W, a.term, a.index)
  PROVE  AcksOk(L, ack, af2, q, T, W)
BY DEF AcksOk

\* after with an answer to leader t.
Answered(af, t, i) ==
  {a \in af : a.term # t}
    \cup {[term |-> t, index |-> Highest({i} \cup {a.index : a \in {b \in af : b.term = t}})]}

\* A new answer joins those waiting for the next Ready.
LEMMA AnswerOk ==
  ASSUME ClusterOk(leader), NEW V, StageOk(leader, V), NEW W, Advance(leader, V, W),
         NEW t, NEW i \in Nat, after' = Answered(after, t, i), Backed(leader, W, t, i),
         after \in SUBSET Acks, \A a \in after : Backed(leader, V, a.term, a.index)
  PROVE  after' \in SUBSET Acks /\ \A a \in after' : Backed(leader, W, a.term, a.index)
<1> DEFINE S == {i} \cup {a.index : a \in {b \in after : b.term = t}}
<1>1. StageOk(leader, W) /\ Later(leader, V, W)
  BY DEF Advance
<1>2. \A a \in after : a \in Acks /\ a.term \in Nat /\ a.index \in Nat
  BY DEF Acks
<1>3. \A a \in after : Backed(leader, W, a.term, a.index)
  BY <1>1, <1>2, BackedLater
<1>4. \A j \in S : j \in Nat /\ Backed(leader, W, t, j)
  BY <1>2, <1>3
<1>5. t \in DOMAIN leader
  BY DEF Backed
<1>6. Len(leader[t]) \in Nat /\ t \in Nat
  BY <1>5, LeaderType
<1>7. S \in SUBSET (0 .. Len(leader[t])) /\ S # {}
  <2>1. \A j \in S : j \in Nat /\ j <= Len(leader[t])
    BY <1>4 DEF Backed
  <2>2. \A j \in S : j \in 0 .. Len(leader[t])
    BY <1>6, <2>1
  <2> QED
    BY <2>2
<1>8. Highest(S) \in S
  BY <1>6, <1>7, HighestOf
<1>9. PICK h \in S : h = Highest(S)
  BY <1>8
<1>10. after' = {a \in after : a.term # t} \cup {[term |-> t, index |-> h]}
  BY <1>9 DEF Answered
<1>11. h \in Nat /\ Backed(leader, W, t, h)
  BY <1>4
<1>12. [term |-> t, index |-> h] \in Acks
  BY <1>6, <1>11 DEF Acks
<1>13. ASSUME NEW a \in after'
       PROVE  a \in Acks /\ Backed(leader, W, a.term, a.index)
  <2>1. CASE a \in after
    BY <1>2, <1>3, <2>1
  <2>2. CASE a = [term |-> t, index |-> h]
    BY <1>11, <1>12, <2>2
  <2> QED
    BY <1>10, <2>1, <2>2
<1> QED
  BY <1>13

-----------------------------------------------------------------------------
(* Reading the log. *)

Reads(L, V) ==
  /\ LastIndex = V.last /\ FirstIndex \in Nat /\ FirstIndex <= V.commit + 1
  /\ \A i \in Nat : FirstIndex <= i + 1 /\ i <= V.last => TermAt(i) = EntryOf(L, V, i)
  /\ \A i \in Nat : i > V.last => TermAt(i) = -1

\* The types of the unstable log.
LEMMA UnstableType ==
  ASSUME NEW L, NEW V, NEW un, EntriesOk(L, un, V)
  PROVE  /\ un \in Unstables /\ un.offset \in Nat \ {0} /\ un.inProgress \in Nat
         /\ un.entries \in Seq(Nat) /\ Len(un.entries) \in Nat
         /\ un.snap \in Ids /\ un.snap.index \in Nat /\ un.snap.term \in Nat
         /\ un.snapBusy \in BOOLEAN
<1>1. un \in Unstables /\ un.offset > 0
  BY DEF EntriesOk
<1>2. /\ un.offset \in Nat \ {0} /\ un.inProgress \in Nat /\ un.entries \in Seq(Nat)
      /\ un.snap \in Ids /\ un.snapBusy \in BOOLEAN
  BY <1>1 DEF Unstables
<1>3. un.snap.index \in Nat /\ un.snap.term \in Nat
  BY <1>2 DEF Ids
<1>4. Len(un.entries) \in Nat
  BY <1>2
<1> QED
  BY <1>1, <1>2, <1>3, <1>4

\* The types of the storage.
LEMMA StoreType ==
  ASSUME NEW L, NEW m, NEW s, StoreOk(L, m, s)
  PROVE  m \in Stores /\ m.base \in Nat /\ m.ents \in Seq(Nat) /\ Len(m.ents) \in Nat
<1>1. m \in Stores
  BY DEF StoreOk
<1>2. m.base \in Nat /\ m.ents \in Seq(Nat)
  BY <1>1 DEF Stores
<1> QED
  BY <1>1, <1>2

\* lastIndex, through the unstable log, its snapshot or the storage, is the
\* node's last index.
LEMMA LastIs ==
  ASSUME ClusterOk(leader), NEW B, NEW T, NEW V, StagesOk(leader, B, T, V),
         StoreOk(leader, ms, T[1]), UnstableOk(leader, u, appendQ, appendBack, B, T, V)
  PROVE  LastIndex = V.last
<1>1. EntriesOk(leader, u, V)
  BY DEF UnstableOk
<1>2. /\ u.offset \in Nat /\ Len(u.entries) \in Nat /\ V.last \in Nat
      /\ u.offset + Len(u.entries) = V.last + 1 /\ u.entries \in Seq(Nat)
  <2>1. StageOk(leader, V) /\ u.offset + Len(u.entries) = V.last + 1
    BY <1>1, ConstStages DEF EntriesOk
  <2> QED
    BY <1>1, <2>1, StageType, UnstableType
<1>3. CASE u.entries # <<>>
  BY <1>2, <1>3 DEF LastIndex
<1>4. CASE u.entries = <<>> /\ u.snap # None
  <2>1. u.snap.index + 1 = u.offset
    BY <1>4 DEF UnstableOk, SnapOk
  <2>2. Len(u.entries) = 0
    BY <1>4
  <2>3. u.snap.index \in Nat
    BY <1>1, UnstableType
  <2> QED
    BY <1>2, <1>4, <2>1, <2>2, <2>3 DEF LastIndex
<1>5. CASE u.entries = <<>> /\ u.snap = None
  <2>1. 1 \in DOMAIN T
    BY ConstStages
  <2>2. T[1].last = V.last
    BY <1>5, <2>1 DEF UnstableOk, StableOk
  <2>3. Len(ms.ents) = T[1].last - ms.base + 1
    BY DEF StoreOk
  <2>4. ms.base \in Nat /\ Len(ms.ents) \in Nat
    BY StoreType
  <2>5. StoreLast = V.last
    BY <1>2, <2>2, <2>3, <2>4 DEF StoreLast
  <2> QED
    BY <1>5, <2>5 DEF LastIndex
<1> QED
  BY <1>3, <1>4, <1>5

\* firstIndex is not beyond what is committed.
LEMMA FirstIs ==
  ASSUME ClusterOk(leader), NEW B, NEW T, NEW V, StagesOk(leader, B, T, V),
         StoreOk(leader, ms, T[1]), UnstableOk(leader, u, appendQ, appendBack, B, T, V),
         CursorOk(leader, cur, u, ms, appendQ, T, V)
  PROVE  FirstIndex \in Nat /\ FirstIndex <= V.commit + 1
<1>1. EntriesOk(leader, u, V)
  BY DEF UnstableOk
<1>2. V.commit \in Nat
  BY ConstStages, StageType
<1>3. CASE u.snap # None
  <2>1. u.snap.index <= V.commit
    BY <1>3 DEF UnstableOk, SnapOk
  <2>2. u.snap.index \in Nat
    BY <1>1, UnstableType
  <2> QED
    BY <1>2, <1>3, <2>1, <2>2 DEF FirstIndex
<1>4. CASE u.snap = None
  <2>1. /\ cur.applying \in Nat /\ cur.applying <= V.commit
        /\ ms.base <= MaxOf(cur.applying, u.snap.index)
    BY DEF CursorOk, CursorSet
  <2>2. u.snap.index = 0
    BY <1>4 DEF None
  <2>3. ms.base \in Nat /\ ms.base <= cur.applying
    BY <2>1, <2>2, StoreType DEF MaxOf
  <2> QED
    BY <1>2, <1>4, <2>1, <2>3 DEF FirstIndex
<1> QED
  BY <1>3, <1>4

\* Each entry that term() reads is the stage's.
LEMMA ReadIs ==
  ASSUME ClusterOk(leader), NEW B, NEW T, NEW V, StagesOk(leader, B, T, V),
         StoreOk(leader, ms, T[1]), UnstableOk(leader, u, appendQ, appendBack, B, T, V),
         CursorOk(leader, cur, u, ms, appendQ, T, V)
  PROVE  Reads(leader, V)
<1>1. EntriesOk(leader, u, V)
  BY DEF UnstableOk
<1>2. /\ u.offset \in Nat \ {0} /\ Len(u.entries) \in Nat /\ V.last \in Nat
      /\ u.offset + Len(u.entries) = V.last + 1 /\ u.entries \in Seq(Nat)
      /\ u.snap.index \in Nat
  <2>1. StageOk(leader, V) /\ u.offset + Len(u.entries) = V.last + 1
    BY <1>1, ConstStages DEF EntriesOk
  <2> QED
    BY <1>1, <2>1, StageType, UnstableType
<1>3. LastIndex = V.last
  BY LastIs
<1>4. FirstIndex \in Nat /\ FirstIndex <= V.commit + 1
  BY FirstIs
<1>5. ASSUME NEW i \in Nat, i > V.last
      PROVE  TermAt(i) = -1
  <2>1. ~(i < u.offset + Len(u.entries)) /\ ~(i < u.offset)
    BY <1>2, <1>5
  <2> QED
    BY <1>3, <1>5, <2>1 DEF TermAt
<1>6. ASSUME NEW i \in Nat, FirstIndex <= i + 1, i <= V.last
      PROVE  TermAt(i) = EntryOf(leader, V, i)
  <2>1. CASE i >= u.offset
    <3>1. i < u.offset + Len(u.entries) /\ i # 0 /\ i - u.offset + 1 \in 1 .. Len(u.entries)
      BY <1>2, <1>6, <2>1
    <3>2. u.entries[i - u.offset + 1] = leader[V.lt][u.offset + (i - u.offset + 1) - 1]
      BY <1>1, <3>1 DEF EntriesOk
    <3>3. u.offset + (i - u.offset + 1) - 1 = i
      BY <1>2
    <3>4. TermAt(i) = u.entries[i - u.offset + 1]
      BY <1>2, <2>1, <3>1 DEF TermAt
    <3> QED
      BY <3>1, <3>2, <3>3, <3>4 DEF EntryOf
  <2>2. CASE i < u.offset /\ u.snap # None
    <3>1. u.snap.index + 1 = u.offset /\ 0 < u.snap.index /\ leader[V.lt][u.snap.index] = u.snap.term
      BY <2>2 DEF UnstableOk, SnapOk
    <3>2. u.snap.index = i
      BY <1>2, <1>6, <2>2, <3>1 DEF FirstIndex
    <3>3. TermAt(i) = u.snap.term
      BY <1>2, <2>2, <3>2 DEF TermAt
    <3> QED
      BY <1>2, <3>1, <3>2, <3>3 DEF EntryOf
  <2>3. CASE i < u.offset /\ u.snap = None
    <3>1. 1 \in DOMAIN T /\ StageOk(leader, T[1])
      BY ConstStages
    <3>2. SameTo(leader, T[1], V, u.offset - 1)
      BY <2>3, <3>1 DEF UnstableOk, StableOk
    <3>3. /\ ms.base \in Nat /\ Len(ms.ents) \in Nat /\ Len(ms.ents) = T[1].last - ms.base + 1
          /\ T[1].last \in Nat
      BY <3>1, StoreType, StageType DEF StoreOk
    <3>4. ms.base <= i
      BY <1>6, <2>3, <3>3 DEF FirstIndex
    <3>5. i <= T[1].last
      BY <1>2, <2>3, <3>2, <3>3 DEF SameTo
    <3>6. StoreHas(i)
      BY <3>3, <3>4, <3>5 DEF StoreHas, StoreLast
    <3>7. TermAt(i) = StoreTerm(i)
      BY <1>2, <1>3, <1>4, <1>6, <2>3, <3>6 DEF TermAt
    <3>8. i - ms.base + 1 \in 1 .. Len(ms.ents) /\ ms.base + (i - ms.base + 1) - 1 = i
      BY <3>3, <3>4, <3>5
    <3>9. StoreTerm(i) = EntryOf(leader, T[1], i)
      BY <3>8 DEF StoreOk, StoreTerm
    <3>10. EntryOf(leader, T[1], i) = EntryOf(leader, V, i)
      BY <1>2, <2>3, <3>2 DEF EntryOf, SameTo
    <3> QED
      BY <3>7, <3>9, <3>10
  <2> QED
    BY <1>2, <2>1, <2>2, <2>3
<1> QED
  BY <1>3, <1>4, <1>5, <1>6 DEF Reads

\* From the commit index on, matchTerm says what the log has.
LEMMA MatchIs ==
  ASSUME ClusterOk(leader), NEW V, StageOk(leader, V), Reads(leader, V), NEW i \in Nat, i >= V.commit,
         NEW e \in Nat
  PROVE  MatchTerm(i, e) <=> i <= V.last /\ EntryOf(leader, V, i) = e
<1>1. FirstIndex <= i + 1 /\ V.last \in Nat
  BY StageType DEF Reads
<1>2. CASE i <= V.last
  BY <1>1, <1>2 DEF Reads, MatchTerm
<1>3. CASE i > V.last
  BY <1>1, <1>3 DEF Reads, MatchTerm
<1> QED
  BY <1>1, <1>2, <1>3

-----------------------------------------------------------------------------
(* Steps that leave the log alone. *)

SameLog(V, W) == W.lt = V.lt /\ W.last = V.last /\ V.term <= W.term /\ V.commit <= W.commit

\* Agreement does not depend on term and commit,
LEMMA SameLogSame ==
  ASSUME NEW L, NEW K, NEW V, NEW W, SameLog(V, W), NEW i
  PROVE  SameTo(L, K, W, i) <=> SameTo(L, K, V, i)
BY DEF SameTo, SameLog

\* nor does what the unstable log stands for.
LEMMA SameLogOk ==
  ASSUME NEW L, ClusterOk(L), NEW B, NEW T, NEW V, StagesOk(L, B, T, V), NEW W, StageOk(L, W),
         SameLog(V, W), NEW un, NEW q, NEW b, UnstableOk(L, un, q, b, B, T, V)
  PROVE  UnstableOk(L, un, q, b, B, T, W)
<1>1. W.lt = V.lt /\ W.last = V.last /\ V.term <= W.term /\ V.commit <= W.commit
  BY DEF SameLog
<1>2. EntriesOk(L, un, W)
  BY <1>1 DEF UnstableOk, EntriesOk
<1>3. /\ V.term \in Nat /\ W.term \in Nat /\ V.commit \in Nat /\ W.commit \in Nat
      /\ un.snap.index \in Nat
  BY <1>2, ConstStages, StageType, UnstableType
<1>4. ASSUME NEW x, StageOk(L, x), x.term <= V.term, x.term = W.term
      PROVE  x.term = V.term
  <2>1. x.term \in Nat
    BY <1>4, StageType
  <2> QED
    BY <1>1, <1>3, <1>4, <2>1
<1>5. ASSUME NEW j \in DOMAIN T
      PROVE  StageOk(L, T[j]) /\ T[j].term <= V.term
  BY ConstStages DEF Later
<1>6. ASSUME NEW j \in DOMAIN B
      PROVE  StageOk(L, B[j]) /\ B[j].term <= V.term
  <2>1. StageOk(L, B[j]) /\ B[j].term <= T[1].term /\ StageOk(L, T[1]) /\ T[1].term <= V.term
    BY ConstStages DEF Later
  <2>2. B[j].term \in Nat /\ T[1].term \in Nat
    BY <2>1, StageType
  <2> QED
    BY <1>3, <2>1, <2>2
<1>7. Len(T) \in DOMAIN T
  BY ConstStages
<1>8. ASSUME un.snap = None \/ un.snapBusy
      PROVE  InProgressOk(L, un, T[Len(T)], W)
  <2>1. InProgressOk(L, un, T[Len(T)], V)
    BY <1>8 DEF UnstableOk
  <2>2. SameTo(L, T[Len(T)], W, un.inProgress - 1)
    BY <2>1, SameLogSame DEF InProgressOk
  <2>3. T[Len(T)].term = W.term => T[Len(T)].term = V.term
    BY <1>4, <1>5, <1>7
  <2> QED
    BY <1>1, <2>1, <2>2, <2>3 DEF InProgressOk
<1>9. ASSUME un.snap = None
      PROVE  StableOk(L, un, T, W)
  <2>1. StableOk(L, un, T, V)
    BY <1>9 DEF UnstableOk
  <2> QED
    BY <1>1, <2>1, SameLogSame DEF StableOk
<1>10. ASSUME un.snap # None
       PROVE  SnapOk(L, un, q, b, B, T, W)
  <2>1. SnapOk(L, un, q, b, B, T, V)
    BY <1>10 DEF UnstableOk
  <2>2. \A j \in DOMAIN B : LacksSnap(L, un.snap, B[j], W)
    BY <1>4, <1>6, <2>1 DEF SnapOk, LacksSnap
  <2>3. \A j \in DOMAIN T : LacksSnap(L, un.snap, T[j], W)
    BY <1>4, <1>5, <2>1 DEF SnapOk, LacksSnap
  <2>4. un.snap.index <= W.commit
    BY <1>1, <1>3, <2>1 DEF SnapOk
  <2> QED
    BY <1>1, <2>1, <2>2, <2>3, <2>4 DEF SnapOk
<1> QED
  BY <1>2, <1>8, <1>9, <1>10 DEF UnstableOk

-----------------------------------------------------------------------------
(* Putting the parts together. *)

\* The invariant after a step, from its parts.
LEMMA LogInvNext ==
  ASSUME NEW B, NEW T, NEW V,
         ~panicked', leader' = leader, leader \in Histories, crashes' \in Nat, V.term = term',
         StagesOk(leader, B, T, V), StoreOk(leader, ms', T[1]), QueueOk(leader, appendQ', T),
         BackOk(leader, appendBack', B), SnapsStored(appendBack', ms'),
         UnstableOk(leader, u', appendQ', appendBack', B, T, V),
         CursorOk(leader, cur', u', ms', appendQ', T, V), FlightOk(cur', u', ms', appendQ', T),
         ApplyingOk(applyQ', cur'), ApplyingOk(applyBack', cur'),
         AcksOk(leader, acked', after', appendQ', T, V)
  PROVE  LogInv'
<1>1. B \in Seq(Stages(leader)) /\ T \in Seq(Stages(leader)) /\ V \in Stages(leader)
  BY DEF StagesOk, StageOk
<1>2. GhostInv(B, T, V)'
  BY DEF GhostInv
<1> QED
  BY <1>1, <1>2 DEF LogInv

\* The messages received change u, cur and after.
Received ==
  /\ leader' = leader /\ ms' = ms /\ appendQ' = appendQ /\ applyQ' = applyQ
  /\ appendBack' = appendBack /\ applyBack' = applyBack /\ acked' = acked /\ crashes' = crashes

\* A message from a leader keeps the invariant if the node's log moves on and
\* the unstable log stands for it.
LEMMA ReceiveOk ==
  ASSUME NEW B, NEW T, NEW V, GhostInv(B, T, V), NEW W, Advance(leader, V, W), W.term = term',
         UnstableOk(leader, u', appendQ, appendBack, B, T, W), CursorMoves(cur, cur', u, u', W),
         after' \in SUBSET Acks, \A a \in after' : Backed(leader, W, a.term, a.index),
         Received, ~panicked'
  PROVE  LogInv'
<1>1. /\ leader \in Histories /\ ClusterOk(leader) /\ StagesOk(leader, B, T, V)
      /\ StoreOk(leader, ms, T[1]) /\ QueueOk(leader, appendQ, T)
      /\ BackOk(leader, appendBack, B) /\ SnapsStored(appendBack, ms)
      /\ UnstableOk(leader, u, appendQ, appendBack, B, T, V)
      /\ CursorOk(leader, cur, u, ms, appendQ, T, V) /\ FlightOk(cur, u, ms, appendQ, T)
      /\ ApplyingOk(applyQ, cur) /\ ApplyingOk(applyBack, cur)
      /\ AcksOk(leader, acked, after, appendQ, T, V) /\ crashes \in Nat
  BY ClusterIs DEF GhostInv
<1>2. StagesOk(leader, B, T, W)
  BY <1>1, StagesAdvance
<1>3. u \in Unstables /\ ms \in Stores /\ appendQ \in Seq(Appends)
  BY <1>1 DEF UnstableOk, EntriesOk, StoreOk, QueueOk
<1>4. CursorOk(leader, cur', u', ms, appendQ, T, W)
  BY <1>1, <1>3, CursorAdvance
<1>5. cur'.applying = cur.applying
  BY <1>1 DEF CursorMoves, CursorOk, CursorSet
<1>6. ApplyingOk(applyQ, cur') /\ ApplyingOk(applyBack, cur')
  BY <1>1, <1>5 DEF ApplyingOk
<1>7. AcksOk(leader, acked, after', appendQ, T, W)
  BY <1>1, AcksAdvance
<1>8. u.offset \in Nat /\ u'.offset \in Nat /\ cur \in CursorSet
  <2>1. EntriesOk(leader, u, V) /\ EntriesOk(leader, u', W)
    BY <1>1 DEF UnstableOk
  <2> QED
    BY <1>1, <2>1, UnstableType DEF CursorOk
<1>9. FlightOk(cur', u', ms, appendQ, T)
  BY <1>1, <1>3, <1>8, FlightAdvance
<1> QED
  BY <1>1, <1>2, <1>4, <1>6, <1>7, <1>9, LogInvNext DEF Received

\* A rise of term or commit alone moves the log on.
LEMMA SameLogAdvance ==
  ASSUME NEW L, ClusterOk(L), NEW V, StageOk(L, V), NEW W, StageOk(L, W), SameLog(V, W)
  PROVE  Advance(L, V, W)
<1>1. V.last \in Nat /\ W.last = V.last /\ W.lt = V.lt
  BY StageType DEF SameLog
<1>2. InTerm(L, V, W)
  BY <1>1 DEF InTerm, Has
<1> QED
  BY <1>2 DEF Advance, Later, SameLog

\* A step that leaves the log alone: a new term, a higher commit index.
LEMMA SameLogStep ==
  ASSUME NEW B, NEW T, NEW V, GhostInv(B, T, V), NEW W, StageOk(leader, W), SameLog(V, W),
         W.term = term', u' = u, cur' = [cur EXCEPT !.committed = W.commit],
         after' \in SUBSET Acks, \A a \in after' : Backed(leader, W, a.term, a.index),
         Received, ~panicked'
  PROVE  LogInv'
<1>1. /\ leader \in Histories /\ ClusterOk(leader) /\ StagesOk(leader, B, T, V)
      /\ UnstableOk(leader, u, appendQ, appendBack, B, T, V)
      /\ CursorOk(leader, cur, u, ms, appendQ, T, V) /\ FlightOk(cur, u, ms, appendQ, T)
  BY ClusterIs DEF GhostInv
<1>2. UnstableOk(leader, u', appendQ, appendBack, B, T, W)
  BY <1>1, SameLogOk
<1>3. Advance(leader, V, W)
  <2>1. StageOk(leader, V)
    BY <1>1 DEF StagesOk
  <2> QED
    BY <1>1, <2>1, SameLogAdvance
<1>4. CursorMoves(cur, cur', u, u', W)
  <2>1. EntriesOk(leader, u, V) /\ cur.applying < u.offset
    BY <1>1 DEF UnstableOk, CursorOk
  <2>2. u.snap \in Ids /\ u.snap.index \in Nat /\ u.offset \in Nat
    BY <2>1, UnstableType
  <2> QED
    BY <1>1, <2>1, <2>2 DEF CursorMoves, FlightOk
<1> QED
  BY <1>2, <1>3, <1>4, ReceiveOk

\* The stage with another term and commit index.
LEMMA SameLogStage ==
  ASSUME NEW L, ClusterOk(L), NEW V, StageOk(L, V), NEW t \in DOMAIN L, t >= V.term,
         NEW c \in Nat, V.commit <= c, c <= V.last,
         \A s \in DOMAIN L : s >= t => c <= Len(L[s]) /\ \A i \in 1 .. c : L[s][i] = L[V.lt][i]
  PROVE  \E W : /\ StageOk(L, W) /\ SameLog(V, W) /\ W.term = t /\ W.commit = c
<1>1. PICK W : W = [term |-> t, lt |-> V.lt, last |-> V.last, commit |-> c]
  OBVIOUS
<1>2. V.lt \in DOMAIN L /\ V.last \in Nat /\ V.last <= Len(L[V.lt]) /\ t \in 0 .. Len(L)
  BY StageType, LeaderType
<1>3. W \in Stages(L)
  BY <1>1, <1>2 DEF Stages
<1>4. StageOk(L, W)
  BY <1>1, <1>2, <1>3 DEF StageOk
<1>5. SameLog(V, W)
  BY <1>1 DEF SameLog
<1> QED
  BY <1>1, <1>4, <1>5

\* The answers waiting stay backed when the node's log moves on.
LEMMA AfterKept ==
  ASSUME ClusterOk(leader), NEW V, StageOk(leader, V), NEW W, Advance(leader, V, W),
         after \in SUBSET Acks, \A a \in after : Backed(leader, V, a.term, a.index)
  PROVE  \A a \in after : Backed(leader, W, a.term, a.index)
<1>1. StageOk(leader, W) /\ Later(leader, V, W)
  BY DEF Advance
<1>2. \A a \in after : a.index \in Nat
  BY DEF Acks
<1> QED
  BY <1>1, <1>2, BackedLater

\* Learning of a new term keeps the invariant.
LEMMA NewTermStep ==
  ASSUME NEW B, NEW T, NEW V, GhostInv(B, T, V), NEW t \in Terms, NewTerm(t)
  PROVE  LogInv'
<1>1. /\ ClusterOk(leader) /\ StageOk(leader, V) /\ V.term = term /\ ~panicked
      /\ cur \in CursorSet /\ cur.committed = V.commit
      /\ after \in SUBSET Acks /\ \A a \in after : Backed(leader, V, a.term, a.index)
  BY ClusterIs DEF GhostInv, StagesOk, CursorOk, AcksOk
<1>2. t \in DOMAIN leader /\ t \in Nat /\ V.term \in Nat /\ V.term < t /\ term' = t
  BY <1>1, StageType, LeaderType DEF NewTerm, Terms
<1>3. \A s \in DOMAIN leader : s >= t =>
         V.commit <= Len(leader[s]) /\ \A i \in 1 .. V.commit : leader[s][i] = leader[V.lt][i]
  <2>1. \A s \in DOMAIN leader : s \in Nat
    BY <1>1, LeaderType
  <2>2. \A s \in DOMAIN leader : s >= t => s >= V.term
    BY <1>2, <2>1
  <2> QED
    BY <1>1, <2>2 DEF StageOk
<1>4. V.commit \in Nat /\ V.last \in Nat /\ V.commit <= V.last
  BY <1>1, StageType
<1>5. PICK W : /\ StageOk(leader, W) /\ SameLog(V, W) /\ W.term = t /\ W.commit = V.commit
  BY <1>1, <1>2, <1>3, <1>4, SameLogStage
<1>6. Advance(leader, V, W)
  BY <1>1, <1>5, SameLogAdvance
<1>7. \A a \in after : Backed(leader, W, a.term, a.index)
  BY <1>1, <1>6, AfterKept
<1>8. u' = u /\ cur' = cur /\ after' = after /\ panicked' = panicked /\ Received
  BY DEF NewTerm, Received
<1>9. cur' = [cur EXCEPT !.committed = W.commit]
  BY <1>1, <1>5, <1>8 DEF CursorSet
<1> QED
  BY <1>1, <1>2, <1>5, <1>7, <1>8, <1>9, SameLogStep

\* The node's log is leader t's up to k, and c of it is committed.
LEMMA CommitStage ==
  ASSUME ClusterOk(leader), NEW V, StageOk(leader, V), NEW t \in Terms, t >= V.term,
         NEW k \in Nat, k <= V.last, \A j \in 1 .. k : leader[V.lt][j] = leader[t][j],
         NEW c \in 0 .. Safe(t), c <= k
  PROVE  \E W : /\ StageOk(leader, W) /\ SameLog(V, W) /\ W.term = t
                /\ W.commit = MaxOf(V.commit, c)
<1>1. /\ t \in DOMAIN leader /\ t \in Nat /\ V.term \in Nat /\ V.commit \in Nat
      /\ V.last \in Nat /\ V.commit <= V.last
  BY StageType, LeaderType DEF Terms
<1>2. /\ c \in Nat
      /\ \A s \in Terms : s >= t =>
            c <= Len(leader[s]) /\ \A i \in 1 .. c : leader[s][i] = leader[t][i]
  BY SafeIs
<1>3. PICK d : d = MaxOf(V.commit, c)
  OBVIOUS
<1>4. d \in {V.commit, c} /\ d \in Nat /\ V.commit <= d /\ d <= V.last
  BY <1>1, <1>2, <1>3 DEF MaxOf
<1>5. ASSUME NEW s \in DOMAIN leader, s >= t
      PROVE  d <= Len(leader[s]) /\ \A i \in 1 .. d : leader[s][i] = leader[V.lt][i]
  <2>1. s \in Nat /\ s >= V.term /\ s \in Terms
    BY <1>1, <1>5, LeaderType DEF Terms
  <2>2. CASE d = V.commit
    BY <2>1, <2>2 DEF StageOk
  <2>3. CASE d = c
    <3>1. \A i \in 1 .. c : i \in 1 .. k
      BY <1>2
    <3> QED
      BY <1>2, <1>5, <2>1, <2>3, <3>1
  <2> QED
    BY <1>4, <2>2, <2>3
<1> QED
  BY <1>1, <1>3, <1>4, <1>5, SameLogStage

\* What a leader's log has in common with the node's is backed.
LEMMA BackedSame ==
  ASSUME ClusterOk(leader), NEW V, StageOk(leader, V), NEW W, SameLog(V, W),
         NEW t \in Terms, W.term = t, NEW k \in Nat, k <= V.last, k <= Len(leader[t]),
         \A j \in 1 .. k : leader[V.lt][j] = leader[t][j]
  PROVE  Backed(leader, W, t, k)
<1>1. t \in DOMAIN leader /\ t \in Nat /\ V.last \in Nat
  BY StageType, LeaderType DEF Terms
<1>2. W.lt = V.lt /\ W.last = V.last
  BY DEF SameLog
<1> QED
  BY <1>1, <1>2 DEF Backed, Has

\* What an answer to a message below the commit index relies on.
LEMMA CommitAgrees ==
  ASSUME ClusterOk(leader), NEW V, StageOk(leader, V), NEW t \in Terms, t >= V.term
  PROVE  /\ V.commit \in Nat /\ V.commit <= V.last /\ V.commit <= Len(leader[t])
         /\ \A j \in 1 .. V.commit : leader[V.lt][j] = leader[t][j]
BY StageType DEF StageOk, Terms

\* A message that leaves the log alone, commits c of it and has answer i.
LEMMA AnswerStep ==
  ASSUME NEW B, NEW T, NEW V, GhostInv(B, T, V), NEW t \in Terms, t >= term, term' = t,
         NEW k \in Nat, k <= V.last, k <= Len(leader[t]),
         \A j \in 1 .. k : leader[V.lt][j] = leader[t][j],
         NEW c \in 0 .. Safe(t), c <= k,
         u' = u, cur' = [cur EXCEPT !.committed = MaxOf(V.commit, c)],
         after' \in {after, Answered(after, t, k), Answered(after, t, 0)},
         Received, ~panicked'
  PROVE  LogInv'
<1>1. /\ ClusterOk(leader) /\ StageOk(leader, V) /\ V.term = term
      /\ after \in SUBSET Acks /\ \A a \in after : Backed(leader, V, a.term, a.index)
  BY ClusterIs DEF GhostInv, StagesOk, AcksOk
<1>2. PICK W : /\ StageOk(leader, W) /\ SameLog(V, W) /\ W.term = t
               /\ W.commit = MaxOf(V.commit, c)
  BY <1>1, CommitStage
<1>3. Advance(leader, V, W)
  BY <1>1, <1>2, SameLogAdvance
<1>4. after' \in SUBSET Acks /\ \A a \in after' : Backed(leader, W, a.term, a.index)
  <2>1. CASE after' = after
    BY <1>1, <1>3, <2>1, AfterKept
  <2>2. CASE after' = Answered(after, t, k)
    <3>1. Backed(leader, W, t, k)
      BY <1>1, <1>2, BackedSame
    <3> QED
      BY <1>1, <1>3, <2>2, <3>1, AnswerOk
  <2>3. CASE after' = Answered(after, t, 0)
    <3>1. t \in DOMAIN leader /\ t \in Nat /\ Len(leader[t]) \in Nat
      BY <1>1, LeaderType DEF Terms
    <3>2. Backed(leader, W, t, 0)
      BY <1>2, <3>1 DEF Backed
    <3> QED
      BY <1>1, <1>3, <2>3, <3>2, AnswerOk
  <2> QED
    BY <2>1, <2>2, <2>3
<1> QED
  BY <1>2, <1>4, SameLogStep

-----------------------------------------------------------------------------
(* handleAppendEntries: entries that replace some of the log. *)

\* W is V with what is from ci on replaced by leader W.term's.
Replaces(L, V, W, ci) ==
  /\ ci \in Nat \ {0} /\ ci <= W.last /\ ci <= V.last + 1 /\ V.commit < ci
  /\ SameTo(L, V, W, ci - 1) /\ ~Has(L, V, ci, L[W.lt][ci]) /\ W.lt = W.term

\* The unstable log afterwards.
Replaced(L, un, un2, W, ci) ==
  /\ un2.offset = MinOf(un.offset, ci) /\ un2.inProgress = MinOf(un.inProgress, ci)
  /\ un2.snap = un.snap /\ un2.snapBusy = un.snapBusy
  /\ un2.entries \in Seq(Nat) /\ un2.entries # <<>> /\ un2 \in Unstables
  /\ un2.offset + Len(un2.entries) = W.last + 1
  /\ \A j \in 1 .. Len(un2.entries) : un2.entries[j] = L[W.lt][un2.offset + j - 1]

\* Replacing the log from a conflict on by the leader's moves it on.
LEMMA ReplacesLater ==
  ASSUME NEW L, ClusterOk(L), NEW V, StageOk(L, V), NEW W, StageOk(L, W), NEW ci,
         Replaces(L, V, W, ci), V.term <= W.term, V.commit <= W.commit
  PROVE  Advance(L, V, W)
<1>1. /\ ci \in Nat \ {0} /\ ci <= W.last /\ ci <= V.last + 1 /\ V.commit < ci
      /\ SameTo(L, V, W, ci - 1) /\ ~Has(L, V, ci, L[W.lt][ci]) /\ W.lt = W.term
  BY DEF Replaces
<1>2. /\ V.last \in Nat /\ W.last \in Nat /\ W.lt \in DOMAIN L /\ W.last <= Len(L[W.lt])
      /\ Len(L[W.lt]) \in Nat
  BY StageType
<1>3. \A i \in 1 .. W.last : LeaderHas(L, W.term, i, L[W.lt][i])
  BY <1>1, <1>2 DEF LeaderHas
<1>4. ASSUME NEW i \in 1 .. V.last, LeaderHas(L, W.term, i, L[V.lt][i])
      PROVE  Has(L, W, i, L[V.lt][i])
  <2>1. i \in 1 .. Len(L[W.lt]) /\ L[W.lt][i] = L[V.lt][i]
    BY <1>1, <1>4 DEF LeaderHas
  <2>2. CASE i < ci
    BY <1>1, <1>2, <2>1, <2>2 DEF Has
  <2>3. CASE i >= ci
    <3>1. i \in Nat /\ i > 0 /\ i <= V.last /\ i <= Len(L[W.lt])
      BY <1>2, <2>1
    <3>2. \A j \in 1 .. i : L[V.lt][j] = L[W.lt][j]
      BY <1>2, <2>1, <3>1, SameLeader
    <3>3. ci \in 1 .. i /\ ci \in 1 .. V.last
      BY <1>1, <1>2, <2>3, <3>1
    <3> QED
      BY <1>1, <3>2, <3>3 DEF Has
  <2> QED
    BY <1>1, <2>2, <2>3
<1>5. ASSUME W.last < V.last, SameTo(L, V, W, W.last)
      PROVE  FALSE
  <2>1. ci \in 1 .. W.last /\ ci \in 1 .. V.last
    BY <1>1, <1>2, <1>5
  <2> QED
    BY <1>1, <1>5, <2>1 DEF SameTo, Has
<1>6. InTerm(L, V, W)
  BY <1>3, <1>4, <1>5 DEF InTerm
<1> QED
  BY <1>6 DEF Advance, Later

\* A subsequence of a log and its entries.
LEMMA TailOf ==
  ASSUME NEW g \in Seq(Nat), NEW a \in Nat \ {0}, NEW b \in Nat, a <= b, b <= Len(g)
  PROVE  /\ SubSeq(g, a, b) \in Seq(Nat) /\ Len(SubSeq(g, a, b)) = b - a + 1
         /\ \A j \in 1 .. b - a + 1 : SubSeq(g, a, b)[j] = g[a + j - 1]
OBVIOUS

\* A prefix of a log and its entries.
LEMMA HeadOf ==
  ASSUME NEW g \in Seq(Nat), NEW b \in Nat, b <= Len(g)
  PROVE  /\ SubSeq(g, 1, b) \in Seq(Nat) /\ Len(SubSeq(g, 1, b)) = b
         /\ \A j \in 1 .. b : SubSeq(g, 1, b)[j] = g[j]
OBVIOUS

\* A concatenation of logs and its entries.
LEMMA JoinOf ==
  ASSUME NEW g \in Seq(Nat), NEW h \in Seq(Nat)
  PROVE  /\ g \o h \in Seq(Nat) /\ Len(g \o h) = Len(g) + Len(h)
         /\ \A j \in 1 .. Len(g) : (g \o h)[j] = g[j]
         /\ \A j \in 1 .. Len(h) : (g \o h)[Len(g) + j] = h[j]
OBVIOUS

\* g is the entries of leader lt's log from o on.
Slice(L, lt, o, g) == g \in Seq(Nat) /\ \A j \in 1 .. Len(g) : g[j] = L[lt][o + j - 1]

IsJoin(gh, g, h) ==
  /\ gh \in Seq(Nat) /\ Len(gh) = Len(g) + Len(h)
  /\ \A j \in 1 .. Len(g) : gh[j] = g[j]
  /\ \A j \in 1 .. Len(h) : gh[Len(g) + j] = h[j]

\* Entries of V up to ci and then of W are entries of W.
LEMMA JoinEntries ==
  ASSUME NEW L, NEW V, NEW W, NEW ci, Replaces(L, V, W, ci), W.last \in Nat, V.last \in Nat,
         NEW o \in Nat \ {0}, o <= ci,
         NEW g, Slice(L, V.lt, o, g), Len(g) = ci - o,
         NEW h, Slice(L, W.lt, ci, h), Len(h) = W.last - ci + 1,
         NEW gh, IsJoin(gh, g, h)
  PROVE  gh # <<>> /\ o + Len(gh) = W.last + 1 /\ Slice(L, W.lt, o, gh)
<1>1. /\ ci \in Nat \ {0} /\ ci <= W.last /\ \A j \in 1 .. ci - 1 : L[V.lt][j] = L[W.lt][j]
  BY DEF Replaces, SameTo
<1>2. /\ gh \in Seq(Nat) /\ Len(gh) = Len(g) + Len(h)
      /\ \A j \in 1 .. Len(g) : gh[j] = g[j]
      /\ \A j \in 1 .. Len(h) : gh[Len(g) + j] = h[j]
  BY DEF IsJoin
<1>3. Len(gh) = W.last - o + 1 /\ Len(gh) > 0
  BY <1>1, <1>2
<1>4. ASSUME NEW j \in 1 .. Len(gh)
      PROVE  gh[j] = L[W.lt][o + j - 1]
  <2>1. CASE j <= Len(g)
    <3>1. j \in 1 .. Len(g) /\ o + j - 1 \in 1 .. ci - 1
      BY <1>1, <1>3, <2>1
    <3> QED
      BY <1>1, <1>2, <3>1 DEF Slice
  <2>2. CASE j > Len(g)
    <3>1. PICK k \in 1 .. Len(h) : j = Len(g) + k
      BY <1>1, <1>3, <2>2
    <3>2. ci + k - 1 = o + j - 1
      BY <1>1, <3>1
    <3> QED
      BY <1>2, <3>1, <3>2 DEF Slice
  <2> QED
    BY <1>3, <2>1, <2>2
<1>5. gh # <<>> /\ o + Len(gh) = W.last + 1
  <2>1. o + Len(gh) = W.last + 1
    BY <1>3
  <2>2. gh # <<>>
    BY <1>3
  <2> QED
    BY <2>1, <2>2
<1> QED
  BY <1>2, <1>4, <1>5 DEF Slice

\* truncateAndAppend, in its three cases, makes the unstable log the new one.
LEMMA TruncateIs ==
  ASSUME ClusterOk(leader), NEW V, StageOk(leader, V), NEW W, StageOk(leader, W), NEW ci,
         Replaces(leader, V, W, ci), EntriesOk(leader, u, V), NEW t, t = W.term,
         NEW un2, un2 = TruncateAndAppend(ci, SubSeq(leader[t], ci, W.last))
  PROVE  Replaced(leader, u, un2, W, ci)
<1>1. /\ ci \in Nat \ {0} /\ ci <= W.last /\ ci <= V.last + 1 /\ W.lt = t
  BY DEF Replaces
<1>2. /\ W.last \in Nat /\ V.last \in Nat /\ W.last <= Len(leader[t]) /\ leader[t] \in Seq(Nat)
  BY <1>1, StageType
<1>3. PICK h : h = SubSeq(leader[t], ci, W.last)
  OBVIOUS
<1>4. /\ h \in Seq(Nat) /\ Len(h) = W.last - ci + 1
      /\ \A j \in 1 .. W.last - ci + 1 : h[j] = leader[t][ci + j - 1]
  BY <1>1, <1>2, <1>3, TailOf
<1>11. Slice(leader, W.lt, ci, h)
  BY <1>1, <1>4 DEF Slice
<1>5. /\ u \in Unstables /\ u.offset \in Nat \ {0} /\ u.inProgress \in Nat
      /\ u.entries \in Seq(Nat) /\ Len(u.entries) \in Nat
  BY UnstableType
<1>6. /\ u.offset + Len(u.entries) = V.last + 1
      /\ \A j \in 1 .. Len(u.entries) : u.entries[j] = leader[V.lt][u.offset + j - 1]
      /\ u.offset <= u.inProgress /\ u.inProgress <= V.last + 1
  BY DEF EntriesOk
<1>7. un2 = TruncateAndAppend(ci, h)
  BY <1>3
<1>8. CASE ci = u.offset + Len(u.entries)
  <2>1. PICK g : g = u.entries \o h
    OBVIOUS
  <2>2. un2 = [u EXCEPT !.entries = g]
    BY <1>7, <1>8, <2>1 DEF TruncateAndAppend
  <2>3. /\ g \in Seq(Nat) /\ g # <<>> /\ u.offset + Len(g) = W.last + 1
        /\ \A j \in 1 .. Len(g) : g[j] = leader[W.lt][u.offset + j - 1]
    <3>1. Len(u.entries) = ci - u.offset /\ u.offset <= ci
      BY <1>5, <1>8
    <3>2. Slice(leader, V.lt, u.offset, u.entries)
      BY <1>5, <1>6 DEF Slice
    <3>3. IsJoin(g, u.entries, h)
      BY <1>4, <1>5, <2>1, JoinOf DEF IsJoin
    <3>4. g # <<>> /\ u.offset + Len(g) = W.last + 1 /\ Slice(leader, W.lt, u.offset, g)
      BY <1>2, <1>4, <1>5, <1>11, <3>1, <3>2, <3>3, JoinEntries
    <3> QED
      BY <3>4 DEF Slice
  <2>4. /\ un2 \in Unstables /\ un2.entries = g /\ un2.offset = u.offset
        /\ un2.inProgress = u.inProgress /\ un2.snap = u.snap /\ un2.snapBusy = u.snapBusy
    BY <1>5, <2>2, <2>3 DEF Unstables
  <2>5. MinOf(u.offset, ci) = u.offset /\ MinOf(u.inProgress, ci) = u.inProgress
    BY <1>1, <1>2, <1>5, <1>6, <1>8 DEF MinOf
  <2> QED
    BY <2>3, <2>4, <2>5 DEF Replaced
<1>9. CASE ci <= u.offset /\ ci # u.offset + Len(u.entries)
  <2>1. un2 = [u EXCEPT !.entries = h, !.offset = ci, !.inProgress = ci]
    BY <1>7, <1>9 DEF TruncateAndAppend
  <2>2. /\ un2 \in Unstables /\ un2.entries = h /\ un2.offset = ci
        /\ un2.inProgress = ci /\ un2.snap = u.snap /\ un2.snapBusy = u.snapBusy
    BY <1>1, <1>4, <1>5, <2>1 DEF Unstables
  <2>3. MinOf(u.offset, ci) = ci /\ MinOf(u.inProgress, ci) = ci
    BY <1>1, <1>5, <1>6, <1>9 DEF MinOf
  <2>4. h # <<>> /\ ci + Len(h) = W.last + 1 /\ \A j \in 1 .. Len(h) : h[j] = leader[W.lt][ci + j - 1]
    BY <1>1, <1>2, <1>4
  <2> QED
    BY <1>4, <2>2, <2>3, <2>4 DEF Replaced
<1>10. CASE ~(ci <= u.offset) /\ ci # u.offset + Len(u.entries)
  <2>1. PICK f : f = SubSeq(u.entries, 1, ci - u.offset)
    OBVIOUS
  <2>2. ci - u.offset \in Nat /\ ci - u.offset <= Len(u.entries)
    BY <1>1, <1>2, <1>5, <1>6, <1>10
  <2>3. /\ f \in Seq(Nat) /\ Len(f) = ci - u.offset
        /\ \A j \in 1 .. ci - u.offset : f[j] = u.entries[j]
    BY <1>5, <2>1, <2>2, HeadOf
  <2>4. PICK g : g = f \o h
    OBVIOUS
  <2>5. un2 = [u EXCEPT !.entries = g, !.inProgress = MinOf(u.inProgress, ci)]
    BY <1>7, <1>10, <2>1, <2>4 DEF TruncateAndAppend
  <2>6. \A j \in 1 .. Len(f) : f[j] = leader[V.lt][u.offset + j - 1]
    BY <1>5, <1>6, <2>2, <2>3
  <2>7. /\ g \in Seq(Nat) /\ g # <<>> /\ u.offset + Len(g) = W.last + 1
        /\ \A j \in 1 .. Len(g) : g[j] = leader[W.lt][u.offset + j - 1]
    <3>1. u.offset <= ci
      BY <1>1, <1>5, <1>10
    <3>2. Slice(leader, V.lt, u.offset, f)
      BY <2>3, <2>6 DEF Slice
    <3>3. IsJoin(g, f, h)
      BY <1>4, <2>3, <2>4, JoinOf DEF IsJoin
    <3>4. g # <<>> /\ u.offset + Len(g) = W.last + 1 /\ Slice(leader, W.lt, u.offset, g)
      BY <1>2, <1>4, <1>5, <1>11, <2>3, <3>1, <3>2, <3>3, JoinEntries
    <3> QED
      BY <3>4 DEF Slice
  <2>8. MinOf(u.offset, ci) = u.offset /\ MinOf(u.inProgress, ci) \in Nat
    BY <1>1, <1>5, <1>10 DEF MinOf
  <2>9. /\ un2 \in Unstables /\ un2.entries = g /\ un2.offset = u.offset
        /\ un2.inProgress = MinOf(u.inProgress, ci)
        /\ un2.snap = u.snap /\ un2.snapBusy = u.snapBusy
    BY <1>5, <2>5, <2>7, <2>8 DEF Unstables
  <2> QED
    BY <2>7, <2>8, <2>9 DEF Replaced
<1> QED
  BY <1>8, <1>9, <1>10

\* The terms of what is in flight are not above the log's; so after a step
\* to W only what is of the same term as V can be of W's.
LEMMA TermBefore ==
  ASSUME NEW L, ClusterOk(L), NEW B, NEW T, NEW V, StagesOk(L, B, T, V), NEW W, StageOk(L, W),
         V.term <= W.term
  PROVE  /\ \A j \in DOMAIN T : T[j].term = W.term => T[j].term = V.term
         /\ \A j \in DOMAIN B : B[j].term = W.term => B[j].term = V.term
<1>1. V.term \in Nat /\ W.term \in Nat
  BY ConstStages, StageType
<1>2. ASSUME NEW j \in DOMAIN T, T[j].term = W.term
      PROVE  T[j].term = V.term
  <2>1. StageOk(L, T[j]) /\ T[j].term <= V.term
    BY ConstStages DEF Later
  <2> QED
    BY <1>1, <1>2, <2>1
<1>3. ASSUME NEW j \in DOMAIN B, B[j].term = W.term
      PROVE  B[j].term = V.term
  <2>1. StageOk(L, B[j]) /\ B[j].term <= T[1].term /\ StageOk(L, T[1]) /\ T[1].term <= V.term
    BY ConstStages DEF Later
  <2>2. B[j].term \in Nat /\ T[1].term \in Nat
    BY <2>1, StageType
  <2> QED
    BY <1>1, <1>3, <2>1, <2>2
<1> QED
  BY <1>2, <1>3

\* What is in progress stays the log up to inProgress: the truncation lowers
\* that index to the conflict.
LEMMA ReplaceProgress ==
  ASSUME NEW L, ClusterOk(L), NEW K, StageOk(L, K), NEW V, StageOk(L, V), NEW W, StageOk(L, W),
         NEW ci, Replaces(L, V, W, ci), Later(L, K, V), K.term = W.term => K.term = V.term,
         NEW un, NEW un2, EntriesOk(L, un, V), Replaced(L, un, un2, W, ci), InProgressOk(L, un, K, V)
  PROVE  InProgressOk(L, un2, K, W)
<1>1. /\ ci \in Nat \ {0} /\ ci <= W.last /\ ci <= V.last + 1
      /\ SameTo(L, V, W, ci - 1) /\ ~Has(L, V, ci, L[W.lt][ci]) /\ W.lt = W.term
  BY DEF Replaces
<1>2. /\ V.last \in Nat /\ W.last \in Nat /\ K.last \in Nat /\ W.lt \in DOMAIN L
      /\ W.last <= Len(L[W.lt]) /\ Len(L[W.lt]) \in Nat
  BY StageType
<1>3. PICK p : p = un.inProgress
  OBVIOUS
<1>4. p \in Nat /\ p > 0 /\ p <= V.last + 1
  <2>1. un.offset \in Nat \ {0} /\ un.inProgress \in Nat
    BY UnstableType
  <2>2. un.offset <= un.inProgress /\ un.inProgress <= V.last + 1
    BY DEF EntriesOk
  <2> QED
    BY <1>3, <2>1, <2>2
<1>5. PICK n : n = MinOf(p, ci)
  OBVIOUS
<1>6. un2.inProgress = n
  BY <1>3, <1>5 DEF Replaced
<1>7. n \in {p, ci} /\ n \in Nat /\ n > 0 /\ n <= p /\ n <= ci /\ n <= W.last
  BY <1>1, <1>2, <1>4, <1>5 DEF MinOf
<1>8. /\ SameTo(L, K, V, p - 1) /\ (p = V.last + 1 => K.last = V.last)
      /\ (p <= V.last /\ K.term = V.term => ~Has(L, K, p, L[V.lt][p]))
  BY <1>3 DEF InProgressOk
<1>9. SameTo(L, K, W, n - 1)
  <2>1. SameTo(L, K, V, n - 1)
    BY <1>2, <1>4, <1>7, <1>8, SameBelow
  <2>2. SameTo(L, V, W, n - 1)
    BY <1>1, <1>2, <1>7, SameBelow
  <2> QED
    BY <2>1, <2>2, SameTrans
<1>10. ASSUME K.term = W.term, Has(L, K, n, L[W.lt][n])
       PROVE  FALSE
  <2>1. K.term = V.term /\ InTerm(L, K, V)
    BY <1>10 DEF Later
  <2>2. n \in 1 .. K.last /\ L[K.lt][n] = L[W.lt][n]
    BY <1>10 DEF Has
  <2>3. LeaderHas(L, W.lt, n, L[W.lt][n]) /\ V.term = W.lt
    BY <1>1, <1>2, <1>7, <1>10, <2>1 DEF LeaderHas
  <2>4. Has(L, V, n, L[K.lt][n])
    BY <2>1, <2>2, <2>3 DEF InTerm
  <2>5. n \in 1 .. V.last /\ L[V.lt][n] = L[W.lt][n]
    BY <2>2, <2>4 DEF Has
  <2>6. n # ci
    BY <1>1, <2>5 DEF Has
  <2>7. n = p /\ p <= V.last
    BY <1>2, <1>7, <2>5, <2>6
  <2> QED
    BY <1>8, <2>1, <2>2, <2>5, <2>7 DEF Has
<1>11. n # W.last + 1
  BY <1>2, <1>7
<1> QED
  BY <1>6, <1>9, <1>10, <1>11 DEF InProgressOk

\* The unstable entries are those of the new log.
LEMMA ReplaceEntries ==
  ASSUME NEW L, ClusterOk(L), NEW V, StageOk(L, V), NEW W, StageOk(L, W),
         NEW ci, Replaces(L, V, W, ci),
         NEW un, NEW un2, EntriesOk(L, un, V), Replaced(L, un, un2, W, ci)
  PROVE  EntriesOk(L, un2, W)
<1>1. ci \in Nat \ {0} /\ ci <= W.last /\ W.last \in Nat
  BY StageType DEF Replaces
<1>2. un.offset \in Nat \ {0} /\ un.inProgress \in Nat /\ un.offset <= un.inProgress
  <2>1. un.offset \in Nat \ {0} /\ un.inProgress \in Nat
    BY UnstableType
  <2>2. un.offset <= un.inProgress
    BY DEF EntriesOk
  <2> QED
    BY <2>1, <2>2
<1>3. /\ un2.offset = MinOf(un.offset, ci) /\ un2.inProgress = MinOf(un.inProgress, ci)
      /\ un2 \in Unstables
  BY DEF Replaced
<1>4. un2.offset > 0 /\ un2.offset <= un2.inProgress /\ un2.inProgress <= W.last + 1
  BY <1>1, <1>2, <1>3 DEF MinOf
<1> QED
  BY <1>3, <1>4 DEF EntriesOk, Replaced

\* What is stable stays stable.
LEMMA ReplaceStable ==
  ASSUME NEW L, ClusterOk(L), NEW B, NEW T, NEW V, StagesOk(L, B, T, V), NEW W, StageOk(L, W),
         NEW ci, Replaces(L, V, W, ci),
         NEW un, NEW un2, EntriesOk(L, un, V), Replaced(L, un, un2, W, ci), StableOk(L, un, T, V)
  PROVE  StableOk(L, un2, T, W)
<1>1. ci \in Nat \ {0} /\ SameTo(L, V, W, ci - 1) /\ W.last \in Nat
  BY StageType DEF Replaces
<1>2. un.offset \in Nat \ {0} /\ V.last \in Nat
  BY UnstableType, ConstStages, StageType
<1>3. PICK n : n = un2.offset
  OBVIOUS
<1>4. n \in Nat /\ n <= un.offset /\ n <= ci
  BY <1>1, <1>2, <1>3 DEF Replaced, MinOf
<1>5. SameTo(L, V, W, n - 1)
  BY <1>1, <1>2, <1>4, SameBelow
<1>6. ASSUME NEW j \in DOMAIN T
      PROVE  SameTo(L, T[j], W, n - 1)
  <2>1. SameTo(L, T[j], V, un.offset - 1)
    BY DEF StableOk
  <2>2. T[j].last \in Nat
    BY ConstStages, StageType
  <2>3. SameTo(L, T[j], V, n - 1)
    BY <1>2, <1>4, <2>1, <2>2, SameBelow
  <2> QED
    BY <1>5, <2>3, SameTrans
<1>7. un2.entries # <<>>
  BY DEF Replaced
<1> QED
  BY <1>3, <1>6, <1>7 DEF StableOk

\* A pending snapshot stays before what is replaced.
LEMMA ReplaceSnap ==
  ASSUME NEW L, ClusterOk(L), NEW B, NEW T, NEW V, StagesOk(L, B, T, V), NEW W, StageOk(L, W),
         V.term <= W.term, V.commit <= W.commit, NEW ci, Replaces(L, V, W, ci),
         NEW q, NEW b, NEW un, NEW un2, EntriesOk(L, un, V), Replaced(L, un, un2, W, ci),
         SnapOk(L, un, q, b, B, T, V)
  PROVE  SnapOk(L, un2, q, b, B, T, W)
<1>1. ci \in Nat \ {0} /\ SameTo(L, V, W, ci - 1) /\ V.commit < ci
  BY DEF Replaces
<1>2. /\ un.offset \in Nat \ {0} /\ V.last \in Nat /\ V.commit \in Nat /\ W.commit \in Nat
      /\ un.snap.index \in Nat
  BY UnstableType, ConstStages, StageType
<1>3. /\ un.offset = un.snap.index + 1 /\ 0 < un.snap.index /\ un.snap.index <= V.commit
      /\ L[V.lt][un.snap.index] = un.snap.term
  BY DEF SnapOk
<1>4. /\ un2.offset = MinOf(un.offset, ci) /\ un2.inProgress = MinOf(un.inProgress, ci)
      /\ un2.snap = un.snap /\ un2.snapBusy = un.snapBusy /\ un2.entries # <<>>
  BY DEF Replaced
<1>5. un2.offset = un.offset
  BY <1>1, <1>2, <1>3, <1>4 DEF MinOf
<1>6. L[W.lt][un.snap.index] = un.snap.term /\ un.snap.index <= W.commit
  BY <1>1, <1>2, <1>3 DEF SameTo
<1>7. \A j \in DOMAIN B : LacksSnap(L, un.snap, B[j], W)
  BY TermBefore DEF SnapOk, LacksSnap
<1>8. \A j \in DOMAIN T : LacksSnap(L, un.snap, T[j], W)
  BY TermBefore DEF SnapOk, LacksSnap
<1>9. un.inProgress = un.offset => un2.inProgress = un2.offset
  BY <1>4
<1> QED
  BY <1>3, <1>4, <1>5, <1>6, <1>7, <1>8, <1>9 DEF SnapOk

\* So the unstable log stands for the new log.
LEMMA ReplaceOk ==
  ASSUME NEW L, ClusterOk(L), NEW B, NEW T, NEW V, StagesOk(L, B, T, V), NEW W, StageOk(L, W),
         V.term <= W.term, V.commit <= W.commit, NEW ci, Replaces(L, V, W, ci),
         NEW q, NEW b, NEW un, NEW un2, UnstableOk(L, un, q, b, B, T, V),
         Replaced(L, un, un2, W, ci)
  PROVE  UnstableOk(L, un2, q, b, B, T, W)
<1>1. EntriesOk(L, un, V) /\ StageOk(L, V)
  BY DEF UnstableOk, StagesOk
<1>2. EntriesOk(L, un2, W)
  BY <1>1, ReplaceEntries
<1>3. un2.snap = un.snap /\ un2.snapBusy = un.snapBusy /\ un2.inProgress = MinOf(un.inProgress, ci)
  BY DEF Replaced
<1>4. PICK K : K = T[Len(T)]
  OBVIOUS
<1>5. StageOk(L, K) /\ Later(L, K, V) /\ (K.term = W.term => K.term = V.term)
  BY <1>4, ConstStages, TermBefore
<1>6. un2.inProgress > K.commit
  <2>1. K.commit \in Nat /\ V.commit \in Nat /\ K.commit <= V.commit
    BY <1>1, <1>5, StageType DEF Later
  <2>2. ci \in Nat /\ V.commit < ci /\ un.inProgress \in Nat /\ un.inProgress > K.commit
    BY <1>1, <1>4, UnstableType DEF Replaces, UnstableOk
  <2> QED
    BY <1>3, <2>1, <2>2 DEF MinOf
<1>7. ASSUME un2.snap = None \/ un2.snapBusy
      PROVE  InProgressOk(L, un2, K, W)
  <2>1. InProgressOk(L, un, K, V)
    BY <1>3, <1>4, <1>7 DEF UnstableOk
  <2> QED
    BY <1>1, <1>5, <2>1, ReplaceProgress
<1>8. ASSUME un2.snap = None
      PROVE  StableOk(L, un2, T, W)
  <2>1. StableOk(L, un, T, V)
    BY <1>3, <1>8 DEF UnstableOk
  <2> QED
    BY <1>1, <2>1, ReplaceStable
<1>9. ASSUME un2.snap # None
      PROVE  SnapOk(L, un2, q, b, B, T, W)
  <2>1. SnapOk(L, un, q, b, B, T, V)
    BY <1>3, <1>9 DEF UnstableOk
  <2> QED
    BY <1>1, <2>1, ReplaceSnap
<1> QED
  BY <1>2, <1>4, <1>6, <1>7, <1>8, <1>9 DEF UnstableOk

\* The log is leader t's up to k, which is where the message's entries first
\* differ from it or where they end.
LEMMA PrefixAgrees ==
  ASSUME ClusterOk(leader), NEW V, StageOk(leader, V), Reads(leader, V), NEW t \in Terms,
         NEW prev \in Nat, NEW k \in Nat, V.commit <= prev, prev <= k, k <= Len(leader[t]),
         MatchTerm(prev, IF prev = 0 THEN 0 ELSE leader[t][prev]),
         k = prev \/ MatchTerm(k, leader[t][k])
  PROVE  k <= V.last /\ \A j \in 1 .. k : leader[V.lt][j] = leader[t][j]
<1>1. /\ t \in DOMAIN leader /\ Len(leader[t]) \in Nat /\ V.commit \in Nat
      /\ \A i \in 1 .. Len(leader[t]) : leader[t][i] \in Nat
  BY LeaderType, StageType DEF Terms
<1>2. CASE k = 0
  BY <1>2, StageType
<1>3. CASE k > 0
  <2>1. k \in 1 .. Len(leader[t])
    BY <1>1, <1>3
  <2>2. MatchTerm(k, leader[t][k])
    BY <1>3
  <2>3. leader[t][k] \in Nat
    BY <1>1, <2>1
  <2>4. k >= V.commit
    BY <1>1
  <2>5. k <= V.last /\ EntryOf(leader, V, k) = leader[t][k]
    BY <2>2, <2>3, <2>4, MatchIs
  <2>6. leader[V.lt][k] = leader[t][k]
    BY <1>3, <2>5 DEF EntryOf
  <2> QED
    BY <1>1, <1>3, <2>5, <2>6, SameLeader
<1> QED
  BY <1>2, <1>3

\* The parts of the invariant.
LEMMA GhostFacts ==
  ASSUME NEW B, NEW T, NEW V, GhostInv(B, T, V)
  PROVE  /\ ClusterOk(leader) /\ leader \in Histories /\ V.term = term /\ ~panicked
         /\ StagesOk(leader, B, T, V) /\ StageOk(leader, V) /\ Reads(leader, V)
         /\ StoreOk(leader, ms, T[1]) /\ QueueOk(leader, appendQ, T)
         /\ BackOk(leader, appendBack, B) /\ SnapsStored(appendBack, ms)
         /\ UnstableOk(leader, u, appendQ, appendBack, B, T, V) /\ EntriesOk(leader, u, V)
         /\ CursorOk(leader, cur, u, ms, appendQ, T, V) /\ cur \in CursorSet
         /\ cur.committed = V.commit /\ cur.applying < u.offset
         /\ FlightOk(cur, u, ms, appendQ, T)
         /\ ApplyingOk(applyQ, cur) /\ ApplyingOk(applyBack, cur)
         /\ AcksOk(leader, acked, after, appendQ, T, V)
         /\ after \in SUBSET Acks /\ \A a \in after : Backed(leader, V, a.term, a.index)
         /\ crashes \in Nat
<1>1. /\ leader \in Histories /\ V.term = term /\ ~panicked
      /\ StagesOk(leader, B, T, V)
      /\ StoreOk(leader, ms, T[1]) /\ QueueOk(leader, appendQ, T)
      /\ BackOk(leader, appendBack, B) /\ SnapsStored(appendBack, ms)
      /\ UnstableOk(leader, u, appendQ, appendBack, B, T, V)
      /\ CursorOk(leader, cur, u, ms, appendQ, T, V) /\ FlightOk(cur, u, ms, appendQ, T)
      /\ ApplyingOk(applyQ, cur) /\ ApplyingOk(applyBack, cur)
      /\ AcksOk(leader, acked, after, appendQ, T, V) /\ crashes \in Nat
  BY DEF GhostInv
<1>2. ClusterOk(leader) /\ StageOk(leader, V) /\ EntriesOk(leader, u, V)
  BY <1>1, ClusterIs DEF StagesOk, UnstableOk
<1>3. Reads(leader, V)
  BY <1>1, <1>2, ReadIs
<1>4. /\ cur \in CursorSet /\ cur.committed = V.commit /\ cur.applying < u.offset
      /\ after \in SUBSET Acks /\ \A a \in after : Backed(leader, V, a.term, a.index)
  BY <1>1 DEF CursorOk, AcksOk
<1> QED
  BY <1>1, <1>2, <1>3, <1>4

\* The entries conflict with the log at ci or go beyond it.
LEMMA ConflictStep ==
  ASSUME NEW B, NEW T, NEW V, GhostInv(B, T, V), NEW t \in Terms, t >= term, term' = t,
         NEW ci \in Nat \ {0}, NEW last \in Nat, ci <= last, last <= Len(leader[t]), V.commit < ci,
         ci <= V.last + 1, \A j \in 1 .. ci - 1 : leader[V.lt][j] = leader[t][j],
         ~Has(leader, V, ci, leader[t][ci]),
         NEW c \in 0 .. Safe(t), c <= last,
         u' = TruncateAndAppend(ci, SubSeq(leader[t], ci, last)),
         cur' = [cur EXCEPT !.committed = MaxOf(V.commit, c)],
         after' = Answered(after, t, last), Received, ~panicked'
  PROVE  LogInv'
<1>1. /\ ClusterOk(leader) /\ StagesOk(leader, B, T, V) /\ StageOk(leader, V) /\ V.term = term
      /\ UnstableOk(leader, u, appendQ, appendBack, B, T, V) /\ EntriesOk(leader, u, V)
      /\ cur \in CursorSet /\ cur.committed = V.commit /\ cur.applying < u.offset
      /\ cur.applying <= cur.committed /\ FlightOk(cur, u, ms, appendQ, T)
      /\ after \in SUBSET Acks /\ \A a \in after : Backed(leader, V, a.term, a.index)
  BY GhostFacts DEF CursorOk
<1>2. /\ t \in DOMAIN leader /\ t \in Nat /\ t \in 0 .. Len(leader) /\ Len(leader[t]) \in Nat
      /\ V.term \in Nat /\ V.commit \in Nat /\ V.last \in Nat /\ V.commit <= V.last
  BY <1>1, StageType, LeaderType DEF Terms
<1>3. PICK d : d = MaxOf(V.commit, c)
  OBVIOUS
<1>4. c \in Nat /\ \A s \in Terms : s >= t =>
         c <= Len(leader[s]) /\ \A i \in 1 .. c : leader[s][i] = leader[t][i]
  BY <1>1, SafeIs
<1>5. d \in {V.commit, c} /\ d \in Nat /\ V.commit <= d /\ d <= last
  BY <1>2, <1>3, <1>4 DEF MaxOf
<1>6. PICK W : W = [term |-> t, lt |-> t, last |-> last, commit |-> d]
  OBVIOUS
<1>7. W.term = t /\ W.lt = t /\ W.last = last /\ W.commit = d /\ W \in Stages(leader)
  BY <1>2, <1>5, <1>6 DEF Stages
<1>8. ASSUME NEW s \in DOMAIN leader, s >= t
      PROVE  d <= Len(leader[s]) /\ \A i \in 1 .. d : leader[s][i] = leader[t][i]
  <2>1. s \in Nat /\ s >= V.term /\ s \in Terms /\ t >= V.term
    BY <1>1, <1>2, <1>8, LeaderType DEF Terms
  <2>2. CASE d = V.commit
    <3>1. V.commit <= Len(leader[s]) /\ \A i \in 1 .. V.commit : leader[s][i] = leader[V.lt][i]
      BY <1>1, <2>1 DEF StageOk
    <3>2. \A i \in 1 .. V.commit : i \in 1 .. ci - 1
      BY <1>2
    <3> QED
      BY <2>2, <3>1, <3>2
  <2>3. CASE d = c
    BY <1>4, <1>8, <2>1, <2>3
  <2> QED
    BY <1>5, <2>2, <2>3
<1>9. StageOk(leader, W)
  BY <1>5, <1>7, <1>8 DEF StageOk
<1>10. SameTo(leader, V, W, ci - 1)
  BY <1>2, <1>7 DEF SameTo
<1>11. Replaces(leader, V, W, ci)
  BY <1>7, <1>10 DEF Replaces
<1>12. Replaced(leader, u, u', W, ci)
  <2>1. u' = TruncateAndAppend(ci, SubSeq(leader[t], ci, W.last)) /\ t = W.term
    BY <1>7
  <2> QED
    BY <1>1, <1>9, <1>11, <2>1, TruncateIs
<1>13. V.term <= W.term /\ V.commit <= W.commit
  BY <1>1, <1>5, <1>7
<1>14. UnstableOk(leader, u', appendQ, appendBack, B, T, W)
  BY <1>1, <1>9, <1>11, <1>12, <1>13, ReplaceOk
<1>15. Advance(leader, V, W)
  BY <1>1, <1>9, <1>11, <1>13, ReplacesLater
<1>16. Backed(leader, W, t, last)
  BY <1>2, <1>7 DEF Backed, Has
<1>17. after' \in SUBSET Acks /\ \A a \in after' : Backed(leader, W, a.term, a.index)
  BY <1>1, <1>15, <1>16, AnswerOk
<1>18. CursorMoves(cur, cur', u, u', W)
  <2>1. u.snap \in Ids /\ u.snap.index \in Nat /\ u.offset \in Nat
    BY <1>1, UnstableType
  <2>2. u'.snap = u.snap /\ u'.snapBusy = u.snapBusy /\ u'.offset = MinOf(u.offset, ci)
    BY <1>12 DEF Replaced
  <2>3. cur.applying \in Nat
    BY <1>1 DEF CursorSet
  <2>4. cur.applying < u'.offset
    BY <1>1, <1>2, <2>1, <2>2, <2>3 DEF MinOf
  <2>5. u'.offset <= u.offset
    BY <2>1, <2>2 DEF MinOf
  <2>6. u.snap # None /\ ~u.snapBusy => cur.applying < u.snap.index
    BY <1>1 DEF FlightOk
  <2> QED
    BY <1>3, <1>7, <2>1, <2>2, <2>4, <2>5, <2>6 DEF CursorMoves
<1> QED
  BY <1>7, <1>14, <1>15, <1>17, <1>18, ReceiveOk

\* handleAppendEntries keeps the invariant, and reaches no panic.
LEMMA AppendEntriesStep ==
  ASSUME NEW B, NEW T, NEW V, GhostInv(B, T, V), NEW t \in Terms,
         NEW prev \in 0 .. Len(leader[t]), NEW last \in prev .. Len(leader[t]),
         NEW commit \in 0 .. Safe(t), AppendEntries(t, prev, last, commit)
  PROVE  LogInv'
<1>1. /\ ClusterOk(leader) /\ StageOk(leader, V) /\ V.term = term /\ ~panicked /\ Reads(leader, V)
      /\ cur \in CursorSet /\ cur.committed = V.commit
  BY GhostFacts
<1>2. /\ t \in DOMAIN leader /\ t \in Nat /\ Len(leader[t]) \in Nat
      /\ V.term \in Nat /\ V.commit \in Nat /\ V.last \in Nat /\ V.commit <= V.last
      /\ \A i \in 1 .. Len(leader[t]) : leader[t][i] \in Nat
  BY <1>1, StageType, LeaderType DEF Terms
<1>3. t >= term /\ term' = t /\ Received
  BY DEF AppendEntries, Received
<1>4. commit \in Nat /\ Safe(t) \in Nat /\ prev \in Nat /\ last \in Nat /\ prev <= last
      /\ last <= Len(leader[t])
  BY <1>1, <1>2, SafeIs
<1>6. cur.committed \in Nat
  BY <1>1, <1>2
<1>5. CASE prev < cur.committed
  <2>0. Answer(t, cur.committed) /\ u' = u /\ cur' = cur /\ panicked' = panicked
    BY <1>4, <1>5, <1>6 DEF AppendEntries
  <2>1. after' = Answered(after, t, V.commit) /\ u' = u /\ cur' = cur /\ ~panicked'
    BY <1>1, <2>0 DEF Answer, Answered
  <2>2. cur' = [cur EXCEPT !.committed = MaxOf(V.commit, 0)]
    <3>1. MaxOf(V.commit, 0) = V.commit
      BY <1>2 DEF MaxOf
    <3> QED
      BY <1>1, <2>1, <3>1 DEF CursorSet
  <2>3. /\ V.commit <= Len(leader[t])
        /\ \A j \in 1 .. V.commit : leader[V.lt][j] = leader[t][j]
    BY <1>1, <1>3, CommitAgrees
  <2>4. PICK k, c : k = V.commit /\ c = 0
    OBVIOUS
  <2>5. c \in 0 .. Safe(t) /\ c <= k /\ k \in Nat /\ k <= V.last
    BY <1>2, <1>4, <2>4
  <2>6. /\ after' = Answered(after, t, k) /\ cur' = [cur EXCEPT !.committed = MaxOf(V.commit, c)]
        /\ k <= Len(leader[t]) /\ \A j \in 1 .. k : leader[V.lt][j] = leader[t][j]
    BY <2>1, <2>2, <2>3, <2>4
  <2> QED
    BY <1>3, <2>1, <2>5, <2>6, AnswerStep
<1>7. CASE prev >= cur.committed /\ ~MatchTerm(prev, IF prev = 0 THEN 0 ELSE leader[t][prev])
  <2>0. Answer(t, 0) /\ u' = u /\ cur' = cur /\ panicked' = panicked
    BY <1>4, <1>6, <1>7 DEF AppendEntries
  <2>1. after' = Answered(after, t, 0) /\ u' = u /\ cur' = cur /\ ~panicked'
    BY <1>1, <2>0 DEF Answer, Answered
  <2>2. cur' = [cur EXCEPT !.committed = MaxOf(V.commit, 0)]
    <3>1. MaxOf(V.commit, 0) = V.commit
      BY <1>2 DEF MaxOf
    <3> QED
      BY <1>1, <2>1, <3>1 DEF CursorSet
  <2>4. PICK k : k = 0
    OBVIOUS
  <2>5. /\ k \in 0 .. Safe(t) /\ k <= k /\ k \in Nat /\ k <= V.last /\ k <= Len(leader[t])
        /\ \A j \in 1 .. k : leader[V.lt][j] = leader[t][j]
    BY <1>2, <1>4, <2>4
  <2>6. after' = Answered(after, t, k) /\ cur' = [cur EXCEPT !.committed = MaxOf(V.commit, k)]
    BY <2>1, <2>2, <2>4
  <2> QED
    BY <1>3, <2>1, <2>5, <2>6, AnswerStep
<1>8. CASE prev >= cur.committed /\ MatchTerm(prev, IF prev = 0 THEN 0 ELSE leader[t][prev])
  <2> DEFINE D  == {i \in prev + 1 .. last : ~MatchTerm(i, leader[t][i])}
             ci == CHOOSE i \in D : \A j \in D : i <= j
  <2>1. /\ Answer(t, last) /\ cur' = [cur EXCEPT !.committed = MaxOf(@, MinOf(commit, last))]
        /\ u' = IF D = {} THEN u ELSE TruncateAndAppend(ci, SubSeq(leader[t], ci, last))
        /\ panicked' = (D # {} /\ ci <= cur.committed)
    BY <1>4, <1>6, <1>8 DEF AppendEntries
  <2>2. PICK c : c = MinOf(commit, last)
    OBVIOUS
  <2>3. c \in 0 .. Safe(t) /\ c <= last
    BY <1>4, <2>2 DEF MinOf
  <2>4. after' = Answered(after, t, last)
    BY <2>1 DEF Answer, Answered
  <2>5. cur' = [cur EXCEPT !.committed = MaxOf(V.commit, c)]
    BY <1>1, <2>1, <2>2 DEF CursorSet
  <2>6. MatchTerm(prev, IF prev = 0 THEN 0 ELSE leader[t][prev]) /\ V.commit <= prev
    BY <1>1, <1>2, <1>4, <1>8
  <2>7. CASE D = {}
    <3>1. u' = u /\ ~panicked'
      BY <2>1, <2>7
    <3>2. last = prev \/ MatchTerm(last, leader[t][last])
      BY <1>4, <2>7
    <3>3. last <= V.last /\ \A j \in 1 .. last : leader[V.lt][j] = leader[t][j]
      BY <1>1, <1>4, <2>6, <3>2, PrefixAgrees
    <3> QED
      BY <1>3, <1>4, <2>3, <2>4, <2>5, <3>1, <3>3, AnswerStep
  <2>8. CASE D # {}
    <3>1. D \in SUBSET Nat
      BY <1>4
    <3>2. \E i \in D : \A j \in D : i <= j
      BY <2>8, <3>1, LeastOf
    <3>3. ci \in D /\ \A j \in D : ci <= j
      BY <3>2
    <3>4. ci \in prev + 1 .. last /\ ~MatchTerm(ci, leader[t][ci])
      BY <3>3
    <3>5. /\ u' = TruncateAndAppend(ci, SubSeq(leader[t], ci, last))
          /\ panicked' = (ci <= V.commit)
      BY <1>1, <2>1, <2>8
    <3> HIDE DEF ci
    <3>6. ci \in Nat \ {0} /\ prev < ci /\ ci <= last
      BY <1>4, <3>4
    <3>7. PICK k : k = ci - 1
      OBVIOUS
    <3>8. k \in Nat /\ prev <= k /\ k <= Len(leader[t]) /\ k + 1 = ci
      BY <1>4, <3>6, <3>7
    <3>9. k = prev \/ MatchTerm(k, leader[t][k])
      <4>1. k \notin D
        BY <3>3, <3>6, <3>8
      <4>2. k = prev \/ k \in prev + 1 .. last
        BY <1>4, <3>6, <3>8
      <4> QED
        BY <4>1, <4>2
    <3>10. k <= V.last /\ \A j \in 1 .. k : leader[V.lt][j] = leader[t][j]
      BY <1>1, <1>4, <2>6, <3>8, <3>9, PrefixAgrees
    <3>11. V.commit < ci /\ ci <= V.last + 1
      BY <1>2, <1>4, <2>6, <3>6, <3>8, <3>10
    <3>12. ~Has(leader, V, ci, leader[t][ci])
      <4>1. leader[t][ci] \in Nat /\ ci \in Nat /\ ci >= V.commit
        BY <1>2, <1>4, <3>6, <3>11
      <4>2. ~(ci <= V.last /\ EntryOf(leader, V, ci) = leader[t][ci])
        BY <1>1, <3>4, <4>1, MatchIs
      <4> QED
        BY <1>2, <3>6, <4>2 DEF Has, EntryOf
    <3>13. ~panicked'
      <4>1. ~(ci <= V.commit)
        BY <1>2, <3>6, <3>11
      <4> QED
        BY <3>5, <4>1
    <3>14. \A j \in 1 .. ci - 1 : leader[V.lt][j] = leader[t][j]
      BY <3>7, <3>10
    <3> QED
      BY <1>3, <1>4, <2>3, <2>4, <2>5, <3>5, <3>6, <3>11, <3>12, <3>13, <3>14, ConflictStep
  <2> QED
    BY <2>7, <2>8
<1> QED
  BY <1>4, <1>5, <1>6, <1>7, <1>8

-----------------------------------------------------------------------------
(* handleHeartbeat and handleSnapshot. *)

\* handleHeartbeat keeps the invariant.
LEMMA HeartbeatStep ==
  ASSUME NEW B, NEW T, NEW V, GhostInv(B, T, V), NEW t \in Terms, NEW commit \in 1 .. Safe(t),
         Heartbeat(t, commit)
  PROVE  LogInv'
<1>1. /\ ClusterOk(leader) /\ StageOk(leader, V) /\ V.term = term /\ Reads(leader, V)
      /\ StagesOk(leader, B, T, V) /\ AcksOk(leader, acked, after, appendQ, T, V)
      /\ cur \in CursorSet /\ cur.committed = V.commit
  BY GhostFacts
<1>2. /\ t \in DOMAIN leader /\ t \in Nat /\ Len(leader[t]) \in Nat
      /\ V.term \in Nat /\ V.commit \in Nat /\ V.last \in Nat
  BY <1>1, StageType, LeaderType DEF Terms
<1>3. /\ t >= term /\ commit <= acked[t] /\ term' = t /\ u' = u /\ after' = after /\ Received
      /\ cur' = [cur EXCEPT !.committed = MaxOf(@, commit)]
      /\ panicked' = (cur.committed < commit /\ LastIndex < commit)
  BY DEF Heartbeat, Received
<1>4. PICK k : k = acked[t]
  OBVIOUS
<1>5. k \in Nat /\ k > 0 /\ commit <= k /\ Backed(leader, T[1], t, k)
  <2>1. k \in Nat
    BY <1>1, <1>2, <1>4 DEF AcksOk
  <2>2. k > 0 /\ commit <= k
    BY <1>3, <1>4, <2>1
  <2> QED
    BY <1>1, <1>2, <1>4, <2>1, <2>2 DEF AcksOk
<1>6. StageOk(leader, T[1]) /\ Later(leader, T[1], V)
  BY <1>1, ConstStages
<1>7. Backed(leader, V, t, k)
  BY <1>1, <1>5, <1>6, BackedLater
<1>8. t = V.term /\ k <= Len(leader[t])
  BY <1>1, <1>2, <1>3, <1>7 DEF Backed
<1>9. k <= V.last /\ leader[V.lt][k] = leader[t][k]
  BY <1>5, <1>7, <1>8 DEF Backed, Has
<1>10. \A j \in 1 .. k : leader[V.lt][j] = leader[t][j]
  BY <1>1, <1>2, <1>5, <1>8, <1>9, SameLeader
<1>11. Safe(t) \in Nat
  <2>1. commit \in 0 .. Safe(t)
    OBVIOUS
  <2> QED
    BY <1>1, <2>1, SafeIs
<1>12. commit \in 0 .. Safe(t)
  BY <1>11
<1>13. ~panicked'
  <2>1. LastIndex = V.last /\ commit \in Nat
    BY <1>1, <1>11 DEF Reads
  <2>2. ~(LastIndex < commit)
    BY <1>2, <1>5, <1>9, <2>1
  <2> QED
    BY <1>3, <2>2
<1>14. cur' = [cur EXCEPT !.committed = MaxOf(V.commit, commit)]
  BY <1>1, <1>3 DEF CursorSet
<1> QED
  BY <1>3, <1>5, <1>8, <1>9, <1>10, <1>12, <1>13, <1>14, AnswerStep

\* The stage at a snapshot of leader t's log.
LEMMA SnapshotAdvance ==
  ASSUME NEW L, ClusterOk(L), NEW V, StageOk(L, V), NEW W, StageOk(L, W), W.lt = W.term,
         V.term <= W.term, V.commit < W.last, W.commit = W.last, ~Has(L, V, W.last, L[W.lt][W.last])
  PROVE  Advance(L, V, W)
<1>1. /\ V.last \in Nat /\ W.last \in Nat /\ W.lt \in DOMAIN L /\ W.last <= Len(L[W.lt])
      /\ Len(L[W.lt]) \in Nat /\ V.commit \in Nat
  BY StageType
<1>2. \A i \in 1 .. W.last : LeaderHas(L, W.term, i, L[W.lt][i])
  BY <1>1 DEF LeaderHas
<1>3. ASSUME NEW i \in 1 .. V.last, LeaderHas(L, W.term, i, L[V.lt][i])
      PROVE  Has(L, W, i, L[V.lt][i])
  <2>1. i \in 1 .. Len(L[W.lt]) /\ L[W.lt][i] = L[V.lt][i]
    BY <1>3 DEF LeaderHas
  <2>2. CASE i < W.last
    BY <1>1, <2>1, <2>2 DEF Has
  <2>3. CASE i >= W.last
    <3>1. i \in Nat /\ i > 0 /\ i <= V.last /\ i <= Len(L[W.lt])
      BY <1>1, <2>1
    <3>2. \A j \in 1 .. i : L[V.lt][j] = L[W.lt][j]
      BY <1>1, <2>1, <3>1, SameLeader
    <3>3. W.last \in 1 .. i /\ W.last \in 1 .. V.last
      BY <1>1, <2>3, <3>1
    <3> QED
      BY <3>2, <3>3 DEF Has
  <2> QED
    BY <1>1, <2>2, <2>3
<1>4. ASSUME W.last < V.last, SameTo(L, V, W, W.last)
      PROVE  FALSE
  <2>1. W.last \in 1 .. W.last /\ W.last \in 1 .. V.last
    BY <1>1, <1>4
  <2> QED
    BY <1>4, <2>1 DEF SameTo, Has
<1>5. InTerm(L, V, W)
  BY <1>2, <1>3, <1>4 DEF InTerm
<1>6. V.commit <= W.commit
  BY <1>1
<1> QED
  BY <1>5, <1>6 DEF Advance, Later

\* Nothing in flight in this term has what the log lacks.
LEMMA LacksBefore ==
  ASSUME NEW L, ClusterOk(L), NEW V, StageOk(L, V), NEW W, StageOk(L, W), W.lt = W.term,
         0 < W.last, ~Has(L, V, W.last, L[W.lt][W.last]),
         NEW x, StageOk(L, x), Later(L, x, V), x.term = W.term => x.term = V.term,
         NEW s, s.index = W.last, s.term = L[W.lt][W.last]
  PROVE  LacksSnap(L, s, x, W)
<1> SUFFICES ASSUME x.term = W.term, Has(L, x, s.index, s.term)
             PROVE  FALSE
  BY DEF LacksSnap
<1>1. W.last \in Nat /\ W.lt \in DOMAIN L /\ W.last <= Len(L[W.lt]) /\ Len(L[W.lt]) \in Nat
  BY StageType
<1>2. W.last \in 1 .. x.last /\ L[x.lt][W.last] = L[W.lt][W.last]
  BY DEF Has
<1>3. LeaderHas(L, W.lt, W.last, L[W.lt][W.last])
  BY <1>1 DEF LeaderHas
<1>4. InTerm(L, x, V) /\ V.term = W.lt
  BY DEF Later
<1>5. Has(L, V, W.last, L[x.lt][W.last])
  BY <1>2, <1>3, <1>4 DEF InTerm
<1> QED
  BY <1>2, <1>5

\* The unstable log after restore stands for the snapshot's log.
LEMMA SnapshotUnstable ==
  ASSUME NEW L, ClusterOk(L), NEW B, NEW T, NEW V, StagesOk(L, B, T, V), NEW W, StageOk(L, W),
         W.lt = W.term, V.term <= W.term, V.commit < W.last, W.commit = W.last,
         ~Has(L, V, W.last, L[W.lt][W.last]),
         NEW q, NEW b, NEW s, s = [index |-> W.last, term |-> L[W.lt][W.last]],
         NEW un, un = [offset |-> W.last + 1, inProgress |-> W.last + 1, entries |-> <<>>,
                       snap |-> s, snapBusy |-> FALSE]
  PROVE  UnstableOk(L, un, q, b, B, T, W) /\ un.snap = s /\ un.offset = W.last + 1 /\ s \in Ids
<1>1. /\ V.commit \in Nat /\ W.last \in Nat /\ W.last > 0 /\ L[W.lt][W.last] \in Nat \ {0}
      /\ StageOk(L, V)
  <2>1. StageOk(L, V) /\ V.commit \in Nat /\ W.last \in Nat
    BY ConstStages, StageType
  <2>2. W.last \in 1 .. W.last
    BY <2>1
  <2> QED
    BY <2>1, <2>2, StageType
<1>2. s.index = W.last /\ s.term = L[W.lt][W.last] /\ s \in Ids
  BY <1>1 DEF Ids
<1>3. /\ un.offset = W.last + 1 /\ un.inProgress = W.last + 1 /\ un.entries = <<>> /\ un.snap = s
      /\ un.snapBusy = FALSE
  OBVIOUS
<1>4. un \in Unstables
  BY <1>1, <1>2 DEF Unstables
<1>5. s # None
  BY <1>1, <1>2 DEF None
<1>6. EntriesOk(L, un, W)
  BY <1>1, <1>3, <1>4 DEF EntriesOk
<1>7. /\ \A j \in DOMAIN T : T[j].term = W.term => T[j].term = V.term
      /\ \A j \in DOMAIN B : B[j].term = W.term => B[j].term = V.term
  BY TermBefore
<1>8. ASSUME NEW j \in DOMAIN T
      PROVE  T[j].commit < W.last /\ T[j].commit \in Nat /\ LacksSnap(L, s, T[j], W)
  <2>1. StageOk(L, T[j]) /\ Later(L, T[j], V)
    BY ConstStages
  <2>2. T[j].commit \in Nat /\ T[j].commit <= V.commit
    BY <2>1, StageType DEF Later
  <2>3. LacksSnap(L, s, T[j], W)
    BY <1>1, <1>2, <1>7, <2>1, LacksBefore
  <2> QED
    BY <1>1, <2>2, <2>3
<1>9. ASSUME NEW j \in DOMAIN B
      PROVE  LacksSnap(L, s, B[j], W)
  <2>1. StageOk(L, B[j]) /\ Later(L, B[j], T[1]) /\ StageOk(L, T[1]) /\ Later(L, T[1], V)
    BY ConstStages
  <2>2. Later(L, B[j], V)
    BY <1>1, <2>1, LaterTrans
  <2> QED
    BY <1>1, <1>2, <1>7, <2>1, <2>2, LacksBefore
<1>10. Len(T) \in DOMAIN T
  BY ConstStages
<1>11. T[Len(T)].commit < W.last /\ T[Len(T)].commit < W.last + 1
  BY <1>1, <1>8, <1>10
<1>12. SnapOk(L, un, q, b, B, T, W)
  <2>1. \A j \in DOMAIN T : ~(T[j].commit >= W.last)
    BY <1>1, <1>8
  <2> QED
    BY <1>1, <1>2, <1>3, <1>8, <1>9, <1>11, <2>1 DEF SnapOk
<1>13. UnstableOk(L, un, q, b, B, T, W)
  BY <1>3, <1>5, <1>6, <1>11, <1>12 DEF UnstableOk
<1> QED
  BY <1>2, <1>3, <1>13

\* handleSnapshot keeps the invariant.
LEMMA SnapshotStep ==
  ASSUME NEW B, NEW T, NEW V, GhostInv(B, T, V), NEW t \in Terms, NEW i \in 1 .. Safe(t),
         Snapshot(t, i)
  PROVE  LogInv'
<1>1. /\ ClusterOk(leader) /\ StagesOk(leader, B, T, V) /\ StageOk(leader, V) /\ V.term = term
      /\ ~panicked /\ Reads(leader, V)
      /\ UnstableOk(leader, u, appendQ, appendBack, B, T, V) /\ EntriesOk(leader, u, V)
      /\ cur \in CursorSet /\ cur.committed = V.commit /\ cur.applying < u.offset
      /\ after \in SUBSET Acks /\ \A a \in after : Backed(leader, V, a.term, a.index)
      /\ cur.applying <= cur.committed
  BY GhostFacts DEF CursorOk
<1>2. /\ t \in DOMAIN leader /\ t \in Nat /\ t \in 0 .. Len(leader) /\ Len(leader[t]) \in Nat
      /\ V.term \in Nat /\ V.commit \in Nat /\ V.last \in Nat /\ V.commit <= V.last
      /\ \A j \in 1 .. Len(leader[t]) : leader[t][j] \in Nat
  BY <1>1, StageType, LeaderType DEF Terms
<1>3. i \in 0 .. Safe(t)
  OBVIOUS
<1>4. /\ Safe(t) \in Nat /\ i \in Nat /\ i > 0 /\ i <= Len(leader[t])
      /\ \A s \in Terms : s >= t =>
            i <= Len(leader[s]) /\ \A j \in 1 .. i : leader[s][j] = leader[t][j]
  BY <1>1, <1>3, SafeIs
<1>5. t >= term /\ term' = t /\ panicked' = panicked /\ Received /\ ~panicked'
  BY <1>1 DEF Snapshot, Received
<1>6. leader[t][i] \in Nat /\ cur.committed \in Nat
  BY <1>1, <1>2, <1>4
<1>7. CASE i <= cur.committed
  <2>1. Answer(t, cur.committed) /\ u' = u /\ cur' = cur
    BY <1>4, <1>6, <1>7 DEF Snapshot
  <2>2. PICK k, c : k = V.commit /\ c = 0
    OBVIOUS
  <2>3. c \in 0 .. Safe(t) /\ c <= k /\ k \in Nat /\ k <= V.last
    BY <1>2, <1>4, <2>2
  <2>4. k <= Len(leader[t]) /\ \A j \in 1 .. k : leader[V.lt][j] = leader[t][j]
    BY <1>1, <1>5, <2>2, CommitAgrees
  <2>5. after' = Answered(after, t, k)
    BY <1>1, <2>1, <2>2 DEF Answer, Answered
  <2>6. cur' = [cur EXCEPT !.committed = MaxOf(V.commit, c)]
    <3>1. MaxOf(V.commit, c) = V.commit
      BY <1>2, <2>2 DEF MaxOf
    <3> QED
      BY <1>1, <2>1, <3>1 DEF CursorSet
  <2> QED
    BY <1>5, <2>1, <2>3, <2>4, <2>5, <2>6, AnswerStep
<1>8. CASE i > cur.committed /\ MatchTerm(i, leader[t][i])
  <2>1. Answer(t, i) /\ u' = u /\ cur' = [cur EXCEPT !.committed = i]
    BY <1>4, <1>6, <1>8 DEF Snapshot
  <2>2. i >= V.commit
    BY <1>1, <1>2, <1>4, <1>8
  <2>3. i <= V.last /\ EntryOf(leader, V, i) = leader[t][i]
    BY <1>1, <1>4, <1>6, <1>8, <2>2, MatchIs
  <2>4. leader[V.lt][i] = leader[t][i]
    BY <1>4, <2>3 DEF EntryOf
  <2>5. \A j \in 1 .. i : leader[V.lt][j] = leader[t][j]
    BY <1>1, <1>2, <1>4, <2>3, <2>4, SameLeader
  <2>6. after' = Answered(after, t, i)
    BY <2>1 DEF Answer, Answered
  <2>7. cur' = [cur EXCEPT !.committed = MaxOf(V.commit, i)]
    <3>1. MaxOf(V.commit, i) = i
      BY <1>2, <1>4, <2>2 DEF MaxOf
    <3> QED
      BY <2>1, <3>1
  <2>8. i <= i
    BY <1>4
  <2> QED
    BY <1>3, <1>4, <1>5, <2>1, <2>3, <2>5, <2>6, <2>7, <2>8, AnswerStep
<1>9. CASE i > cur.committed /\ ~MatchTerm(i, leader[t][i])
  <2>1. PICK s : s = [index |-> i, term |-> leader[t][i]]
    OBVIOUS
  <2>2. /\ Answer(t, i) /\ cur' = [cur EXCEPT !.committed = i]
        /\ u' = [EmptyUnstable(i + 1) EXCEPT !.snap = s]
    BY <1>4, <1>6, <1>9, <2>1 DEF Snapshot
  <2>3. PICK W : W = [term |-> t, lt |-> t, last |-> i, commit |-> i]
    OBVIOUS
  <2>4. W.term = t /\ W.lt = t /\ W.last = i /\ W.commit = i /\ W \in Stages(leader)
    BY <1>2, <1>4, <2>3 DEF Stages
  <2>5. StageOk(leader, W)
    BY <1>4, <2>4 DEF StageOk, Terms
  <2>6. V.term <= W.term /\ V.commit < W.last
    BY <1>1, <1>5, <1>9, <2>4
  <2>7. ~Has(leader, V, W.last, leader[W.lt][W.last])
    <3>1. i >= V.commit
      BY <1>2, <1>4, <2>4, <2>6
    <3>2. ~(i <= V.last /\ EntryOf(leader, V, i) = leader[t][i])
      BY <1>1, <1>4, <1>6, <1>9, <3>1, MatchIs
    <3> QED
      BY <1>2, <1>4, <2>4, <3>2 DEF Has, EntryOf
  <2>8. Advance(leader, V, W)
    BY <1>1, <2>4, <2>5, <2>6, <2>7, SnapshotAdvance
  <2>9. u' = [offset |-> W.last + 1, inProgress |-> W.last + 1, entries |-> <<>>,
              snap |-> s, snapBusy |-> FALSE]
    BY <2>2, <2>4 DEF EmptyUnstable
  <2>10. s = [index |-> W.last, term |-> leader[W.lt][W.last]]
    BY <2>1, <2>4
  <2>11. /\ UnstableOk(leader, u', appendQ, appendBack, B, T, W) /\ u'.snap = s
         /\ u'.offset = W.last + 1 /\ s \in Ids
    BY <1>1, <2>4, <2>5, <2>6, <2>7, <2>9, <2>10, SnapshotUnstable
  <2>12. Backed(leader, W, t, i)
    BY <1>2, <1>4, <2>4 DEF Backed, Has
  <2>13. after' = Answered(after, t, i)
    BY <2>2 DEF Answer, Answered
  <2>14. after' \in SUBSET Acks /\ \A a \in after' : Backed(leader, W, a.term, a.index)
    BY <1>1, <1>4, <2>8, <2>12, <2>13, AnswerOk
  <2>15. CursorMoves(cur, cur', u, u', W)
    <3>1. cur.applying \in Nat /\ cur.applying < u'.offset
      BY <1>1, <1>2, <1>4, <2>4, <2>6, <2>11 DEF CursorSet
    <3>2. u.snap.index <= V.commit
      <4>1. CASE u.snap = None
        BY <1>2, <4>1 DEF None
      <4>2. CASE u.snap # None
        BY <1>1, <4>2 DEF UnstableOk, SnapOk
      <4> QED
        BY <4>1, <4>2
    <3>3. u.snap.index \in Nat
      BY <1>1, UnstableType
    <3>4. s.index = i
      BY <2>1
    <3>5. u.snap.index <= s.index
      BY <1>2, <1>4, <2>4, <2>6, <3>2, <3>3, <3>4
    <3>6. u'.snap # None /\ cur.applying < s.index
      BY <1>1, <1>2, <1>4, <1>9, <2>11, <3>1, <3>4 DEF None
    <3> QED
      BY <2>2, <2>4, <2>11, <3>1, <3>5, <3>6 DEF CursorMoves
  <2> QED
    BY <1>5, <2>4, <2>8, <2>11, <2>14, <2>15, ReceiveOk
<1> QED
  BY <1>4, <1>6, <1>7, <1>8, <1>9

-----------------------------------------------------------------------------
(* Ready. *)

\* The message Ready sends.
ReadyMsg ==
  [first |-> u.inProgress, ents |-> NextEntries, hs |-> HardState, snap |-> NextSnapshot,
   answers |-> after, resp |-> IF NeedAppendResp THEN <<AppendResp>> ELSE <<>>]

\* nextEntries are the log's, from inProgress on.
LEMMA NextEntriesIs ==
  ASSUME NEW V, V.last \in Nat, EntriesOk(leader, u, V)
  PROVE  /\ NextEntries \in Seq(Nat) /\ u.inProgress + Len(NextEntries) = V.last + 1
         /\ \A j \in 1 .. Len(NextEntries) : NextEntries[j] = leader[V.lt][u.inProgress + j - 1]
         /\ NextEntries = <<>> <=> u.inProgress = V.last + 1
<1>1. /\ u.offset \in Nat \ {0} /\ u.inProgress \in Nat /\ u.entries \in Seq(Nat)
      /\ Len(u.entries) \in Nat
  BY UnstableType
<1>2. /\ u.offset + Len(u.entries) = V.last + 1
      /\ \A j \in 1 .. Len(u.entries) : u.entries[j] = leader[V.lt][u.offset + j - 1]
      /\ u.offset <= u.inProgress /\ u.inProgress <= V.last + 1
  BY DEF EntriesOk
<1>3. PICK a, n : a = u.inProgress - u.offset + 1 /\ n = Len(u.entries)
  OBVIOUS
<1>4. a \in Nat \ {0} /\ n \in Nat /\ a <= n + 1 /\ u.inProgress = u.offset + a - 1
  BY <1>1, <1>2, <1>3
<1>5. PICK g : g = u.entries /\ g \in Seq(Nat) /\ Len(g) = n
  BY <1>1, <1>3
<1>6. CASE a = n + 1
  <2>1. SubSeq(g, a, n) = <<>>
    BY <1>4, <1>5, <1>6
  <2>2. NextEntries = <<>>
    BY <1>3, <1>5, <2>1 DEF NextEntries
  <2>3. u.inProgress = V.last + 1
    BY <1>1, <1>2, <1>3, <1>4, <1>6
  <2> QED
    BY <1>2, <2>2, <2>3
<1>7. CASE a <= n
  <2>1. /\ SubSeq(g, a, n) \in Seq(Nat) /\ Len(SubSeq(g, a, n)) = n - a + 1
        /\ \A j \in 1 .. n - a + 1 : SubSeq(g, a, n)[j] = g[a + j - 1]
    BY <1>4, <1>5, <1>7, TailOf
  <2>2. PICK h : h = SubSeq(g, a, n)
    OBVIOUS
  <2>3. NextEntries = h
    BY <1>3, <1>5, <2>2 DEF NextEntries
  <2>4. h \in Seq(Nat) /\ Len(h) = n - a + 1 /\ \A j \in 1 .. n - a + 1 : h[j] = g[a + j - 1]
    BY <2>1, <2>2
  <2>5. ASSUME NEW j \in 1 .. Len(h)
        PROVE  h[j] = leader[V.lt][u.inProgress + j - 1]
    <3>1. a + j - 1 \in 1 .. n /\ u.offset + (a + j - 1) - 1 = u.inProgress + j - 1
      BY <1>1, <1>4, <1>7, <2>4
    <3>2. g[a + j - 1] = leader[V.lt][u.offset + (a + j - 1) - 1]
      BY <1>2, <1>3, <1>5, <3>1
    <3> QED
      BY <2>4, <3>1, <3>2
  <2>6. u.inProgress + Len(h) = V.last + 1 /\ u.inProgress # V.last + 1 /\ Len(h) > 0
    <3>1. PICK k, l, o, p : k = Len(h) /\ l = V.last /\ o = u.offset /\ p = u.inProgress
      OBVIOUS
    <3>2. /\ k = n - a + 1 /\ p = o + a - 1 /\ o + n = l + 1 /\ a <= n
          /\ a \in Nat /\ n \in Nat /\ o \in Nat /\ l \in Nat
      BY <1>1, <1>2, <1>3, <1>4, <1>7, <2>4, <3>1
    <3>3. p + k = l + 1 /\ p # l + 1 /\ k > 0
      BY <3>2
    <3> QED
      BY <3>1, <3>3
  <2>7. h # <<>>
    BY <2>6
  <2> QED
    BY <2>3, <2>4, <2>5, <2>6, <2>7
<1> QED
  BY <1>4, <1>6, <1>7

\* The response a Ready asks for names the end of the node's log.
LEMMA AppendRespIs ==
  ASSUME NEW B, NEW T, NEW V, GhostInv(B, T, V)
  PROVE  RespOk(leader, AppendResp, V) /\ AppendResp.snap = NextSnapshot /\ NextSnapshot \in Ids
<1>1. /\ ClusterOk(leader) /\ StageOk(leader, V) /\ V.term = term /\ Reads(leader, V)
      /\ UnstableOk(leader, u, appendQ, appendBack, B, T, V) /\ EntriesOk(leader, u, V)
  BY GhostFacts
<1>2. /\ V.term \in Nat /\ V.commit \in Nat /\ V.last \in Nat /\ V.commit <= V.last
      /\ u.offset \in Nat \ {0} /\ u.entries \in Seq(Nat) /\ Len(u.entries) \in Nat
      /\ u.offset + Len(u.entries) = V.last + 1
      /\ u.snap \in Ids /\ u.snap.index \in Nat
  <2>1. u.offset + Len(u.entries) = V.last + 1
    BY <1>1 DEF EntriesOk
  <2> QED
    BY <1>1, <2>1, StageType, UnstableType
<1>3. None \in Ids /\ None.index = 0
  BY DEF None, Ids
<1>4. NextSnapshot \in Ids /\ NextSnapshot.index <= V.commit
  <2>1. CASE NextSnapshot = None
    BY <1>2, <1>3, <2>1
  <2>2. CASE NextSnapshot = u.snap /\ u.snap # None
    BY <1>1, <1>2, <2>2 DEF UnstableOk, SnapOk
  <2> QED
    BY <2>1, <2>2 DEF NextSnapshot
<1>5. PICK id : id = IF u.entries # <<>> THEN [index |-> LastIndex, term |-> TermAt(LastIndex)] ELSE None
  OBVIOUS
<1>6. AppendResp = [term |-> term, id |-> id, snap |-> NextSnapshot]
  BY <1>5 DEF AppendResp
<1>7. CASE u.entries # <<>>
  <2>1. Len(u.entries) > 0 /\ V.last > 0
    <3>1. Len(u.entries) > 0
      BY <1>2, <1>7
    <3> QED
      BY <1>2, <3>1
  <2>2. V.last \in 1 .. V.last
    BY <1>2, <2>1
  <2>3. LastIndex = V.last /\ TermAt(V.last) = leader[V.lt][V.last]
    <3>1. FirstIndex <= V.last + 1 /\ LastIndex = V.last
      BY <1>1, <1>2 DEF Reads
    <3>2. TermAt(V.last) = EntryOf(leader, V, V.last)
      BY <1>1, <1>2, <3>1 DEF Reads
    <3> QED
      BY <1>2, <2>1, <3>1, <3>2 DEF EntryOf
  <2>4. id = [index |-> V.last, term |-> leader[V.lt][V.last]]
    BY <1>5, <1>7, <2>3
  <2>5. leader[V.lt][V.last] \in Nat
    BY <1>1, <2>2, StageType
  <2>6. id \in Ids
    BY <1>2, <2>4, <2>5 DEF Ids
  <2>7. AppendResp \in Resps
    BY <1>1, <1>2, <1>4, <1>6, <2>6 DEF Resps
  <2> QED
    BY <1>1, <1>4, <1>6, <2>1, <2>4, <2>7 DEF RespOk
<1>8. CASE u.entries = <<>>
  <2>1. id = None
    BY <1>5, <1>8
  <2>2. AppendResp \in Resps
    BY <1>1, <1>2, <1>3, <1>4, <1>6, <2>1 DEF Resps
  <2> QED
    BY <1>1, <1>4, <1>6, <2>1, <2>2 DEF RespOk
<1> QED
  BY <1>7, <1>8

\* Ready's message takes the last stage on its way to the node's log.
LEMMA ReadyMsgOk ==
  ASSUME NEW B, NEW T, NEW V, GhostInv(B, T, V), NEW m, m = ReadyMsg
  PROVE  /\ MsgOk(leader, m, T[Len(T)], V) /\ m \in Appends /\ m.answers = after
         /\ m.snap = NextSnapshot /\ m.first = u.inProgress
<1>1. /\ ClusterOk(leader) /\ StageOk(leader, V) /\ V.term = term /\ cur.committed = V.commit
      /\ UnstableOk(leader, u, appendQ, appendBack, B, T, V) /\ EntriesOk(leader, u, V)
      /\ StagesOk(leader, B, T, V) /\ after \in SUBSET Acks
  BY GhostFacts
<1>2. /\ V.term \in Nat /\ V.commit \in Nat /\ V.last \in Nat /\ V.commit <= V.last
      /\ u.offset \in Nat \ {0} /\ u.inProgress \in Nat /\ u.offset <= u.inProgress
      /\ u.snap \in Ids /\ u.snap.index \in Nat
  <2>1. u.offset <= u.inProgress
    BY <1>1 DEF EntriesOk
  <2> QED
    BY <1>1, <2>1, StageType, UnstableType
<1>3. PICK K : K = T[Len(T)]
  OBVIOUS
<1>4. StageOk(leader, K) /\ K.last \in Nat /\ K.commit \in Nat
  BY <1>1, <1>3, ConstStages, StageType
<1>5. PICK es : es = NextEntries
  OBVIOUS
<1>6. /\ es \in Seq(Nat) /\ u.inProgress + Len(es) = V.last + 1
      /\ \A j \in 1 .. Len(es) : es[j] = leader[V.lt][u.inProgress + j - 1]
      /\ es = <<>> <=> u.inProgress = V.last + 1
  BY <1>1, <1>2, <1>5, NextEntriesIs
<1>7. PICK r : r = AppendResp /\ RespOk(leader, r, V) /\ r.snap = NextSnapshot
  BY AppendRespIs
<1>8. r \in Resps /\ NextSnapshot \in Ids
  BY <1>7, AppendRespIs DEF RespOk
<1>9. PICK rs : rs = (IF NeedAppendResp THEN <<r>> ELSE <<>>)
  OBVIOUS
<1>10. m = [first |-> u.inProgress, ents |-> es, hs |-> HardState, snap |-> NextSnapshot,
            answers |-> after, resp |-> rs]
  BY <1>5, <1>7, <1>9 DEF ReadyMsg
<1>11. /\ rs \in Seq(Resps) /\ Len(rs) <= 1 /\ (rs # <<>> => rs[1] = r)
       /\ (NextSnapshot # None => rs # <<>>)
  <2>1. CASE NeedAppendResp
    <3>1. rs = <<r>>
      BY <1>9, <2>1
    <3> QED
      BY <1>8, <3>1
  <2>2. CASE ~NeedAppendResp
    <3>1. rs = <<>> /\ NextSnapshot = None
      BY <1>9, <2>2 DEF NeedAppendResp
    <3> QED
      BY <3>1
  <2> QED
    BY <2>1, <2>2
<1>12. HardState \in Hards /\ HardState = [term |-> V.term, commit |-> V.commit]
  BY <1>1, <1>2 DEF HardState, Hards
<1>13. /\ m.first = u.inProgress /\ m.ents = es /\ m.hs = HardState /\ m.snap = NextSnapshot
       /\ m.answers = after /\ m.resp = rs
  BY <1>10
<1>14. m \in Appends
  BY <1>1, <1>2, <1>6, <1>8, <1>10, <1>11, <1>12 DEF Appends
<1>15. es # <<>> => EntsOk(leader, m, V)
  BY <1>2, <1>6, <1>13 DEF EntsOk
<1>16. WritesOk(leader, m, K, V)
  <2>1. CASE NextSnapshot = None
    <3>1. u.snap = None \/ u.snapBusy
      BY <2>1 DEF NextSnapshot
    <3>2. InProgressOk(leader, u, K, V) /\ u.inProgress > K.commit
      BY <1>1, <1>3, <3>1 DEF UnstableOk
    <3>3. SameTo(leader, K, V, u.inProgress - 1)
      BY <3>2 DEF InProgressOk
    <3>4. ASSUME es = <<>>
          PROVE  V.last = K.last /\ SameTo(leader, K, V, K.last)
      <4>1. u.inProgress = V.last + 1 /\ V.last = K.last
        BY <1>6, <3>2, <3>4 DEF InProgressOk
      <4>2. u.inProgress - 1 = K.last
        BY <1>4, <4>1
      <4> QED
        BY <3>3, <4>1, <4>2
    <3>5. ASSUME es # <<>>, K.term = V.term
          PROVE  ~Has(leader, K, u.inProgress, leader[V.lt][u.inProgress])
      <4>1. u.inProgress <= V.last
        <5>1. u.inProgress <= V.last + 1 /\ u.inProgress # V.last + 1
          BY <1>1, <1>6, <3>5 DEF EntriesOk
        <5> QED
          BY <1>2, <5>1
      <4> QED
        BY <3>2, <3>5, <4>1 DEF InProgressOk
    <3> QED
      BY <1>13, <1>15, <2>1, <3>2, <3>3, <3>4, <3>5 DEF WritesOk
  <2>2. CASE NextSnapshot # None
    <3>1. NextSnapshot = u.snap /\ u.snap # None /\ ~u.snapBusy
      BY <2>2 DEF NextSnapshot
    <3>2. SnapOk(leader, u, appendQ, appendBack, B, T, V)
      BY <1>1, <3>1 DEF UnstableOk
    <3>3. /\ K.commit < u.snap.index /\ u.snap.index <= V.commit /\ u.inProgress = u.snap.index + 1
          /\ leader[V.lt][u.snap.index] = u.snap.term
      BY <1>3, <3>1, <3>2 DEF SnapOk
    <3>4. es = <<>> => V.last = u.snap.index
      BY <1>2, <1>6, <3>3
    <3> QED
      BY <1>13, <1>15, <2>2, <3>1, <3>3, <3>4 DEF WritesOk
  <2> QED
    BY <2>1, <2>2
<1>17. MsgOk(leader, m, K, V)
  BY <1>7, <1>11, <1>12, <1>13, <1>14, <1>16 DEF MsgOk
<1> QED
  BY <1>3, <1>13, <1>14, <1>17

\* A message that makes V the last stage goes into the queue.
Sends(q, q2, x, T, T2, V) ==
  /\ Len(q2) = Len(q) + 1 /\ Len(T2) = Len(T) + 1
  /\ \A j \in DOMAIN q : q2[j] = q[j]
  /\ \A j \in DOMAIN T : T2[j] = T[j]
  /\ q2[Len(q) + 1] = x /\ T2[Len(T) + 1] = V

\* A sequence with one more element.
LEMMA AppendIs ==
  ASSUME NEW S, NEW g \in Seq(S), NEW x \in S
  PROVE  /\ Append(g, x) \in Seq(S) /\ Len(Append(g, x)) = Len(g) + 1 /\ Len(g) \in Nat
         /\ \A j \in DOMAIN g : Append(g, x)[j] = g[j]
         /\ Append(g, x)[Len(g) + 1] = x
OBVIOUS

\* The type of a sequence.
LEMMA SeqType ==
  ASSUME NEW S, NEW g \in Seq(S)
  PROVE  Len(g) \in Nat /\ DOMAIN g = 1 .. Len(g) /\ \A j \in DOMAIN g : g[j] \in S
OBVIOUS

\* A message sent adds the node's log as the last stage,
LEMMA SendStages ==
  ASSUME NEW L, ClusterOk(L), NEW B, NEW T, NEW V, StagesOk(L, B, T, V),
         NEW q, NEW q2, NEW x, NEW T2 \in Seq(Stages(L)), Sends(q, q2, x, T, T2, V)
  PROVE  StagesOk(L, B, T2, V)
<1>1. /\ StageOk(L, V) /\ 1 \in DOMAIN T /\ Len(T) \in Nat
      /\ DOMAIN T = 1 .. Len(T)
      /\ \A j \in DOMAIN B : StageOk(L, B[j]) /\ Later(L, B[j], T[1])
      /\ \A j \in DOMAIN T : StageOk(L, T[j]) /\ Later(L, T[j], V)
      /\ \A j \in DOMAIN T : \A k \in DOMAIN T : j <= k => Later(L, T[j], T[k])
  BY ConstStages
<1>2. Len(T2) = Len(T) + 1 /\ DOMAIN T2 = 1 .. Len(T) + 1
  BY SeqType DEF Sends
<1>3. /\ \A j \in 1 .. Len(T) : T2[j] = T[j]
      /\ T2[Len(T) + 1] = V
  BY <1>1 DEF Sends
<1>4. Later(L, V, V)
  BY <1>1, LaterRefl
<1>5. B \in Seq(Stages(L)) /\ T2 # <<>> /\ T2[1] = T[1]
  BY <1>1, <1>2, <1>3 DEF StagesOk
<1>6. ASSUME NEW j \in DOMAIN T2
      PROVE  StageOk(L, T2[j]) /\ Later(L, T2[j], V)
  BY <1>1, <1>2, <1>3, <1>4
<1>7. ASSUME NEW j \in DOMAIN T2, NEW k \in j .. Len(T2)
      PROVE  Later(L, T2[j], T2[k])
  <2>1. CASE k = Len(T) + 1
    BY <1>3, <1>6, <2>1
  <2>2. CASE k # Len(T) + 1
    <3>1. j \in 1 .. Len(T) /\ k \in 1 .. Len(T) /\ j <= k
      BY <1>1, <1>2, <2>2
    <3> QED
      BY <1>1, <1>3, <3>1
  <2> QED
    BY <2>1, <2>2
<1> QED
  BY <1>1, <1>5, <1>6, <1>7 DEF StagesOk

\* writes the change from the stage before it,
LEMMA SendQueue ==
  ASSUME NEW L, NEW T, NEW V, Len(T) \in Nat,
         NEW q, QueueOk(L, q, T), NEW q2 \in Seq(Appends), NEW x, NEW T2,
         Sends(q, q2, x, T, T2, V), MsgOk(L, x, T[Len(T)], V), DOMAIN T = 1 .. Len(T)
  PROVE  QueueOk(L, q2, T2)
<1>1. PICK n : n = Len(q) /\ n \in Nat /\ Len(T) = n + 1 /\ DOMAIN q = 1 .. n
  BY SeqType DEF QueueOk
<1>2. Len(q2) = n + 1 /\ DOMAIN q2 = 1 .. n + 1 /\ Len(T2) = n + 2
  BY <1>1, SeqType DEF Sends
<1>3. ASSUME NEW j \in DOMAIN q2
      PROVE  MsgOk(L, q2[j], T2[j], T2[j + 1])
  <2>1. CASE j = n + 1
    <3>1. q2[j] = x /\ T2[j + 1] = V /\ T2[j] = T[Len(T)]
      BY <1>1, <2>1 DEF Sends
    <3> QED
      BY <3>1
  <2>2. CASE j # n + 1
    <3>1. j \in 1 .. n /\ j \in 1 .. Len(T) /\ j + 1 \in 1 .. Len(T)
      BY <1>1, <1>2, <2>2
    <3>2. q2[j] = q[j] /\ T2[j + 1] = T[j + 1] /\ T2[j] = T[j]
      BY <1>1, <3>1 DEF Sends
    <3>3. MsgOk(L, q[j], T[j], T[j + 1])
      BY <1>1, <3>1 DEF QueueOk
    <3> QED
      BY <3>2, <3>3
  <2> QED
    BY <2>1, <2>2
<1> QED
  BY <1>1, <1>2, <1>3 DEF QueueOk

\* carries the answers waiting,
LEMMA SendAcks ==
  ASSUME NEW L, NEW T, NEW V, NEW q \in Seq(Appends), Len(T) = Len(q) + 1,
         DOMAIN T = 1 .. Len(T), NEW q2 \in Seq(Appends), NEW x, NEW T2,
         Sends(q, q2, x, T, T2, V), NEW ack, NEW af, AcksOk(L, ack, af, q, T, V), x.answers = af
  PROVE  AcksOk(L, ack, {}, q2, T2, V)
<1>1. PICK n : n = Len(q) /\ n \in Nat /\ Len(T) = n + 1 /\ DOMAIN q = 1 .. n
  BY SeqType
<1>2. DOMAIN q2 = 1 .. n + 1
  BY <1>1, SeqType DEF Sends
<1>3. T2[1] = T[1]
  BY <1>1 DEF Sends
<1>4. ASSUME NEW j \in DOMAIN q2, NEW a \in q2[j].answers
      PROVE  Backed(L, T2[j + 1], a.term, a.index)
  <2>1. CASE j = n + 1
    <3>1. q2[j] = x /\ T2[j + 1] = V
      BY <1>1, <2>1 DEF Sends
    <3> QED
      BY <3>1 DEF AcksOk
  <2>2. CASE j # n + 1
    <3>1. j \in 1 .. n /\ j + 1 \in 1 .. Len(T)
      BY <1>1, <1>2, <2>2
    <3>2. q2[j] = q[j] /\ T2[j + 1] = T[j + 1]
      BY <1>1, <3>1 DEF Sends
    <3> QED
      BY <1>1, <3>1, <3>2 DEF AcksOk
  <2> QED
    BY <2>1, <2>2
<1> QED
  BY <1>3, <1>4 DEF AcksOk

\* Everything in memory is on its way to the storage.
AllSent(un, un2, V) ==
  /\ un2 \in Unstables /\ un2.offset = un.offset /\ un2.entries = un.entries /\ un2.snap = un.snap
  /\ un2.snapBusy = (un.snap # None) /\ un2.inProgress = V.last + 1

\* and leaves nothing in the unstable log to be sent.
LEMMA SendUnstable ==
  ASSUME NEW L, ClusterOk(L), NEW B, NEW T, NEW V, StagesOk(L, B, T, V),
         NEW q \in Seq(Appends), Len(T) = Len(q) + 1, NEW q2 \in Seq(Appends), NEW x, NEW T2 \in Seq(Stages(L)),
         Sends(q, q2, x, T, T2, V), NEW b, NEW un, UnstableOk(L, un, q, b, B, T, V),
         NEW un2, AllSent(un, un2, V), un.snap # None /\ ~un.snapBusy => x.snap = un.snap
  PROVE  UnstableOk(L, un2, q2, b, B, T2, V)
<1>1. /\ StageOk(L, V) /\ 1 \in DOMAIN T /\ Len(T) \in DOMAIN T /\ Len(T) \in Nat
      /\ DOMAIN T = 1 .. Len(T)
      /\ \A j \in DOMAIN B : StageOk(L, B[j]) /\ Later(L, B[j], T[1])
      /\ \A j \in DOMAIN T : StageOk(L, T[j]) /\ Later(L, T[j], V)
      /\ \A j \in DOMAIN T : \A k \in DOMAIN T : j <= k => Later(L, T[j], T[k])
  BY ConstStages
<1>2. EntriesOk(L, un, V) /\ V.last \in Nat /\ V.commit \in Nat /\ V.commit <= V.last
  BY <1>1, StageType DEF UnstableOk
<1>3. /\ un.offset \in Nat \ {0} /\ un.inProgress \in Nat /\ un.entries \in Seq(Nat)
      /\ Len(un.entries) \in Nat /\ un.snap.index \in Nat
  BY <1>2, UnstableType
<1>4. /\ un.offset + Len(un.entries) = V.last + 1
      /\ un.offset <= un.inProgress /\ un.inProgress <= V.last + 1
  BY <1>2 DEF EntriesOk
<1>5. /\ un2.offset = un.offset /\ un2.entries = un.entries /\ un2.snap = un.snap
      /\ un2.snapBusy = (un.snap # None) /\ un2.inProgress = V.last + 1 /\ un2 \in Unstables
  BY DEF AllSent
<1>6. EntriesOk(L, un2, V)
  BY <1>2, <1>3, <1>4, <1>5 DEF EntriesOk
<1>7. /\ Len(T2) = Len(T) + 1 /\ DOMAIN T2 = 1 .. Len(T) + 1
      /\ \A j \in 1 .. Len(T) : T2[j] = T[j]
      /\ T2[Len(T2)] = V
  BY <1>1, SeqType DEF Sends
<1>8. InProgressOk(L, un2, V, V)
  <2>1. un2.inProgress - 1 = V.last
    BY <1>2, <1>5
  <2>2. SameTo(L, V, V, un2.inProgress - 1)
    BY <1>2, <2>1, SameRefl
  <2> QED
    BY <1>2, <1>5, <2>2 DEF InProgressOk
<1>9. ASSUME un.snap = None
      PROVE  StableOk(L, un2, T2, V)
  <2>1. StableOk(L, un, T, V)
    BY <1>9 DEF UnstableOk
  <2>2. SameTo(L, V, V, un.offset - 1)
    <3>1. un.offset - 1 \in Int /\ un.offset - 1 <= V.last
      BY <1>2, <1>3, <1>4
    <3> QED
      BY <3>1, SameRefl
  <2>3. ASSUME NEW j \in DOMAIN T2
        PROVE  SameTo(L, T2[j], V, un2.offset - 1) /\ (un2.entries = <<>> => T2[j].last = V.last)
    <3>1. CASE j = Len(T) + 1
      BY <1>5, <1>7, <2>2, <3>1
    <3>2. CASE j # Len(T) + 1
      <4>1. j \in DOMAIN T /\ T2[j] = T[j]
        BY <1>1, <1>7, <3>2
      <4> QED
        BY <1>5, <2>1, <4>1 DEF StableOk
    <3> QED
      BY <3>1, <3>2
  <2> QED
    BY <2>3 DEF StableOk
<1>10. ASSUME un.snap # None
       PROVE  SnapOk(L, un2, q2, b, B, T2, V)
  <2>1. SnapOk(L, un, q, b, B, T, V)
    BY <1>10 DEF UnstableOk
  <2>2. /\ un.offset = un.snap.index + 1 /\ 0 < un.snap.index /\ un.snap.index <= V.commit
        /\ L[V.lt][un.snap.index] = un.snap.term
        /\ \A j \in DOMAIN B : LacksSnap(L, un.snap, B[j], V)
        /\ \A j \in DOMAIN T : LacksSnap(L, un.snap, T[j], V)
        /\ \A j \in DOMAIN T : un.entries = <<>> /\ T[j].commit >= un.snap.index => T[j].last = V.last
        /\ un.snapBusy  => Carried(un.snap, q, b, B)
        /\ ~un.snapBusy => T[Len(T)].commit < un.snap.index
    BY <2>1 DEF SnapOk
  <2>3. LacksSnap(L, un.snap, V, V)
    BY <1>2, <1>3, <2>2 DEF LacksSnap
  <2>4. ASSUME NEW j \in DOMAIN T2
        PROVE  /\ LacksSnap(L, un.snap, T2[j], V)
               /\ un.entries = <<>> /\ T2[j].commit >= un.snap.index => T2[j].last = V.last
    <3>1. CASE j = Len(T) + 1
      BY <1>7, <2>3, <3>1
    <3>2. CASE j # Len(T) + 1
      <4>1. j \in DOMAIN T /\ T2[j] = T[j]
        BY <1>1, <1>7, <3>2
      <4> QED
        BY <2>2, <4>1
    <3> QED
      BY <3>1, <3>2
  <2>5. /\ DOMAIN q = 1 .. Len(q) /\ DOMAIN q2 = 1 .. Len(q) + 1 /\ Len(q) \in Nat
        /\ \A j \in 1 .. Len(q) : q2[j] = q[j]
        /\ q2[Len(q) + 1] = x
    BY SeqType DEF Sends
  <2>6. Carried(un.snap, q2, b, B)
    <3>1. CASE un.snapBusy
      <4>1. Carried(un.snap, q, b, B)
        BY <2>2, <3>1
      <4>2. (\E j \in DOMAIN q : q[j].snap.index = un.snap.index)
              => \E j \in DOMAIN q2 : q2[j].snap.index = un.snap.index
        BY <2>5
      <4> QED
        BY <4>1, <4>2 DEF Carried
    <3>2. CASE ~un.snapBusy
      <4>1. x.snap = un.snap
        BY <1>10, <3>2
      <4>2. \E j \in DOMAIN q2 : q2[j].snap.index = un.snap.index
        BY <2>5, <4>1
      <4>3. ASSUME NEW k \in DOMAIN B
            PROVE  B[k].commit < un.snap.index
        <5>1. Later(L, B[k], T[1]) /\ Later(L, T[1], T[Len(T)])
          BY <1>1
        <5>2. B[k].commit \in Nat /\ T[1].commit \in Nat /\ T[Len(T)].commit \in Nat
          BY <1>1, StageType
        <5>3. B[k].commit <= T[1].commit /\ T[1].commit <= T[Len(T)].commit
          BY <5>1 DEF Later
        <5> QED
          BY <1>3, <2>2, <3>2, <5>2, <5>3
      <4> QED
        BY <4>2, <4>3 DEF Carried
    <3> QED
      BY <3>1, <3>2
  <2>7. un2.snapBusy
    BY <1>5, <1>10
  <2> QED
    BY <1>5, <2>2, <2>4, <2>6, <2>7 DEF SnapOk
<1>11. un2.inProgress > T2[Len(T2)].commit
  BY <1>2, <1>5, <1>7
<1> QED
  BY <1>5, <1>6, <1>7, <1>8, <1>9, <1>10, <1>11 DEF UnstableOk

\* What Ready does to the cursors: it hands out what is in the storage.
HandsOut(c, c2, un) ==
  /\ c2 \in CursorSet /\ c2.committed = c.committed /\ c2.applied = c.applied
  /\ c.applying <= c2.applying /\ c2.applying <= c.committed /\ c2.applying < un.offset
  /\ c2.applying # c.applying => un.snap = None

\* Handing entries out for application keeps the cursors' relations.
LEMMA ReadyCursor ==
  ASSUME NEW L, ClusterOk(L), NEW B, NEW T, NEW V, StagesOk(L, B, T, V),
         NEW m \in Stores, NEW q \in Seq(Appends), NEW b, NEW un, UnstableOk(L, un, q, b, B, T, V),
         NEW c, NEW c2, CursorOk(L, c, un, m, q, T, V), HandsOut(c, c2, un)
  PROVE  CursorOk(L, c2, un, m, q, T, V)
<1>1. /\ c \in CursorSet /\ c.committed = V.commit
      /\ c.applied <= c.applying /\ c.applying <= c.committed /\ c.applying < un.offset
      /\ \A j \in DOMAIN T : SameTo(L, T[j], V, c.applying)
      /\ m.base <= MaxOf(c.applying, un.snap.index)
      /\ \A j \in DOMAIN q : q[j].snap.index <= MaxOf(c.applying, un.snap.index)
  BY DEF CursorOk
<1>2. /\ c2 \in CursorSet /\ c2.committed = c.committed /\ c2.applied = c.applied
      /\ c.applying <= c2.applying /\ c2.applying <= c.committed /\ c2.applying < un.offset
      /\ c2.applying # c.applying => un.snap = None
  BY DEF HandsOut
<1>3. /\ c.applying \in Nat /\ c2.applying \in Nat /\ c.applied \in Nat /\ m.base \in Nat
  BY <1>1, <1>2 DEF CursorSet, Stores
<1>4. EntriesOk(L, un, V) /\ StageOk(L, V)
  BY DEF UnstableOk, StagesOk
<1>5. un.offset \in Nat \ {0} /\ un.snap.index \in Nat
  BY <1>4, UnstableType
<1>6. V.last \in Nat /\ \A j \in DOMAIN T : T[j].last \in Nat
  BY <1>4, StageType, ConstStages
<1>7. ASSUME NEW j \in DOMAIN T
      PROVE  SameTo(L, T[j], V, c2.applying)
  <2>1. CASE c2.applying = c.applying
    BY <1>1, <2>1
  <2>2. CASE c2.applying # c.applying
    <3>1. StableOk(L, un, T, V)
      BY <1>2, <2>2 DEF UnstableOk
    <3>2. SameTo(L, T[j], V, un.offset - 1)
      BY <3>1 DEF StableOk
    <3>3. un.offset - 1 \in Int /\ c2.applying \in Int /\ c2.applying <= un.offset - 1
      BY <1>2, <1>3, <1>5
    <3>4. T[j].last \in Nat
      BY <1>6
    <3> QED
      BY <1>6, <3>2, <3>3, <3>4, SameBelow
  <2> QED
    BY <2>1, <2>2
<1>8. MaxOf(c.applying, un.snap.index) <= MaxOf(c2.applying, un.snap.index)
  BY <1>2, <1>3, <1>5 DEF MaxOf
<1>9. MaxOf(c.applying, un.snap.index) \in Nat /\ MaxOf(c2.applying, un.snap.index) \in Nat
  BY <1>3, <1>5 DEF MaxOf
<1>10. m.base <= MaxOf(c2.applying, un.snap.index)
  BY <1>1, <1>3, <1>8, <1>9
<1>11. ASSUME NEW j \in DOMAIN q
       PROVE  q[j].snap.index <= MaxOf(c2.applying, un.snap.index)
  <2>1. q[j].snap.index \in Nat
    BY AppendType DEF Ids
  <2>2. q[j].snap.index <= MaxOf(c.applying, un.snap.index)
    BY <1>1
  <2> QED
    BY <1>8, <1>9, <2>1, <2>2
<1>12. c2.applied <= c2.applying
  BY <1>1, <1>2, <1>3
<1> QED
  BY <1>1, <1>2, <1>7, <1>10, <1>11, <1>12 DEF CursorOk

\* So does sending.
LEMMA SendCursor ==
  ASSUME NEW L, NEW T, NEW V, V.commit \in Nat, V.last \in Nat, V.commit <= V.last,
         NEW q \in Seq(Appends), Len(T) = Len(q) + 1, DOMAIN T = 1 .. Len(T),
         NEW q2 \in Seq(Appends), NEW x \in Appends, NEW T2 \in Seq(Stages(L)),
         Sends(q, q2, x, T, T2, V), NEW m, NEW un, un.snap \in Ids,
         NEW un2, un2.offset = un.offset, un2.snap = un.snap,
         NEW c, CursorOk(L, c, un, m, q, T, V), x.snap.index <= un.snap.index
  PROVE  CursorOk(L, c, un2, m, q2, T2, V)
<1>1. /\ c \in CursorSet /\ c.committed = V.commit
      /\ c.applied <= c.applying /\ c.applying <= c.committed /\ c.applying < un.offset
      /\ \A j \in DOMAIN T : SameTo(L, T[j], V, c.applying)
      /\ m.base <= MaxOf(c.applying, un.snap.index)
      /\ \A j \in DOMAIN q : q[j].snap.index <= MaxOf(c.applying, un.snap.index)
  BY DEF CursorOk
<1>2. PICK n : n = Len(q) /\ n \in Nat /\ Len(T) = n + 1 /\ DOMAIN q = 1 .. n
  BY SeqType
<1>3. DOMAIN q2 = 1 .. n + 1 /\ DOMAIN T2 = 1 .. n + 2
  BY <1>2, SeqType DEF Sends
<1>4. c.applying \in Nat /\ un.snap.index \in Nat /\ x.snap.index \in Nat
  BY <1>1 DEF CursorSet, Ids, Appends
<1>5. ASSUME NEW j \in DOMAIN T2
      PROVE  SameTo(L, T2[j], V, c.applying)
  <2>1. CASE j = n + 2
    <3>1. T2[j] = V
      BY <1>2, <2>1 DEF Sends
    <3>2. c.applying \in Int /\ c.applying <= V.last
      BY <1>1, <1>4
    <3> QED
      BY <3>1, <3>2, SameRefl
  <2>2. CASE j # n + 2
    <3>1. j \in DOMAIN T /\ T2[j] = T[j]
      BY <1>2, <1>3, <2>2 DEF Sends
    <3> QED
      BY <1>1, <3>1
  <2> QED
    BY <2>1, <2>2
<1>6. ASSUME NEW j \in DOMAIN q2
      PROVE  q2[j].snap.index <= MaxOf(c.applying, un.snap.index)
  <2>1. CASE j = n + 1
    <3>1. q2[j] = x
      BY <1>2, <2>1 DEF Sends
    <3> QED
      BY <1>4, <3>1 DEF MaxOf
  <2>2. CASE j # n + 1
    <3>1. j \in DOMAIN q /\ q2[j] = q[j]
      BY <1>2, <1>3, <2>2 DEF Sends
    <3> QED
      BY <1>1, <3>1
  <2> QED
    BY <2>1, <2>2
<1> QED
  BY <1>1, <1>5, <1>6 DEF CursorOk

\* What is handed out is not on its way to the storage any more,
LEMMA FlightHandsOut ==
  ASSUME NEW T, NEW c \in CursorSet, NEW c2, NEW un, un.offset \in Nat, NEW m \in Stores,
         T[1].commit \in Nat, NEW q \in Seq(Appends), FlightOk(c, un, m, q, T), HandsOut(c, c2, un)
  PROVE  FlightOk(c2, un, m, q, T)
<1>1. /\ c.applying \in Nat /\ c2.applying \in Nat /\ m.base \in Nat
      /\ c.applying <= c2.applying /\ c2.applying < un.offset
      /\ c2.applying # c.applying => un.snap = None
  BY DEF CursorSet, HandsOut, Stores
<1>2. m.base <= c2.applying \/ m.base <= T[1].commit
  BY <1>1 DEF FlightOk
<1>3. ASSUME NEW j \in DOMAIN q
      PROVE  /\ q[j].ents # <<>> => q[j].first > c2.applying
             /\ q[j].snap # None => q[j].snap.index > c2.applying
             /\ un.snap = None => q[j].snap = None
             /\ un.snap = None /\ q[j].ents # <<>> => q[j].first >= un.offset
  <2>1. q[j].first \in Nat
    BY AppendType DEF Appends
  <2>2. CASE c2.applying = c.applying
    BY <2>2 DEF FlightOk
  <2>3. CASE un.snap = None
    BY <1>1, <2>1, <2>3 DEF FlightOk
  <2> QED
    BY <1>1, <2>2, <2>3
<1>4. un.snap # None /\ ~un.snapBusy => c2.applying < un.snap.index
  BY <1>1 DEF FlightOk
<1> QED
  BY <1>2, <1>3, <1>4 DEF FlightOk

\* and what is sent lies beyond.
LEMMA FlightSend ==
  ASSUME NEW L, NEW T, NEW V, 1 \in DOMAIN T, NEW c \in CursorSet, NEW m,
         NEW un, un.offset \in Nat, un.inProgress \in Nat, un.offset <= un.inProgress,
         c.applying < un.offset, NEW un2, un2.offset = un.offset, un2.snap = un.snap,
         un2.snapBusy = (un.snap # None),
         NEW q \in Seq(Appends), NEW q2 \in Seq(Appends), NEW x, NEW T2,
         Sends(q, q2, x, T, T2, V), x.first = un.inProgress,
         x.snap = IF un.snapBusy THEN None ELSE un.snap, FlightOk(c, un, m, q, T)
  PROVE  FlightOk(c, un2, m, q2, T2)
<1>1. PICK n : n = Len(q) /\ n \in Nat /\ DOMAIN q = 1 .. n
  BY SeqType
<1>2. DOMAIN q2 = 1 .. n + 1 /\ T2[1] = T[1]
  BY <1>1, SeqType DEF Sends
<1>3. c.applying \in Nat
  BY DEF CursorSet
<1>4. ASSUME NEW j \in DOMAIN q2
      PROVE  /\ q2[j].ents # <<>> => q2[j].first > c.applying
             /\ q2[j].snap # None => q2[j].snap.index > c.applying
             /\ un.snap = None => q2[j].snap = None
             /\ un.snap = None /\ q2[j].ents # <<>> => q2[j].first >= un.offset
  <2>1. CASE j = n + 1
    <3>1. q2[j] = x
      BY <1>1, <2>1 DEF Sends
    <3>2. x.first > c.applying /\ x.first >= un.offset
      BY <1>3
    <3>3. ASSUME x.snap # None
          PROVE  x.snap.index > c.applying
      <4>1. un.snap # None /\ ~un.snapBusy /\ x.snap = un.snap
        BY <3>3
      <4>2. c.applying < un.snap.index
        BY <4>1 DEF FlightOk
      <4> QED
        BY <4>1, <4>2
    <3> QED
      BY <3>1, <3>2, <3>3
  <2>2. CASE j # n + 1
    <3>1. j \in DOMAIN q /\ q2[j] = q[j]
      BY <1>1, <1>2, <2>2 DEF Sends
    <3> QED
      BY <3>1 DEF FlightOk
  <2> QED
    BY <2>1, <2>2
<1>5. m.base <= c.applying \/ m.base <= T2[1].commit
  BY <1>2 DEF FlightOk
<1> QED
  BY <1>4, <1>5 DEF FlightOk

\* What Ready hands out is committed, stable and not compacted.
LEMMA ReadyHandsOut ==
  ASSUME NEW B, NEW T, NEW V, GhostInv(B, T, V), NEW n, n = NextCommitted,
         cur' = IF n = 0 THEN cur
                ELSE [cur EXCEPT !.applying = cur.applying + n, !.size = @ + n,
                                 !.paused = cur.size + n >= ApplyLimit
                                              \/ cur.applying + n < MaxAppliable]
  PROVE  /\ n \in Nat /\ HandsOut(cur, cur', u) /\ cur'.applying = cur.applying + n
         /\ (n > 0 => ~(cur.applying + 1 < FirstIndex))
<1>1. /\ CursorOk(leader, cur, u, ms, appendQ, T, V) /\ cur \in CursorSet
      /\ cur.applying < u.offset /\ EntriesOk(leader, u, V) /\ StoreOk(leader, ms, T[1])
  BY GhostFacts
<1>2. /\ cur.applying \in Nat /\ cur.committed \in Nat /\ cur.size \in Nat /\ u.offset \in Nat \ {0}
      /\ ms.base \in Nat /\ u.snap.index \in Nat
  BY <1>1, UnstableType, StoreType DEF CursorSet
<1>3. cur.applying <= cur.committed /\ ms.base <= MaxOf(cur.applying, u.snap.index)
  BY <1>1 DEF CursorOk
<1>4. ApplyLimit \in Nat
  BY BoundsAssumption
<1>5. PICK a, c, o, z, x, l : /\ a = cur.applying /\ c = cur.committed /\ o = u.offset /\ z = cur.size
                             /\ x = MaxAppliable /\ l = ApplyLimit
  OBVIOUS
<1>6. x \in Nat /\ x <= c /\ x < o /\ a <= x
  BY <1>1, <1>2, <1>3, <1>5 DEF MaxAppliable, MinOf
<1>7. \/ n = 0
      \/ u.snap = None /\ n = MaxOf(0, MinOf(x - a, l - z))
  BY <1>5 DEF NextCommitted
<1>8. a \in Nat /\ c \in Nat /\ o \in Nat /\ z \in Nat /\ l \in Nat
  BY <1>2, <1>4, <1>5
<1>9. n \in Nat /\ a + n <= x /\ (n # 0 => u.snap = None)
  BY <1>6, <1>7, <1>8 DEF MaxOf, MinOf
<1>10. cur' \in CursorSet /\ cur'.committed = c /\ cur'.applied = cur.applied /\ cur'.applying = a + n
  <2>1. CASE n = 0
    BY <1>1, <1>5, <1>8, <2>1
  <2>2. CASE n # 0
    <3>1. PICK p \in BOOLEAN : p = (cur.size + n >= ApplyLimit \/ cur.applying + n < MaxAppliable)
      OBVIOUS
    <3>2. cur' = [cur EXCEPT !.applying = a + n, !.size = z + n, !.paused = p]
      BY <1>5, <2>2, <3>1
    <3>3. a + n \in Nat /\ z + n \in Nat
      BY <1>8, <1>9
    <3> QED
      BY <1>1, <1>5, <3>2, <3>3 DEF CursorSet
  <2> QED
    BY <2>1, <2>2
<1>11. HandsOut(cur, cur', u)
  <2>1. a <= a + n /\ a + n <= c /\ a + n < o /\ (a + n # a => n # 0)
    BY <1>6, <1>8, <1>9
  <2> QED
    BY <1>5, <1>9, <1>10, <2>1 DEF HandsOut
<1>12. ASSUME n > 0
       PROVE  ~(cur.applying + 1 < FirstIndex)
  <2>1. u.snap = None
    BY <1>9, <1>12
  <2>2. FirstIndex = ms.base + 1 /\ u.snap.index = 0
    BY <2>1 DEF FirstIndex, None
  <2>3. ms.base <= cur.applying
    BY <1>2, <1>3, <2>2 DEF MaxOf
  <2> QED
    BY <1>2, <2>2, <2>3
<1> QED
  BY <1>5, <1>9, <1>10, <1>11, <1>12

\* After acceptReady everything is in progress.
LEMMA ReadyUnstable ==
  ASSUME NEW B, NEW T, NEW V, GhostInv(B, T, V),
         u' = [u EXCEPT !.inProgress = IF u.entries # <<>> THEN LastIndex + 1 ELSE @,
                        !.snapBusy = (u.snap # None)]
  PROVE  AllSent(u, u', V)
<1>1. /\ EntriesOk(leader, u, V) /\ Reads(leader, V) /\ StageOk(leader, V) /\ ClusterOk(leader)
  BY GhostFacts
<1>2. /\ u \in Unstables /\ u.offset \in Nat \ {0} /\ u.inProgress \in Nat
      /\ u.entries \in Seq(Nat) /\ Len(u.entries) \in Nat /\ V.last \in Nat
  BY <1>1, UnstableType, StageType
<1>3. /\ u.offset + Len(u.entries) = V.last + 1
      /\ u.offset <= u.inProgress /\ u.inProgress <= V.last + 1
  BY <1>1 DEF EntriesOk
<1>4. (IF u.entries # <<>> THEN LastIndex + 1 ELSE u.inProgress) = V.last + 1
  <2>1. CASE u.entries # <<>>
    BY <1>1, <2>1 DEF Reads
  <2>2. CASE u.entries = <<>>
    <3>1. Len(u.entries) = 0
      BY <2>2
    <3> QED
      BY <1>2, <1>3, <2>2, <3>1
  <2> QED
    BY <2>1, <2>2
<1>5. PICK p \in BOOLEAN : p = (u.snap # None)
  OBVIOUS
<1>6. PICK k : k = V.last + 1 /\ k \in Nat
  BY <1>2
<1>7. u' = [u EXCEPT !.inProgress = k, !.snapBusy = p]
  BY <1>4, <1>5, <1>6
<1>8. /\ u' \in Unstables /\ u'.offset = u.offset /\ u'.entries = u.entries /\ u'.snap = u.snap
      /\ u'.inProgress = k /\ u'.snapBusy = p
  BY <1>2, <1>6, <1>7 DEF Unstables
<1> QED
  BY <1>5, <1>6, <1>8 DEF AllSent

\* What is being applied stays below a rising cursor.
LEMMA ReadyApplying ==
  ASSUME NEW c \in CursorSet, NEW c2 \in CursorSet, c.applying <= c2.applying,
         NEW q, ApplyingOk(q, c)
  PROVE  ApplyingOk(q, c2)
<1>1. c.applying \in Nat /\ c2.applying \in Nat
  BY DEF CursorSet
<1>2. ASSUME NEW j \in DOMAIN q
      PROVE  q[j].to <= c2.applying
  <2>1. q[j] \in Applies /\ q[j].to <= c.applying
    BY DEF ApplyingOk
  <2>2. q[j].to \in Nat
    BY <2>1 DEF Applies
  <2> QED
    BY <1>1, <2>1, <2>2
<1> QED
  BY <1>2 DEF ApplyingOk

\* Ready keeps the invariant.
LEMMA ReadyStep ==
  ASSUME NEW B, NEW T, NEW V, GhostInv(B, T, V), Ready
  PROVE  LogInv'
<1>1. /\ ClusterOk(leader) /\ leader \in Histories /\ V.term = term /\ crashes \in Nat
      /\ StagesOk(leader, B, T, V) /\ StageOk(leader, V)
      /\ StoreOk(leader, ms, T[1]) /\ QueueOk(leader, appendQ, T)
      /\ BackOk(leader, appendBack, B) /\ SnapsStored(appendBack, ms)
      /\ UnstableOk(leader, u, appendQ, appendBack, B, T, V) /\ EntriesOk(leader, u, V)
      /\ CursorOk(leader, cur, u, ms, appendQ, T, V) /\ cur \in CursorSet
      /\ ApplyingOk(applyQ, cur) /\ ApplyingOk(applyBack, cur)
      /\ AcksOk(leader, acked, after, appendQ, T, V) /\ FlightOk(cur, u, ms, appendQ, T)
  BY GhostFacts
<1>2. PICK n : n = NextCommitted
  OBVIOUS
<1>3. /\ appendQ' = (IF NeedAppend THEN Append(appendQ, ReadyMsg) ELSE appendQ)
      /\ applyQ' = (IF n > 0 THEN Append(applyQ, [to |-> cur.applying + n, size |-> n]) ELSE applyQ)
      /\ after' = {}
      /\ u' = [u EXCEPT !.inProgress = IF u.entries # <<>> THEN LastIndex + 1 ELSE @,
                        !.snapBusy = (u.snap # None)]
      /\ cur' = IF n = 0 THEN cur
                ELSE [cur EXCEPT !.applying = cur.applying + n, !.size = @ + n,
                                 !.paused = cur.size + n >= ApplyLimit
                                              \/ cur.applying + n < MaxAppliable]
      /\ panicked' = (n > 0 /\ cur.applying + 1 < FirstIndex)
      /\ UNCHANGED <<leader, term, ms, appendBack, applyBack, acked, crashes>>
  BY <1>2 DEF Ready, ReadyMsg
<1>4. /\ n \in Nat /\ HandsOut(cur, cur', u) /\ cur'.applying = cur.applying + n
      /\ (n > 0 => ~(cur.applying + 1 < FirstIndex))
  BY <1>2, <1>3, ReadyHandsOut
<1>5. AllSent(u, u', V)
  BY <1>3, ReadyUnstable
<1>6. ms \in Stores /\ appendQ \in Seq(Appends) /\ Len(T) = Len(appendQ) + 1
  BY <1>1, StoreType DEF QueueOk
<1>7. CursorOk(leader, cur', u, ms, appendQ, T, V)
  BY <1>1, <1>4, <1>6, ReadyCursor
<1>8. cur' \in CursorSet /\ cur.applying <= cur'.applying
  BY <1>4 DEF HandsOut
<1>9. ApplyingOk(applyQ', cur') /\ ApplyingOk(applyBack', cur')
  <2>1. ApplyingOk(applyQ, cur') /\ ApplyingOk(applyBack, cur')
    BY <1>1, <1>8, ReadyApplying
  <2>2. CASE ~(n > 0)
    BY <1>3, <2>1, <2>2
  <2>3. CASE n > 0
    <3>1. PICK x : x = [to |-> cur.applying + n, size |-> n]
      OBVIOUS
    <3>2. cur.applying + n \in Nat /\ n \in Nat /\ cur'.applying \in Nat
      BY <1>1, <1>4, <1>8 DEF CursorSet
    <3>3. x \in Applies /\ x.to = cur'.applying
      BY <1>4, <3>1, <3>2 DEF Applies
    <3>4. applyQ \in Seq(Applies) /\ \A j \in DOMAIN applyQ : applyQ[j].to <= cur'.applying
      BY <2>1 DEF ApplyingOk
    <3>5. applyQ' = Append(applyQ, x)
      BY <1>3, <2>3, <3>1
    <3>6. applyQ' \in Seq(Applies) /\ \A j \in DOMAIN applyQ' : applyQ'[j].to <= cur'.applying
      <4>1. /\ applyQ' \in Seq(Applies) /\ Len(applyQ') = Len(applyQ) + 1 /\ Len(applyQ) \in Nat
            /\ \A j \in DOMAIN applyQ : applyQ'[j] = applyQ[j]
            /\ applyQ'[Len(applyQ) + 1] = x
        BY <3>3, <3>4, <3>5, AppendIs
      <4>2. DOMAIN applyQ = 1 .. Len(applyQ) /\ DOMAIN applyQ' = 1 .. Len(applyQ) + 1
        BY <3>4, <4>1, SeqType
      <4>3. ASSUME NEW j \in DOMAIN applyQ'
            PROVE  applyQ'[j].to <= cur'.applying
        <5>1. CASE j = Len(applyQ) + 1
          BY <3>2, <3>3, <4>1, <5>1
        <5>2. CASE j # Len(applyQ) + 1
          <6>1. j \in DOMAIN applyQ
            BY <4>1, <4>2, <5>2
          <6> QED
            BY <3>4, <4>1, <6>1
        <5> QED
          BY <5>1, <5>2
      <4> QED
        BY <4>1, <4>3
    <3> QED
      BY <1>3, <2>1, <3>6 DEF ApplyingOk
  <2> QED
    BY <2>2, <2>3
<1>10. ~panicked'
  <2>1. ~(n > 0 /\ cur.applying + 1 < FirstIndex)
    BY <1>4
  <2> QED
    BY <1>3, <2>1
<1>11. u'.offset = u.offset /\ u'.snap = u.snap
  BY <1>5 DEF AllSent
<1>11a. /\ u.offset \in Nat /\ u.inProgress \in Nat /\ u.offset <= u.inProgress
       /\ 1 \in DOMAIN T /\ T[1].commit \in Nat /\ cur'.applying < u.offset
  <2>1. u.offset <= u.inProgress
    BY <1>1 DEF EntriesOk
  <2>2. 1 \in DOMAIN T /\ StageOk(leader, T[1])
    BY <1>1, ConstStages
  <2> QED
    BY <1>1, <1>4, <2>1, <2>2, UnstableType, StageType DEF HandsOut
<1>11b. FlightOk(cur', u, ms, appendQ, T)
  BY <1>1, <1>4, <1>6, <1>11a, FlightHandsOut
<1>12. CASE NeedAppend
  <2>1. PICK x : x = ReadyMsg
    OBVIOUS
  <2>2. /\ MsgOk(leader, x, T[Len(T)], V) /\ x \in Appends /\ x.answers = after
        /\ x.snap = NextSnapshot /\ x.first = u.inProgress
    BY <2>1, ReadyMsgOk
  <2>3. PICK T2 : T2 = Append(T, V)
    OBVIOUS
  <2>4. T \in Seq(Stages(leader)) /\ V \in Stages(leader)
    BY <1>1 DEF StagesOk, StageOk
  <2>5. appendQ' = Append(appendQ, x)
    BY <1>3, <1>12, <2>1
  <2>6. /\ T2 \in Seq(Stages(leader)) /\ Len(T2) = Len(T) + 1 /\ Len(T) \in Nat
        /\ \A j \in DOMAIN T : T2[j] = T[j]
        /\ T2[Len(T) + 1] = V
    BY <2>3, <2>4, AppendIs
  <2>7. /\ appendQ' \in Seq(Appends) /\ Len(appendQ') = Len(appendQ) + 1
        /\ \A j \in DOMAIN appendQ : appendQ'[j] = appendQ[j]
        /\ appendQ'[Len(appendQ) + 1] = x
    BY <1>6, <2>2, <2>5, AppendIs
  <2>8. Sends(appendQ, appendQ', x, T, T2, V)
    BY <2>6, <2>7 DEF Sends
  <2>9. DOMAIN T = 1 .. Len(T) /\ 1 \in DOMAIN T /\ T2[1] = T[1]
    BY <1>1, <2>6, ConstStages
  <2>10. StagesOk(leader, B, T2, V)
    BY <1>1, <2>6, <2>8, SendStages
  <2>11. QueueOk(leader, appendQ', T2)
    BY <1>1, <2>2, <2>6, <2>7, <2>8, <2>9, SendQueue
  <2>12. AcksOk(leader, acked, {}, appendQ', T2, V)
    BY <1>1, <1>6, <2>2, <2>7, <2>8, <2>9, SendAcks
  <2>13. u.snap # None /\ ~u.snapBusy => x.snap = u.snap
    BY <2>2 DEF NextSnapshot
  <2>14. UnstableOk(leader, u', appendQ', appendBack, B, T2, V)
    BY <1>1, <1>5, <1>6, <2>6, <2>7, <2>8, <2>13, SendUnstable
  <2>15. x.snap.index <= u.snap.index /\ u.snap \in Ids
    <3>1. u.snap \in Ids /\ u.snap.index \in Nat
      BY <1>1, UnstableType
    <3>2. NextSnapshot = None \/ NextSnapshot = u.snap
      BY DEF NextSnapshot
    <3> QED
      BY <2>2, <3>1, <3>2 DEF None
  <2>16. V.commit \in Nat /\ V.last \in Nat /\ V.commit <= V.last
    BY <1>1, StageType
  <2>17. CursorOk(leader, cur', u', ms, appendQ', T2, V)
    BY <1>6, <1>7, <1>11, <2>2, <2>6, <2>7, <2>8, <2>9, <2>15, <2>16, SendCursor
  <2>18. FlightOk(cur', u', ms, appendQ', T2)
    <3>1. u'.snapBusy = (u.snap # None)
      BY <1>5 DEF AllSent
    <3>2. x.snap = IF u.snapBusy THEN None ELSE u.snap
      BY <2>2 DEF NextSnapshot
    <3> QED
      BY <1>6, <1>8, <1>11, <1>11a, <1>11b, <2>2, <2>7, <2>8, <3>1, <3>2, FlightSend
  <2> QED
    BY <1>1, <1>3, <1>9, <1>10, <2>9, <2>10, <2>11, <2>12, <2>14, <2>17, <2>18, LogInvNext
<1>13. CASE ~NeedAppend
  <2>1. appendQ' = appendQ /\ after = {} /\ NextEntries = <<>> /\ NextSnapshot = None
    BY <1>3, <1>13 DEF NeedAppend
  <2>2. V.last \in Nat /\ u.inProgress = V.last + 1
    <3>1. V.last \in Nat
      BY <1>1, StageType
    <3> QED
      BY <1>1, <2>1, <3>1, NextEntriesIs
  <2>3. u.snap # None => u.snapBusy
    BY <2>1 DEF NextSnapshot
  <2>4. /\ u' \in Unstables /\ u'.offset = u.offset /\ u'.entries = u.entries /\ u'.snap = u.snap
        /\ u'.inProgress = u.inProgress /\ u'.snapBusy = (u.snap # None)
    BY <1>5, <2>2 DEF AllSent
  <2>5. EntriesOk(leader, u', V)
    BY <1>1, <2>4 DEF EntriesOk
  <2>6. /\ u.inProgress > T[Len(T)].commit /\ InProgressOk(leader, u, T[Len(T)], V)
        /\ u.snap = None => StableOk(leader, u, T, V)
        /\ u.snap # None => SnapOk(leader, u, appendQ, appendBack, B, T, V)
    BY <1>1, <2>3 DEF UnstableOk
  <2>7. InProgressOk(leader, u', T[Len(T)], V)
    BY <2>4, <2>6 DEF InProgressOk
  <2>8. u'.snap = None => StableOk(leader, u', T, V)
    BY <2>4, <2>6 DEF StableOk
  <2>9. u'.snap # None => SnapOk(leader, u', appendQ, appendBack, B, T, V)
    BY <2>3, <2>4, <2>6 DEF SnapOk
  <2>10. UnstableOk(leader, u', appendQ, appendBack, B, T, V)
    BY <2>4, <2>5, <2>6, <2>7, <2>8, <2>9 DEF UnstableOk
  <2>11. CursorOk(leader, cur', u', ms, appendQ, T, V)
    BY <1>7, <1>11 DEF CursorOk
  <2>12. FlightOk(cur', u', ms, appendQ, T)
    BY <1>11b, <2>3, <2>4 DEF FlightOk
  <2> QED
    BY <1>1, <1>3, <1>9, <1>10, <2>1, <2>10, <2>11, <2>12, LogInvNext
<1> QED
  BY <1>12, <1>13

-----------------------------------------------------------------------------
(* The append thread. *)

\* The storage s, with the snapshot of m in it, is b up to m's entries.
Holds(L, s, m, b) ==
  /\ s \in Stores /\ s.base <= b.last
  /\ m.ents = <<>> => /\ Len(s.ents) = b.last - s.base + 1
                      /\ \A j \in 1 .. Len(s.ents) : s.ents[j] = EntryOf(L, b, s.base + j - 1)
  /\ m.ents # <<>> => /\ s.base < m.first /\ m.first <= s.base + Len(s.ents)
                      /\ \A j \in 1 .. m.first - s.base : s.ents[j] = EntryOf(L, b, s.base + j - 1)

\* Two stages that agree have the same entries.
LEMMA SameEntryOf ==
  ASSUME NEW L, NEW a, NEW b, NEW k \in Nat, SameTo(L, a, b, k), NEW i \in Nat, i <= k
  PROVE  EntryOf(L, a, i) = EntryOf(L, b, i)
BY DEF SameTo, EntryOf

\* ApplySnapshot leaves the storage ready for the message's entries,
LEMMA SnapshotWritten ==
  ASSUME NEW L, ClusterOk(L), NEW a, StageOk(L, a), NEW b, StageOk(L, b), a.commit <= b.commit,
         NEW st, StoreOk(L, st, a), NEW m, MsgOk(L, m, a, b), st.base <= b.last,
         m.ents # <<>> => st.base < m.first, m.snap # None => st.base < m.snap.index
  PROVE  /\ Holds(L, ApplySnapshot(st, m.snap), m, b)
         /\ ApplySnapshot(st, m.snap).base \in {st.base, m.snap.index}
<1>1. /\ a.commit \in Nat /\ b.commit \in Nat /\ a.last \in Nat /\ b.last \in Nat
      /\ b.commit <= b.last /\ a.commit <= a.last
  BY StageType
<1>2. /\ st \in Stores /\ st.base \in Nat /\ st.ents \in Seq(Nat) /\ Len(st.ents) \in Nat
  BY StoreType
<1>3. /\ st.base <= a.last /\ Len(st.ents) = a.last - st.base + 1
      /\ \A j \in 1 .. Len(st.ents) : st.ents[j] = EntryOf(L, a, st.base + j - 1)
  BY DEF StoreOk
<1>4. m \in Appends /\ WritesOk(L, m, a, b)
  BY DEF MsgOk
<1>5. m.first \in Nat /\ m.snap \in Ids /\ m.snap.index \in Nat /\ m.snap.term \in Nat
  BY <1>4 DEF Appends, Ids
<1>6. CASE m.snap = None
  <2>1. ApplySnapshot(st, m.snap) = st
    <3>1. st.base >= m.snap.index
      BY <1>2, <1>6 DEF None
    <3> QED
      BY <3>1 DEF ApplySnapshot
  <2>2. /\ m.ents = <<>> => b.last = a.last /\ SameTo(L, a, b, a.last)
        /\ m.ents # <<>> => m.first > a.commit /\ SameTo(L, a, b, m.first - 1)
    BY <1>4, <1>6 DEF WritesOk
  <2>3. st.base <= b.last
    OBVIOUS
  <2>4. ASSUME m.ents = <<>>
        PROVE  /\ Len(st.ents) = b.last - st.base + 1
               /\ \A j \in 1 .. Len(st.ents) : st.ents[j] = EntryOf(L, b, st.base + j - 1)
    <3>1. b.last = a.last /\ SameTo(L, a, b, a.last)
      BY <2>2, <2>4
    <3>2. ASSUME NEW j \in 1 .. Len(st.ents)
          PROVE  st.ents[j] = EntryOf(L, b, st.base + j - 1)
      <4>1. PICK i : i = st.base + j - 1
        OBVIOUS
      <4>2. i \in Nat /\ i <= a.last
        BY <1>1, <1>2, <1>3, <4>1
      <4>3. EntryOf(L, a, i) = EntryOf(L, b, i)
        BY <1>1, <3>1, <4>2, SameEntryOf
      <4> QED
        BY <1>3, <4>1, <4>3
    <3> QED
      BY <1>3, <3>1, <3>2
  <2>5. ASSUME m.ents # <<>>
        PROVE  /\ st.base < m.first /\ m.first <= st.base + Len(st.ents)
               /\ \A j \in 1 .. m.first - st.base : st.ents[j] = EntryOf(L, b, st.base + j - 1)
    <3>1. m.first > a.commit /\ SameTo(L, a, b, m.first - 1)
      BY <2>2, <2>5
    <3>2. m.first - 1 <= a.last
      BY <3>1 DEF SameTo
    <3>3. st.base < m.first /\ m.first <= st.base + Len(st.ents) /\ m.first - 1 \in Nat
      <4>1. PICK p, f, n, l : p = st.base /\ f = m.first /\ n = Len(st.ents) /\ l = a.last
        OBVIOUS
      <4>2. /\ p \in Nat /\ f \in Nat /\ n \in Nat /\ l \in Nat
            /\ n = l - p + 1 /\ p < f /\ f - 1 <= l
        BY <1>1, <1>2, <1>3, <1>5, <2>5, <3>2, <4>1
      <4>3. p < f /\ f <= p + n /\ f - 1 \in Nat
        BY <4>2
      <4> QED
        BY <4>1, <4>3
    <3>4. ASSUME NEW j \in 1 .. m.first - st.base
          PROVE  st.ents[j] = EntryOf(L, b, st.base + j - 1)
      <4>1. PICK i : i = st.base + j - 1
        OBVIOUS
      <4>2. i \in Nat /\ i <= m.first - 1 /\ j \in 1 .. Len(st.ents)
        <5>1. PICK p, f, n : p = st.base /\ f = m.first /\ n = Len(st.ents)
          OBVIOUS
        <5>2. /\ p \in Nat /\ f \in Nat /\ n \in Nat /\ f <= p + n
              /\ j \in 1 .. f - p /\ i = p + j - 1
          BY <1>2, <1>3, <1>5, <2>5, <3>3, <4>1, <5>1
        <5>3. i \in Nat /\ i <= f - 1 /\ j \in 1 .. n
          BY <5>2
        <5> QED
          BY <5>1, <5>3
      <4>3. EntryOf(L, a, i) = EntryOf(L, b, i)
        BY <3>1, <3>3, <4>2, SameEntryOf
      <4> QED
        BY <1>3, <4>1, <4>2, <4>3
    <3> QED
      BY <3>3, <3>4
  <2> QED
    BY <1>2, <2>1, <2>3, <2>4, <2>5 DEF Holds
<1>7. CASE m.snap # None
  <2>1. /\ a.commit < m.snap.index /\ m.snap.index <= b.commit
        /\ L[b.lt][m.snap.index] = m.snap.term
        /\ m.ents = <<>> => b.last = m.snap.index
        /\ m.ents # <<>> => m.first = m.snap.index + 1
    BY <1>4, <1>7 DEF WritesOk
  <2>2. ~(st.base >= m.snap.index) /\ m.snap.index > 0
    BY <1>1, <1>2, <1>5, <1>7, <2>1
  <2>3. PICK s : s = ApplySnapshot(st, m.snap)
    OBVIOUS
  <2>4. s = [st EXCEPT !.base = m.snap.index, !.ents = <<m.snap.term>>]
    BY <2>2, <2>3 DEF ApplySnapshot
  <2>5. PICK e : e = <<m.snap.term>> /\ e \in Seq(Nat) /\ Len(e) = 1 /\ e[1] = m.snap.term
    <3>1. ASSUME NEW x \in Nat
          PROVE  <<x>> \in Seq(Nat) /\ Len(<<x>>) = 1 /\ <<x>>[1] = x
      OBVIOUS
    <3> QED
      BY <1>5, <3>1
  <2>6. s \in Stores /\ s.base = m.snap.index /\ s.ents = e
    BY <1>2, <1>5, <2>4, <2>5 DEF Stores
  <2>7. EntryOf(L, b, m.snap.index) = m.snap.term
    BY <1>5, <2>1, <2>2 DEF EntryOf
  <2>8. ASSUME NEW j \in 1 .. 1
        PROVE  s.ents[j] = EntryOf(L, b, s.base + j - 1)
    <3>1. j = 1 /\ s.base + j - 1 = m.snap.index
      BY <1>5, <2>6
    <3> QED
      BY <2>5, <2>6, <2>7, <3>1
  <2>9. m.ents = <<>> => Len(s.ents) = b.last - s.base + 1
    BY <1>1, <1>5, <2>1, <2>5, <2>6
  <2>10. m.ents # <<>> => /\ s.base < m.first /\ m.first <= s.base + Len(s.ents)
                          /\ m.first - s.base = 1
    BY <1>5, <2>1, <2>5, <2>6
  <2>11. Len(s.ents) = 1
    BY <2>5, <2>6
  <2>12. s.base <= b.last
    BY <1>1, <1>5, <2>1, <2>6
  <2>13. Holds(L, s, m, b)
    BY <2>6, <2>8, <2>9, <2>10, <2>11, <2>12 DEF Holds
  <2> QED
    BY <2>3, <2>6, <2>13
<1> QED
  BY <1>6, <1>7

\* The storage with the rest of m in it.
Written(s, m) ==
  [IF m.ents = <<>> THEN s ELSE StoreAppend(s, m.first, m.ents) EXCEPT !.hs = m.hs]

\* and Append then makes it hold the message's stage, with no gap.
LEMMA EntriesWritten ==
  ASSUME NEW L, ClusterOk(L), NEW a, NEW b, StageOk(L, b), NEW m, MsgOk(L, m, a, b),
         NEW s, Holds(L, s, m, b),
         NEW st, st = Written(s, m)
  PROVE  StoreOk(L, st, b) /\ st.base = s.base /\ (m.ents # <<>> => ~StoreGap(s, m.first))
<1>1. b.commit \in Nat /\ b.last \in Nat /\ b.commit <= b.last
  BY StageType
<1>2. s \in Stores /\ s.base \in Nat /\ s.ents \in Seq(Nat) /\ Len(s.ents) \in Nat /\ s.base <= b.last
  BY DEF Holds, Stores
<1>3. m \in Appends /\ m.hs = [term |-> b.term, commit |-> b.commit] /\ WritesOk(L, m, a, b)
  BY DEF MsgOk
<1>4. m.first \in Nat /\ m.ents \in Seq(Nat) /\ m.hs \in Hards /\ Len(m.ents) \in Nat
  BY <1>3 DEF Appends
<1>5. CASE m.ents = <<>>
  <2>1. st = [s EXCEPT !.hs = m.hs]
    BY <1>5 DEF Written
  <2>2. st \in Stores /\ st.base = s.base /\ st.ents = s.ents /\ st.hs = m.hs
    BY <1>2, <1>4, <2>1 DEF Stores
  <2>3. /\ Len(s.ents) = b.last - s.base + 1
        /\ \A j \in 1 .. Len(s.ents) : s.ents[j] = EntryOf(L, b, s.base + j - 1)
    BY <1>5 DEF Holds
  <2> QED
    BY <1>2, <1>3, <1>5, <2>2, <2>3 DEF StoreOk
<1>6. CASE m.ents # <<>>
  <2>1. /\ s.base < m.first /\ m.first <= s.base + Len(s.ents)
        /\ \A j \in 1 .. m.first - s.base : s.ents[j] = EntryOf(L, b, s.base + j - 1)
    BY <1>6 DEF Holds
  <2>2. /\ m.first > 0 /\ m.first + Len(m.ents) = b.last + 1
        /\ \A j \in 1 .. Len(m.ents) : m.ents[j] = L[b.lt][m.first + j - 1]
    BY <1>3, <1>6 DEF WritesOk, EntsOk
  <2>3. PICK k : k = m.first - s.base
    OBVIOUS
  <2>4. k \in Nat \ {0} /\ k <= Len(s.ents) /\ Len(m.ents) > 0
    <3>1. Len(m.ents) > 0
      BY <1>4, <1>6
    <3> QED
      BY <1>2, <1>4, <2>1, <2>3, <3>1
  <2>5. PICK g : g = SubSeq(s.ents, 1, k)
    OBVIOUS
  <2>6. g \in Seq(Nat) /\ Len(g) = k /\ \A j \in 1 .. k : g[j] = s.ents[j]
    BY <1>2, <2>4, <2>5, HeadOf
  <2>7. PICK h : h = g \o m.ents
    OBVIOUS
  <2>8. /\ h \in Seq(Nat) /\ Len(h) = k + Len(m.ents)
        /\ \A j \in 1 .. k : h[j] = g[j]
        /\ \A j \in 1 .. Len(m.ents) : h[k + j] = m.ents[j]
    BY <1>4, <2>6, <2>7, JoinOf
  <2>9. StoreAppend(s, m.first, m.ents) = [s EXCEPT !.ents = h]
    <3>1. ~(m.first <= s.base) /\ ~(m.first + Len(m.ents) - 1 <= s.base)
      BY <1>2, <1>4, <2>1, <2>4
    <3>2. MaxOf(m.first, s.base + 1) - s.base = k
      BY <1>2, <1>4, <2>1, <2>3 DEF MaxOf
    <3> QED
      BY <2>5, <2>7, <3>1, <3>2 DEF StoreAppend
  <2>10. st = [[s EXCEPT !.ents = h] EXCEPT !.hs = m.hs]
    BY <1>6, <2>9 DEF Written
  <2>11. st \in Stores /\ st.base = s.base /\ st.ents = h /\ st.hs = m.hs
    BY <1>2, <1>4, <2>8, <2>10 DEF Stores
  <2>12. Len(h) = b.last - s.base + 1
    <3>1. PICK p, f, n, l, c : p = s.base /\ f = m.first /\ n = Len(m.ents) /\ l = b.last /\ c = Len(h)
      OBVIOUS
    <3>2. /\ p \in Nat /\ f \in Nat /\ n \in Nat /\ l \in Nat
          /\ f + n = l + 1 /\ k = f - p /\ c = k + n
      BY <1>1, <1>2, <1>4, <2>2, <2>3, <2>8, <3>1
    <3>3. c = l - p + 1
      BY <3>2
    <3> QED
      BY <3>1, <3>3
  <2>13. ASSUME NEW j \in 1 .. Len(h)
         PROVE  h[j] = EntryOf(L, b, s.base + j - 1)
    <3>1. CASE j <= k
      <4>1. j \in 1 .. k
        BY <2>4, <2>8, <3>1
      <4> QED
        BY <2>1, <2>3, <2>6, <2>8, <4>1
    <3>2. CASE j > k
      <4>1. PICK i : i = j - k
        OBVIOUS
      <4>2. i \in 1 .. Len(m.ents) /\ j = k + i
        BY <1>4, <2>4, <2>8, <3>2, <4>1
      <4>3. m.first + i - 1 = s.base + j - 1 /\ s.base + j - 1 # 0
        <5>1. PICK p, f : p = s.base /\ f = m.first /\ p \in Nat /\ f \in Nat
          BY <1>2, <1>4
        <5>2. k = f - p /\ j = k + i /\ i \in Nat /\ i > 0 /\ k \in Nat /\ k > 0
          BY <1>4, <2>3, <2>4, <4>2, <5>1
        <5>3. j \in Nat /\ j > 1 /\ f = k + p
          BY <5>1, <5>2
        <5>4. f + i - 1 = p + j - 1
          BY <5>1, <5>2, <5>3
        <5>5. p + j - 1 # 0
          BY <5>1, <5>3
        <5> QED
          BY <5>1, <5>4, <5>5
      <4>4. h[j] = L[b.lt][m.first + i - 1]
        BY <2>2, <2>8, <4>2
      <4> QED
        BY <4>3, <4>4 DEF EntryOf
    <3> QED
      BY <2>4, <2>8, <3>1, <3>2
  <2>14. ~StoreGap(s, m.first)
    BY <1>2, <1>4, <2>1 DEF StoreGap
  <2> QED
    BY <1>2, <1>3, <2>11, <2>12, <2>13, <2>14 DEF StoreOk
<1> QED
  BY <1>5, <1>6

\* The first message leaves the queue: T[2] is now what the storage holds.
Stores1(q, q2, T, T2) ==
  /\ Len(q) > 0 /\ Len(T) = Len(q) + 1 /\ Len(q2) = Len(q) - 1 /\ Len(T2) = Len(T) - 1
  /\ \A j \in 1 .. Len(q2) : q2[j] = q[j + 1]
  /\ \A j \in 1 .. Len(T2) : T2[j] = T[j + 1]

\* Its response, if one was asked for, is on its way back.
Responds(m, b, b2, B, B2, x) ==
  /\ m.resp = <<>> => b2 = b /\ B2 = B
  /\ m.resp # <<>> => /\ Len(b2) = Len(b) + 1 /\ Len(B2) = Len(B) + 1
                      /\ \A j \in 1 .. Len(b) : b2[j] = b[j]
                      /\ \A j \in 1 .. Len(B) : B2[j] = B[j]
                      /\ b2[Len(b) + 1] = m.resp[1] /\ B2[Len(B) + 1] = x

\* A sequence without its first element.
LEMMA TailIs ==
  ASSUME NEW S, NEW g \in Seq(S), g # <<>>
  PROVE  /\ Tail(g) \in Seq(S) /\ Len(Tail(g)) = Len(g) - 1 /\ Len(g) \in Nat /\ Len(g) > 0
         /\ \A j \in 1 .. Len(Tail(g)) : Tail(g)[j] = g[j + 1]
         /\ Head(g) = g[1]
OBVIOUS

\* The stages after a message has been stored,
LEMMA StoreStages ==
  ASSUME NEW L, ClusterOk(L), NEW B, NEW T, NEW V, StagesOk(L, B, T, V),
         NEW q \in Seq(Appends), NEW q2, NEW T2 \in Seq(Stages(L)), Stores1(q, q2, T, T2),
         NEW b, NEW b2, NEW B2 \in Seq(Stages(L)), NEW m, Responds(m, b, b2, B, B2, T[2])
  PROVE  StagesOk(L, B2, T2, V)
<1>1. /\ StageOk(L, V) /\ Len(T) \in Nat /\ Len(B) \in Nat /\ 1 \in DOMAIN T
      /\ DOMAIN T = 1 .. Len(T) /\ DOMAIN B = 1 .. Len(B)
      /\ \A j \in DOMAIN B : StageOk(L, B[j]) /\ Later(L, B[j], T[1])
      /\ \A j \in DOMAIN T : StageOk(L, T[j]) /\ Later(L, T[j], V)
      /\ \A j \in DOMAIN T : \A k \in DOMAIN T : j <= k => Later(L, T[j], T[k])
  BY ConstStages
<1>2. Len(T) > 1 /\ Len(T2) = Len(T) - 1 /\ DOMAIN T2 = 1 .. Len(T) - 1
  BY <1>1, SeqType DEF Stores1
<1>3. ASSUME NEW j \in DOMAIN T2
      PROVE  T2[j] = T[j + 1] /\ j + 1 \in DOMAIN T /\ j \in Nat
  BY <1>1, <1>2 DEF Stores1
<1>4. 1 \in DOMAIN T2 /\ T2[1] = T[2] /\ 2 \in DOMAIN T
  <2>1. 1 \in DOMAIN T2 /\ 2 \in DOMAIN T
    BY <1>1, <1>2
  <2>2. T2[1] = T[1 + 1]
    BY <1>3, <2>1
  <2> QED
    BY <2>1, <2>2
<1>5. ASSUME NEW j \in DOMAIN T2
      PROVE  StageOk(L, T2[j]) /\ Later(L, T2[j], V)
  BY <1>1, <1>3
<1>6. ASSUME NEW j \in DOMAIN T2, NEW k \in j .. Len(T2)
      PROVE  Later(L, T2[j], T2[k])
  <2>1. k \in DOMAIN T2
    BY <1>1, <1>2
  <2>2. T2[j] = T[j + 1] /\ j + 1 \in DOMAIN T /\ T2[k] = T[k + 1] /\ k + 1 \in DOMAIN T /\ j + 1 <= k + 1
    BY <1>1, <1>3, <2>1
  <2> QED
    BY <1>1, <2>2
<1>7. Later(L, T[1], T[2]) /\ Later(L, T[2], T[2]) /\ StageOk(L, T[1]) /\ StageOk(L, T[2])
  BY <1>1, <1>4
<1>8. ASSUME NEW j \in DOMAIN B
      PROVE  StageOk(L, B[j]) /\ Later(L, B[j], T[2])
  <2>1. StageOk(L, B[j]) /\ Later(L, B[j], T[1])
    BY <1>1
  <2> QED
    BY <1>7, <2>1, LaterTrans
<1>9. ASSUME NEW j \in DOMAIN B2
      PROVE  StageOk(L, B2[j]) /\ Later(L, B2[j], T2[1])
  <2>1. CASE m.resp = <<>>
    BY <1>4, <1>8, <2>1 DEF Responds
  <2>2. CASE m.resp # <<>>
    <3>1. DOMAIN B2 = 1 .. Len(B) + 1
      BY <2>2, SeqType DEF Responds
    <3>2. CASE j = Len(B) + 1
      <4>1. B2[j] = T[2]
        BY <2>2, <3>2 DEF Responds
      <4> QED
        BY <1>4, <1>7, <4>1
    <3>3. CASE j # Len(B) + 1
      <4>1. j \in DOMAIN B /\ B2[j] = B[j]
        BY <1>1, <2>2, <3>1, <3>3 DEF Responds
      <4> QED
        BY <1>4, <1>8, <4>1
    <3> QED
      BY <3>2, <3>3
  <2> QED
    BY <2>1, <2>2
<1>10. T2 # <<>>
  BY <1>4
<1> QED
  BY <1>1, <1>5, <1>6, <1>9, <1>10 DEF StagesOk

\* the queue,
LEMMA StoreQueue ==
  ASSUME NEW L, NEW T, NEW q \in Seq(Appends), NEW q2 \in Seq(Appends), NEW T2,
         Stores1(q, q2, T, T2), QueueOk(L, q, T)
  PROVE  QueueOk(L, q2, T2)
<1>1. PICK n : n = Len(q) /\ n \in Nat /\ n > 0 /\ DOMAIN q = 1 .. n /\ Len(T) = n + 1
  BY SeqType DEF Stores1
<1>2. Len(q2) = n - 1 /\ DOMAIN q2 = 1 .. n - 1 /\ Len(T2) = n
  BY <1>1, SeqType DEF Stores1
<1>3. ASSUME NEW j \in DOMAIN q2
      PROVE  MsgOk(L, q2[j], T2[j], T2[j + 1])
  <2>1. j \in 1 .. Len(q2) /\ j \in 1 .. Len(T2) /\ j + 1 \in 1 .. Len(T2) /\ j + 1 \in DOMAIN q
    BY <1>1, <1>2
  <2>2. q2[j] = q[j + 1] /\ T2[j] = T[j + 1] /\ T2[j + 1] = T[(j + 1) + 1]
    BY <2>1 DEF Stores1
  <2>3. MsgOk(L, q[j + 1], T[j + 1], T[(j + 1) + 1])
    BY <2>1 DEF QueueOk
  <2> QED
    BY <2>2, <2>3
<1> QED
  BY <1>1, <1>2, <1>3 DEF QueueOk

\* and the responses.
LEMMA StoreBack ==
  ASSUME NEW L, NEW b, NEW B, BackOk(L, b, B), NEW m, NEW y, NEW x, MsgOk(L, m, y, x),
         NEW b2 \in Seq(Resps), NEW B2, Responds(m, b, b2, B, B2, x)
  PROVE  BackOk(L, b2, B2)
<1>1. PICK n : n = Len(b) /\ n \in Nat /\ DOMAIN b = 1 .. n /\ Len(B) = n
  BY SeqType DEF BackOk
<1>2. CASE m.resp = <<>>
  BY <1>2 DEF Responds
<1>3. CASE m.resp # <<>>
  <2>1. Len(b2) = n + 1 /\ Len(B2) = n + 1 /\ DOMAIN b2 = 1 .. n + 1
    BY <1>1, <1>3, SeqType DEF Responds
  <2>2. ASSUME NEW j \in DOMAIN b2
        PROVE  RespOk(L, b2[j], B2[j])
    <3>1. CASE j = n + 1
      <4>1. b2[j] = m.resp[1] /\ B2[j] = x
        BY <1>1, <1>3, <3>1 DEF Responds
      <4> QED
        BY <1>3, <4>1 DEF MsgOk
    <3>2. CASE j # n + 1
      <4>1. j \in 1 .. n
        BY <1>1, <2>1, <3>2
      <4>2. b2[j] = b[j] /\ B2[j] = B[j]
        BY <1>1, <1>3, <4>1 DEF Responds
      <4> QED
        BY <1>1, <4>1, <4>2 DEF BackOk
    <3> QED
      BY <3>1, <3>2
  <2> QED
    BY <2>1, <2>2 DEF BackOk
<1> QED
  BY <1>2, <1>3

\* A pending snapshot is still carried: by the response instead of the
\* message.
LEMMA StoreCarried ==
  ASSUME NEW L, ClusterOk(L), NEW B, NEW T, NEW V, StagesOk(L, B, T, V),
         NEW q \in Seq(Appends), NEW q2 \in Seq(Appends), NEW T2,
         Stores1(q, q2, T, T2), QueueOk(L, q, T), NEW b, BackOk(L, b, B),
         NEW b2 \in Seq(Resps), NEW B2 \in Seq(Stages(L)), Responds(q[1], b, b2, B, B2, T[2]),
         NEW s, s.index \in Nat, s.index > 0, Carried(s, q, b, B)
  PROVE  Carried(s, q2, b2, B2)
<1>1. /\ Len(T) \in Nat /\ Len(B) \in Nat
      /\ DOMAIN T = 1 .. Len(T) /\ DOMAIN B = 1 .. Len(B)
      /\ \A j \in DOMAIN T : StageOk(L, T[j])
      /\ \A j \in DOMAIN T : \A k \in DOMAIN T : j <= k => Later(L, T[j], T[k])
  BY ConstStages
<1>2. PICK n : n = Len(q) /\ n \in Nat /\ n > 0 /\ DOMAIN q = 1 .. n /\ Len(T) = n + 1
  BY SeqType DEF Stores1
<1>3. Len(q2) = n - 1 /\ DOMAIN q2 = 1 .. n - 1
  BY <1>2, SeqType DEF Stores1
<1>4. PICK l : l = Len(b) /\ l \in Nat /\ DOMAIN b = 1 .. l /\ Len(B) = l
  BY SeqType DEF BackOk
<1>5. /\ q[1].resp = <<>> => b2 = b /\ B2 = B
      /\ q[1].resp # <<>> => /\ Len(b2) = l + 1 /\ Len(B2) = l + 1
                             /\ b2[l + 1] = q[1].resp[1] /\ B2[l + 1] = T[2]
      /\ \A j \in 1 .. l : b2[j] = b[j] /\ B2[j] = B[j]
  BY <1>4 DEF Responds
<1>6. /\ q[1].resp = <<>> => DOMAIN b2 = 1 .. l
      /\ q[1].resp # <<>> => DOMAIN b2 = 1 .. l + 1 /\ DOMAIN B2 = 1 .. l + 1
  <2>1. DOMAIN b2 = 1 .. Len(b2) /\ DOMAIN B2 = 1 .. Len(B2)
    BY SeqType
  <2> QED
    BY <1>4, <1>5, <2>1
<1>7. \A j \in 1 .. l : j \in DOMAIN b2
  <2>1. 1 .. l \subseteq 1 .. l + 1
    BY <1>4
  <2> QED
    BY <1>6, <2>1
<1>8. CASE \E j \in DOMAIN b : b[j].snap.index = s.index /\ \A k \in 1 .. j - 1 : B[k].commit < s.index
  <2>1. PICK j \in DOMAIN b : b[j].snap.index = s.index /\ \A k \in 1 .. j - 1 : B[k].commit < s.index
    BY <1>8
  <2>2. j \in DOMAIN b2 /\ b2[j].snap.index = s.index
    BY <1>4, <1>5, <1>7, <2>1
  <2>3. ASSUME NEW k \in 1 .. j - 1
        PROVE  B2[k].commit < s.index
    <3>1. k \in 1 .. l
      BY <1>4, <2>1
    <3> QED
      BY <1>5, <2>1, <3>1
  <2> QED
    BY <2>2, <2>3 DEF Carried
<1>9. CASE /\ \E j \in DOMAIN q : q[j].snap.index = s.index
           /\ \A k \in DOMAIN B : B[k].commit < s.index
  <2>1. PICK j \in DOMAIN q : q[j].snap.index = s.index
    BY <1>9
  <2>2. MsgOk(L, q[j], T[j], T[j + 1]) /\ q[j].snap # None
    <3>1. q[j].snap # None
      BY <2>1 DEF None
    <3> QED
      BY <3>1 DEF QueueOk
  <2>3. \A k \in 1 .. l : B[k].commit < s.index
    BY <1>1, <1>4, <1>9
  <2>4. CASE j = 1
    <3>1. q[1].resp # <<>> /\ q[1].resp[1].snap = q[1].snap
      BY <2>2, <2>4 DEF MsgOk
    <3>2. l + 1 \in DOMAIN b2 /\ b2[l + 1].snap.index = s.index
      <4>1. l + 1 \in 1 .. l + 1
        BY <1>4
      <4>2. b2[l + 1] = q[1].resp[1]
        BY <1>5, <3>1
      <4> QED
        BY <1>6, <2>1, <2>4, <3>1, <4>1, <4>2
    <3>3. ASSUME NEW k \in 1 .. (l + 1) - 1
          PROVE  B2[k].commit < s.index
      <4>1. k \in 1 .. l
        BY <1>4
      <4> QED
        BY <1>5, <2>3, <4>1
    <3> QED
      BY <3>2, <3>3 DEF Carried
  <2>5. CASE j # 1
    <3>1. j - 1 \in 1 .. Len(q2) /\ (j - 1) + 1 = j /\ 2 <= j /\ 2 \in DOMAIN T /\ j \in DOMAIN T
      BY <1>1, <1>2, <1>3, <2>5
    <3>2. q2[j - 1] = q[j]
      BY <3>1 DEF Stores1
    <3>3. j - 1 \in DOMAIN q2 /\ q2[j - 1].snap.index = s.index
      BY <1>3, <2>1, <3>1, <3>2
    <3>4. T[j].commit < s.index
      BY <2>1, <2>2 DEF MsgOk, WritesOk
    <3>5. Later(L, T[2], T[j])
      BY <1>1, <3>1
    <3>6. T[2].commit \in Nat /\ T[j].commit \in Nat /\ T[2].commit <= T[j].commit
      BY <1>1, <3>1, <3>5, StageType DEF Later
    <3>7. T[2].commit < s.index
      BY <3>4, <3>6
    <3>8. ASSUME NEW k \in DOMAIN B2
          PROVE  B2[k].commit < s.index
      <4>1. CASE k \in 1 .. l
        BY <1>5, <2>3, <4>1
      <4>2. CASE ~(k \in 1 .. l)
        <5>1. q[1].resp # <<>>
          BY <1>1, <1>4, <1>5, <4>2
        <5>2. k \in 1 .. l + 1
          BY <1>6, <5>1
        <5>3. k = l + 1
          BY <1>4, <4>2, <5>2
        <5> QED
          BY <1>5, <3>7, <5>1, <5>3
      <4> QED
        BY <4>1, <4>2
    <3> QED
      BY <3>3, <3>8 DEF Carried
  <2> QED
    BY <2>4, <2>5
<1> QED
  BY <1>8, <1>9 DEF Carried

\* The unstable log needs nothing that the storing took away.
LEMMA StoreUnstable ==
  ASSUME NEW L, ClusterOk(L), NEW B, NEW T, NEW V, StagesOk(L, B, T, V),
         NEW q \in Seq(Appends), NEW q2 \in Seq(Appends), NEW T2 \in Seq(Stages(L)),
         Stores1(q, q2, T, T2), QueueOk(L, q, T), NEW b, BackOk(L, b, B),
         NEW b2 \in Seq(Resps), NEW B2 \in Seq(Stages(L)), Responds(q[1], b, b2, B, B2, T[2]),
         NEW un, UnstableOk(L, un, q, b, B, T, V)
  PROVE  UnstableOk(L, un, q2, b2, B2, T2, V)
<1>1. Len(T) \in Nat /\ Len(B) \in Nat /\ DOMAIN T = 1 .. Len(T) /\ DOMAIN B = 1 .. Len(B)
  BY ConstStages
<1>2. Len(T) > 1 /\ Len(T2) = Len(T) - 1 /\ DOMAIN T2 = 1 .. Len(T) - 1
  BY <1>1, SeqType DEF Stores1
<1>3. ASSUME NEW j \in DOMAIN T2
      PROVE  T2[j] = T[j + 1] /\ j + 1 \in DOMAIN T
  BY <1>1, <1>2 DEF Stores1
<1>4. T2[Len(T2)] = T[Len(T)] /\ 2 \in DOMAIN T
  <2>1. Len(T2) \in DOMAIN T2 /\ Len(T2) + 1 = Len(T) /\ 2 \in DOMAIN T
    BY <1>1, <1>2
  <2> QED
    BY <1>3, <2>1
<1>5. /\ EntriesOk(L, un, V) /\ un.inProgress > T[Len(T)].commit
      /\ un.snap = None \/ un.snapBusy => InProgressOk(L, un, T[Len(T)], V)
      /\ un.snap = None => StableOk(L, un, T, V)
      /\ un.snap # None => SnapOk(L, un, q, b, B, T, V)
  BY DEF UnstableOk
<1>6. un.snap = None => StableOk(L, un, T2, V)
  BY <1>3, <1>5 DEF StableOk
<1>7. ASSUME un.snap # None
      PROVE  SnapOk(L, un, q2, b2, B2, T2, V)
  <2>1. /\ un.offset = un.snap.index + 1 /\ 0 < un.snap.index /\ un.snap.index <= V.commit
        /\ L[V.lt][un.snap.index] = un.snap.term
        /\ \A j \in DOMAIN B : LacksSnap(L, un.snap, B[j], V)
        /\ \A j \in DOMAIN T : LacksSnap(L, un.snap, T[j], V)
        /\ \A j \in DOMAIN T : un.entries = <<>> /\ T[j].commit >= un.snap.index => T[j].last = V.last
        /\ un.snapBusy  => Carried(un.snap, q, b, B)
        /\ ~un.snapBusy => T[Len(T)].commit < un.snap.index /\ un.inProgress = un.offset
    BY <1>5, <1>7 DEF SnapOk
  <2>2. un.snap.index \in Nat
    BY <1>5, UnstableType
  <2>3. un.snapBusy => Carried(un.snap, q2, b2, B2)
    BY <2>1, <2>2, StoreCarried
  <2>4. ASSUME NEW j \in DOMAIN B2
        PROVE  LacksSnap(L, un.snap, B2[j], V)
    <3>1. CASE q[1].resp = <<>>
      BY <2>1, <3>1 DEF Responds
    <3>2. CASE q[1].resp # <<>>
      <4>1. DOMAIN B2 = 1 .. Len(B) + 1
        BY <3>2, SeqType DEF Responds
      <4>2. CASE j = Len(B) + 1
        <5>1. B2[j] = T[2]
          BY <3>2, <4>2 DEF Responds
        <5> QED
          BY <1>4, <2>1, <5>1
      <4>3. CASE j # Len(B) + 1
        <5>1. j \in DOMAIN B /\ B2[j] = B[j]
          BY <1>1, <3>2, <4>1, <4>3 DEF Responds
        <5> QED
          BY <2>1, <5>1
      <4> QED
        BY <4>2, <4>3
    <3> QED
      BY <3>1, <3>2
  <2>5. ASSUME NEW j \in DOMAIN T2
        PROVE  /\ LacksSnap(L, un.snap, T2[j], V)
               /\ un.entries = <<>> /\ T2[j].commit >= un.snap.index => T2[j].last = V.last
    BY <1>3, <2>1
  <2> QED
    BY <1>4, <2>1, <2>3, <2>4, <2>5 DEF SnapOk
<1> QED
  BY <1>4, <1>5, <1>6, <1>7 DEF UnstableOk

\* The storage's base moves only with a snapshot that the cursors know of.
LEMMA StoreCursor ==
  ASSUME NEW L, NEW T, NEW V, DOMAIN T = 1 .. Len(T),
         NEW q \in Seq(Appends), NEW q2 \in Seq(Appends), NEW T2 \in Seq(Stages(L)),
         Stores1(q, q2, T, T2), NEW un, NEW m, NEW m2, m2.base \in {m.base, q[1].snap.index},
         NEW c, CursorOk(L, c, un, m, q, T, V)
  PROVE  CursorOk(L, c, un, m2, q2, T2, V)
<1>1. /\ c \in CursorSet /\ c.committed = V.commit
      /\ c.applied <= c.applying /\ c.applying <= c.committed /\ c.applying < un.offset
      /\ \A j \in DOMAIN T : SameTo(L, T[j], V, c.applying)
      /\ m.base <= MaxOf(c.applying, un.snap.index)
      /\ \A j \in DOMAIN q : q[j].snap.index <= MaxOf(c.applying, un.snap.index)
  BY DEF CursorOk
<1>2. PICK n : n = Len(q) /\ n \in Nat /\ n > 0 /\ DOMAIN q = 1 .. n /\ Len(T) = n + 1
  BY SeqType DEF Stores1
<1>3. DOMAIN q2 = 1 .. n - 1 /\ DOMAIN T2 = 1 .. n /\ Len(q2) = n - 1 /\ Len(T2) = n
  BY <1>2, SeqType DEF Stores1
<1>4. ASSUME NEW j \in DOMAIN T2
      PROVE  SameTo(L, T2[j], V, c.applying)
  <2>1. T2[j] = T[j + 1] /\ j + 1 \in DOMAIN T
    BY <1>2, <1>3 DEF Stores1
  <2> QED
    BY <1>1, <2>1
<1>5. ASSUME NEW j \in DOMAIN q2
      PROVE  q2[j].snap.index <= MaxOf(c.applying, un.snap.index)
  <2>1. q2[j] = q[j + 1] /\ j + 1 \in DOMAIN q
    BY <1>2, <1>3 DEF Stores1
  <2> QED
    BY <1>1, <2>1
<1>6. 1 \in DOMAIN q
  BY <1>2
<1>7. m2.base <= MaxOf(c.applying, un.snap.index)
  BY <1>1, <1>6
<1> QED
  BY <1>1, <1>4, <1>5, <1>7 DEF CursorOk

\* A message writes beyond what the stage before it commits.
LEMMA WritesBeyond ==
  ASSUME NEW L, NEW a, NEW b, a.commit \in Nat, NEW m, MsgOk(L, m, a, b)
  PROVE  /\ m.first \in Nat /\ m.snap \in Ids /\ m.snap.index \in Nat
         /\ m.ents # <<>> => m.first > a.commit
         /\ m.snap # None => m.snap.index > a.commit /\ m.snap.index <= b.commit
<1>1. m \in Appends /\ WritesOk(L, m, a, b)
  BY DEF MsgOk
<1>2. m.first \in Nat /\ m.snap \in Ids /\ m.snap.index \in Nat
  BY <1>1 DEF Appends, Ids
<1>3. CASE m.snap = None
  BY <1>1, <1>2, <1>3 DEF WritesOk
<1>4. CASE m.snap # None
  <2>1. a.commit < m.snap.index /\ m.snap.index <= b.commit
    BY <1>1, <1>4 DEF WritesOk
  <2>2. m.ents # <<>> => m.first = m.snap.index + 1
    BY <1>1, <1>4 DEF WritesOk
  <2> QED
    BY <1>2, <2>1, <2>2
<1> QED
  BY <1>3, <1>4

\* What is in flight once the first message is stored.
LEMMA FlightStore ==
  ASSUME NEW L, NEW T, DOMAIN T = 1 .. Len(T), T[1].commit \in Nat, T[2].commit \in Nat,
         T[1].commit <= T[2].commit,
         NEW q \in Seq(Appends), NEW q2 \in Seq(Appends), NEW T2 \in Seq(Stages(L)),
         Stores1(q, q2, T, T2), NEW un, NEW m, m.base \in Nat, NEW m2,
         m2.base \in {m.base, q[1].snap.index}, MsgOk(L, q[1], T[1], T[2]),
         NEW c \in CursorSet, FlightOk(c, un, m, q, T)
  PROVE  FlightOk(c, un, m2, q2, T2)
<1>1. PICK n : n = Len(q) /\ n \in Nat /\ n > 0 /\ DOMAIN q = 1 .. n /\ Len(T) = n + 1
  BY SeqType DEF Stores1
<1>2. DOMAIN q2 = 1 .. n - 1 /\ T2[1] = T[1 + 1]
  BY <1>1, SeqType DEF Stores1
<1>3. \A j \in DOMAIN q2 : q2[j] = q[j + 1] /\ j + 1 \in DOMAIN q
  BY <1>1, <1>2 DEF Stores1
<1>4. c.applying \in Nat
  BY DEF CursorSet
<1>5. m2.base <= c.applying \/ m2.base <= T2[1].commit
  <2>1. CASE m2.base = m.base
    BY <1>2, <1>4, <2>1 DEF FlightOk
  <2>2. CASE m2.base = q[1].snap.index
    <3>1. q[1].snap = None => m2.base = 0
      BY <2>2 DEF None
    <3>2. q[1].snap # None => m2.base <= T[2].commit
      BY <2>2, WritesBeyond
    <3> QED
      BY <1>2, <1>4, <3>1, <3>2
  <2> QED
    BY <2>1, <2>2
<1> QED
  BY <1>3, <1>5 DEF FlightOk

\* What is acknowledged once the answers as are released.
Released(L, ack, as) ==
  [t \in DOMAIN L |-> Highest({ack[t]} \cup {a.index : a \in {d \in as : d.term = t}})]

\* The answers that the message released are backed by what it stored.
LEMMA StoreAcks ==
  ASSUME NEW L, ClusterOk(L), NEW B, NEW T, NEW V, StagesOk(L, B, T, V),
         NEW q \in Seq(Appends), NEW q2 \in Seq(Appends), NEW T2 \in Seq(Stages(L)),
         Stores1(q, q2, T, T2), NEW ack, NEW af, AcksOk(L, ack, af, q, T, V),
         NEW ack2, ack2 = Released(L, ack, q[1].answers)
  PROVE  AcksOk(L, ack2, af, q2, T2, V)
<1>1. /\ Len(T) \in Nat /\ DOMAIN T = 1 .. Len(T)
      /\ \A j \in DOMAIN T : StageOk(L, T[j])
      /\ \A j \in DOMAIN T : \A k \in DOMAIN T : j <= k => Later(L, T[j], T[k])
  BY ConstStages
<1>2. PICK n : n = Len(q) /\ n \in Nat /\ n > 0 /\ DOMAIN q = 1 .. n /\ Len(T) = n + 1
  BY SeqType DEF Stores1
<1>3. DOMAIN q2 = 1 .. n - 1 /\ DOMAIN T2 = 1 .. n /\ Len(q2) = n - 1 /\ Len(T2) = n
  BY <1>2, SeqType DEF Stores1
<1>4. T2[1] = T[2] /\ 1 \in DOMAIN T /\ 2 \in DOMAIN T /\ 1 \in DOMAIN q
  <2>1. 1 \in 1 .. Len(T2) /\ 1 \in DOMAIN T /\ 2 \in DOMAIN T /\ 1 \in DOMAIN q
    BY <1>1, <1>2, <1>3
  <2>2. T2[1] = T[1 + 1]
    BY <2>1 DEF Stores1
  <2> QED
    BY <2>1, <2>2
<1>5. StageOk(L, T[1]) /\ StageOk(L, T[2]) /\ Later(L, T[1], T[2])
  BY <1>1, <1>4
<1>6. /\ ack \in [DOMAIN L -> Nat] /\ af \in SUBSET Acks
      /\ \A t \in DOMAIN L : ack[t] > 0 => Backed(L, T[1], t, ack[t])
      /\ \A a \in q[1].answers : Backed(L, T[2], a.term, a.index)
      /\ \A a \in af : Backed(L, V, a.term, a.index)
  <2>1. \A a \in q[1].answers : Backed(L, T[1 + 1], a.term, a.index)
    BY <1>4 DEF AcksOk
  <2> QED
    BY <2>1 DEF AcksOk
<1>7. q[1].answers \in SUBSET Acks
  BY <1>4, AppendType DEF Appends
<1>8. ASSUME NEW t \in DOMAIN L
      PROVE  ack2[t] \in Nat /\ (ack2[t] > 0 => Backed(L, T[2], t, ack2[t]))
  <2> DEFINE S == {ack[t]} \cup {a.index : a \in {d \in q[1].answers : d.term = t}}
  <2>1. PICK l : l = Len(L[t]) /\ l \in Nat
    BY LeaderType
  <2>2. ack2[t] = Highest(S)
    BY DEF Released
  <2>3. ASSUME NEW i \in S
        PROVE  i \in 0 .. l /\ (i > 0 => Backed(L, T[2], t, i))
    <3>1. CASE i = ack[t]
      <4>1. i \in Nat
        BY <1>6, <3>1
      <4>2. ASSUME i > 0
            PROVE  Backed(L, T[2], t, i)
        <5>1. Backed(L, T[1], t, i)
          BY <1>6, <3>1, <4>2
        <5> QED
          BY <1>5, <4>1, <5>1, BackedLater
      <4>3. i > 0 => i <= l
        BY <2>1, <4>2 DEF Backed
      <4> QED
        BY <2>1, <4>1, <4>2, <4>3
    <3>2. CASE i \in {a.index : a \in {d \in q[1].answers : d.term = t}}
      <4>1. PICK a \in q[1].answers : a.term = t /\ i = a.index
        BY <3>2
      <4>2. i \in Nat
        BY <1>7, <4>1 DEF Acks
      <4>3. Backed(L, T[2], t, i)
        BY <1>6, <4>1
      <4>4. i <= l
        BY <2>1, <4>3 DEF Backed
      <4> QED
        BY <2>1, <4>2, <4>3, <4>4
    <3> QED
      BY <3>1, <3>2
  <2>4. S \in SUBSET (0 .. l) /\ S # {}
    BY <2>3
  <2> HIDE DEF S
  <2>5. Highest(S) \in S
    BY <2>1, <2>4, HighestOf
  <2> QED
    BY <2>1, <2>2, <2>3, <2>5
<1>9. ack2 \in [DOMAIN L -> Nat]
  BY <1>8 DEF Released
<1>10. ASSUME NEW j \in DOMAIN q2, NEW a \in q2[j].answers
       PROVE  Backed(L, T2[j + 1], a.term, a.index)
  <2>1. j \in 1 .. Len(q2) /\ j + 1 \in 1 .. Len(T2) /\ j + 1 \in DOMAIN q
    BY <1>2, <1>3
  <2>2. q2[j] = q[j + 1] /\ T2[j + 1] = T[(j + 1) + 1]
    BY <2>1 DEF Stores1
  <2> QED
    BY <2>1, <2>2 DEF AcksOk
<1> QED
  BY <1>4, <1>6, <1>8, <1>9, <1>10 DEF AcksOk

\* A sequence of at most one element that is not empty.
LEMMA OneOrNone ==
  ASSUME NEW S, NEW r \in Seq(S), Len(r) <= 1, r # <<>>
  PROVE  Len(r) = 1 /\ r[1] \in S
<1>1. Len(r) \in Nat /\ Len(r) # 0
  OBVIOUS
<1>2. Len(r) = 1
  BY <1>1
<1> QED
  BY <1>2

\* Queuing at most one response.
LEMMA ResponseIs ==
  ASSUME NEW S, NEW b \in Seq(S), NEW r \in Seq(S), Len(r) <= 1
  PROVE  /\ b \o r \in Seq(S)
         /\ r = <<>> => b \o r = b
         /\ r # <<>> => /\ Len(b \o r) = Len(b) + 1
                        /\ \A j \in 1 .. Len(b) : (b \o r)[j] = b[j]
                        /\ (b \o r)[Len(b) + 1] = r[1]
<1>1. b \o r \in Seq(S)
  OBVIOUS
<1>2. CASE r = <<>>
  BY <1>1, <1>2
<1>3. CASE r # <<>>
  <2>1. Len(r) = 1
    BY <1>3, OneOrNone
  <2>2. Len(b \o r) = Len(b) + 1
    <3>1. Len(b \o r) = Len(b) + Len(r)
      OBVIOUS
    <3> QED
      BY <2>1, <3>1
  <2>3. ASSUME NEW j \in 1 .. Len(b)
        PROVE  (b \o r)[j] = b[j]
    OBVIOUS
  <2>4. (b \o r)[Len(b) + 1] = r[1]
    BY <2>1
  <2> QED
    BY <1>1, <1>3, <2>2, <2>3, <2>4
<1> QED
  BY <1>2, <1>3

\* The append thread keeps the invariant.
LEMMA AppendThreadStep ==
  ASSUME NEW B, NEW T, NEW V, GhostInv(B, T, V), AppendThread
  PROVE  LogInv'
<1>1. /\ ClusterOk(leader) /\ leader \in Histories /\ V.term = term /\ crashes \in Nat
      /\ StagesOk(leader, B, T, V) /\ StageOk(leader, V)
      /\ StoreOk(leader, ms, T[1]) /\ QueueOk(leader, appendQ, T)
      /\ BackOk(leader, appendBack, B) /\ SnapsStored(appendBack, ms)
      /\ UnstableOk(leader, u, appendQ, appendBack, B, T, V)
      /\ CursorOk(leader, cur, u, ms, appendQ, T, V) /\ cur \in CursorSet
      /\ ApplyingOk(applyQ, cur) /\ ApplyingOk(applyBack, cur)
      /\ AcksOk(leader, acked, after, appendQ, T, V) /\ FlightOk(cur, u, ms, appendQ, T)
  BY GhostFacts
<1>2. /\ appendQ \in Seq(Appends) /\ Len(T) = Len(appendQ) + 1 /\ appendQ # <<>>
      /\ T \in Seq(Stages(leader)) /\ B \in Seq(Stages(leader)) /\ T # <<>>
      /\ appendBack \in Seq(Resps)
  BY <1>1 DEF QueueOk, AppendThread, StagesOk, BackOk
<1>3. PICK m : m = appendQ[1]
  OBVIOUS
<1>4. Head(appendQ) = m
  BY <1>2, <1>3, TailIs
<1>5. PICK s : s = ApplySnapshot(ms, m.snap)
  OBVIOUS
<1>6. /\ ms' = Written(s, m)
      /\ panicked' = (m.ents # <<>> /\ StoreGap(s, m.first))
      /\ acked' = Released(leader, acked, appendQ[1].answers)
      /\ appendBack' = appendBack \o m.resp
      /\ appendQ' = Tail(appendQ)
      /\ leader' = leader /\ term' = term /\ u' = u /\ cur' = cur /\ after' = after
      /\ applyQ' = applyQ /\ applyBack' = applyBack /\ crashes' = crashes
  BY <1>3, <1>4, <1>5 DEF AppendThread, Terms, Written, Released
<1>7. PICK T2 : T2 = Tail(T)
  OBVIOUS
<1>8. /\ T2 \in Seq(Stages(leader)) /\ Len(T2) = Len(T) - 1 /\ Len(T) \in Nat
      /\ \A j \in 1 .. Len(T2) : T2[j] = T[j + 1]
  BY <1>2, <1>7, TailIs
<1>9. /\ appendQ' \in Seq(Appends) /\ Len(appendQ') = Len(appendQ) - 1 /\ Len(appendQ) \in Nat
      /\ Len(appendQ) > 0 /\ \A j \in 1 .. Len(appendQ') : appendQ'[j] = appendQ[j + 1]
  BY <1>2, <1>6, TailIs
<1>10. Stores1(appendQ, appendQ', T, T2)
  BY <1>2, <1>8, <1>9 DEF Stores1
<1>11. /\ DOMAIN T = 1 .. Len(T) /\ 1 \in DOMAIN T /\ 2 \in DOMAIN T /\ 1 \in DOMAIN appendQ
       /\ T2[1] = T[2]
  <2>1. DOMAIN T = 1 .. Len(T) /\ DOMAIN appendQ = 1 .. Len(appendQ)
    BY <1>2, SeqType
  <2>2. 1 \in 1 .. Len(T2) /\ 1 \in DOMAIN T /\ 2 \in DOMAIN T /\ 1 \in DOMAIN appendQ
    BY <1>2, <1>8, <1>9, <2>1
  <2>3. T2[1] = T[1 + 1]
    BY <1>8, <2>2
  <2> QED
    BY <2>1, <2>2, <2>3
<1>12. PICK x, y : y = T[1] /\ x = T[2]
  OBVIOUS
<1>13. MsgOk(leader, m, y, x)
  <2>1. MsgOk(leader, appendQ[1], T[1], T[1 + 1])
    BY <1>1, <1>11 DEF QueueOk
  <2> QED
    BY <1>3, <1>12, <2>1
<1>14. StageOk(leader, y) /\ StageOk(leader, x) /\ y.commit <= x.commit
  <2>1. StageOk(leader, y) /\ StageOk(leader, x) /\ Later(leader, y, x)
    BY <1>1, <1>11, <1>12, ConstStages
  <2> QED
    BY <2>1 DEF Later
<1>15. Holds(leader, s, m, x) /\ s.base \in {ms.base, m.snap.index}
  <2>1. /\ y.commit \in Nat /\ x.commit \in Nat /\ x.last \in Nat /\ x.commit <= x.last
        /\ ms.base \in Nat /\ cur.applying \in Nat
    BY <1>1, <1>14, StageType, StoreType DEF CursorSet
  <2>2. /\ m.first \in Nat /\ m.snap.index \in Nat
        /\ m.ents # <<>> => m.first > y.commit
        /\ m.snap # None => m.snap.index > y.commit
    BY <1>13, <2>1, WritesBeyond
  <2>3. /\ ms.base <= cur.applying \/ ms.base <= y.commit
        /\ m.ents # <<>> => m.first > cur.applying
        /\ m.snap # None => m.snap.index > cur.applying
    BY <1>1, <1>3, <1>11, <1>12 DEF FlightOk
  <2>4. SameTo(leader, x, V, cur.applying)
    BY <1>1, <1>11, <1>12 DEF CursorOk
  <2>5. cur.applying <= x.last
    BY <2>4 DEF SameTo
  <2>6. ms.base <= x.last
    BY <1>14, <2>1, <2>3, <2>5
  <2>7. /\ m.ents # <<>> => ms.base < m.first
        /\ m.snap # None => ms.base < m.snap.index
    BY <2>1, <2>2, <2>3
  <2> QED
    BY <1>1, <1>5, <1>12, <1>13, <1>14, <2>6, <2>7, SnapshotWritten
<1>16. PICK st : st = Written(s, m)
  OBVIOUS
<1>17. StoreOk(leader, st, x) /\ st.base = s.base /\ (m.ents # <<>> => ~StoreGap(s, m.first))
  BY <1>1, <1>13, <1>14, <1>15, <1>16, EntriesWritten
<1>18. ms' = st
  BY <1>6, <1>16
<1>19. ~panicked'
  <2>1. ~(m.ents # <<>> /\ StoreGap(s, m.first))
    BY <1>17
  <2> QED
    BY <1>6, <2>1
<1>20. m.resp \in Seq(Resps) /\ Len(m.resp) <= 1
  BY <1>2, <1>3, <1>11, <1>13, AppendType DEF MsgOk
<1>21. /\ appendBack' \in Seq(Resps)
       /\ m.resp = <<>> => appendBack' = appendBack
       /\ m.resp # <<>> => /\ Len(appendBack') = Len(appendBack) + 1
                           /\ \A j \in 1 .. Len(appendBack) : appendBack'[j] = appendBack[j]
                           /\ appendBack'[Len(appendBack) + 1] = m.resp[1]
  BY <1>2, <1>6, <1>20, ResponseIs
<1>22. PICK B2 : B2 = IF m.resp = <<>> THEN B ELSE Append(B, x)
  OBVIOUS
<1>23. B2 \in Seq(Stages(leader)) /\ Responds(m, appendBack, appendBack', B, B2, x)
  <2>1. x \in Stages(leader)
    BY <1>14 DEF StageOk
  <2>2. CASE m.resp = <<>>
    BY <1>2, <1>21, <1>22, <2>2 DEF Responds
  <2>3. CASE m.resp # <<>>
    <3>1. B2 = Append(B, x)
      BY <1>22, <2>3
    <3>2. /\ B2 \in Seq(Stages(leader)) /\ Len(B2) = Len(B) + 1
          /\ \A j \in DOMAIN B : B2[j] = B[j]
          /\ B2[Len(B) + 1] = x
      BY <1>2, <2>1, <3>1, AppendIs
    <3>3. DOMAIN B = 1 .. Len(B)
      BY <1>2, SeqType
    <3> QED
      BY <1>21, <2>3, <3>2, <3>3 DEF Responds
  <2> QED
    BY <2>2, <2>3
<1>24. Responds(appendQ[1], appendBack, appendBack', B, B2, T[2])
  BY <1>3, <1>12, <1>23
<1>25. StagesOk(leader, B2, T2, V)
  BY <1>1, <1>2, <1>8, <1>10, <1>23, <1>24, StoreStages
<1>26. QueueOk(leader, appendQ', T2)
  BY <1>1, <1>2, <1>9, <1>10, StoreQueue
<1>27. BackOk(leader, appendBack', B2)
  BY <1>1, <1>13, <1>21, <1>23, StoreBack
<1>28. UnstableOk(leader, u, appendQ', appendBack', B2, T2, V)
  BY <1>1, <1>2, <1>8, <1>9, <1>10, <1>21, <1>23, <1>24, StoreUnstable
<1>29. ms'.base \in {ms.base, appendQ[1].snap.index}
  BY <1>3, <1>15, <1>17, <1>18
<1>30. CursorOk(leader, cur, u, ms', appendQ', T2, V)
  BY <1>1, <1>2, <1>8, <1>9, <1>10, <1>11, <1>29, StoreCursor
<1>31. AcksOk(leader, acked', after, appendQ', T2, V)
  <2>1. PICK ack2, q2, q : ack2 = Released(leader, acked, q[1].answers) /\ q2 = appendQ' /\ q = appendQ
    OBVIOUS
  <2>2. /\ q \in Seq(Appends) /\ q2 \in Seq(Appends) /\ Stores1(q, q2, T, T2)
        /\ AcksOk(leader, acked, after, q, T, V)
    BY <1>1, <1>2, <1>9, <1>10, <2>1
  <2>3. AcksOk(leader, ack2, after, q2, T2, V)
    BY <1>1, <1>8, <2>1, <2>2, StoreAcks
  <2>4. acked' = ack2
    BY <1>6, <2>1
  <2> QED
    BY <2>1, <2>3, <2>4
<1>32. StoreOk(leader, ms', T2[1])
  BY <1>11, <1>12, <1>17, <1>18
<1>33. SnapsStored(appendBack', ms')
  <2>1. ms.base \in Nat /\ ms'.base \in Nat /\ m.snap.index \in Nat
    <3>1. m.snap \in Ids
      BY <1>2, <1>3, <1>11, AppendType
    <3> QED
      BY <1>1, <1>17, <1>18, <3>1, StoreType DEF Ids
  <2>2. ms.base <= ms'.base /\ m.snap.index <= ms'.base
    <3>1. ms'.base = ApplySnapshot(ms, m.snap).base /\ ms \in Stores
      BY <1>1, <1>5, <1>17, <1>18, StoreType
    <3>2. CASE ms.base >= m.snap.index
      BY <2>1, <3>1, <3>2 DEF ApplySnapshot
    <3>3. CASE ~(ms.base >= m.snap.index)
      <4>1. ms'.base = m.snap.index
        BY <3>1, <3>3 DEF ApplySnapshot, Stores
      <4> QED
        BY <2>1, <3>3, <4>1
    <3> QED
      BY <3>2, <3>3
  <2>3. ASSUME NEW j \in 1 .. Len(appendBack)
        PROVE  appendBack[j].snap.index <= ms'.base
    <3>1. j \in DOMAIN appendBack /\ appendBack[j] \in Resps
      BY <1>2, SeqType
    <3>2. appendBack[j].snap.index \in Nat /\ appendBack[j].snap.index <= ms.base
      BY <1>1, <3>1 DEF SnapsStored, Resps, Ids
    <3> QED
      BY <2>1, <2>2, <3>2
  <2>4. ASSUME NEW j \in DOMAIN appendBack'
        PROVE  appendBack'[j].snap.index <= ms'.base
    <3>1. DOMAIN appendBack' = 1 .. Len(appendBack') /\ Len(appendBack) \in Nat
      BY <1>2, <1>21, SeqType
    <3>2. CASE m.resp = <<>>
      BY <1>21, <2>3, <3>1, <3>2
    <3>3. CASE m.resp # <<>>
      <4>1. m.resp[1].snap = m.snap
        BY <1>13, <3>3 DEF MsgOk
      <4>2. CASE j = Len(appendBack) + 1
        BY <1>21, <2>2, <3>3, <4>1, <4>2
      <4>3. CASE j # Len(appendBack) + 1
        <5>1. j \in 1 .. Len(appendBack)
          <6>1. PICK n : n = Len(appendBack) /\ n \in Nat
            BY <3>1
          <6>2. j \in 1 .. n + 1 /\ j # n + 1
            BY <1>21, <3>1, <3>3, <4>3, <6>1
          <6>3. j \in 1 .. n
            BY <6>1, <6>2
          <6> QED
            BY <6>1, <6>3
        <5> QED
          BY <1>21, <2>3, <3>3, <5>1
      <4> QED
        BY <4>2, <4>3
    <3> QED
      BY <3>2, <3>3
  <2> QED
    BY <2>4 DEF SnapsStored
<1>34. FlightOk(cur, u, ms', appendQ', T2)
  <2>1. T[1].commit \in Nat /\ T[2].commit \in Nat /\ T[1].commit <= T[2].commit
    BY <1>1, <1>12, <1>14, StageType
  <2>2. MsgOk(leader, appendQ[1], T[1], T[2])
    BY <1>3, <1>12, <1>13
  <2>3. ms.base \in Nat
    BY <1>1, StoreType
  <2>4. PICK m2, q2, q : m2 = ms' /\ q2 = appendQ' /\ q = appendQ
    OBVIOUS
  <2>5. /\ q \in Seq(Appends) /\ q2 \in Seq(Appends) /\ Stores1(q, q2, T, T2)
        /\ m2.base \in {ms.base, q[1].snap.index} /\ MsgOk(leader, q[1], T[1], T[2])
        /\ FlightOk(cur, u, ms, q, T)
    BY <1>1, <1>2, <1>9, <1>10, <1>29, <2>2, <2>4
  <2>6. DOMAIN T = 1 .. Len(T) /\ T2 \in Seq(Stages(leader)) /\ cur \in CursorSet
    BY <1>1, <1>2, <1>8, <1>10, SeqType
  <2>7. FlightOk(cur, u, m2, q2, T2)
    BY <2>1, <2>3, <2>5, <2>6, FlightStore
  <2> QED
    BY <2>4, <2>7
<1> QED
  BY <1>1, <1>6, <1>19, <1>25, <1>26, <1>27, <1>28, <1>30, <1>31, <1>32, <1>33,
     <1>34, LogInvNext

-----------------------------------------------------------------------------
(* Responses of the append thread. *)

\* StableTo, for any unstable log.
StabledTo(un, id) ==
  IF \/ id.index < un.offset
     \/ id.index >= un.offset + Len(un.entries)
     \/ un.entries[id.index - un.offset + 1] # id.term
  THEN un
  ELSE [un EXCEPT !.entries = SubSeq(@, id.index + 2 - un.offset, Len(@)),
                  !.offset = id.index + 1,
                  !.inProgress = MaxOf(@, id.index + 1)]

\* The log up to i, which was asked for in this term, is stored in every stage.
LEMMA StoredTo ==
  ASSUME NEW L, ClusterOk(L), NEW B, NEW T, NEW V, StagesOk(L, B, T, V), 1 \in DOMAIN B,
         B[1].term = V.term, NEW i \in Nat, i > 0, i <= B[1].last, i <= V.last,
         L[B[1].lt][i] = L[V.lt][i]
  PROVE  \A j \in DOMAIN T : SameTo(L, T[j], V, i) /\ T[j].term = V.term
<1>1. /\ StageOk(L, V) /\ 1 \in DOMAIN T /\ DOMAIN T = 1 .. Len(T)
      /\ \A j \in DOMAIN B : StageOk(L, B[j]) /\ Later(L, B[j], T[1])
      /\ \A j \in DOMAIN T : StageOk(L, T[j]) /\ Later(L, T[j], V)
      /\ \A j \in DOMAIN T : \A k \in DOMAIN T : j <= k => Later(L, T[j], T[k])
  BY ConstStages
<1>2. PICK x : x = B[1]
  OBVIOUS
<1>3. StageOk(L, x) /\ Later(L, x, T[1])
  BY <1>1, <1>2
<1>4. ASSUME NEW j \in DOMAIN T
      PROVE  SameTo(L, T[j], V, i) /\ T[j].term = V.term
  <2>1. PICK y : y = T[j]
    OBVIOUS
  <2>2. StageOk(L, y) /\ Later(L, y, V) /\ Later(L, T[1], y) /\ StageOk(L, T[1])
    BY <1>1, <2>1
  <2>3. Later(L, x, y)
    BY <1>3, <2>2, LaterTrans
  <2>4. SameTo(L, y, V, i)
    BY <1>1, <1>2, <1>3, <2>2, <2>3, Throughout
  <2>5. x.term \in Int /\ y.term \in Int /\ V.term \in Int
    <3>1. x.term \in 0 .. Len(L) /\ Len(L) \in Nat
      BY <1>3, StageType
    <3>2. y.term \in 0 .. Len(L) /\ V.term \in 0 .. Len(L)
      BY <1>1, <2>2, StageType
    <3> QED
      BY <3>1, <3>2
  <2>6. x.term <= y.term /\ y.term <= V.term /\ x.term = V.term
    BY <1>2, <2>2, <2>3 DEF Later
  <2>7. y.term = V.term
    BY <2>5, <2>6
  <2> QED
    BY <2>1, <2>4, <2>7
<1> QED
  BY <1>4

\* What StableTo drops.
Dropped(L, un, un2, V, i) ==
  /\ un2 \in Unstables /\ un2.offset = i + 1 /\ un2.inProgress = MaxOf(un.inProgress, i + 1)
  /\ un2.snap = un.snap /\ un2.snapBusy = un.snapBusy
  /\ un2.offset + Len(un2.entries) = V.last + 1
  /\ \A j \in 1 .. Len(un2.entries) : un2.entries[j] = L[V.lt][un2.offset + j - 1]
  /\ un2.entries = <<>> => i = V.last
  /\ i \in Nat /\ i > 0 /\ un.offset <= i /\ i <= V.last

\* stableTo either does nothing or drops entries that the response names.
LEMMA StabledIs ==
  ASSUME NEW L, ClusterOk(L), NEW V, StageOk(L, V), NEW un, EntriesOk(L, un, V),
         NEW id \in Ids, NEW un2, un2 = StabledTo(un, id)
  PROVE  \/ un2 = un
         \/ Dropped(L, un, un2, V, id.index) /\ L[V.lt][id.index] = id.term
<1>1. /\ un \in Unstables /\ un.offset \in Nat \ {0} /\ un.inProgress \in Nat
      /\ un.entries \in Seq(Nat) /\ Len(un.entries) \in Nat
      /\ V.last \in Nat /\ id.index \in Nat
  BY UnstableType, StageType DEF Ids
<1>2. /\ un.offset + Len(un.entries) = V.last + 1
      /\ \A j \in 1 .. Len(un.entries) : un.entries[j] = L[V.lt][un.offset + j - 1]
  BY DEF EntriesOk
<1>3. PICK i, o, n, g, p : i = id.index /\ o = un.offset /\ n = Len(un.entries) /\ g = un.entries
                          /\ p = MaxOf(un.inProgress, i + 1)
  OBVIOUS
<1>4. CASE \/ id.index < un.offset
           \/ id.index >= un.offset + Len(un.entries)
           \/ un.entries[id.index - un.offset + 1] # id.term
  BY <1>4 DEF StabledTo
<1>5. CASE ~(\/ id.index < un.offset
             \/ id.index >= un.offset + Len(un.entries)
             \/ un.entries[id.index - un.offset + 1] # id.term)
  <2>1. un2 = [un EXCEPT !.entries = SubSeq(g, i + 2 - o, n), !.offset = i + 1, !.inProgress = p]
    BY <1>3, <1>5 DEF StabledTo
  <2>2. /\ i \in Nat /\ o \in Nat /\ n \in Nat /\ o > 0 /\ o <= i /\ i < o + n
        /\ o + n = V.last + 1 /\ g[i - o + 1] = id.term /\ g \in Seq(Nat) /\ Len(g) = n
    BY <1>1, <1>2, <1>3, <1>5
  <2>3. p \in Nat
    BY <1>1, <1>3, <2>2 DEF MaxOf
  <2>4. PICK a : a = i + 2 - o /\ a \in Nat \ {0} /\ a <= n + 1
    BY <2>2
  <2>5. PICK h : h = SubSeq(g, a, n)
    OBVIOUS
  <2>6. /\ h \in Seq(Nat) /\ Len(h) = n - a + 1 /\ (h = <<>> => a = n + 1)
        /\ \A j \in 1 .. n - a + 1 : h[j] = g[a + j - 1]
    <3>1. CASE a = n + 1
      <4>1. h = <<>>
        BY <2>2, <2>4, <2>5, <3>1
      <4>2. n - a + 1 = 0
        BY <2>2, <3>1
      <4> QED
        BY <3>1, <4>1, <4>2
    <3>2. CASE a # n + 1
      <4>1. a <= n
        BY <2>2, <2>4, <3>2
      <4>2. /\ h \in Seq(Nat) /\ Len(h) = n - a + 1
            /\ \A j \in 1 .. n - a + 1 : h[j] = g[a + j - 1]
        <5>1. g \in Seq(Nat) /\ a \in Nat \ {0} /\ n \in Nat /\ a <= n /\ n <= Len(g)
          BY <2>2, <2>4, <4>1
        <5>2. /\ SubSeq(g, a, n) \in Seq(Nat) /\ Len(SubSeq(g, a, n)) = n - a + 1
              /\ \A j \in 1 .. n - a + 1 : SubSeq(g, a, n)[j] = g[a + j - 1]
          BY <5>1, TailOf
        <5> QED
          BY <2>5, <5>2
      <4>3. Len(h) > 0
        BY <2>2, <2>4, <4>1, <4>2
      <4>4. h # <<>>
        BY <4>3
      <4> QED
        BY <4>2, <4>4
    <3> QED
      BY <3>1, <3>2
  <2>7. /\ un2.entries = h /\ un2.offset = i + 1 /\ un2.inProgress = p
        /\ un2.snap = un.snap /\ un2.snapBusy = un.snapBusy /\ un2 \in Unstables
    <3>1. un2 = [un EXCEPT !.entries = h, !.offset = i + 1, !.inProgress = p]
      BY <2>1, <2>4, <2>5
    <3>2. i + 1 \in Nat
      BY <2>2
    <3> QED
      BY <1>1, <2>3, <2>6, <3>1, <3>2 DEF Unstables
  <2>8. PICK l : l = V.last /\ l \in Nat
    BY <1>1
  <2>9. (i + 1) + Len(h) = l + 1 /\ i <= l /\ (h = <<>> => i = l)
    <3>1. Len(h) = n - a + 1 /\ a = i + 2 - o /\ o + n = l + 1 /\ i < o + n /\ (h = <<>> => a = n + 1)
      BY <2>2, <2>4, <2>6, <2>8
    <3> QED
      BY <2>2, <2>8, <3>1
  <2>10. ASSUME NEW j \in 1 .. Len(h)
         PROVE  h[j] = L[V.lt][(i + 1) + j - 1]
    <3>1. j \in 1 .. n - a + 1 /\ a + j - 1 \in 1 .. n /\ o + (a + j - 1) - 1 = (i + 1) + j - 1
      BY <2>2, <2>4, <2>6
    <3>2. g[a + j - 1] = L[V.lt][o + (a + j - 1) - 1]
      BY <1>2, <1>3, <3>1
    <3> QED
      BY <2>6, <3>1, <3>2
  <2>11. L[V.lt][i] = id.term
    <3>1. i - o + 1 \in 1 .. n /\ o + (i - o + 1) - 1 = i
      BY <2>2
    <3>2. g[i - o + 1] = L[V.lt][o + (i - o + 1) - 1]
      BY <1>2, <1>3, <3>1
    <3> QED
      BY <2>2, <3>1, <3>2
  <2>12. i > 0
    BY <2>2
  <2>13. Dropped(L, un, un2, V, i)
    BY <1>3, <2>2, <2>7, <2>8, <2>9, <2>10, <2>12 DEF Dropped
  <2> QED
    BY <1>3, <2>11, <2>13
<1> QED
  BY <1>4, <1>5

\* Dropping entries that all stages have is sound.
LEMMA StabledOk ==
  ASSUME NEW L, ClusterOk(L), NEW B, NEW T, NEW V, StagesOk(L, B, T, V),
         NEW q, NEW b, NEW un, UnstableOk(L, un, q, b, B, T, V), un.snap = None,
         NEW i, NEW un2, Dropped(L, un, un2, V, i),
         \A j \in DOMAIN T : SameTo(L, T[j], V, i) /\ T[j].term = V.term
  PROVE  UnstableOk(L, un2, q, b, B, T, V)
<1>1. /\ StageOk(L, V) /\ Len(T) \in DOMAIN T
      /\ \A j \in DOMAIN T : StageOk(L, T[j]) /\ Later(L, T[j], V)
  BY ConstStages
<1>2. PICK K : K = T[Len(T)] /\ StageOk(L, K) /\ SameTo(L, K, V, i) /\ K.term = V.term
  BY <1>1
<1>3. /\ EntriesOk(L, un, V) /\ un.inProgress > K.commit /\ InProgressOk(L, un, K, V)
      /\ StableOk(L, un, T, V)
  BY <1>2 DEF UnstableOk
<1>4. /\ un.offset \in Nat \ {0} /\ un.inProgress \in Nat /\ V.last \in Nat /\ K.last \in Nat
  BY <1>1, <1>2, <1>3, UnstableType, StageType
<1>5. un.offset <= un.inProgress /\ un.inProgress <= V.last + 1
  BY <1>3 DEF EntriesOk
<1>6. /\ un2 \in Unstables /\ un2.offset = i + 1 /\ un2.inProgress = MaxOf(un.inProgress, i + 1)
      /\ un2.snap = un.snap /\ un2.snapBusy = un.snapBusy
      /\ un2.offset + Len(un2.entries) = V.last + 1
      /\ \A j \in 1 .. Len(un2.entries) : un2.entries[j] = L[V.lt][un2.offset + j - 1]
      /\ un2.entries = <<>> => i = V.last
      /\ i \in Nat /\ i > 0 /\ un.offset <= i /\ i <= V.last
  BY DEF Dropped
<1>7. i + 1 <= un.inProgress
  <2>1. SUFFICES ASSUME ~(i + 1 <= un.inProgress)
                 PROVE  FALSE
    OBVIOUS
  <2>2. PICK p : p = un.inProgress
    OBVIOUS
  <2>3. p \in 1 .. i /\ p <= V.last
    BY <1>4, <1>5, <1>6, <2>1, <2>2
  <2>4. ~Has(L, K, p, L[V.lt][p])
    BY <1>2, <1>3, <2>2, <2>3 DEF InProgressOk
  <2>5. i <= K.last /\ L[K.lt][p] = L[V.lt][p]
    BY <1>2, <2>3 DEF SameTo
  <2>6. p \in 1 .. K.last
    BY <1>4, <1>6, <2>3, <2>5
  <2> QED
    BY <2>4, <2>5, <2>6 DEF Has
<1>8. un2.inProgress = un.inProgress
  BY <1>4, <1>6, <1>7 DEF MaxOf
<1>9. EntriesOk(L, un2, V)
  <2>1. un2.offset > 0 /\ un2.offset <= un2.inProgress /\ un2.inProgress <= V.last + 1
    BY <1>4, <1>5, <1>6, <1>7, <1>8
  <2> QED
    BY <1>6, <2>1 DEF EntriesOk
<1>10. InProgressOk(L, un2, K, V)
  BY <1>3, <1>8 DEF InProgressOk
<1>11. ASSUME NEW j \in DOMAIN T
       PROVE  SameTo(L, T[j], V, un2.offset - 1) /\ (un2.entries = <<>> => T[j].last = V.last)
  <2>1. un2.offset - 1 = i
    BY <1>6
  <2>2. ASSUME un2.entries = <<>>
        PROVE  T[j].last = V.last
    <3>1. i = V.last
      BY <1>6, <2>2
    <3>2. InTerm(L, T[j], V) /\ T[j].last \in Nat
      BY <1>1, StageType DEF Later
    <3>3. SameTo(L, T[j], V, V.last)
      BY <3>1
    <3>4. ~(V.last < T[j].last) /\ V.last <= T[j].last
      BY <3>2, <3>3 DEF InTerm, SameTo
    <3> QED
      BY <1>4, <3>2, <3>4
  <2> QED
    BY <2>1, <2>2
<1>12. StableOk(L, un2, T, V)
  BY <1>11 DEF StableOk
<1> QED
  BY <1>2, <1>3, <1>6, <1>8, <1>9, <1>10, <1>12 DEF UnstableOk

\* The snapshot is stored: it is dropped from memory.
Cleared(un) == [un EXCEPT !.snap = None, !.snapBusy = FALSE]

\* A response to a log that had committed the snapshot is the one that names it.
LEMMA SnapNamed ==
  ASSUME NEW L, ClusterOk(L), NEW B, NEW T, NEW V, StagesOk(L, B, T, V),
         NEW q, NEW b, b \in Seq(Resps), Len(b) = Len(B), 1 \in DOMAIN B,
         NEW un, un.snap.index \in Nat, SnapOk(L, un, q, b, B, T, V), B[1].commit >= un.snap.index
  PROVE  un.snapBusy /\ b[1].snap.index = un.snap.index
<1>1. /\ 1 \in DOMAIN T /\ Len(T) \in DOMAIN T /\ DOMAIN B = 1 .. Len(B) /\ Len(B) \in Nat
      /\ \A j \in DOMAIN B : StageOk(L, B[j]) /\ Later(L, B[j], T[1])
      /\ \A j \in DOMAIN T : StageOk(L, T[j])
  BY ConstStages
<1>2. Later(L, T[1], T[Len(T)])
  <2>1. DOMAIN T = 1 .. Len(T) /\ Len(T) \in Nat
    BY ConstStages
  <2>2. 1 <= Len(T)
    BY <1>1, <2>1
  <2> QED
    BY <1>1, <2>2, ConstStages
<1>3. B[1].commit \in Nat /\ T[1].commit \in Nat /\ T[Len(T)].commit \in Nat
  BY <1>1, StageType
<1>4. B[1].commit <= T[1].commit /\ T[1].commit <= T[Len(T)].commit
  BY <1>1, <1>2 DEF Later
<1>5. un.snapBusy
  <2>1. ~un.snapBusy => T[Len(T)].commit < un.snap.index
    BY DEF SnapOk
  <2>2. ~(T[Len(T)].commit < un.snap.index)
    BY <1>3, <1>4
  <2> QED
    BY <2>1, <2>2
<1>6. Carried(un.snap, q, b, B)
  BY <1>5 DEF SnapOk
<1>7. ~(B[1].commit < un.snap.index)
  BY <1>3
<1>8. PICK j \in DOMAIN b : b[j].snap.index = un.snap.index /\ \A k \in 1 .. j - 1 : B[k].commit < un.snap.index
  BY <1>6, <1>7 DEF Carried
<1>9. j = 1
  <2>1. j \in Nat /\ j >= 1
    BY SeqType
  <2>2. j > 1 => 1 \in 1 .. j - 1
    BY <2>1
  <2> QED
    BY <1>7, <1>8, <2>1, <2>2
<1> QED
  BY <1>5, <1>8, <1>9

\* Dropping a snapshot that the storage has is sound.
LEMMA ClearedOk ==
  ASSUME NEW L, ClusterOk(L), NEW B, NEW T, NEW V, StagesOk(L, B, T, V),
         NEW q, NEW b, 1 \in DOMAIN B, NEW un, UnstableOk(L, un, q, b, B, T, V),
         un.snap # None, un.snapBusy, B[1].commit >= un.snap.index, NEW b2, NEW B2
  PROVE  UnstableOk(L, Cleared(un), q, b2, B2, T, V)
<1>1. PICK u2 : u2 = Cleared(un)
  OBVIOUS
<1>2. /\ EntriesOk(L, un, V) /\ un.inProgress > T[Len(T)].commit
      /\ InProgressOk(L, un, T[Len(T)], V) /\ SnapOk(L, un, q, b, B, T, V)
  BY DEF UnstableOk
<1>3. un \in Unstables /\ un.snap.index \in Nat /\ un.offset \in Nat
  BY <1>2, UnstableType
<1>4. None \in Ids /\ u2 = [un EXCEPT !.snap = None, !.snapBusy = FALSE]
  BY <1>1 DEF None, Ids, Cleared
<1>5. /\ u2 \in Unstables /\ u2.offset = un.offset /\ u2.entries = un.entries
      /\ u2.inProgress = un.inProgress /\ u2.snap = None
  BY <1>3, <1>4 DEF Unstables
<1>6. EntriesOk(L, u2, V)
  BY <1>2, <1>5 DEF EntriesOk
<1>7. InProgressOk(L, u2, T[Len(T)], V)
  BY <1>2, <1>5 DEF InProgressOk
<1>8. /\ StageOk(L, V) /\ 1 \in DOMAIN T /\ DOMAIN T = 1 .. Len(T)
      /\ \A j \in DOMAIN B : StageOk(L, B[j]) /\ Later(L, B[j], T[1])
      /\ \A j \in DOMAIN T : StageOk(L, T[j]) /\ Later(L, T[j], V)
      /\ \A j \in DOMAIN T : \A k \in DOMAIN T : j <= k => Later(L, T[j], T[k])
  BY ConstStages
<1>9. ASSUME NEW j \in DOMAIN T
      PROVE  SameTo(L, T[j], V, u2.offset - 1) /\ (u2.entries = <<>> => T[j].last = V.last)
  <2>1. Later(L, B[1], T[1]) /\ Later(L, T[1], T[j]) /\ Later(L, T[j], V)
    BY <1>8
  <2>2. B[1].commit <= T[1].commit /\ T[1].commit <= T[j].commit /\ T[j].commit <= V.commit
    BY <2>1 DEF Later
  <2>3. B[1].commit \in Nat /\ T[1].commit \in Nat /\ T[j].commit \in Nat
    BY <1>8, StageType
  <2>4. T[j].last \in Nat /\ V.last \in Nat
    BY <1>8, StageType
  <2>5. T[j].commit >= un.snap.index
    BY <1>3, <2>2, <2>3
  <2>6. u2.offset - 1 = un.snap.index
    BY <1>2, <1>3, <1>5 DEF SnapOk
  <2>7. SameTo(L, T[j], V, T[j].commit)
    BY <1>8, <2>2, CommitStays
  <2>8. PICK c : c = T[j].commit /\ c \in Int /\ un.snap.index <= c /\ SameTo(L, T[j], V, c)
    BY <1>3, <2>3, <2>5, <2>7
  <2>9. PICK k : k = un.snap.index /\ k \in Int /\ k <= c
    BY <1>3, <2>8
  <2>10. SameTo(L, T[j], V, k)
    BY <2>4, <2>8, <2>9, SameBelow
  <2>11. un.entries = <<>> => T[j].last = V.last
    BY <1>2, <2>5 DEF SnapOk
  <2> QED
    BY <1>5, <2>6, <2>9, <2>10, <2>11
<1>10. StableOk(L, u2, T, V)
  BY <1>9 DEF StableOk
<1>11. UnstableOk(L, u2, q, b2, B2, T, V)
  BY <1>2, <1>5, <1>6, <1>7, <1>10 DEF UnstableOk
<1> QED
  BY <1>1, <1>11

\* A response to a log from before the snapshot says nothing of the entries.
LEMMA SnapShields ==
  ASSUME NEW L, ClusterOk(L), NEW x, StageOk(L, x), NEW V, StageOk(L, V), x.term = V.term,
         NEW s, s.index \in Nat, s.index > 0, L[V.lt][s.index] = s.term, LacksSnap(L, s, x, V),
         x.commit < s.index, NEW i \in Nat, s.index < i, i <= x.last, i <= V.last
  PROVE  L[x.lt][i] # L[V.lt][i]
<1>1. SUFFICES ASSUME L[x.lt][i] = L[V.lt][i]
               PROVE  FALSE
  OBVIOUS
<1>2. i > 0 /\ x.last \in Nat
  BY StageType
<1>3. SameTo(L, x, V, i)
  BY <1>1, <1>2, SameEntry
<1>4. s.index \in 1 .. i /\ s.index \in 1 .. x.last
  BY <1>2
<1>5. L[x.lt][s.index] = s.term
  BY <1>3, <1>4 DEF SameTo
<1>6. Has(L, x, s.index, s.term)
  BY <1>4, <1>5 DEF Has
<1> QED
  BY <1>6 DEF LacksSnap

\* The first response is taken.
Takes(b, b2, B, B2) ==
  /\ Len(b) > 0 /\ Len(b) = Len(B) /\ Len(b2) = Len(b) - 1 /\ Len(B2) = Len(B) - 1
  /\ \A j \in 1 .. Len(b2) : b2[j] = b[j + 1]
  /\ \A j \in 1 .. Len(B2) : B2[j] = B[j + 1]

\* The responses after one is taken.
LEMMA TakeBack ==
  ASSUME NEW L, NEW b, NEW B, BackOk(L, b, B), NEW b2 \in Seq(Resps), NEW B2, Takes(b, b2, B, B2)
  PROVE  BackOk(L, b2, B2)
<1>1. PICK n : n = Len(b) /\ n \in Nat /\ n > 0 /\ DOMAIN b = 1 .. n /\ Len(B) = n
  BY SeqType DEF BackOk, Takes
<1>2. Len(b2) = n - 1 /\ Len(B2) = n - 1 /\ DOMAIN b2 = 1 .. n - 1
  BY <1>1, SeqType DEF Takes
<1>3. ASSUME NEW j \in DOMAIN b2
      PROVE  RespOk(L, b2[j], B2[j])
  <2>1. j \in 1 .. Len(b2) /\ j \in 1 .. Len(B2) /\ j + 1 \in DOMAIN b
    BY <1>1, <1>2
  <2>2. b2[j] = b[j + 1] /\ B2[j] = B[j + 1]
    BY <2>1 DEF Takes
  <2> QED
    BY <2>1, <2>2 DEF BackOk
<1> QED
  BY <1>2, <1>3 DEF BackOk

\* And their stages.
LEMMA TakeStages ==
  ASSUME NEW L, NEW B, NEW T, NEW V, StagesOk(L, B, T, V), NEW b, NEW b2,
         NEW B2 \in Seq(Stages(L)), Takes(b, b2, B, B2)
  PROVE  StagesOk(L, B2, T, V) /\ \A j \in DOMAIN B2 : \E k \in DOMAIN B : B2[j] = B[k]
<1>1. DOMAIN B = 1 .. Len(B) /\ Len(B) \in Nat /\ DOMAIN B2 = 1 .. Len(B2)
  BY ConstStages, SeqType
<1>2. ASSUME NEW j \in DOMAIN B2
      PROVE  B2[j] = B[j + 1] /\ j + 1 \in DOMAIN B
  <2>1. j \in 1 .. Len(B2)
    BY <1>1
  <2>2. Len(B2) = Len(B) - 1
    BY DEF Takes
  <2>3. j + 1 \in DOMAIN B
    BY <1>1, <2>1, <2>2
  <2> QED
    BY <2>1, <2>3 DEF Takes
<1>3. \A j \in DOMAIN B2 : StageOk(L, B2[j]) /\ Later(L, B2[j], T[1])
  BY <1>2 DEF StagesOk
<1> QED
  BY <1>2, <1>3 DEF StagesOk

\* A snapshot that the first response does not reach is carried by another.
LEMMA TakeUnstable ==
  ASSUME NEW L, NEW B, NEW T, NEW V, StagesOk(L, B, T, V), NEW q, NEW b, BackOk(L, b, B),
         NEW b2 \in Seq(Resps), NEW B2 \in Seq(Stages(L)), Takes(b, b2, B, B2),
         NEW un, UnstableOk(L, un, q, b, B, T, V),
         un.snap # None => b[1].snap.index # un.snap.index
  PROVE  UnstableOk(L, un, q, b2, B2, T, V)
<1>1. \A j \in DOMAIN B2 : \E k \in DOMAIN B : B2[j] = B[k]
  BY TakeStages
<1>2. PICK n : n = Len(b) /\ n \in Nat /\ n > 0 /\ DOMAIN b = 1 .. n /\ Len(B) = n
  BY SeqType DEF BackOk, Takes
<1>3. /\ Len(b2) = n - 1 /\ Len(B2) = n - 1 /\ DOMAIN b2 = 1 .. n - 1 /\ DOMAIN B2 = 1 .. n - 1
  BY <1>2, SeqType DEF Takes
<1>4. ASSUME un.snap # None, Carried(un.snap, q, b, B)
      PROVE  Carried(un.snap, q, b2, B2)
  <2>1. CASE \E j \in DOMAIN b : b[j].snap.index = un.snap.index /\ \A k \in 1 .. j - 1 : B[k].commit < un.snap.index
    <3>1. PICK j \in DOMAIN b : b[j].snap.index = un.snap.index /\ \A k \in 1 .. j - 1 : B[k].commit < un.snap.index
      BY <2>1
    <3>2. j # 1
      BY <1>4, <3>1
    <3>3. PICK i : i = j - 1 /\ i \in 1 .. n - 1 /\ i + 1 = j
      BY <1>2, <3>2
    <3>4. i \in 1 .. Len(b2) /\ i \in DOMAIN b2
      BY <1>3, <3>3
    <3>5. b2[i] = b[i + 1]
      BY <3>4 DEF Takes
    <3>6. b2[i].snap.index = un.snap.index
      BY <3>1, <3>3, <3>5
    <3>7. ASSUME NEW k \in 1 .. i - 1
          PROVE  B2[k].commit < un.snap.index
      <4>1. k \in 1 .. Len(B2) /\ k + 1 \in 1 .. j - 1
        BY <1>2, <1>3, <3>3
      <4>2. B2[k] = B[k + 1]
        BY <4>1 DEF Takes
      <4> QED
        BY <3>1, <4>1, <4>2
    <3> QED
      BY <3>4, <3>6, <3>7 DEF Carried
  <2>2. CASE /\ \E j \in DOMAIN q : q[j].snap.index = un.snap.index
             /\ \A k \in DOMAIN B : B[k].commit < un.snap.index
    <3>1. \A k \in DOMAIN B2 : B2[k].commit < un.snap.index
      BY <1>1, <2>2
    <3> QED
      BY <2>2, <3>1 DEF Carried
  <2> QED
    BY <1>4, <2>1, <2>2 DEF Carried
<1>5. ASSUME un.snap # None
      PROVE  SnapOk(L, un, q, b2, B2, T, V)
  <2>1. SnapOk(L, un, q, b, B, T, V)
    BY <1>5 DEF UnstableOk
  <2>2. \A j \in DOMAIN B2 : LacksSnap(L, un.snap, B2[j], V)
    BY <1>1, <2>1 DEF SnapOk
  <2>3. un.snapBusy => Carried(un.snap, q, b2, B2)
    BY <1>4, <1>5, <2>1 DEF SnapOk
  <2> QED
    BY <2>1, <2>2, <2>3 DEF SnapOk
<1> QED
  BY <1>5 DEF UnstableOk

\* Raising the applied and applying indexes keeps the cursors' relations.
LEMMA CursorRaise ==
  ASSUME NEW L, NEW T, NEW V, NEW m \in Stores, NEW q \in Seq(Appends), NEW un, NEW un2,
         un.snap.index \in Nat, un2.snap.index \in Nat,
         NEW c, NEW c2, CursorOk(L, c, un, m, q, T, V),
         c2 \in CursorSet, c2.committed = c.committed, c2.applied <= c2.applying,
         c.applying <= c2.applying, c2.applying <= c.committed, c2.applying < un2.offset,
         \A j \in DOMAIN T : SameTo(L, T[j], V, c2.applying),
         MaxOf(c.applying, un.snap.index) <= MaxOf(c2.applying, un2.snap.index)
  PROVE  CursorOk(L, c2, un2, m, q, T, V)
<1>1. /\ c \in CursorSet /\ c.committed = V.commit
      /\ m.base <= MaxOf(c.applying, un.snap.index)
      /\ \A j \in DOMAIN q : q[j].snap.index <= MaxOf(c.applying, un.snap.index)
  BY DEF CursorOk
<1>2. c.applying \in Nat /\ c2.applying \in Nat /\ m.base \in Nat
  BY <1>1 DEF CursorSet, Stores
<1>3. MaxOf(c.applying, un.snap.index) \in Nat /\ MaxOf(c2.applying, un2.snap.index) \in Nat
  BY <1>2 DEF MaxOf
<1>4. m.base <= MaxOf(c2.applying, un2.snap.index)
  BY <1>1, <1>2, <1>3
<1>5. ASSUME NEW j \in DOMAIN q
      PROVE  q[j].snap.index <= MaxOf(c2.applying, un2.snap.index)
  <2>1. q[j].snap.index \in Nat
    BY AppendType DEF Ids
  <2>2. q[j].snap.index <= MaxOf(c.applying, un.snap.index)
    BY <1>1
  <2> QED
    BY <1>3, <2>1, <2>2
<1> QED
  BY <1>1, <1>4, <1>5 DEF CursorOk

\* What appliedTo does to the cursors.
LEMMA AppliedIs ==
  ASSUME cur \in CursorSet, cur.applied <= cur.applying, NEW i \in Nat, NEW z \in Nat,
         NEW c2, c2 = AppliedTo(i, z)
  PROVE  /\ c2 \in CursorSet /\ c2.committed = cur.committed
         /\ c2.applied \in Nat /\ c2.applying \in Nat
         /\ c2.applied <= c2.applying /\ c2.applying = MaxOf(cur.applying, i)
<1>1. cur.applied \in Nat /\ cur.applying \in Nat /\ cur.size \in Nat
  BY DEF CursorSet
<1>2. PICK p \in BOOLEAN : p = (MaxOf(cur.size - z, 0) >= ApplyLimit)
  <2>1. ASSUME NEW k \in Int, NEW l \in Int
        PROVE  (k >= l) \in BOOLEAN
    OBVIOUS
  <2>2. MaxOf(cur.size - z, 0) \in Int /\ ApplyLimit \in Int
    BY <1>1, BoundsAssumption DEF MaxOf
  <2> QED
    BY <2>1, <2>2
<1>3. PICK n, l, a : n = MaxOf(i, cur.applied) /\ l = MaxOf(cur.size - z, 0) /\ a = MaxOf(cur.applying, n)
  OBVIOUS
<1>4. c2 = [cur EXCEPT !.applied = n, !.applying = a, !.size = l, !.paused = p]
  BY <1>2, <1>3 DEF AppliedTo
<1>5. n \in Nat /\ l \in Nat /\ a \in Nat /\ n <= a /\ a = MaxOf(cur.applying, i)
  BY <1>1, <1>3 DEF MaxOf
<1>6. /\ c2 \in CursorSet /\ c2.committed = cur.committed /\ c2.applied = n /\ c2.applying = a
  BY <1>4, <1>5 DEF CursorSet
<1> QED
  BY <1>5, <1>6

\* A response of the current term is about entries that all stages have, a
\* response of another term drops nothing.
LEMMA RespStable ==
  ASSUME NEW L, ClusterOk(L), NEW B, NEW T, NEW V, StagesOk(L, B, T, V), 1 \in DOMAIN B,
         NEW q, NEW b, NEW un, UnstableOk(L, un, q, b, B, T, V), un.snap = None,
         NEW r, RespOk(L, r, B[1]),
         NEW un2, un2 = IF r.term = V.term THEN StabledTo(un, r.id) ELSE un
  PROVE  /\ UnstableOk(L, un2, q, b, B, T, V) /\ un2.snap = None /\ un2.offset >= un.offset
         /\ \/ un2.offset = un.offset
            \/ \A j \in DOMAIN T : SameTo(L, T[j], V, un2.offset - 1) /\ T[j].term = V.term
<1>1. StageOk(L, V) /\ EntriesOk(L, un, V) /\ StageOk(L, B[1])
  BY ConstStages DEF UnstableOk
<1>2. r \in Resps /\ r.id \in Ids /\ r.id.index \in Nat /\ un.offset \in Nat \ {0}
  BY <1>1, UnstableType DEF RespOk, Resps, Ids
<1>3. CASE un2 = un
  BY <1>2, <1>3
<1>4. CASE un2 # un
  <2>1. r.term = V.term /\ un2 = StabledTo(un, r.id)
    BY <1>4
  <2>2. PICK i : i = r.id.index
    OBVIOUS
  <2>3. Dropped(L, un, un2, V, i) /\ L[V.lt][i] = r.id.term
    BY <1>1, <1>2, <1>4, <2>1, <2>2, StabledIs
  <2>4. i \in Nat /\ i > 0 /\ un.offset <= i /\ i <= V.last /\ un2.offset = i + 1 /\ un2.snap = un.snap
    BY <2>3 DEF Dropped
  <2>5. r.id # None
    BY <2>2, <2>4 DEF None
  <2>6. i = B[1].last /\ L[B[1].lt][i] = L[V.lt][i] /\ B[1].term = V.term
    BY <2>1, <2>2, <2>3, <2>5 DEF RespOk
  <2>7. i <= B[1].last
    BY <2>4, <2>6
  <2>8. \A j \in DOMAIN T : SameTo(L, T[j], V, i) /\ T[j].term = V.term
    BY <2>4, <2>6, <2>7, StoredTo
  <2>9. UnstableOk(L, un2, q, b, B, T, V)
    BY <2>3, <2>8, StabledOk
  <2>10. un2.offset >= un.offset
    BY <1>2, <2>4
  <2>11. un2.offset - 1 = i
    BY <2>4
  <2> QED
    BY <2>4, <2>8, <2>9, <2>10, <2>11
<1> QED
  BY <1>3, <1>4

\* Dropping entries and dropping the snapshot commute.
LEMMA ClearCommutes ==
  ASSUME NEW un \in Unstables, NEW id, NEW i, un.snap # None, un.snap.index = i
  PROVE  /\ StableSnapTo(StabledTo(un, id), i) = StabledTo(Cleared(un), id)
         /\ StableSnapTo(un, i) = Cleared(un)
<1>1. StableSnapTo(un, i) = Cleared(un)
  BY DEF StableSnapTo, Cleared
<1>2. PICK v : v = Cleared(un)
  OBVIOUS
<1>3. v.entries = un.entries /\ v.offset = un.offset /\ v.inProgress = un.inProgress
  BY <1>2 DEF Cleared, Unstables
<1>4. CASE \/ id.index < un.offset
           \/ id.index >= un.offset + Len(un.entries)
           \/ un.entries[id.index - un.offset + 1] # id.term
  <2>1. StabledTo(un, id) = un
    BY <1>4 DEF StabledTo
  <2>2. StabledTo(v, id) = v
    BY <1>3, <1>4 DEF StabledTo
  <2> QED
    BY <1>1, <1>2, <2>1, <2>2
<1>5. CASE ~(\/ id.index < un.offset
             \/ id.index >= un.offset + Len(un.entries)
             \/ un.entries[id.index - un.offset + 1] # id.term)
  <2>1. PICK h, o, p : /\ h = SubSeq(un.entries, id.index + 2 - un.offset, Len(un.entries))
                       /\ o = id.index + 1 /\ p = MaxOf(un.inProgress, id.index + 1)
    OBVIOUS
  <2>2. StabledTo(un, id) = [un EXCEPT !.entries = h, !.offset = o, !.inProgress = p]
    BY <1>5, <2>1 DEF StabledTo
  <2>3. StabledTo(v, id) = [v EXCEPT !.entries = h, !.offset = o, !.inProgress = p]
    BY <1>3, <1>5, <2>1 DEF StabledTo
  <2>4. PICK w : w = [un EXCEPT !.entries = h, !.offset = o, !.inProgress = p]
    OBVIOUS
  <2>5. w.snap = un.snap
    BY <2>4 DEF Unstables
  <2>6. StableSnapTo(w, i) = [w EXCEPT !.snap = None, !.snapBusy = FALSE]
    BY <2>5 DEF StableSnapTo
  <2>7. [w EXCEPT !.snap = None, !.snapBusy = FALSE]
          = [v EXCEPT !.entries = h, !.offset = o, !.inProgress = p]
    BY <1>2, <2>4 DEF Cleared, Unstables
  <2> QED
    BY <1>1, <1>2, <2>2, <2>3, <2>4, <2>6, <2>7
<1> QED
  BY <1>4, <1>5

\* The unstable log after a response, and whether it ended the snapshot.
LEMMA RespUnstable ==
  ASSUME NEW B, NEW T, NEW V, GhostInv(B, T, V), 1 \in DOMAIN B,
         NEW r, r = appendBack[1], RespOk(leader, r, B[1]),
         NEW b2 \in Seq(Resps), NEW B2 \in Seq(Stages(leader)), Takes(appendBack, b2, B, B2),
         NEW un2, un2 = IF r.snap = None THEN StableResp(r)
                        ELSE StableSnapTo(StableResp(r), r.snap.index)
  PROVE  /\ UnstableOk(leader, un2, appendQ, b2, B2, T, V) /\ un2.offset >= u.offset
         /\ \/ un2.snap = u.snap
            \/ /\ un2.snap = None /\ u.snap # None /\ r.snap # None /\ r.snap.index = u.snap.index
         /\ u.snap # None => r.snap.index <= u.snap.index
         /\ un2.snap # None => un2 = u
         /\ \/ un2.offset = u.offset
            \/ \A j \in DOMAIN T : SameTo(leader, T[j], V, un2.offset - 1) /\ T[j].term = V.term
<1>1. /\ ClusterOk(leader) /\ StagesOk(leader, B, T, V) /\ StageOk(leader, V) /\ V.term = term
      /\ BackOk(leader, appendBack, B) /\ UnstableOk(leader, u, appendQ, appendBack, B, T, V)
      /\ EntriesOk(leader, u, V)
  BY GhostFacts
<1>2. /\ u \in Unstables /\ u.offset \in Nat \ {0} /\ u.snap.index \in Nat /\ Len(u.entries) \in Nat
      /\ V.last \in Nat
  BY <1>1, UnstableType, StageType
<1>3. /\ r \in Resps /\ r.id \in Ids /\ r.id.index \in Nat /\ r.snap.index \in Nat
      /\ r.term = B[1].term /\ r.snap.index <= B[1].commit
  BY DEF RespOk, Resps, Ids
<1>4. StageOk(leader, B[1]) /\ B[1].commit \in Nat /\ B[1].last \in Nat
  BY <1>1, ConstStages, StageType
<1>5. StableResp(r) = IF r.term = V.term THEN StabledTo(u, r.id) ELSE u
  BY <1>1 DEF StableResp, StableTo, StabledTo
<1>6. CASE u.snap = None
  <2>1. PICK v : v = IF r.term = V.term THEN StabledTo(u, r.id) ELSE u
    OBVIOUS
  <2>2. /\ UnstableOk(leader, v, appendQ, appendBack, B, T, V) /\ v.snap = None /\ v.offset >= u.offset
        /\ \/ v.offset = u.offset
           \/ \A j \in DOMAIN T : SameTo(leader, T[j], V, v.offset - 1) /\ T[j].term = V.term
    BY <1>1, <1>6, <2>1, RespStable
  <2>3. un2 = v
    BY <1>5, <2>1, <2>2 DEF StableSnapTo
  <2>4. UnstableOk(leader, v, appendQ, b2, B2, T, V)
    BY <1>1, <2>2, TakeUnstable
  <2> QED
    BY <1>6, <2>2, <2>3, <2>4
<1>7. CASE u.snap # None /\ B[1].commit < u.snap.index
  <2>1. SnapOk(leader, u, appendQ, appendBack, B, T, V)
    BY <1>1, <1>7 DEF UnstableOk
  <2>2. /\ u.offset = u.snap.index + 1 /\ 0 < u.snap.index
        /\ leader[V.lt][u.snap.index] = u.snap.term /\ LacksSnap(leader, u.snap, B[1], V)
    BY <2>1 DEF SnapOk
  <2>3. r.snap.index < u.snap.index
    BY <1>2, <1>3, <1>4, <1>7
  <2>4. StableResp(r) = u
    <3>1. SUFFICES ASSUME StableResp(r) # u
                   PROVE  FALSE
      OBVIOUS
    <3>2. r.term = V.term /\ StabledTo(u, r.id) # u
      BY <1>5, <3>1
    <3>3. PICK v, i : v = StabledTo(u, r.id) /\ i = r.id.index
      OBVIOUS
    <3>4. Dropped(leader, u, v, V, i) /\ leader[V.lt][i] = r.id.term
      BY <1>1, <1>3, <3>2, <3>3, StabledIs
    <3>5. i \in Nat /\ i > 0 /\ u.offset <= i /\ i <= V.last
      BY <3>4 DEF Dropped
    <3>6. r.id # None
      BY <3>3, <3>5 DEF None
    <3>7. i = B[1].last /\ leader[B[1].lt][i] = leader[V.lt][i] /\ B[1].term = V.term
      BY <3>2, <3>3, <3>4, <3>6 DEF RespOk
    <3>8. u.snap.index < i /\ i <= B[1].last
      BY <1>2, <2>2, <3>5, <3>7
    <3> QED
      BY <1>1, <1>2, <1>4, <1>7, <2>2, <3>5, <3>7, <3>8, SnapShields
  <2>5. un2 = u
    <3>1. u.snap.index # r.snap.index
      BY <1>2, <1>3, <2>3
    <3> QED
      BY <2>4, <3>1 DEF StableSnapTo
  <2>6. u.snap # None => appendBack[1].snap.index # u.snap.index
    BY <1>2, <1>3, <2>3
  <2>7. UnstableOk(leader, u, appendQ, b2, B2, T, V)
    BY <1>1, <2>6, TakeUnstable
  <2>8. u.offset >= u.offset /\ r.snap.index <= u.snap.index
    BY <1>2, <1>3, <2>3
  <2> QED
    BY <2>5, <2>7, <2>8
<1>8. CASE u.snap # None /\ B[1].commit >= u.snap.index
  <2>1. SnapOk(leader, u, appendQ, appendBack, B, T, V)
    BY <1>1, <1>8 DEF UnstableOk
  <2>2. 0 < u.snap.index
    BY <2>1 DEF SnapOk
  <2>3. appendBack \in Seq(Resps) /\ Len(appendBack) = Len(B)
    BY <1>1 DEF BackOk
  <2>4. u.snapBusy /\ r.snap.index = u.snap.index
    BY <1>1, <1>2, <1>8, <2>1, <2>3, SnapNamed
  <2>5. r.snap # None
    BY <2>2, <2>4 DEF None
  <2>6. PICK w : w = Cleared(u)
    OBVIOUS
  <2>7. UnstableOk(leader, w, appendQ, appendBack, B, T, V)
    BY <1>1, <1>8, <2>4, <2>6, ClearedOk
  <2>8. w.snap = None /\ w.offset = u.offset
    BY <1>2, <2>6 DEF Cleared, Unstables
  <2>9. PICK v : v = IF r.term = V.term THEN StabledTo(w, r.id) ELSE w
    OBVIOUS
  <2>10. /\ UnstableOk(leader, v, appendQ, appendBack, B, T, V) /\ v.snap = None /\ v.offset >= w.offset
         /\ \/ v.offset = w.offset
            \/ \A j \in DOMAIN T : SameTo(leader, T[j], V, v.offset - 1) /\ T[j].term = V.term
    BY <1>1, <2>7, <2>8, <2>9, RespStable
  <2>11. un2 = v
    <3>1. /\ StableSnapTo(StabledTo(u, r.id), r.snap.index) = StabledTo(w, r.id)
          /\ StableSnapTo(u, r.snap.index) = w
      BY <1>2, <1>8, <2>4, <2>6, ClearCommutes
    <3> QED
      BY <1>5, <2>5, <2>9, <3>1
  <2>12. UnstableOk(leader, v, appendQ, b2, B2, T, V)
    BY <1>1, <2>10, TakeUnstable
  <2>13. r.snap.index <= u.snap.index
    BY <1>2, <2>4
  <2> QED
    BY <1>8, <2>4, <2>5, <2>8, <2>10, <2>11, <2>12, <2>13
<1>9. B[1].commit < u.snap.index \/ B[1].commit >= u.snap.index
  BY <1>2, <1>4
<1> QED
  BY <1>6, <1>7, <1>8, <1>9

\* Within a term a message does not write again what both stages share.
LEMMA WritesNew ==
  ASSUME NEW L, NEW a, NEW b, NEW V, NEW m, MsgOk(L, m, a, b), m.snap = None, m.ents # <<>>,
         a.last \in Nat, NEW k \in Int, SameTo(L, a, V, k), SameTo(L, b, V, k), a.term = b.term
  PROVE  m.first > k
<1>1. m \in Appends /\ WritesOk(L, m, a, b)
  BY DEF MsgOk
<1>2. m.first \in Nat /\ m.first > 0 /\ ~Has(L, a, m.first, L[b.lt][m.first])
  BY <1>1 DEF WritesOk, EntsOk, Appends
<1>3. SUFFICES ASSUME m.first <= k
               PROVE  FALSE
  BY <1>2
<1>4. m.first \in 1 .. k /\ k <= a.last
  BY <1>2, <1>3 DEF SameTo
<1>5. L[a.lt][m.first] = L[V.lt][m.first] /\ L[b.lt][m.first] = L[V.lt][m.first]
  BY <1>4 DEF SameTo
<1>6. m.first \in 1 .. a.last
  BY <1>4
<1> QED
  BY <1>2, <1>5, <1>6 DEF Has

\* A response tells that what it names is not in flight any more: everything
\* sent before it is stored, and nothing sent since goes back.
LEMMA FlightResp ==
  ASSUME NEW L, ClusterOk(L), NEW B, NEW T, NEW V, StagesOk(L, B, T, V),
         NEW q, QueueOk(L, q, T), NEW b, NEW un, UnstableOk(L, un, q, b, B, T, V),
         NEW m \in Stores, NEW c, CursorOk(L, c, un, m, q, T, V), FlightOk(c, un, m, q, T),
         NEW i \in Nat, i <= T[1].commit,
         NEW c2, c2.applying \in Nat, c.applying <= c2.applying,
         c2.applying = c.applying \/ c2.applying = i,
         NEW un2, \/ un2.snap = un.snap
                  \/ un2.snap = None /\ un.snap # None /\ i = un.snap.index,
         un2.snap # None => un2 = un,
         \/ un2.offset = un.offset
         \/ /\ un2.offset \in Nat
            /\ \A j \in DOMAIN T : SameTo(L, T[j], V, un2.offset - 1) /\ T[j].term = V.term
  PROVE  FlightOk(c2, un2, m, q, T)
<1>1. /\ 1 \in DOMAIN T /\ DOMAIN T = 1 .. Len(T) /\ Len(T) \in DOMAIN T
      /\ \A j \in DOMAIN T : StageOk(L, T[j])
      /\ \A j \in DOMAIN T : \A k \in DOMAIN T : j <= k => Later(L, T[j], T[k])
  BY ConstStages
<1>2. \A j \in DOMAIN T : T[j].commit \in Nat /\ T[j].last \in Nat
  BY <1>1, StageType
<1>3. ASSUME NEW j \in DOMAIN T
      PROVE  i <= T[j].commit
  <2>1. 1 <= j
    BY <1>1
  <2>2. T[1].commit <= T[j].commit
    BY <1>1, <2>1 DEF Later
  <2> QED
    BY <1>1, <1>2, <2>2
<1>4. /\ q \in Seq(Appends) /\ Len(T) = Len(q) + 1
      /\ \A j \in DOMAIN q : MsgOk(L, q[j], T[j], T[j + 1])
  BY DEF QueueOk
<1>5. \A j \in DOMAIN q : j \in DOMAIN T /\ j + 1 \in DOMAIN T
  BY <1>1, <1>4, SeqType
<1>6. EntriesOk(L, un, V) /\ c \in CursorSet /\ c.applying < un.offset
  BY DEF UnstableOk, CursorOk
<1>7. un.offset \in Nat /\ un.snap.index \in Nat /\ c.applying \in Nat /\ m.base \in Nat
  BY <1>6, UnstableType DEF CursorSet, Stores
<1>8. ASSUME NEW j \in DOMAIN q
      PROVE  /\ q[j].first \in Nat /\ q[j].snap.index \in Nat
             /\ q[j].ents # <<>> => q[j].first > i
             /\ q[j].snap # None => q[j].snap.index > i
  <2>1. /\ q[j].first \in Nat /\ q[j].snap.index \in Nat
        /\ q[j].ents # <<>> => q[j].first > T[j].commit
        /\ q[j].snap # None => q[j].snap.index > T[j].commit
    BY <1>2, <1>4, <1>5, WritesBeyond
  <2>2. i <= T[j].commit /\ T[j].commit \in Nat
    BY <1>2, <1>3, <1>5
  <2> QED
    BY <2>1, <2>2
<1>9. m.base <= c2.applying \/ m.base <= T[1].commit
  BY <1>7 DEF FlightOk
<1>10. ASSUME NEW j \in DOMAIN q
       PROVE  /\ q[j].ents # <<>> => q[j].first > c2.applying
              /\ q[j].snap # None => q[j].snap.index > c2.applying
  BY <1>8 DEF FlightOk
<1>11. ASSUME NEW j \in DOMAIN q, un2.snap = None
       PROVE  q[j].snap = None
  <2>1. CASE un.snap = None
    BY <2>1 DEF FlightOk
  <2>2. CASE un.snap # None /\ i = un.snap.index
    <3>1. SUFFICES ASSUME q[j].snap # None
                   PROVE  FALSE
      OBVIOUS
    <3>2. q[j].snap.index > un.snap.index
      BY <1>8, <2>2, <3>1
    <3>3. q[j].snap.index <= MaxOf(c.applying, un.snap.index)
      BY DEF CursorOk
    <3>4. un.offset = un.snap.index + 1
      BY <2>2 DEF UnstableOk, SnapOk
    <3>5. q[j].snap.index \in Nat
      BY <1>8
    <3> QED
      BY <1>6, <1>7, <3>2, <3>3, <3>4, <3>5 DEF MaxOf
  <2> QED
    BY <1>11, <2>1, <2>2
<1>12. ASSUME NEW j \in DOMAIN q, un2.snap = None, q[j].ents # <<>>
       PROVE  q[j].first >= un2.offset
  <2>1. q[j].first >= un.offset
    <3>1. CASE un.snap = None
      BY <1>12, <3>1 DEF FlightOk
    <3>2. CASE un.snap # None /\ i = un.snap.index
      <4>1. un.offset = un.snap.index + 1
        BY <3>2 DEF UnstableOk, SnapOk
      <4> QED
        BY <1>7, <1>8, <1>12, <3>2, <4>1
    <3> QED
      BY <1>12, <3>1, <3>2
  <2>2. CASE un2.offset = un.offset
    BY <2>1, <2>2
  <2>3. CASE /\ un2.offset \in Nat
             /\ \A k \in DOMAIN T : SameTo(L, T[k], V, un2.offset - 1) /\ T[k].term = V.term
    <3>1. q[j].snap = None /\ MsgOk(L, q[j], T[j], T[j + 1]) /\ q[j].first \in Nat
      BY <1>4, <1>8, <1>11, <1>12
    <3>2. PICK k \in Int : k = un2.offset - 1
      BY <2>3
    <3>3. SameTo(L, T[j], V, k) /\ SameTo(L, T[j + 1], V, k) /\ T[j].term = T[j + 1].term
      BY <1>5, <2>3, <3>2
    <3>4. q[j].first > k
      BY <1>2, <1>5, <1>12, <3>1, <3>3, WritesNew
    <3> QED
      BY <2>3, <3>1, <3>2, <3>4
  <2> QED
    BY <2>2, <2>3
<1>13. ASSUME un2.snap # None, ~un2.snapBusy
       PROVE  c2.applying < un2.snap.index
  <2>1. un2 = un /\ c.applying < un.snap.index
    BY <1>13 DEF FlightOk
  <2>2. T[Len(T)].commit < un.snap.index
    BY <1>13, <2>1 DEF UnstableOk, SnapOk
  <2>3. i < un.snap.index
    BY <1>1, <1>2, <1>3, <1>7, <2>2
  <2> QED
    BY <2>1, <2>3
<1> QED
  BY <1>9, <1>10, <1>11, <1>12, <1>13 DEF FlightOk

\* MsgStorageAppendResp keeps the invariant.
LEMMA StepAppendRespStep ==
  ASSUME NEW B, NEW T, NEW V, GhostInv(B, T, V), StepAppendResp
  PROVE  LogInv'
<1>1. /\ ClusterOk(leader) /\ leader \in Histories /\ V.term = term /\ crashes \in Nat
      /\ StagesOk(leader, B, T, V) /\ StageOk(leader, V) /\ ~panicked
      /\ StoreOk(leader, ms, T[1]) /\ QueueOk(leader, appendQ, T)
      /\ BackOk(leader, appendBack, B) /\ SnapsStored(appendBack, ms)
      /\ EntriesOk(leader, u, V)
      /\ CursorOk(leader, cur, u, ms, appendQ, T, V) /\ cur \in CursorSet
      /\ ApplyingOk(applyQ, cur) /\ ApplyingOk(applyBack, cur)
      /\ AcksOk(leader, acked, after, appendQ, T, V) /\ FlightOk(cur, u, ms, appendQ, T)
      /\ UnstableOk(leader, u, appendQ, appendBack, B, T, V)
  BY GhostFacts
<1>2. /\ appendBack \in Seq(Resps) /\ appendBack # <<>> /\ Len(appendBack) = Len(B)
      /\ B \in Seq(Stages(leader))
  BY <1>1 DEF BackOk, StepAppendResp, StagesOk
<1>3. PICK r : r = appendBack[1]
  OBVIOUS
<1>4. /\ Head(appendBack) = r /\ Tail(appendBack) \in Seq(Resps) /\ Len(appendBack) \in Nat
      /\ Len(appendBack) > 0 /\ Len(Tail(appendBack)) = Len(appendBack) - 1
      /\ \A j \in 1 .. Len(Tail(appendBack)) : Tail(appendBack)[j] = appendBack[j + 1]
  BY <1>2, <1>3, TailIs
<1>5. PICK b2, B2 : b2 = Tail(appendBack) /\ B2 = Tail(B)
  OBVIOUS
<1>6. B # <<>> /\ 1 \in DOMAIN B /\ 1 \in DOMAIN appendBack
  BY <1>2, <1>4, SeqType
<1>7. /\ B2 \in Seq(Stages(leader)) /\ Len(B2) = Len(B) - 1
      /\ \A j \in 1 .. Len(B2) : B2[j] = B[j + 1]
  BY <1>2, <1>5, <1>6, TailIs
<1>8. Takes(appendBack, b2, B, B2) /\ b2 \in Seq(Resps)
  BY <1>2, <1>4, <1>5, <1>7 DEF Takes
<1>9. RespOk(leader, r, B[1])
  BY <1>1, <1>3, <1>6 DEF BackOk
<1>10. /\ appendBack' = b2
       /\ u' = IF r.snap = None THEN StableResp(r) ELSE StableSnapTo(StableResp(r), r.snap.index)
       /\ r.snap = None => cur' = cur /\ panicked' = panicked
       /\ r.snap # None => cur' = AppliedTo(r.snap.index, 0) /\ panicked' = AppliedPanics(r.snap.index)
       /\ UNCHANGED <<leader, term, ms, after, appendQ, applyQ, applyBack, acked, crashes>>
  BY <1>4, <1>5 DEF StepAppendResp
<1>11. PICK un2 : un2 = IF r.snap = None THEN StableResp(r)
                        ELSE StableSnapTo(StableResp(r), r.snap.index)
  OBVIOUS
<1>12. /\ UnstableOk(leader, un2, appendQ, b2, B2, T, V) /\ un2.offset >= u.offset
       /\ \/ un2.snap = u.snap
          \/ /\ un2.snap = None /\ u.snap # None /\ r.snap # None /\ r.snap.index = u.snap.index
       /\ u.snap # None => r.snap.index <= u.snap.index
       /\ un2.snap # None => un2 = u
       /\ \/ un2.offset = u.offset
          \/ \A j \in DOMAIN T : SameTo(leader, T[j], V, un2.offset - 1) /\ T[j].term = V.term
  BY <1>3, <1>6, <1>7, <1>8, <1>9, <1>11, RespUnstable
<1>13. u' = un2
  BY <1>10, <1>11
<1>14. StagesOk(leader, B2, T, V)
  BY <1>1, <1>7, <1>8, TakeStages
<1>15. BackOk(leader, b2, B2)
  BY <1>1, <1>8, TakeBack
<1>16. SnapsStored(b2, ms)
  <2>1. DOMAIN b2 = 1 .. Len(b2) /\ DOMAIN appendBack = 1 .. Len(appendBack)
    BY <1>2, <1>8, SeqType
  <2>2. ASSUME NEW j \in DOMAIN b2
        PROVE  b2[j] = appendBack[j + 1] /\ j + 1 \in DOMAIN appendBack
    BY <1>4, <1>5, <2>1
  <2> QED
    BY <1>1, <2>2 DEF SnapsStored
<1>17. r \in Resps /\ r.snap.index \in Nat /\ r.snap.index <= B[1].commit
  BY <1>9 DEF RespOk, Resps, Ids
<1>18. /\ StageOk(leader, B[1]) /\ Later(leader, B[1], T[1]) /\ 1 \in DOMAIN T
       /\ DOMAIN T = 1 .. Len(T)
       /\ \A j \in DOMAIN T : StageOk(leader, T[j]) /\ Later(leader, T[j], V) /\ Later(leader, T[1], T[j])
  <2>1. /\ 1 \in DOMAIN T /\ DOMAIN T = 1 .. Len(T)
        /\ \A j \in DOMAIN T : \A k \in DOMAIN T : j <= k => Later(leader, T[j], T[k])
        /\ StageOk(leader, B[1]) /\ Later(leader, B[1], T[1])
        /\ \A j \in DOMAIN T : StageOk(leader, T[j]) /\ Later(leader, T[j], V)
    BY <1>1, <1>6, ConstStages
  <2>2. \A j \in DOMAIN T : 1 <= j
    BY <2>1
  <2> QED
    BY <2>1, <2>2
<1>19. ASSUME NEW j \in DOMAIN T
       PROVE  /\ SameTo(leader, T[j], V, r.snap.index)
              /\ r.snap.index <= V.commit
  <2>1. /\ B[1].commit \in Nat /\ T[1].commit \in Nat /\ T[j].commit \in Nat /\ V.commit \in Nat
        /\ T[j].last \in Nat /\ V.last \in Nat
    BY <1>1, <1>18, StageType
  <2>2. B[1].commit <= T[1].commit /\ T[1].commit <= T[j].commit /\ T[j].commit <= V.commit
    BY <1>18 DEF Later
  <2>3. PICK c : c = T[j].commit /\ c \in Int /\ SameTo(leader, T[j], V, c)
    BY <1>1, <1>18, <2>1, <2>2, CommitStays
  <2>4. PICK k : k = r.snap.index /\ k \in Int /\ k <= c /\ k <= V.commit
    BY <1>17, <2>1, <2>2, <2>3
  <2>5. SameTo(leader, T[j], V, k)
    BY <2>1, <2>3, <2>4, SameBelow
  <2> QED
    BY <2>4, <2>5
<1>20. /\ cur.applying \in Nat /\ cur.applied \in Nat /\ cur.committed \in Nat
       /\ cur.applied <= cur.applying /\ cur.applying <= cur.committed /\ cur.committed = V.commit
       /\ cur.applying < u.offset /\ ms.base <= MaxOf(cur.applying, u.snap.index)
       /\ \A j \in DOMAIN T : SameTo(leader, T[j], V, cur.applying)
  BY <1>1 DEF CursorOk, CursorSet
<1>21. /\ u.offset \in Nat \ {0} /\ u.snap.index \in Nat /\ un2.offset \in Nat
       /\ un2.snap.index \in Nat /\ ms \in Stores /\ ms.base \in Nat /\ appendQ \in Seq(Appends)
  <2>1. EntriesOk(leader, un2, V)
    BY <1>12 DEF UnstableOk
  <2> QED
    BY <1>1, <2>1, UnstableType, StoreType DEF QueueOk
<1>22. r.snap.index < u.offset
  <2>1. CASE u.snap = None
    <3>1. r.snap.index <= ms.base
      BY <1>1, <1>3, <1>6 DEF SnapsStored
    <3>2. u.snap.index = 0
      BY <2>1 DEF None
    <3>3. ms.base <= cur.applying
      BY <1>20, <1>21, <3>2 DEF MaxOf
    <3> QED
      BY <1>17, <1>20, <1>21, <3>1, <3>3
  <2>2. CASE u.snap # None
    <3>1. u.offset = u.snap.index + 1
      BY <2>2, GhostFacts DEF UnstableOk, SnapOk
    <3> QED
      BY <1>12, <1>17, <1>21, <2>2, <3>1
  <2> QED
    BY <2>1, <2>2
<1>23. ~panicked'
  <2>1. CASE r.snap = None
    BY <1>1, <1>10, <2>1
  <2>2. CASE r.snap # None
    <3>1. r.snap.index <= V.commit
      BY <1>18, <1>19
    <3>2. ~AppliedPanics(r.snap.index)
      BY <1>17, <1>20, <3>1 DEF AppliedPanics, MaxOf
    <3> QED
      BY <1>10, <2>2, <3>2
  <2> QED
    BY <2>1, <2>2
<1>24. /\ cur' \in CursorSet /\ cur'.committed = cur.committed /\ cur'.applied <= cur'.applying
       /\ cur'.applying \in Nat
       /\ \/ r.snap = None /\ cur'.applying = cur.applying
          \/ r.snap # None /\ cur'.applying = MaxOf(cur.applying, r.snap.index)
  <2>1. CASE r.snap = None
    BY <1>1, <1>10, <1>20, <2>1
  <2>2. CASE r.snap # None
    <3>1. PICK z : z = 0 /\ z \in Nat
      OBVIOUS
    <3>2. cur' = AppliedTo(r.snap.index, z)
      BY <1>10, <2>2, <3>1
    <3> QED
      BY <1>1, <1>17, <1>20, <2>2, <3>1, <3>2, AppliedIs
  <2> QED
    BY <2>1, <2>2
<1>25. cur'.applying = cur.applying \/ cur'.applying = r.snap.index
  BY <1>24 DEF MaxOf
<1>26. r.snap.index <= V.commit
  BY <1>18, <1>19
<1>27. /\ cur.applying <= cur'.applying /\ cur'.applying <= cur.committed
       /\ cur'.applying < un2.offset
       /\ \A j \in DOMAIN T : SameTo(leader, T[j], V, cur'.applying)
  <2>1. cur.applying <= cur'.applying
    BY <1>17, <1>20, <1>24 DEF MaxOf
  <2>2. cur'.applying <= cur.committed
    BY <1>17, <1>20, <1>25, <1>26
  <2>3. cur'.applying < un2.offset
    BY <1>12, <1>17, <1>20, <1>21, <1>22, <1>25
  <2>4. \A j \in DOMAIN T : SameTo(leader, T[j], V, cur'.applying)
    BY <1>19, <1>20, <1>25
  <2> QED
    BY <2>1, <2>2, <2>3, <2>4
<1>28. MaxOf(cur.applying, u.snap.index) <= MaxOf(cur'.applying, un2.snap.index)
  <2>1. CASE un2.snap = u.snap
    BY <1>20, <1>21, <1>24, <1>27, <2>1 DEF MaxOf
  <2>2. CASE un2.snap = None /\ r.snap # None /\ r.snap.index = u.snap.index
    <3>1. un2.snap.index = 0 /\ cur'.applying = MaxOf(cur.applying, u.snap.index)
      BY <1>24, <2>2 DEF None
    <3> QED
      BY <1>20, <1>21, <1>24, <3>1 DEF MaxOf
  <2> QED
    BY <1>12, <2>1, <2>2
<1>29. CursorOk(leader, cur', un2, ms, appendQ, T, V)
  BY <1>1, <1>21, <1>24, <1>27, <1>28, CursorRaise
<1>30. ApplyingOk(applyQ, cur') /\ ApplyingOk(applyBack, cur')
  BY <1>1, <1>24, <1>27, ReadyApplying
<1>31. FlightOk(cur', un2, ms, appendQ, T)
  <2>1. PICK i, c2 : i = r.snap.index /\ c2 = cur'
    OBVIOUS
  <2>2. i \in Nat /\ i <= T[1].commit
    <3>1. B[1].commit <= T[1].commit /\ B[1].commit \in Nat /\ T[1].commit \in Nat
      BY <1>18, <1>1, StageType DEF Later
    <3> QED
      BY <1>17, <2>1, <3>1
  <2>3. /\ c2.applying \in Nat /\ cur.applying <= c2.applying
        /\ c2.applying = cur.applying \/ c2.applying = i
    BY <1>24, <1>25, <1>27, <2>1
  <2>4. /\ \/ un2.snap = u.snap
           \/ un2.snap = None /\ u.snap # None /\ i = u.snap.index
        /\ un2.snap # None => un2 = u
        /\ \/ un2.offset = u.offset
           \/ /\ un2.offset \in Nat
              /\ \A j \in DOMAIN T : SameTo(leader, T[j], V, un2.offset - 1) /\ T[j].term = V.term
    BY <1>12, <1>21, <2>1
  <2>5. FlightOk(c2, un2, ms, appendQ, T)
    BY <1>1, <1>21, <2>2, <2>3, <2>4, FlightResp
  <2> QED
    BY <2>1, <2>5
<1> QED
  BY <1>1, <1>10, <1>12, <1>13, <1>14, <1>15, <1>16, <1>23, <1>29, <1>30, <1>31, LogInvNext

-----------------------------------------------------------------------------
(* The apply thread, compaction and restarts. *)

\* MsgStorageApplyResp keeps the invariant.
LEMMA StepApplyRespStep ==
  ASSUME NEW B, NEW T, NEW V, GhostInv(B, T, V), StepApplyResp
  PROVE  LogInv'
<1>1. /\ ClusterOk(leader) /\ leader \in Histories /\ V.term = term /\ crashes \in Nat
      /\ StagesOk(leader, B, T, V) /\ StageOk(leader, V)
      /\ StoreOk(leader, ms, T[1]) /\ QueueOk(leader, appendQ, T)
      /\ BackOk(leader, appendBack, B) /\ SnapsStored(appendBack, ms)
      /\ UnstableOk(leader, u, appendQ, appendBack, B, T, V) /\ EntriesOk(leader, u, V)
      /\ CursorOk(leader, cur, u, ms, appendQ, T, V) /\ cur \in CursorSet
      /\ ApplyingOk(applyQ, cur) /\ ApplyingOk(applyBack, cur)
      /\ AcksOk(leader, acked, after, appendQ, T, V) /\ FlightOk(cur, u, ms, appendQ, T)
  BY GhostFacts
<1>2. applyBack \in Seq(Applies) /\ applyBack # <<>> /\ \A j \in DOMAIN applyBack : applyBack[j].to <= cur.applying
  BY <1>1 DEF ApplyingOk, StepApplyResp
<1>3. PICK y : y = applyBack[1]
  OBVIOUS
<1>4. /\ Head(applyBack) = y /\ Tail(applyBack) \in Seq(Applies) /\ Len(applyBack) \in Nat
      /\ Len(applyBack) > 0 /\ Len(Tail(applyBack)) = Len(applyBack) - 1
      /\ \A j \in 1 .. Len(Tail(applyBack)) : Tail(applyBack)[j] = applyBack[j + 1]
  BY <1>2, <1>3, TailIs
<1>5. DOMAIN applyBack = 1 .. Len(applyBack) /\ 1 \in DOMAIN applyBack /\ y \in Applies
  <2>1. DOMAIN applyBack = 1 .. Len(applyBack)
    BY <1>2, SeqType
  <2>2. 1 \in DOMAIN applyBack
    BY <1>4, <2>1
  <2> QED
    BY <1>2, <1>3, <2>1, <2>2, SeqType
<1>6. y.to \in Nat /\ y.size \in Nat /\ y.to <= cur.applying
  BY <1>2, <1>3, <1>5 DEF Applies
<1>7. /\ applyBack' = Tail(applyBack) /\ cur' = AppliedTo(y.to, y.size)
      /\ panicked' = AppliedPanics(y.to)
      /\ UNCHANGED <<leader, term, u, ms, after, appendQ, applyQ, appendBack, acked, crashes>>
  BY <1>4 DEF StepApplyResp
<1>8. /\ cur.applying \in Nat /\ cur.applied \in Nat /\ cur.committed \in Nat
      /\ cur.applied <= cur.applying /\ cur.applying <= cur.committed
      /\ cur.applying < u.offset
      /\ \A j \in DOMAIN T : SameTo(leader, T[j], V, cur.applying)
  BY <1>1 DEF CursorOk, CursorSet
<1>9. /\ cur' \in CursorSet /\ cur'.committed = cur.committed /\ cur'.applied <= cur'.applying
      /\ cur'.applying = MaxOf(cur.applying, y.to)
  BY <1>1, <1>6, <1>7, <1>8, AppliedIs
<1>10. cur'.applying = cur.applying /\ cur.applying <= cur'.applying
  BY <1>6, <1>8, <1>9 DEF MaxOf
<1>11. ~panicked'
  <2>1. ~AppliedPanics(y.to)
    BY <1>6, <1>8 DEF AppliedPanics, MaxOf
  <2> QED
    BY <1>7, <2>1
<1>12. u.snap.index \in Nat /\ ms \in Stores /\ appendQ \in Seq(Appends)
  BY <1>1, UnstableType, StoreType DEF QueueOk
<1>13. MaxOf(cur.applying, u.snap.index) <= MaxOf(cur'.applying, u.snap.index)
  BY <1>8, <1>10, <1>12 DEF MaxOf
<1>14. CursorOk(leader, cur', u, ms, appendQ, T, V)
  BY <1>1, <1>8, <1>9, <1>10, <1>12, <1>13, CursorRaise
<1>15. ApplyingOk(applyQ, cur')
  BY <1>1, <1>9, <1>10, ReadyApplying
<1>16. ApplyingOk(applyBack', cur')
  <2>1. DOMAIN applyBack' = 1 .. Len(applyBack) - 1
    BY <1>4, <1>7, SeqType
  <2>2. ASSUME NEW j \in DOMAIN applyBack'
        PROVE  applyBack'[j].to <= cur'.applying
    <3>1. j \in 1 .. Len(Tail(applyBack)) /\ j + 1 \in DOMAIN applyBack
      BY <1>4, <1>5, <2>1
    <3>2. applyBack'[j] = applyBack[j + 1]
      BY <1>4, <1>7, <3>1
    <3> QED
      BY <1>2, <1>10, <3>1, <3>2
  <2> QED
    BY <1>4, <1>7, <2>2 DEF ApplyingOk
<1>17. FlightOk(cur', u, ms, appendQ, T)
  BY <1>1, <1>10 DEF FlightOk
<1> QED
  BY <1>1, <1>7, <1>11, <1>14, <1>15, <1>16, <1>17, LogInvNext

\* The apply thread keeps the invariant.
LEMMA ApplyThreadStep ==
  ASSUME NEW B, NEW T, NEW V, GhostInv(B, T, V), ApplyThread
  PROVE  LogInv'
<1>1. /\ leader \in Histories /\ V.term = term /\ crashes \in Nat /\ ~panicked
      /\ StagesOk(leader, B, T, V)
      /\ StoreOk(leader, ms, T[1]) /\ QueueOk(leader, appendQ, T)
      /\ BackOk(leader, appendBack, B) /\ SnapsStored(appendBack, ms)
      /\ UnstableOk(leader, u, appendQ, appendBack, B, T, V)
      /\ CursorOk(leader, cur, u, ms, appendQ, T, V)
      /\ ApplyingOk(applyQ, cur) /\ ApplyingOk(applyBack, cur)
      /\ AcksOk(leader, acked, after, appendQ, T, V) /\ FlightOk(cur, u, ms, appendQ, T)
  BY GhostFacts
<1>2. /\ applyQ \in Seq(Applies) /\ applyQ # <<>> /\ applyBack \in Seq(Applies)
      /\ \A j \in DOMAIN applyQ : applyQ[j].to <= cur.applying
      /\ \A j \in DOMAIN applyBack : applyBack[j].to <= cur.applying
  BY <1>1 DEF ApplyingOk, ApplyThread
<1>3. PICK y : y = applyQ[1]
  OBVIOUS
<1>4. /\ Head(applyQ) = y /\ Tail(applyQ) \in Seq(Applies) /\ Len(applyQ) \in Nat
      /\ Len(applyQ) > 0 /\ Len(Tail(applyQ)) = Len(applyQ) - 1
      /\ \A j \in 1 .. Len(Tail(applyQ)) : Tail(applyQ)[j] = applyQ[j + 1]
  BY <1>2, <1>3, TailIs
<1>5. DOMAIN applyQ = 1 .. Len(applyQ) /\ 1 \in DOMAIN applyQ /\ y \in Applies
  <2>1. DOMAIN applyQ = 1 .. Len(applyQ)
    BY <1>2, SeqType
  <2>2. 1 \in DOMAIN applyQ
    BY <1>4, <2>1
  <2> QED
    BY <1>2, <1>3, <2>1, <2>2, SeqType
<1>6. /\ applyQ' = Tail(applyQ) /\ applyBack' = Append(applyBack, y)
      /\ UNCHANGED <<leader, term, u, cur, ms, after, appendQ, appendBack, acked, panicked, crashes>>
  BY <1>4 DEF ApplyThread
<1>7. ApplyingOk(applyQ', cur)
  <2>1. DOMAIN applyQ' = 1 .. Len(applyQ) - 1
    BY <1>4, <1>6, SeqType
  <2>2. ASSUME NEW j \in DOMAIN applyQ'
        PROVE  applyQ'[j].to <= cur.applying
    <3>1. j \in 1 .. Len(Tail(applyQ)) /\ j + 1 \in DOMAIN applyQ
      BY <1>4, <1>5, <2>1
    <3>2. applyQ'[j] = applyQ[j + 1]
      BY <1>4, <1>6, <3>1
    <3> QED
      BY <1>2, <3>1, <3>2
  <2> QED
    BY <1>4, <1>6, <2>2 DEF ApplyingOk
<1>8. ApplyingOk(applyBack', cur)
  <2>1. /\ applyBack' \in Seq(Applies) /\ Len(applyBack') = Len(applyBack) + 1
        /\ \A j \in DOMAIN applyBack : applyBack'[j] = applyBack[j]
        /\ applyBack'[Len(applyBack) + 1] = y
    BY <1>2, <1>5, <1>6, AppendIs
  <2>2. PICK n : n = Len(applyBack) /\ n \in Nat /\ DOMAIN applyBack = 1 .. n
    BY <1>2, SeqType
  <2>3. DOMAIN applyBack' = 1 .. n + 1
    BY <2>1, <2>2, SeqType
  <2>4. ASSUME NEW j \in DOMAIN applyBack'
        PROVE  applyBack'[j].to <= cur.applying
    <3>1. CASE j = n + 1
      BY <1>2, <1>3, <1>5, <2>1, <2>2, <3>1
    <3>2. CASE j # n + 1
      <4>1. j \in DOMAIN applyBack
        BY <2>2, <2>3, <3>2
      <4> QED
        BY <1>2, <2>1, <4>1
    <3> QED
      BY <3>1, <3>2
  <2> QED
    BY <2>1, <2>4 DEF ApplyingOk
<1> QED
  BY <1>1, <1>6, <1>7, <1>8, LogInvNext

\* Compact keeps the invariant.
LEMMA CompactStep ==
  ASSUME NEW B, NEW T, NEW V, GhostInv(B, T, V), NEW i \in Indexes, Compact(i)
  PROVE  LogInv'
<1>1. /\ ClusterOk(leader) /\ leader \in Histories /\ V.term = term /\ crashes \in Nat
      /\ StagesOk(leader, B, T, V)
      /\ StoreOk(leader, ms, T[1]) /\ QueueOk(leader, appendQ, T)
      /\ BackOk(leader, appendBack, B) /\ SnapsStored(appendBack, ms)
      /\ UnstableOk(leader, u, appendQ, appendBack, B, T, V) /\ EntriesOk(leader, u, V)
      /\ CursorOk(leader, cur, u, ms, appendQ, T, V) /\ cur \in CursorSet
      /\ ApplyingOk(applyQ, cur) /\ ApplyingOk(applyBack, cur)
      /\ AcksOk(leader, acked, after, appendQ, T, V) /\ FlightOk(cur, u, ms, appendQ, T)
  BY GhostFacts
<1>2. PICK x : x = T[1] /\ StageOk(leader, x) /\ StoreOk(leader, ms, x)
  BY <1>1, ConstStages
<1>3. /\ x.last \in Nat /\ x.commit \in Nat /\ x.commit <= x.last /\ i \in Nat
      /\ ms \in Stores /\ ms.base \in Nat /\ ms.ents \in Seq(Nat) /\ Len(ms.ents) \in Nat
  BY <1>1, <1>2, StageType, StoreType, BoundsAssumption DEF Indexes
<1>4. /\ ms.base <= x.last /\ Len(ms.ents) = x.last - ms.base + 1
      /\ \A j \in 1 .. Len(ms.ents) : ms.ents[j] = EntryOf(leader, x, ms.base + j - 1)
      /\ ms.hs = [term |-> x.term, commit |-> x.commit]
  BY <1>2 DEF StoreOk
<1>5. /\ ms.base < i /\ i <= cur.applied
      /\ ms' = [ms EXCEPT !.base = i, !.ents = SubSeq(@, i - ms.base + 1, Len(@))]
      /\ panicked' = (i > StoreLast)
      /\ UNCHANGED <<leader, term, u, cur, after, appendQ, applyQ, appendBack, applyBack, acked, crashes>>
  BY DEF Compact
<1>6. i <= cur.applying /\ cur.applying \in Nat /\ i <= x.last
  <2>1. cur.applied \in Nat /\ cur.applying \in Nat /\ cur.applied <= cur.applying
    BY <1>1 DEF CursorOk, CursorSet
  <2>2. cur.applying <= x.last
    BY <1>1, <1>2, ConstStages DEF CursorOk, SameTo
  <2> QED
    BY <1>3, <1>5, <2>1, <2>2
<1>7. PICK g, n, a : g = ms.ents /\ n = Len(ms.ents) /\ a = i - ms.base + 1
  OBVIOUS
<1>8. PICK p, l : p = ms.base /\ l = x.last
  OBVIOUS
<1>9. g \in Seq(Nat) /\ Len(g) = n /\ n \in Nat /\ p \in Nat /\ l \in Nat /\ n = l - p + 1 /\ a = i - p + 1
  BY <1>3, <1>4, <1>7, <1>8
<1>10. p < i /\ i <= l
  BY <1>3, <1>5, <1>6, <1>8
<1>11. a \in Nat \ {0} /\ a <= n /\ n <= Len(g)
  BY <1>3, <1>9, <1>10
<1>12. PICK h : h = SubSeq(g, a, n)
  OBVIOUS
<1>13. /\ h \in Seq(Nat) /\ Len(h) = n - a + 1
       /\ \A j \in 1 .. n - a + 1 : h[j] = g[a + j - 1]
  <2>1. /\ SubSeq(g, a, n) \in Seq(Nat) /\ Len(SubSeq(g, a, n)) = n - a + 1
        /\ \A j \in 1 .. n - a + 1 : SubSeq(g, a, n)[j] = g[a + j - 1]
    BY <1>9, <1>11, TailOf
  <2> QED
    BY <1>12, <2>1
<1>14. ms' = [ms EXCEPT !.base = i, !.ents = h]
  BY <1>5, <1>7, <1>12
<1>15. ms' \in Stores /\ ms'.base = i /\ ms'.ents = h /\ ms'.hs = ms.hs
  BY <1>3, <1>13, <1>14 DEF Stores
<1>16. Len(h) = l - i + 1
  BY <1>3, <1>9, <1>13
<1>17. ASSUME NEW j \in 1 .. Len(h)
       PROVE  h[j] = EntryOf(leader, x, i + j - 1)
  <2>1. j \in 1 .. n - a + 1 /\ a + j - 1 \in 1 .. n /\ p + (a + j - 1) - 1 = i + j - 1
    BY <1>3, <1>9, <1>11, <1>13
  <2>2. g[a + j - 1] = EntryOf(leader, x, p + (a + j - 1) - 1)
    BY <1>4, <1>7, <1>8, <2>1
  <2> QED
    BY <1>13, <2>1, <2>2
<1>18. StoreOk(leader, ms', T[1])
  BY <1>2, <1>4, <1>6, <1>8, <1>15, <1>16, <1>17 DEF StoreOk
<1>19. ~panicked'
  <2>1. StoreLast = l
    BY <1>3, <1>4, <1>8 DEF StoreLast
  <2>2. ~(i > StoreLast)
    BY <1>3, <1>9, <1>10, <2>1
  <2> QED
    BY <1>5, <2>2
<1>20. CursorOk(leader, cur, u, ms', appendQ, T, V)
  <2>1. cur.applied \in Nat /\ cur.applying \in Nat /\ u.snap.index \in Nat /\ cur.applied <= cur.applying
    BY <1>1, UnstableType DEF CursorOk, CursorSet
  <2>2. ms'.base <= MaxOf(cur.applying, u.snap.index)
    BY <1>3, <1>5, <1>15, <2>1 DEF MaxOf
  <2> QED
    BY <1>1, <2>2 DEF CursorOk
<1>21. SnapsStored(appendBack, ms')
  <2>1. ASSUME NEW j \in DOMAIN appendBack
        PROVE  appendBack[j].snap.index <= ms'.base
    <3>1. appendBack[j] \in Resps
      BY <1>1, SeqType DEF BackOk
    <3>2. appendBack[j].snap.index \in Nat /\ appendBack[j].snap.index <= ms.base
      BY <1>1, <3>1 DEF SnapsStored, Resps, Ids
    <3> QED
      BY <1>3, <1>5, <1>15, <3>2
  <2> QED
    BY <2>1 DEF SnapsStored
<1>22. FlightOk(cur, u, ms', appendQ, T)
  <2>1. ms'.base <= cur.applying
    BY <1>3, <1>15, <1>6
  <2> QED
    BY <1>1, <2>1 DEF FlightOk
<1> QED
  BY <1>1, <1>5, <1>18, <1>19, <1>20, <1>21, <1>22, LogInvNext

\* Nothing is in flight and nothing unstable: the node reads what is stored.
LEMMA QuietParts ==
  ASSUME NEW L, ClusterOk(L), NEW x, StageOk(L, x), NEW m, StoreOk(L, m, x), m.base <= x.commit,
         NEW un, un = EmptyUnstable(x.last + 1), NEW c, c = Cursors(m.base, x.commit),
         NEW T, T = <<x>>, NEW e, e = <<>>
  PROVE  /\ StagesOk(L, e, T, x) /\ QueueOk(L, e, T) /\ BackOk(L, e, e) /\ T[1] = x
         /\ UnstableOk(L, un, e, e, e, T, x) /\ CursorOk(L, c, un, m, e, T, x)
         /\ ApplyingOk(e, c) /\ SnapsStored(e, m) /\ FlightOk(c, un, m, e, T)
<1>1. /\ x.last \in Nat /\ x.commit \in Nat /\ x.commit <= x.last /\ x \in Stages(L)
  BY StageType DEF StageOk
<1>2. m.base \in Nat /\ m.base <= x.commit
  BY StoreType
<1>3. T \in Seq(Stages(L)) /\ Len(T) = 1 /\ DOMAIN T = 1 .. 1 /\ T[1] = x /\ T # <<>>
  <2>1. ASSUME NEW S, NEW y \in S
        PROVE  /\ <<y>> \in Seq(S) /\ Len(<<y>>) = 1 /\ <<y>>[1] = y /\ <<y>> # <<>>
    OBVIOUS
  <2>2. T \in Seq(Stages(L)) /\ Len(T) = 1 /\ T[1] = x /\ T # <<>>
    BY <1>1, <2>1
  <2> QED
    BY <2>2, SeqType
<1>4. e \in Seq(Stages(L)) /\ e \in Seq(Appends) /\ e \in Seq(Resps) /\ e \in Seq(Applies)
      /\ Len(e) = 0 /\ DOMAIN e = {}
  <2>1. ASSUME NEW S
        PROVE  <<>> \in Seq(S) /\ Len(<<>>) = 0
    OBVIOUS
  <2>2. e \in Seq(Nat) /\ Len(e) = 0
    BY <2>1
  <2>3. DOMAIN e = 1 .. 0
    BY <2>2, SeqType
  <2> QED
    BY <2>1, <2>2, <2>3
<1>5. Later(L, x, x)
  BY LaterRefl
<1>6. StagesOk(L, e, T, x)
  <2>1. \A j \in DOMAIN T : j = 1
    BY <1>3
  <2>2. \A j \in DOMAIN T : \A k \in j .. Len(T) : j = 1 /\ k = 1
    BY <1>3
  <2> QED
    BY <1>3, <1>4, <1>5, <2>1, <2>2 DEF StagesOk
<1>7. QueueOk(L, e, T) /\ BackOk(L, e, e) /\ ApplyingOk(e, c) /\ SnapsStored(e, m)
  BY <1>3, <1>4 DEF QueueOk, BackOk, ApplyingOk, SnapsStored
<1>8. PICK o : o = x.last + 1 /\ o \in Nat /\ o > 0
  BY <1>1
<1>9. /\ un.offset = o /\ un.inProgress = o /\ un.entries = <<>> /\ un.snap = None
      /\ un.snapBusy = FALSE /\ None \in Ids /\ None.index = 0
  BY <1>8 DEF EmptyUnstable, None, Ids
<1>10. un \in Unstables
  <2>1. un = [offset |-> o, inProgress |-> o, entries |-> <<>>, snap |-> None, snapBusy |-> FALSE]
    BY <1>8 DEF EmptyUnstable
  <2>2. PICK g : g = <<>> /\ g \in Seq(Nat)
    <3>1. <<>> \in Seq(Nat)
      OBVIOUS
    <3> QED
      BY <3>1
  <2>3. un = [offset |-> o, inProgress |-> o, entries |-> g, snap |-> None, snapBusy |-> FALSE]
    BY <2>1, <2>2
  <2> QED
    BY <1>8, <1>9, <2>2, <2>3 DEF Unstables
<1>11. EntriesOk(L, un, x)
  BY <1>1, <1>8, <1>9, <1>10 DEF EntriesOk
<1>12. SameTo(L, x, x, un.offset - 1) /\ SameTo(L, x, x, un.inProgress - 1)
  <2>1. o - 1 = x.last /\ x.last \in Int
    BY <1>1, <1>8
  <2>2. SameTo(L, x, x, x.last)
    BY <1>1, SameRefl
  <2> QED
    BY <1>9, <2>1, <2>2
<1>13. InProgressOk(L, un, x, x) /\ StableOk(L, un, T, x)
  <2>1. ~(un.inProgress <= x.last)
    BY <1>1, <1>8, <1>9
  <2>2. \A j \in DOMAIN T : T[j] = x
    BY <1>3
  <2> QED
    BY <1>12, <2>1, <2>2 DEF InProgressOk, StableOk
<1>14. UnstableOk(L, un, e, e, e, T, x)
  <2>1. un.inProgress > x.commit
    BY <1>1, <1>8, <1>9
  <2> QED
    BY <1>3, <1>9, <1>11, <1>13, <2>1 DEF UnstableOk
<1>15. c \in CursorSet /\ c.committed = x.commit /\ c.applying = m.base /\ c.applied = m.base
  BY <1>1, <1>2 DEF Cursors, CursorSet
<1>16. SameTo(L, x, x, c.applying)
  BY <1>1, <1>2, <1>15, SameRefl
<1>17. CursorOk(L, c, un, m, e, T, x)
  <2>1. c.applying < un.offset /\ m.base <= MaxOf(c.applying, un.snap.index) /\ c.applied <= c.applying
        /\ c.applying <= c.committed
    BY <1>1, <1>2, <1>8, <1>9, <1>15 DEF MaxOf
  <2>2. \A j \in DOMAIN T : T[j] = x
    BY <1>3
  <2> QED
    BY <1>4, <1>15, <1>16, <2>1, <2>2 DEF CursorOk
<1>18. FlightOk(c, un, m, e, T)
  BY <1>2, <1>3, <1>4, <1>9 DEF FlightOk
<1> QED
  BY <1>3, <1>6, <1>7, <1>14, <1>17, <1>18

\* A restart keeps the invariant: the storage alone is left, and loadState
\* panics if it was compacted beyond the stored commit index.
LEMMA RestartStep ==
  ASSUME NEW B, NEW T, NEW V, GhostInv(B, T, V), Restart
  PROVE  LogInv'
<1>1. /\ ClusterOk(leader) /\ leader \in Histories /\ crashes \in Nat /\ StagesOk(leader, B, T, V)
      /\ StoreOk(leader, ms, T[1]) /\ AcksOk(leader, acked, after, appendQ, T, V)
  BY GhostFacts
<1>2. PICK x : x = T[1] /\ StageOk(leader, x) /\ StoreOk(leader, ms, x)
  BY <1>1, ConstStages
<1>3. /\ x.last \in Nat /\ x.commit \in Nat /\ x.commit <= x.last /\ x \in Stages(leader)
      /\ ms.base \in Nat /\ Len(ms.ents) \in Nat
  BY <1>1, <1>2, StageType, StoreType DEF StageOk
<1>4. /\ ms.base <= x.last /\ Len(ms.ents) = x.last - ms.base + 1
      /\ ms.hs = [term |-> x.term, commit |-> x.commit]
  BY <1>2 DEF StoreOk
<1>5. StoreLast = x.last /\ ms.hs.commit = x.commit /\ ms.hs.term = x.term
  BY <1>3, <1>4 DEF StoreLast
<1>6. /\ crashes' = crashes + 1 /\ term' = x.term
      /\ panicked' = (x.commit < ms.base \/ x.commit > x.last)
      /\ u' = EmptyUnstable(x.last + 1) /\ cur' = Cursors(ms.base, x.commit)
      /\ after' = {} /\ appendQ' = <<>> /\ applyQ' = <<>> /\ appendBack' = <<>> /\ applyBack' = <<>>
      /\ leader' = leader /\ ms' = ms /\ acked' = acked
  BY <1>5 DEF Restart
<1>7. CASE x.commit < ms.base
  <2>1. panicked'
    BY <1>6, <1>7
  <2>2. /\ acked \in [DOMAIN leader -> Nat]
        /\ \A t \in DOMAIN leader : acked[t] > 0 => Backed(leader, x, t, acked[t])
    BY <1>1, <1>2 DEF AcksOk
  <2>3. LoadInv(x)'
    BY <1>1, <1>2, <1>6, <1>7, <2>1, <2>2 DEF LoadInv
  <2> QED
    BY <1>3, <1>6, <2>3 DEF LogInv
<1>8. CASE ms.base <= x.commit
  <2>1. ~panicked'
    <3>1. ~(x.commit < ms.base \/ x.commit > x.last)
      BY <1>3, <1>8
    <3> QED
      BY <1>6, <3>1
  <2>2. PICK S, e : S = <<x>> /\ e = <<>>
    OBVIOUS
  <2>3. /\ StagesOk(leader, e, S, x) /\ QueueOk(leader, e, S) /\ BackOk(leader, e, e) /\ S[1] = x
        /\ UnstableOk(leader, u', e, e, e, S, x) /\ CursorOk(leader, cur', u', ms, e, S, x)
        /\ ApplyingOk(e, cur') /\ SnapsStored(e, ms) /\ FlightOk(cur', u', ms, e, S)
    BY <1>1, <1>2, <1>6, <1>8, <2>2, QuietParts
  <2>4. DOMAIN e = {}
    BY <2>2
  <2>5. AcksOk(leader, acked, {}, e, S, x)
    BY <1>1, <1>2, <2>3, <2>4 DEF AcksOk
  <2>6. crashes + 1 \in Nat
    BY <1>1
  <2> QED
    BY <1>1, <1>2, <1>6, <2>1, <2>2, <2>3, <2>5, <2>6, LogInvNext
<1> QED
  BY <1>3, <1>7, <1>8

\* The invariant holds initially.
LEMMA LogInit ==
  ASSUME Init
  PROVE  LogInv
<1>1. /\ leader \in Histories /\ ClusterOk(leader)
      /\ ms = [base |-> 0, ents |-> <<0>>, hs |-> [term |-> 0, commit |-> 0]]
      /\ term = 0 /\ u = EmptyUnstable(1) /\ cur = Cursors(0, 0)
      /\ after = {} /\ appendQ = <<>> /\ applyQ = <<>> /\ appendBack = <<>> /\ applyBack = <<>>
      /\ acked = [t \in DOMAIN leader |-> 0] /\ ~panicked /\ crashes = 0
  BY ClusterIs DEF Init, Terms
<1>2. PICK x : x = [term |-> 0, lt |-> 1, last |-> 0, commit |-> 0]
  OBVIOUS
<1>3. Len(leader) \in Nat /\ Len(leader) > 0 /\ 1 \in DOMAIN leader /\ leader[1] \in Seq(Nat)
  BY <1>1 DEF ClusterOk
<1>4. /\ x \in Stages(leader) /\ x.term = 0 /\ x.lt = 1 /\ x.last = 0 /\ x.commit = 0
  BY <1>2, <1>3 DEF Stages
<1>5. ASSUME NEW t \in DOMAIN leader
      PROVE  Len(leader[t]) \in Nat /\ 0 <= Len(leader[t])
  BY <1>1, LeaderType
<1>6. StageOk(leader, x)
  BY <1>3, <1>4, <1>5 DEF StageOk
<1>7. StoreOk(leader, ms, x)
  <2>1. PICK g : g = <<0>> /\ g \in Seq(Nat) /\ Len(g) = 1 /\ g[1] = 0
    <3>1. <<0>> \in Seq(Nat) /\ Len(<<0>>) = 1 /\ <<0>>[1] = 0
      OBVIOUS
    <3> QED
      BY <3>1
  <2>2. ms = [base |-> 0, ents |-> g, hs |-> [term |-> 0, commit |-> 0]]
    BY <1>1, <2>1
  <2>3. ms \in Stores /\ ms.base = 0 /\ ms.ents = g /\ ms.hs = [term |-> 0, commit |-> 0]
    BY <2>1, <2>2 DEF Stores, Hards
  <2>4. ASSUME NEW j \in 1 .. Len(ms.ents)
        PROVE  ms.ents[j] = EntryOf(leader, x, ms.base + j - 1)
    <3>1. j = 1 /\ ms.base + j - 1 = 0
      BY <2>1, <2>3
    <3> QED
      BY <2>1, <2>3, <3>1 DEF EntryOf
  <2> QED
    BY <1>4, <2>1, <2>3, <2>4 DEF StoreOk
<1>8. PICK S, e : S = <<x>> /\ e = <<>>
  OBVIOUS
<1>9. u = EmptyUnstable(x.last + 1) /\ cur = Cursors(ms.base, x.commit)
  <2>1. x.last + 1 = 1 /\ ms.base = 0
    BY <1>1, <1>4
  <2> QED
    BY <1>1, <1>4, <2>1
<1>10. /\ StagesOk(leader, e, S, x) /\ QueueOk(leader, e, S) /\ BackOk(leader, e, e) /\ S[1] = x
       /\ UnstableOk(leader, u, e, e, e, S, x) /\ CursorOk(leader, cur, u, ms, e, S, x)
       /\ ApplyingOk(e, cur) /\ SnapsStored(e, ms) /\ FlightOk(cur, u, ms, e, S)
  <2>1. ms.base <= x.commit
    BY <1>1, <1>4
  <2> QED
    BY <1>1, <1>6, <1>7, <1>8, <1>9, <2>1, QuietParts
<1>11. DOMAIN e = {}
  BY <1>8
<1>12. AcksOk(leader, acked, {}, e, S, x)
  BY <1>1, <1>11 DEF AcksOk
<1>13. GhostInv(e, S, x)
  BY <1>1, <1>4, <1>7, <1>8, <1>10, <1>12 DEF GhostInv
<1>14. S \in Seq(Stages(leader)) /\ e \in Seq(Stages(leader))
  BY <1>10 DEF StagesOk
<1> QED
  BY <1>4, <1>13, <1>14 DEF LogInv

-----------------------------------------------------------------------------
(* The invariant and what it implies. *)

\* Every message from a leader keeps the invariant.
LEMMA ReceiveStep ==
  ASSUME NEW B, NEW T, NEW V, GhostInv(B, T, V), Receive
  PROVE  LogInv'
<1>1. PICK t \in Terms :
        \/ NewTerm(t)
        \/ \E prev \in 0 .. Len(leader[t]) : \E last \in prev .. Len(leader[t]) :
             \E commit \in 0 .. Safe(t) : AppendEntries(t, prev, last, commit)
        \/ \E commit \in 1 .. Safe(t) : Heartbeat(t, commit)
        \/ \E i \in 1 .. Safe(t) : Snapshot(t, i)
  BY DEF Receive
<1>2. CASE NewTerm(t)
  BY <1>2, NewTermStep
<1>3. CASE \E prev \in 0 .. Len(leader[t]) : \E last \in prev .. Len(leader[t]) :
             \E commit \in 0 .. Safe(t) : AppendEntries(t, prev, last, commit)
  BY <1>3, AppendEntriesStep
<1>4. CASE \E commit \in 1 .. Safe(t) : Heartbeat(t, commit)
  BY <1>4, HeartbeatStep
<1>5. CASE \E i \in 1 .. Safe(t) : Snapshot(t, i)
  BY <1>5, SnapshotStep
<1> QED
  BY <1>1, <1>2, <1>3, <1>4, <1>5

\* Every step of a running node does.
LEMMA RunningStep ==
  ASSUME NEW B, NEW T, NEW V, GhostInv(B, T, V), Running
  PROVE  LogInv'
<1>1. CASE Receive
  BY <1>1, ReceiveStep
<1>2. CASE Ready
  BY <1>2, ReadyStep
<1>3. CASE Threads
  <2>1. CASE AppendThread
    BY <2>1, AppendThreadStep
  <2>2. CASE ApplyThread
    BY <2>2, ApplyThreadStep
  <2>3. CASE StepAppendResp
    BY <2>3, StepAppendRespStep
  <2>4. CASE StepApplyResp
    BY <2>4, StepApplyRespStep
  <2> QED
    BY <1>3, <2>1, <2>2, <2>3, <2>4 DEF Threads
<1>4. CASE \E i \in Indexes : Compact(i)
  BY <1>4, CompactStep
<1>5. CASE Restart
  BY <1>5, RestartStep
<1> QED
  BY <1>1, <1>2, <1>3, <1>4, <1>5 DEF Running

\* So does every step: a node that has panicked takes none.
LEMMA LogNext ==
  ASSUME LogInv, [Next]_vars
  PROVE  LogInv'
<1>1. CASE UNCHANGED vars
  <2>1. /\ leader' = leader /\ panicked' = panicked /\ ms' = ms /\ u' = u /\ cur' = cur
        /\ acked' = acked /\ crashes' = crashes /\ term' = term /\ after' = after
        /\ appendQ' = appendQ /\ applyQ' = applyQ /\ appendBack' = appendBack
        /\ applyBack' = applyBack
    BY <1>1 DEF vars
  <2> QED
    BY <2>1 DEF LogInv, GhostInv, LoadInv
<1>2. CASE ~panicked /\ Running
  <2>1. \E B, T \in Seq(Stages(leader)), V \in Stages(leader) : GhostInv(B, T, V)
    BY <1>2 DEF LogInv, LoadInv
  <2> QED
    BY <1>2, <2>1, RunningStep
<1> QED
  BY <1>1, <1>2 DEF Next, Stopped

\* The stages exist in every reachable state: the storage, each message of
\* the append thread, each response and the node itself stand for whole logs,
\* prefixes of leaders' logs, in order.
THEOREM LogInvCorrect == Spec => []LogInv
<1>1. Init => LogInv
  BY LogInit
<1>2. LogInv /\ [Next]_vars => LogInv'
  BY LogNext
<1> QED
  BY <1>1, <1>2, PTL DEF Spec

\* The invariant says that one leader's log is read,
LEMMA ReadsOne ==
  ASSUME NEW B, NEW T, NEW V, GhostInv(B, T, V)
  PROVE  ReadsOneLog
<1>4. /\ ClusterOk(leader) /\ StageOk(leader, V) /\ Reads(leader, V) /\ StoreOk(leader, ms, T[1])
      /\ EntriesOk(leader, u, V)
  BY GhostFacts
<1>5. PICK t \in DOMAIN leader : t = V.lt
  BY <1>4, StageType
<1>6. /\ V.last \in Nat /\ V.commit \in Nat /\ V.commit <= V.last /\ V.last <= Len(leader[t])
  BY <1>4, <1>5, StageType
<1>7. FirstIndex \in Nat /\ FirstIndex > 0
  <2>1. ms.base \in Nat /\ u.snap.index \in Nat
    BY <1>4, UnstableType, StoreType
  <2> QED
    BY <2>1 DEF FirstIndex
<1>8. LastIndex = V.last /\ FirstIndex <= V.commit + 1
  BY <1>4 DEF Reads
<1>9. ASSUME NEW i \in Nat, i > 0, i <= V.last, FirstIndex <= i + 1
      PROVE  TermAt(i) = leader[t][i]
  <2>1. TermAt(i) = EntryOf(leader, V, i)
    BY <1>4, <1>9 DEF Reads
  <2> QED
    BY <1>5, <1>9, <2>1 DEF EntryOf
<1>10. ASSUME NEW i \in FirstIndex .. LastIndex
       PROVE  TermAt(i) = leader[t][i]
  <2>1. i \in Nat /\ i > 0 /\ i <= V.last /\ FirstIndex <= i + 1
    BY <1>6, <1>7, <1>8
  <2> QED
    BY <1>9, <2>1
<1>11. V.last = 0 \/ TermAt(V.last) = leader[t][V.last]
  <2>1. SUFFICES ASSUME V.last # 0
                 PROVE  TermAt(V.last) = leader[t][V.last]
    OBVIOUS
  <2>2. V.last > 0 /\ V.last <= V.last /\ FirstIndex <= V.last + 1
    BY <1>6, <1>7, <1>8, <2>1
  <2> QED
    BY <1>6, <1>9, <2>2
<1>12. t \in Terms
  BY DEF Terms
<1> QED
  BY <1>6, <1>8, <1>10, <1>11, <1>12 DEF ReadsOneLog

\* The stored entries are those of the first stage.
LEMMA StoredEntries ==
  ASSUME ClusterOk(leader), NEW x, StageOk(leader, x), StoreOk(leader, ms, x)
  PROVE  /\ StoreLast = x.last /\ ms.base \in Nat
         /\ \A i \in Nat : i > 0 /\ ms.base <= i /\ i <= x.last => StoreTerm(i) = leader[x.lt][i]
<1>1. x.last \in Nat /\ ms.base \in Nat /\ Len(ms.ents) \in Nat
  BY StageType, StoreType
<1>2. /\ Len(ms.ents) = x.last - ms.base + 1
      /\ \A j \in 1 .. Len(ms.ents) : ms.ents[j] = EntryOf(leader, x, ms.base + j - 1)
  BY DEF StoreOk
<1>3. StoreLast = x.last
  BY <1>1, <1>2 DEF StoreLast
<1>4. ASSUME NEW i \in Nat, i > 0, ms.base <= i, i <= x.last
      PROVE  StoreTerm(i) = leader[x.lt][i]
  <2>1. i - ms.base + 1 \in 1 .. Len(ms.ents) /\ ms.base + (i - ms.base + 1) - 1 = i
    BY <1>1, <1>2, <1>4
  <2>2. ms.ents[i - ms.base + 1] = EntryOf(leader, x, ms.base + (i - ms.base + 1) - 1)
    BY <1>2, <2>1
  <2> QED
    BY <1>4, <2>1, <2>2 DEF StoreTerm, EntryOf
<1> QED
  BY <1>1, <1>3, <1>4

\* that acknowledgements which the storage backs are durable,
LEMMA AckDurable ==
  ASSUME ClusterOk(leader), NEW x, StageOk(leader, x), StoreOk(leader, ms, x),
         acked \in [DOMAIN leader -> Nat],
         \A t \in DOMAIN leader : acked[t] > 0 => Backed(leader, x, t, acked[t])
  PROVE  AckIsDurable
<1>6. SUFFICES ASSUME NEW t \in DOMAIN leader, acked[t] > 0
               PROVE  /\ t <= ms.hs.term
                      /\ t = ms.hs.term =>
                           /\ acked[t] <= StoreLast
                           /\ \A i \in MaxOf(1, ms.base) .. acked[t] : StoreTerm(i) = leader[t][i]
  BY DEF AckIsDurable, Terms
<1>7. PICK k : k = acked[t] /\ k \in Nat /\ k > 0
  BY <1>6
<1>8. Backed(leader, x, t, k)
  BY <1>6, <1>7
<1>9. ms.hs.term = x.term
  BY DEF StoreOk
<1>10. /\ StoreLast = x.last /\ ms.base \in Nat /\ x.last \in Nat
       /\ \A i \in Nat : i > 0 /\ ms.base <= i /\ i <= x.last => StoreTerm(i) = leader[x.lt][i]
  BY StoredEntries, StageType
<1>11. ASSUME t = ms.hs.term
       PROVE  /\ k <= StoreLast
              /\ \A i \in MaxOf(1, ms.base) .. k : StoreTerm(i) = leader[t][i]
  <2>1. Has(leader, x, k, leader[t][k]) /\ k <= Len(leader[t])
    BY <1>7, <1>8, <1>9, <1>11 DEF Backed
  <2>2. k <= x.last /\ leader[x.lt][k] = leader[t][k]
    BY <1>7, <1>10, <2>1 DEF Has
  <2>3. \A j \in 1 .. k : leader[x.lt][j] = leader[t][j]
    BY <1>6, <1>7, <1>10, <2>1, <2>2, SameLeader, StageType
  <2>4. ASSUME NEW i \in MaxOf(1, ms.base) .. k
        PROVE  StoreTerm(i) = leader[t][i]
    <3>1. i \in Nat /\ i > 0 /\ ms.base <= i /\ i <= x.last /\ i \in 1 .. k
      BY <1>7, <1>10, <2>2 DEF MaxOf
    <3> QED
      BY <1>10, <2>3, <3>1
  <2> QED
    BY <1>10, <2>2, <2>4
<1>12. t <= ms.hs.term
  BY <1>8, <1>9 DEF Backed
<1> QED
  BY <1>7, <1>11, <1>12

\* and that what is applied is.
LEMMA AppliedDurable ==
  ASSUME NEW B, NEW T, NEW V, GhostInv(B, T, V)
  PROVE  AppliesDurable
<1>4. /\ ClusterOk(leader) /\ StagesOk(leader, B, T, V) /\ StoreOk(leader, ms, T[1])
      /\ StageOk(leader, V) /\ CursorOk(leader, cur, u, ms, appendQ, T, V)
  BY GhostFacts
<1>5. PICK x : x = T[1] /\ StageOk(leader, x) /\ StoreOk(leader, ms, x) /\ 1 \in DOMAIN T
  BY <1>4, ConstStages
<1>6. PICK a : a = cur.applying /\ a \in Nat /\ a <= V.commit /\ SameTo(leader, x, V, a)
  BY <1>4, <1>5 DEF CursorOk, CursorSet
<1>7. /\ StoreLast = x.last /\ ms.base \in Nat /\ x.last \in Nat
      /\ \A i \in Nat : i > 0 /\ ms.base <= i /\ i <= x.last => StoreTerm(i) = leader[x.lt][i]
  BY <1>4, <1>5, StoredEntries, StageType
<1>8. a <= x.last /\ \A i \in 1 .. a : leader[x.lt][i] = leader[V.lt][i]
  BY <1>6 DEF SameTo
<1>9. PICK n : n = Len(leader) /\ n \in DOMAIN leader /\ n >= V.term /\ V.commit \in Nat
  <2>1. /\ V.term \in 0 .. Len(leader) /\ V.commit \in Nat /\ Len(leader) \in Nat \ {0}
        /\ Len(leader) \in DOMAIN leader
    BY <1>4, StageType
  <2> QED
    BY <2>1
<1>10. \A i \in 1 .. V.commit : leader[n][i] = leader[V.lt][i]
  BY <1>4, <1>9 DEF StageOk
<1>11. ASSUME NEW i \in ms.base + 1 .. a
       PROVE  StoreTerm(i) = leader[n][i]
  <2>1. i \in Nat /\ i > 0 /\ ms.base <= i /\ i <= x.last /\ i \in 1 .. a /\ i \in 1 .. V.commit
    BY <1>6, <1>7, <1>8, <1>9
  <2> QED
    BY <1>7, <1>8, <1>10, <2>1
<1> QED
  BY <1>6, <1>7, <1>8, <1>9, <1>11 DEF AppliesDurable

\* So they do of a node that loadState stopped.
LEMMA LoadFacts ==
  ASSUME NEW x, LoadInv(x)
  PROVE  ReadsOneLog /\ AckIsDurable /\ AppliesDurable /\ OnlyLoadPanics
<1>1. /\ ClusterOk(leader) /\ StageOk(leader, x) /\ StoreOk(leader, ms, x) /\ x.commit < ms.base
      /\ u = EmptyUnstable(x.last + 1) /\ cur = Cursors(ms.base, x.commit)
  BY ClusterIs DEF LoadInv
<1>2. /\ StoreLast = x.last /\ ms.base \in Nat /\ x.last \in Nat /\ x.commit \in Nat
      /\ \A i \in Nat : i > 0 /\ ms.base <= i /\ i <= x.last => StoreTerm(i) = leader[x.lt][i]
  BY <1>1, StoredEntries, StageType
<1>3. ms.base <= x.last /\ ms.hs.commit = x.commit
  BY <1>1 DEF StoreOk
<1>4. OnlyLoadPanics
  BY <1>1, <1>2, <1>3 DEF OnlyLoadPanics
<1>5. AckIsDurable
  BY <1>1, AckDurable DEF LoadInv
<1>6. AppliesDurable
  <2>1. cur.applying = ms.base
    BY <1>1 DEF Cursors
  <2>2. ms.base + 1 .. ms.base = {}
    BY <1>2
  <2> QED
    BY <1>2, <1>3, <2>1, <2>2 DEF AppliesDurable
<1>7. ReadsOneLog
  <2>1. u.entries = <<>> /\ u.snap = None /\ u.offset = x.last + 1
    BY <1>1 DEF EmptyUnstable
  <2>2. FirstIndex = ms.base + 1 /\ LastIndex = x.last
    BY <1>2, <2>1 DEF FirstIndex, LastIndex
  <2>3. ASSUME NEW i \in Nat, i > 0, ms.base <= i, i <= x.last
        PROVE  TermAt(i) = leader[x.lt][i]
    <3>1. ~(i >= u.offset /\ i < u.offset + Len(u.entries))
      BY <1>2, <2>1, <2>3
    <3>2. ~(i + 1 < FirstIndex \/ i > LastIndex \/ ~StoreHas(i))
      BY <1>2, <2>2, <2>3 DEF StoreHas
    <3>3. TermAt(i) = StoreTerm(i)
      BY <2>1, <3>1, <3>2 DEF TermAt
    <3> QED
      BY <1>2, <2>3, <3>3
  <2>4. \A i \in FirstIndex .. LastIndex : i \in Nat /\ i > 0 /\ ms.base <= i /\ i <= x.last
    BY <1>2, <2>2
  <2>5. x.lt \in Terms /\ x.last <= Len(leader[x.lt])
    BY <1>1, StageType DEF Terms
  <2>6. LastIndex = 0 \/ TermAt(LastIndex) = leader[x.lt][LastIndex]
    BY <1>2, <1>3, <2>2, <2>3
  <2> QED
    BY <2>2, <2>3, <2>4, <2>5, <2>6 DEF ReadsOneLog
<1> QED
  BY <1>4, <1>5, <1>6, <1>7

\* Whatever the leaders send, the threads' pace, the compactions and the
\* restarts, one Panicf of log.go and storage.go alone can be reached:
\* loadState's, from a storage compacted beyond its stored commit index.
THEOREM OnlyLoadPanicsCorrect == Spec => []OnlyLoadPanics
<1>1. LogInv => OnlyLoadPanics
  BY LoadFacts DEF LogInv, GhostInv, OnlyLoadPanics
<1> QED
  BY <1>1, LogInvCorrect, PTL

\* What the log reads, through the unstable part and the storage, is a prefix
\* of one leader's log, however late and however stale the append thread's
\* responses are.
THEOREM ReadsOneLogCorrect == Spec => []ReadsOneLog
<1>1. LogInv => ReadsOneLog
  BY ReadsOne, LoadFacts DEF LogInv
<1> QED
  BY <1>1, LogInvCorrect, PTL

\* An answer that reached a leader is backed by the storage: with its term
\* and, as long as no later term is stored, every entry acknowledged.
THEOREM AckIsDurableCorrect == Spec => []AckIsDurable
<1>1. LogInv => AckIsDurable
  <2>1. ASSUME NEW B, NEW T, NEW V, GhostInv(B, T, V)
        PROVE  AckIsDurable
    <3>1. /\ ClusterOk(leader) /\ StageOk(leader, T[1]) /\ StoreOk(leader, ms, T[1])
          /\ AcksOk(leader, acked, after, appendQ, T, V)
      BY <2>1, GhostFacts, ConstStages
    <3> QED
      BY <3>1, AckDurable DEF AcksOk
  <2> QED
    BY <2>1, LoadFacts DEF LogInv
<1> QED
  BY <1>1, LogInvCorrect, PTL

\* What is handed to the apply thread is stored and is what the last leader
\* has there: no crash takes back an entry the state machine has seen.
THEOREM AppliesDurableCorrect == Spec => []AppliesDurable
<1>1. LogInv => AppliesDurable
  BY AppliedDurable, LoadFacts DEF LogInv
<1> QED
  BY <1>1, LogInvCorrect, PTL
=============================================================================
