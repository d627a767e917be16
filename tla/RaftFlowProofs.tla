--------------------------- MODULE RaftFlowProofs ---------------------------
(***************************************************************************)
(* Proofs about a new leader and one follower, for any logs an election    *)
(* can leave, any window and message size and any number of faults: the    *)
(* leader never believes more than the follower has, the window is exact,  *)
(* the follower never panics, and a rejection never sends the leader below *)
(* the point where the logs part.                                          *)
(***************************************************************************)
EXTENDS RaftFlow, FiniteSetTheorems, NaturalsInduction, TLAPS

-----------------------------------------------------------------------------
(* The inductive invariant, on a leader l, its Progress p, a follower f    *)
(* and messages m.                                                         *)

Logs == Seq(1 .. Term)

Leaders == [log : Logs, base : Nat, snap : Nat, commit : Nat, other : Nat]
Followers == [log : Logs, commit : Nat]
Progresses ==
  [match : Nat, next : Nat, sent : Nat, state : {"probe", "replicate", "snapshot"}, pending : Nat,
   paused : BOOLEAN, active : BOOLEAN, infl : Seq(Nat), size : Nat]

Apps    == [type : {"App"}, prev : Nat, last : Nat, commit : Nat]
Beats   == [type : {"Beat"}, commit : Nat]
Snaps   == [type : {"Snap"}, index : Nat]
Accepts == [type : {"Accept"}, index : Nat]
Rejects == [type : {"Reject"}, index : Nat, hint : Nat, term : Nat, common : Nat]
BeatResps == [type : {"BeatResp"}]

LeaderOk(l) ==
  /\ l \in Leaders /\ Nondecreasing(l.log)
  /\ l.base <= l.snap /\ l.snap <= l.commit /\ l.commit <= Len(l.log) /\ l.other <= Len(l.log)

\* The follower's log is the leader's up to i.
Agreed(l, f, i) ==
  i <= Len(l.log) /\ i <= Len(f.log) /\ \A j \in 1 .. i : f.log[j] = l.log[j]

\* Only the leader makes entries of its term, logs with one entry in common
\* agree up to it, and the leader has what the follower has committed.
FollowerOk(l, f) ==
  /\ f \in Followers /\ Nondecreasing(f.log)
  /\ \A i \in DOMAIN f.log : f.log[i] = Term => i <= Len(l.log)
  /\ \A i \in DOMAIN f.log : i <= Len(l.log) /\ f.log[i] = l.log[i] => Agreed(l, f, i)
  /\ Agreed(l, f, f.commit)

\* The window of a Progress.
Window(p) ==
  /\ Len(p.infl) <= p.size
  /\ p.infl # << >> => p.infl[Len(p.infl)] = p.next - 1 /\ p.infl[1] > p.match
  /\ \A j \in 2 .. Len(p.infl) : p.infl[j - 1] < p.infl[j]

ProgressOk(l, p) ==
  /\ p \in Progresses /\ p.match < p.next /\ p.next <= Len(l.log) + 1 /\ p.pending <= Len(l.log)
  /\ Window(p) /\ (p.state # "replicate" => p.infl = << >>)

\* A message to the follower says what is so of the leader's log, and a
\* heartbeat what is so of the follower's.
ToFOk(l, f, m) ==
  \/ m \in Apps /\ m.prev <= m.last /\ m.last <= Len(l.log)
  \/ m \in Beats /\ Agreed(l, f, m.commit)
  \/ m \in Snaps /\ m.index <= Len(l.log)

\* An acknowledgement is true for ever; a rejection's hint is not below the
\* point up to which the logs agreed.
ToLOk(l, f, m) ==
  \/ m \in Accepts /\ Agreed(l, f, m.index)
  \/ /\ m \in Rejects /\ m.index <= Len(l.log) /\ m.hint <= Len(l.log)
     /\ m.common < m.index /\ m.common <= m.hint /\ TermAt(l.log, m.common) <= m.term
  \/ m \in BeatResps

FlowInv ==
  /\ ~panicked
  /\ LeaderOk(ld) /\ FollowerOk(ld, fo) /\ ProgressOk(ld, pr) /\ Agreed(ld, fo, pr.match)
  /\ toF \in Seq(Apps \cup Beats \cup Snaps) /\ \A k \in DOMAIN toF : ToFOk(ld, fo, toF[k])
  /\ toL \in Seq(Accepts \cup Rejects \cup BeatResps) /\ \A k \in DOMAIN toL : ToLOk(ld, fo, toL[k])
  /\ reports \in Seq(BOOLEAN)

-----------------------------------------------------------------------------
(* Numbers and sequences. *)

\* A nonempty set of natural numbers has a least element.
LEMMA Least ==
  ASSUME NEW T \in SUBSET Nat, T # {}
  PROVE  \E m \in T : \A n \in T : m <= n
<1>1. PICK m \in T : \A n \in T : ~(<<n, m>> \in OpToRel(<, Nat))
  BY WFMin, NatLessThanWellFounded
<1>2. ASSUME NEW n \in T
      PROVE  m <= n
  <2>1. m \in Nat /\ n \in Nat
    OBVIOUS
  <2>2. ~(n < m)
    BY <1>1, <2>1 DEF OpToRel
  <2> QED
    BY <2>1, <2>2
<1> QED
  BY <1>2

\* A nonempty bounded one has a highest.
LEMMA HighestIs ==
  ASSUME NEW n \in Nat, NEW S, S \in SUBSET (0 .. n), S # {}
  PROVE  Highest(S) \in S /\ \A j \in S : j <= Highest(S)
<1> DEFINE T == {n - j : j \in S}
<1>1. T \in SUBSET Nat /\ T # {}
  OBVIOUS
<1>2. PICK m \in T : \A k \in T : m <= k
  BY <1>1, Least
<1>3. PICK i \in S : m = n - i
  BY <1>2
<1>4. \A j \in S : j <= i
  <2> TAKE j \in S
  <2>1. m <= n - j
    BY <1>2
  <2> QED
    BY <1>3, <2>1
<1>5. \E k \in S : \A j \in S : j <= k
  BY <1>4
<1> QED
  BY <1>5 DEF Highest

\* The lesser and the greater of two numbers.
LEMMA MinMax ==
  ASSUME NEW a \in Int, NEW b \in Int
  PROVE  /\ MinOf(a, b) \in {a, b} /\ MinOf(a, b) <= a /\ MinOf(a, b) <= b
         /\ MaxOf(a, b) \in {a, b} /\ MaxOf(a, b) >= a /\ MaxOf(a, b) >= b
BY DEF MinOf, MaxOf

-----------------------------------------------------------------------------
(* The leader's log grows, the follower's comes closer. *)

\* l became n: its log may have entries of its term more.
Grown(l, n) ==
  /\ LeaderOk(n) /\ Len(l.log) <= Len(n.log)
  /\ \A j \in 1 .. Len(l.log) : n.log[j] = l.log[j]
  /\ \A j \in 1 .. Len(n.log) : j > Len(l.log) => n.log[j] = Term

\* The types of the leader's state.
LEMMA LeaderType ==
  ASSUME NEW l, LeaderOk(l)
  PROVE  /\ l \in Leaders /\ l.log \in Seq(1 .. Term) /\ Len(l.log) \in Nat /\ DOMAIN l.log = 1 .. Len(l.log)
         /\ \A j \in 1 .. Len(l.log) : l.log[j] \in 1 .. Term
         /\ l.base \in Nat /\ l.snap \in Nat /\ l.commit \in Nat /\ l.other \in Nat
         /\ l.base <= l.snap /\ l.snap <= l.commit
         /\ l.commit <= Len(l.log) /\ l.other <= Len(l.log) /\ Term \in Nat
<1>1. l \in Leaders /\ l.base <= l.snap /\ l.snap <= l.commit /\ l.commit <= Len(l.log) /\ l.other <= Len(l.log)
  BY DEF LeaderOk
<1>2. l.log \in Seq(1 .. Term) /\ l.base \in Nat /\ l.snap \in Nat /\ l.commit \in Nat /\ l.other \in Nat
  BY <1>1 DEF Leaders, Logs
<1> QED
  BY <1>1, <1>2, FlowAssumption

\* The types of the follower's state.
LEMMA FollowerType ==
  ASSUME NEW l, NEW f, FollowerOk(l, f)
  PROVE  /\ f \in Followers /\ f.log \in Seq(1 .. Term) /\ Len(f.log) \in Nat /\ DOMAIN f.log = 1 .. Len(f.log)
         /\ \A j \in 1 .. Len(f.log) : f.log[j] \in 1 .. Term
         /\ f.commit \in Nat
<1>1. f \in Followers
  BY DEF FollowerOk
<1>2. f.log \in Seq(1 .. Term) /\ f.commit \in Nat
  BY <1>1 DEF Followers, Logs
<1> QED
  BY <1>1, <1>2, FlowAssumption

\* The leader's growth keeps what the logs agree on,
LEMMA GrownAgreed ==
  ASSUME NEW l, NEW n, LeaderOk(l), Grown(l, n), NEW f, FollowerOk(l, f)
  PROVE  \A i \in Nat : Agreed(l, f, i) => Agreed(n, f, i)
<1>1. /\ Len(l.log) \in Nat /\ Len(n.log) \in Nat /\ Len(l.log) <= Len(n.log) /\ Len(f.log) \in Nat
      /\ \A j \in 1 .. Len(l.log) : n.log[j] = l.log[j]
  BY LeaderType, FollowerType DEF Grown
<1> QED
  BY <1>1 DEF Agreed

\* the follower's state right,
LEMMA GrownFollower ==
  ASSUME NEW l, NEW n, LeaderOk(l), Grown(l, n), NEW f, FollowerOk(l, f)
  PROVE  FollowerOk(n, f)
<1>1. /\ Len(l.log) \in Nat /\ Len(n.log) \in Nat /\ Len(l.log) <= Len(n.log) /\ Len(f.log) \in Nat
      /\ DOMAIN f.log = 1 .. Len(f.log) /\ f.commit \in Nat
  BY LeaderType, FollowerType DEF Grown
<1>2. Agreed(n, f, f.commit)
  BY <1>1, GrownAgreed DEF FollowerOk
<1>3. \A i \in DOMAIN f.log : f.log[i] = Term => i <= Len(n.log)
  BY <1>1 DEF FollowerOk
<1>4. ASSUME NEW i \in DOMAIN f.log, i <= Len(n.log), f.log[i] = n.log[i]
      PROVE  Agreed(n, f, i)
  <2>1. i \in Nat /\ i >= 1
    BY <1>1
  <2>2. i <= Len(l.log)
    <3>1. CASE i > Len(l.log)
      <4>1. n.log[i] = Term
        BY <1>1, <1>4, <2>1, <3>1 DEF Grown
      <4>2. i <= Len(l.log)
        BY <1>4, <4>1 DEF FollowerOk
      <4> QED
        BY <4>2
    <3> QED
      BY <1>1, <2>1, <3>1
  <2>3. n.log[i] = l.log[i]
    BY <1>1, <2>1, <2>2 DEF Grown
  <2>4. Agreed(l, f, i)
    BY <1>4, <2>2, <2>3 DEF FollowerOk
  <2> QED
    BY <2>1, <2>4, GrownAgreed
<1> QED
  BY <1>2, <1>3, <1>4 DEF FollowerOk

\* its Progress,
LEMMA GrownProgress ==
  ASSUME NEW l, NEW n, LeaderOk(l), Grown(l, n), NEW p, ProgressOk(l, p)
  PROVE  ProgressOk(n, p)
<1>1. /\ Len(l.log) \in Nat /\ Len(n.log) \in Nat /\ Len(l.log) <= Len(n.log)
      /\ p.next \in Nat /\ p.pending \in Nat
  BY LeaderType DEF Grown, ProgressOk, Progresses
<1> QED
  BY <1>1 DEF ProgressOk

\* and every message.
LEMMA GrownMessages ==
  ASSUME NEW l, NEW n, LeaderOk(l), Grown(l, n), NEW f, FollowerOk(l, f), NEW m
  PROVE  (ToFOk(l, f, m) => ToFOk(n, f, m)) /\ (ToLOk(l, f, m) => ToLOk(n, f, m))
<1>1. /\ Len(l.log) \in Nat /\ Len(n.log) \in Nat /\ Len(l.log) <= Len(n.log)
      /\ \A j \in 1 .. Len(l.log) : n.log[j] = l.log[j]
      /\ \A i \in Nat : Agreed(l, f, i) => Agreed(n, f, i)
  BY LeaderType, GrownAgreed DEF Grown
<1>2. ASSUME ToFOk(l, f, m)
      PROVE  ToFOk(n, f, m)
  <2>1. CASE m \in Apps /\ m.prev <= m.last /\ m.last <= Len(l.log)
    <3>1. m.last \in Nat
      BY <2>1 DEF Apps
    <3> QED
      BY <1>1, <2>1, <3>1 DEF ToFOk
  <2>2. CASE m \in Beats /\ Agreed(l, f, m.commit)
    BY <1>1, <2>2 DEF ToFOk, Beats
  <2>3. CASE m \in Snaps /\ m.index <= Len(l.log)
    <3>1. m.index \in Nat
      BY <2>3 DEF Snaps
    <3> QED
      BY <1>1, <2>3, <3>1 DEF ToFOk
  <2> QED
    BY <1>2, <2>1, <2>2, <2>3 DEF ToFOk
<1>3. ASSUME ToLOk(l, f, m)
      PROVE  ToLOk(n, f, m)
  <2>1. CASE m \in Accepts /\ Agreed(l, f, m.index)
    BY <1>1, <2>1 DEF ToLOk, Accepts
  <2>2. CASE /\ m \in Rejects /\ m.index <= Len(l.log) /\ m.hint <= Len(l.log)
             /\ m.common < m.index /\ m.common <= m.hint /\ TermAt(l.log, m.common) <= m.term
    <3>1. m.index \in Nat /\ m.hint \in Nat /\ m.common \in Nat
      BY <2>2 DEF Rejects
    <3>2. TermAt(n.log, m.common) = TermAt(l.log, m.common)
      BY <1>1, <2>2, <3>1 DEF TermAt
    <3>3. m.index <= Len(n.log) /\ m.hint <= Len(n.log)
      BY <1>1, <2>2, <3>1
    <3> QED
      BY <2>2, <3>2, <3>3 DEF ToLOk
  <2>3. CASE m \in BeatResps
    BY <2>3 DEF ToLOk
  <2> QED
    BY <1>3, <2>1, <2>2, <2>3 DEF ToLOk
<1> QED
  BY <1>2, <1>3

\* f became g: it agrees with the leader wherever it did.
Advanced(l, f, g) ==
  FollowerOk(l, g) /\ \A i \in Nat : Agreed(l, f, i) => Agreed(l, g, i)

\* So does whatever the follower does.
LEMMA AdvancedMessages ==
  ASSUME NEW l, NEW f, NEW g, Advanced(l, f, g), NEW m
  PROVE  (ToFOk(l, f, m) => ToFOk(l, g, m)) /\ (ToLOk(l, f, m) => ToLOk(l, g, m))
BY DEF Advanced, ToFOk, ToLOk, Beats, Accepts

\* A follower whose log is the leader's up to i, and no more.
LEMMA PrefixAdvances ==
  ASSUME NEW l, LeaderOk(l), NEW f, FollowerOk(l, f), NEW g, g \in Followers,
         NEW i \in Nat, i <= Len(l.log), Len(g.log) = i, \A j \in 1 .. i : g.log[j] = l.log[j],
         g.commit <= i, \A j \in Nat : Agreed(l, f, j) => j <= i
  PROVE  Advanced(l, f, g) /\ \A j \in 0 .. i : Agreed(l, g, j)
<1>1. /\ Len(l.log) \in Nat /\ DOMAIN l.log = 1 .. Len(l.log) /\ \A j \in 1 .. Len(l.log) : l.log[j] \in 1 .. Term
      /\ g.log \in Logs /\ DOMAIN g.log = 1 .. i /\ g.commit \in Nat
  BY LeaderType DEF Followers, Logs
<1>2. \A j \in 0 .. i : Agreed(l, g, j)
  BY <1>1 DEF Agreed
<1>3. Nondecreasing(g.log)
  <2>1. \A a, b \in 1 .. Len(l.log) : a <= b => l.log[a] <= l.log[b]
    BY <1>1 DEF LeaderOk, Nondecreasing
  <2>2. \A j \in 1 .. i : j \in 1 .. Len(l.log)
    BY <1>1
  <2> QED
    BY <1>1, <2>1, <2>2 DEF Nondecreasing
<1>4. FollowerOk(l, g)
  BY <1>1, <1>2, <1>3 DEF FollowerOk
<1> QED
  BY <1>2, <1>4 DEF Advanced

\* A follower that commits more of what agrees.
LEMMA CommitAdvances ==
  ASSUME NEW l, LeaderOk(l), NEW f, FollowerOk(l, f), NEW c \in Nat, Agreed(l, f, c),
         NEW g, g \in Followers, g.log = f.log, g.commit = c
  PROVE  Advanced(l, f, g)
<1>1. \A i : Agreed(l, g, i) <=> Agreed(l, f, i)
  BY DEF Agreed
<1>2. Nondecreasing(g.log)
  BY DEF FollowerOk
<1>3. /\ \A i \in DOMAIN g.log : g.log[i] = Term => i <= Len(l.log)
      /\ \A i \in DOMAIN g.log : i <= Len(l.log) /\ g.log[i] = l.log[i] => Agreed(l, g, i)
  BY <1>1 DEF FollowerOk
<1> QED
  BY <1>1, <1>2, <1>3 DEF FollowerOk, Advanced

\* An index with the leader's term agrees, and one without does not.
LEMMA TermAgrees ==
  ASSUME NEW l, LeaderOk(l), NEW f, FollowerOk(l, f), NEW i \in Nat, i <= Len(l.log)
  PROVE  Agreed(l, f, i) <=> i <= Len(f.log) /\ TermAt(f.log, i) = TermAt(l.log, i)
<1>1. /\ Len(l.log) \in Nat /\ Len(f.log) \in Nat /\ DOMAIN f.log = 1 .. Len(f.log)
  BY LeaderType, FollowerType
<1>2. CASE i = 0
  BY <1>1, <1>2 DEF Agreed, TermAt
<1>3. CASE i # 0
  <2>1. i \in 1 .. i /\ i \in 1 .. Len(l.log)
    BY <1>1, <1>3
  <2>2. Agreed(l, f, i) => i <= Len(f.log) /\ TermAt(f.log, i) = TermAt(l.log, i)
    BY <1>3, <2>1 DEF Agreed, TermAt
  <2>3. ASSUME i <= Len(f.log), TermAt(f.log, i) = TermAt(l.log, i)
        PROVE  Agreed(l, f, i)
    <3>1. i \in DOMAIN f.log /\ f.log[i] = l.log[i]
      BY <1>1, <1>3, <2>1, <2>3 DEF TermAt
    <3> QED
      BY <3>1 DEF FollowerOk
  <2> QED
    BY <2>2, <2>3
<1> QED
  BY <1>2, <1>3

\* What agrees up to an index agrees up to a lower one.
LEMMA AgreedBelow ==
  ASSUME NEW l, LeaderOk(l), NEW f, FollowerOk(l, f), NEW i \in Nat, Agreed(l, f, i), NEW j \in Nat, j <= i
  PROVE  Agreed(l, f, j) /\ TermAt(f.log, j) = TermAt(l.log, j) /\ j <= Len(f.log)
<1>1. Len(l.log) \in Nat /\ Len(f.log) \in Nat
  BY LeaderType, FollowerType
<1>2. Agreed(l, f, j) /\ j <= Len(l.log)
  BY <1>1 DEF Agreed
<1> QED
  BY <1>2, TermAgrees

-----------------------------------------------------------------------------
(* Where logs part. *)

\* The logs' common point is the highest index they agree up to.
LEMMA CommonIs ==
  ASSUME LeaderOk(ld), NEW f, FollowerOk(ld, f)
  PROVE  /\ Common(f) \in Nat /\ Agreed(ld, f, Common(f))
         /\ \A i \in Nat : Agreed(ld, f, i) => i <= Common(f)
<1> DEFINE n == MinOf(Len(f.log), Len(ld.log))
           S == {i \in 0 .. n : SubSeq(f.log, 1, i) = SubSeq(ld.log, 1, i)}
<1>1. /\ Len(ld.log) \in Nat /\ Len(f.log) \in Nat /\ ld.log \in Seq(1 .. Term) /\ f.log \in Seq(1 .. Term)
  BY LeaderType, FollowerType
<1>2. n \in Nat /\ n <= Len(f.log) /\ n <= Len(ld.log) /\ \A i \in Nat : i <= Len(f.log) /\ i <= Len(ld.log) => i <= n
  BY <1>1, MinMax DEF MinOf
<1> HIDE DEF n
<1>3. ASSUME NEW i \in 0 .. n
      PROVE  SubSeq(f.log, 1, i) = SubSeq(ld.log, 1, i) <=> Agreed(ld, f, i)
  <2>1. /\ SubSeq(f.log, 1, i) = [j \in 1 .. i |-> f.log[j]]
        /\ SubSeq(ld.log, 1, i) = [j \in 1 .. i |-> ld.log[j]]
    BY <1>1, <1>2
  <2>2. i <= Len(f.log) /\ i <= Len(ld.log)
    BY <1>1, <1>2
  <2>3. [j \in 1 .. i |-> f.log[j]] = [j \in 1 .. i |-> ld.log[j]] <=> \A j \in 1 .. i : f.log[j] = ld.log[j]
    OBVIOUS
  <2> QED
    BY <2>1, <2>2, <2>3 DEF Agreed
<1>4. S \in SUBSET (0 .. n) /\ 0 \in S
  <2>1. Agreed(ld, f, 0)
    BY <1>1 DEF Agreed
  <2> QED
    BY <1>2, <1>3, <2>1
<1>5. Highest(S) \in S /\ \A j \in S : j <= Highest(S)
  <2> HIDE DEF S
  <2> QED
    BY <1>2, <1>4, HighestIs
<1>6. Common(f) = Highest(S)
  BY DEF Common, n
<1>7. \A i \in S : i \in Nat /\ Agreed(ld, f, i)
  BY <1>3, <1>2
<1>8. \A i \in Nat : Agreed(ld, f, i) => i \in S
  BY <1>2, <1>3 DEF Agreed
<1> HIDE DEF S
<1> QED
  BY <1>5, <1>6, <1>7, <1>8

\* findConflictByTerm is not above where it starts, nor below an index of the
\* term or a lower one.
LEMMA ConflictIs ==
  ASSUME NEW log, NEW base, NEW i \in Nat, NEW t
  PROVE  /\ FindConflictByTerm(log, base, i, t) \in 0 .. i
         /\ \A j \in 0 .. i : TermAt(log, j) <= t => j <= FindConflictByTerm(log, base, i, t)
         /\ \/ FindConflictByTerm(log, base, i, t) = 0
            \/ FindConflictByTerm(log, base, i, t) < base
            \/ TermAt(log, FindConflictByTerm(log, base, i, t)) <= t
<1> DEFINE S == {j \in 0 .. i : j = 0 \/ j < base \/ TermAt(log, j) <= t}
<1>1. S \in SUBSET (0 .. i) /\ 0 \in S
  OBVIOUS
<1>2. Highest(S) \in S /\ \A j \in S : j <= Highest(S)
  <2> HIDE DEF S
  <2> QED
    BY <1>1, HighestIs
<1>3. FindConflictByTerm(log, base, i, t) = Highest(S)
  BY DEF FindConflictByTerm
<1> QED
  BY <1>2, <1>3

-----------------------------------------------------------------------------
(* Progress. *)

\* The types of a Progress.
LEMMA ProgressType ==
  ASSUME NEW l, LeaderOk(l), NEW p, ProgressOk(l, p)
  PROVE  /\ p \in Progresses /\ p.match \in Nat /\ p.next \in Nat /\ p.sent \in Nat /\ p.pending \in Nat
         /\ p.size \in Nat /\ p.infl \in Seq(Nat) /\ Len(p.infl) \in Nat
         /\ p.state \in {"probe", "replicate", "snapshot"}
         /\ p.match < p.next /\ p.next <= Len(l.log) + 1 /\ p.pending <= Len(l.log) /\ p.match <= Len(l.log)
         /\ p.next >= 1 /\ Len(l.log) \in Nat
<1>1. p \in Progresses /\ p.match < p.next /\ p.next <= Len(l.log) + 1 /\ p.pending <= Len(l.log)
  BY DEF ProgressOk
<1>2. /\ p.match \in Nat /\ p.next \in Nat /\ p.sent \in Nat /\ p.pending \in Nat
      /\ p.size \in Nat /\ p.infl \in Seq(Nat) /\ p.state \in {"probe", "replicate", "snapshot"}
  BY <1>1 DEF Progresses
<1>3. Len(l.log) \in Nat
  BY LeaderType
<1> QED
  BY <1>1, <1>2, <1>3

\* An empty window.
LEMMA EmptyWindow ==
  ASSUME NEW p, p.infl = << >>, p.size \in Nat
  PROVE  Window(p)
<1>1. Len(p.infl) = 0
  OBVIOUS
<1> QED
  BY <1>1 DEF Window

Rewrite(p, state, i, w, n, a) ==
  [p EXCEPT !.state = state, !.paused = FALSE, !.pending = i, !.infl = w, !.next = n, !.sent = a]

\* The fields after ResetState.
LEMMA Rewritten ==
  ASSUME NEW p, p \in Progresses, NEW state, state \in {"probe", "replicate", "snapshot"},
         NEW i, i \in Nat, NEW w, w \in Seq(Nat), NEW n, n \in Nat, NEW a, a \in Nat,
         NEW q, q = Rewrite(p, state, i, w, n, a)
  PROVE  /\ q \in Progresses /\ q.match = p.match /\ q.next = n /\ q.pending = i /\ q.infl = w
         /\ q.state = state /\ q.size = p.size /\ q.active = p.active
BY DEF Progresses, Rewrite

\* BecomeProbe leaves a sound Progress.
LEMMA ProbeOk ==
  ASSUME NEW l, LeaderOk(l), NEW p, p \in Progresses, p.match <= Len(l.log), p.pending <= Len(l.log),
         NEW q, q = BecomeProbe(p)
  PROVE  /\ ProgressOk(l, q) /\ q.match = p.match /\ q.state = "probe" /\ q.active = p.active
<1>1. /\ p \in Progresses /\ p.match \in Nat /\ p.next \in Nat /\ p.sent \in Nat /\ p.pending \in Nat
      /\ p.size \in Nat /\ p.match <= Len(l.log) /\ p.pending <= Len(l.log) /\ Len(l.log) \in Nat
  BY LeaderType DEF Progresses
<1>2. PICK n : n = IF p.state = "snapshot" THEN MaxOf(p.match, p.pending) + 1 ELSE p.match + 1
  OBVIOUS
<1>3. n \in Nat /\ n > p.match /\ n <= Len(l.log) + 1
  BY <1>1, <1>2, MinMax
<1>4. PICK a : a = MinOf(p.sent, n - 1)
  OBVIOUS
<1>5. a \in Nat
  BY <1>1, <1>3, <1>4 DEF MinOf
<1>6. q = [p EXCEPT !.state = "probe", !.paused = FALSE, !.pending = 0, !.infl = << >>, !.next = n, !.sent = a]
  BY <1>1, <1>2, <1>4 DEF BecomeProbe, ResetState, Progresses
<1>7. /\ q \in Progresses /\ q.match = p.match /\ q.next = n /\ q.pending = 0 /\ q.infl = << >>
      /\ q.state = "probe" /\ q.size = p.size /\ q.active = p.active
  <2>0. PICK e : e = << >>
    OBVIOUS
  <2>1. e \in Seq(Nat) /\ 0 \in Nat
    BY <2>0
  <2>2. q = Rewrite(p, "probe", 0, e, n, a)
    BY <1>6, <2>0 DEF Rewrite
  <2>3. "probe" \in {"probe", "replicate", "snapshot"}
    OBVIOUS
  <2>4. /\ q \in Progresses /\ q.match = p.match /\ q.next = n /\ q.pending = 0 /\ q.infl = e
        /\ q.state = "probe" /\ q.size = p.size /\ q.active = p.active
    BY <1>1, <1>3, <1>5, <2>1, <2>2, <2>3, Rewritten
  <2> QED
    BY <2>0, <2>4
<1>8. Window(q)
  BY <1>1, <1>7, EmptyWindow
<1> QED
  BY <1>1, <1>3, <1>7, <1>8 DEF ProgressOk

\* So does BecomeReplicate,
LEMMA ReplicateOk ==
  ASSUME NEW l, LeaderOk(l), NEW p, ProgressOk(l, p), NEW q, q = BecomeReplicate(p)
  PROVE  /\ ProgressOk(l, q) /\ q.match = p.match /\ q.state = "replicate"
<1>1. /\ p \in Progresses /\ p.match \in Nat /\ p.size \in Nat /\ p.match <= Len(l.log) /\ Len(l.log) \in Nat
  BY ProgressType
<1>2. q = [p EXCEPT !.state = "replicate", !.paused = FALSE, !.pending = 0, !.infl = << >>, !.next = p.match + 1]
  BY <1>1 DEF BecomeReplicate, ResetState, Progresses
<1>3. /\ q \in Progresses /\ q.match = p.match /\ q.next = p.match + 1 /\ q.pending = 0 /\ q.infl = << >>
      /\ q.state = "replicate" /\ q.size = p.size
  <2>0. PICK e : e = << >>
    OBVIOUS
  <2>1. e \in Seq(Nat) /\ 0 \in Nat
    BY <2>0
  <2>2. PICK n, a : n = p.match + 1 /\ a = p.sent
    OBVIOUS
  <2>3. n \in Nat /\ a \in Nat
    BY <1>1, <2>2 DEF Progresses
  <2>4. q = Rewrite(p, "replicate", 0, e, n, a)
    BY <1>1, <1>2, <2>0, <2>2 DEF Progresses, Rewrite
  <2>5. "replicate" \in {"probe", "replicate", "snapshot"}
    OBVIOUS
  <2>6. /\ q \in Progresses /\ q.match = p.match /\ q.next = n /\ q.pending = 0 /\ q.infl = e
        /\ q.state = "replicate" /\ q.size = p.size /\ q.active = p.active
    BY <1>1, <2>1, <2>3, <2>4, <2>5, Rewritten
  <2> QED
    BY <2>0, <2>2, <2>6
<1>4. Window(q)
  BY <1>1, <1>3, EmptyWindow
<1> QED
  BY <1>1, <1>3, <1>4 DEF ProgressOk

\* and BecomeSnapshot.
LEMMA SnapshotOk ==
  ASSUME NEW l, LeaderOk(l), NEW p, ProgressOk(l, p), NEW i \in Nat, i <= Len(l.log), p.match <= i,
         NEW q, q = BecomeSnapshot(p, i)
  PROVE  /\ ProgressOk(l, q) /\ q.match = p.match /\ q.state = "snapshot" /\ q.next = i + 1
<1>1. /\ p \in Progresses /\ p.match \in Nat /\ p.size \in Nat /\ p.match <= Len(l.log) /\ Len(l.log) \in Nat
  BY ProgressType
<1>2. q = [p EXCEPT !.state = "snapshot", !.paused = FALSE, !.infl = << >>, !.pending = i, !.next = i + 1, !.sent = i]
  BY <1>1 DEF BecomeSnapshot, ResetState, Progresses
<1>3. /\ q \in Progresses /\ q.match = p.match /\ q.next = i + 1 /\ q.pending = i /\ q.infl = << >>
      /\ q.state = "snapshot" /\ q.size = p.size
  <2>0. PICK e : e = << >>
    OBVIOUS
  <2>1. e \in Seq(Nat) /\ 0 \in Nat
    BY <2>0
  <2>2. PICK n, a : n = i + 1 /\ a = i
    OBVIOUS
  <2>3. n \in Nat /\ a \in Nat
    BY <1>1, <2>2 DEF Progresses
  <2>4. q = Rewrite(p, "snapshot", i, e, n, a)
    BY <1>1, <1>2, <2>0, <2>2 DEF Progresses, Rewrite
  <2>5. "snapshot" \in {"probe", "replicate", "snapshot"}
    OBVIOUS
  <2>6. /\ q \in Progresses /\ q.match = p.match /\ q.next = n /\ q.pending = i /\ q.infl = e
        /\ q.state = "snapshot" /\ q.size = p.size /\ q.active = p.active
    BY <1>1, <2>1, <2>3, <2>4, <2>5, Rewritten
  <2> QED
    BY <2>0, <2>2, <2>6
<1>4. Window(q)
  BY <1>1, <1>3, EmptyWindow
<1> QED
  BY <1>1, <1>3, <1>4 DEF ProgressOk

\* One more message in the window.
LEMMA WindowAppend ==
  ASSUME NEW l, LeaderOk(l), NEW p, ProgressOk(l, p), p.state = "replicate", Len(p.infl) < p.size,
         NEW n \in Nat, n > 0, p.next + n <= Len(l.log) + 1,
         NEW q, q \in Progresses, q.match = p.match, q.next = p.next + n, q.state = p.state,
         q.pending = p.pending, q.infl = Append(p.infl, p.next + n - 1), q.size = p.size
  PROVE  ProgressOk(l, q)
<1>1. /\ p \in Progresses /\ p.match \in Nat /\ p.next \in Nat /\ p.size \in Nat /\ p.infl \in Seq(Nat)
      /\ Len(p.infl) \in Nat /\ p.match < p.next
  BY ProgressType
<1>2. p.next + n - 1 \in Nat
  BY <1>1
<1>3. /\ Len(q.infl) = Len(p.infl) + 1 /\ q.infl[Len(q.infl)] = p.next + n - 1
      /\ \A j \in 1 .. Len(p.infl) : q.infl[j] = p.infl[j]
  BY <1>1, <1>2
<1>4. CASE p.infl = << >>
  BY <1>1, <1>2, <1>3, <1>4 DEF Window, ProgressOk
<1>5. CASE p.infl # << >>
  <2>1. Len(p.infl) >= 1
    BY <1>1, <1>5
  <2>2. p.infl[Len(p.infl)] = p.next - 1 /\ p.infl[1] > p.match
    BY <1>5 DEF ProgressOk, Window
  <2>3. q.infl[1] > q.match
    BY <1>1, <1>3, <2>1, <2>2
  <2>4. ASSUME NEW j \in 2 .. Len(q.infl)
        PROVE  q.infl[j - 1] < q.infl[j]
    <3>1. CASE j = Len(q.infl)
      BY <1>1, <1>2, <1>3, <2>1, <2>2, <3>1
    <3>2. CASE j # Len(q.infl)
      <4>1. j \in 2 .. Len(p.infl) /\ j - 1 \in 1 .. Len(p.infl) /\ j \in 1 .. Len(p.infl)
        BY <1>1, <1>3, <3>2
      <4>2. p.infl[j - 1] < p.infl[j]
        BY <4>1 DEF ProgressOk, Window
      <4> QED
        BY <1>3, <4>1, <4>2
    <3> QED
      BY <3>1, <3>2
  <2>5. Window(q)
    <3>1. Len(q.infl) <= q.size /\ q.infl[Len(q.infl)] = q.next - 1
      BY <1>1, <1>2, <1>3
    <3> QED
      BY <2>3, <2>4, <3>1 DEF Window
  <2>6. /\ q.match < q.next /\ q.next <= Len(l.log) + 1 /\ q.pending <= Len(l.log)
    BY <1>1 DEF ProgressOk
  <2> QED
    BY <2>5, <2>6 DEF ProgressOk
<1> QED
  BY <1>4, <1>5

-----------------------------------------------------------------------------
(* Sending. *)

OutOk(l, out) ==
  /\ out \in Seq(Apps \cup Beats \cup Snaps)
  /\ \A k \in DOMAIN out : \/ out[k] \in Apps /\ out[k].prev <= out[k].last /\ out[k].last <= Len(l.log)
                           \/ out[k] \in Snaps /\ out[k].index <= Len(l.log)

\* What sending leaves.
SendOk(l, p, q, out) ==
  /\ ProgressOk(l, q) /\ q.match = p.match /\ q.next >= p.next /\ q.state \in {p.state, "snapshot"}
  /\ OutOk(l, out)

\* Sending nothing is sound.
LEMMA NothingSent ==
  ASSUME NEW l, LeaderOk(l), NEW p, ProgressOk(l, p)
  PROVE  SendOk(l, p, p, << >>)
<1>1. OutOk(l, << >>)
  BY DEF OutOk
<1>2. p.next \in Nat
  BY ProgressType
<1> QED
  BY <1>1, <1>2 DEF SendOk

\* So is sending a snapshot in place of compacted entries.
LEMMA SnapshotSends ==
  ASSUME NEW l, LeaderOk(l), NEW p, ProgressOk(l, p), p.next - 1 < l.base,
         NEW s, s = MaybeSendSnapshot(l, p)
  PROVE  SendOk(l, p, s.pr, s.out)
<1>1. /\ p.match \in Nat /\ p.next \in Nat /\ p.match < p.next /\ Len(l.log) \in Nat
      /\ l.base \in Nat /\ l.base <= l.snap /\ l.snap \in Nat /\ l.snap <= Len(l.log)
  BY LeaderType, ProgressType
<1>2. CASE p.active
  <2>1. PICK q : q = BecomeSnapshot(p, l.snap)
    OBVIOUS
  <2>2. s.pr = q /\ s.out = <<[type |-> "Snap", index |-> l.snap]>>
    BY <1>2, <2>1 DEF MaybeSendSnapshot, Sent
  <2>3. p.match <= l.snap /\ l.snap <= Len(l.log)
    BY <1>1
  <2>4. ProgressOk(l, q) /\ q.match = p.match /\ q.state = "snapshot" /\ q.next = l.snap + 1
    BY <1>1, <2>1, <2>3, SnapshotOk
  <2>5. PICK m : m = [type |-> "Snap", index |-> l.snap]
    OBVIOUS
  <2>6. m \in Snaps /\ m.index = l.snap
    BY <1>1, <2>5 DEF Snaps
  <2>7. s.out = <<m>>
    BY <2>2, <2>5
  <2>8. OutOk(l, s.out)
    BY <1>1, <2>6, <2>7 DEF OutOk
  <2> QED
    BY <1>1, <2>2, <2>4, <2>8 DEF SendOk
<1>3. CASE ~p.active
  <2>1. s.pr = p /\ s.out = << >>
    BY <1>3 DEF MaybeSendSnapshot, Sent
  <2> QED
    BY <2>1, NothingSent
<1> QED
  BY <1>2, <1>3

SendAppend(l, p) == MaybeSendAppend(l, p, TRUE)

\* All but the flags and the commit index sent is kept.
SameFlow(p, q) ==
  /\ q \in Progresses /\ q.match = p.match /\ q.next = p.next /\ q.state = p.state
  /\ q.pending = p.pending /\ q.infl = p.infl /\ q.size = p.size

\* What leaves Match, Next, state and window alone keeps Progress sound.
LEMMA SameFlowOk ==
  ASSUME NEW l, NEW p, ProgressOk(l, p), NEW q, SameFlow(p, q)
  PROVE  ProgressOk(l, q) /\ q.match = p.match /\ q.next = p.next /\ q.state = p.state
BY DEF ProgressOk, Window, SameFlow

\* The Progress after a MsgApp of n entries and the commit index c.
SentApp(p, n, c) == [SentEntries(p, n) EXCEPT !.sent = c]

\* SentEntries only sets flags when probing or with nothing to send,
LEMMA EntriesFlags ==
  ASSUME NEW p, p \in Progresses, NEW n, n \in Nat, NEW c, c \in Nat, p.state # "replicate" \/ n = 0,
         NEW q, q = SentApp(p, n, c)
  PROVE  SameFlow(p, q)
<1>1. CASE p.state # "replicate"
  BY <1>1 DEF Progresses, SameFlow, SentApp, SentEntries
<1>2. CASE p.state = "replicate" /\ n = 0
  BY <1>2 DEF Progresses, SameFlow, SentApp, SentEntries, Full
<1> QED
  BY <1>1, <1>2

\* One more message of n entries is in flight.
MoreFlow(p, q, n) ==
  /\ q \in Progresses /\ q.match = p.match /\ q.next = p.next + n /\ q.state = p.state
  /\ q.pending = p.pending /\ q.infl = Append(p.infl, p.next + n - 1) /\ q.size = p.size

\* and otherwise moves Next and adds to the window.
LEMMA EntriesMove ==
  ASSUME NEW p, p \in Progresses, NEW n, n \in Nat, NEW c, c \in Nat, p.state = "replicate", n # 0,
         NEW q, q = SentApp(p, n, c)
  PROVE  MoreFlow(p, q, n)
<1>0. PICK w, k : w = Append(p.infl, p.next + n - 1) /\ k = p.next + n
  OBVIOUS
<1>1. w \in Seq(Nat) /\ k \in Nat
  BY <1>0 DEF Progresses
<1>2. PICK x : x = [p EXCEPT !.next = k, !.infl = w]
  OBVIOUS
<1>3. /\ x \in Progresses /\ x.match = p.match /\ x.next = k /\ x.state = p.state
      /\ x.pending = p.pending /\ x.infl = w /\ x.size = p.size
  BY <1>1, <1>2 DEF Progresses
<1>4. SentEntries(p, n) = [x EXCEPT !.paused = Full(x)]
  BY <1>0, <1>2 DEF SentEntries
<1>5. SameFlow(x, q)
  BY <1>3, <1>4 DEF Progresses, SameFlow, SentApp, Full
<1> QED
  BY <1>0, <1>3, <1>5 DEF SameFlow, MoreFlow

\* Either way Progress stays sound.
LEMMA EntriesSend ==
  ASSUME NEW l, LeaderOk(l), NEW p, ProgressOk(l, p), NEW n, n \in Nat, p.next + n <= Len(l.log) + 1,
         p.state = "replicate" /\ Full(p) => n = 0,
         NEW q, q = SentApp(p, n, l.commit)
  PROVE  ProgressOk(l, q) /\ q.match = p.match /\ q.next >= p.next /\ q.state = p.state
<1>1. /\ p \in Progresses /\ p.match \in Nat /\ p.next \in Nat /\ p.size \in Nat /\ p.infl \in Seq(Nat)
      /\ Len(p.infl) \in Nat /\ p.next >= 1
  BY ProgressType
<1>0. PICK c : c = l.commit
  OBVIOUS
<1>2. c \in Nat /\ q = SentApp(p, n, c)
  BY <1>0, LeaderType
<1>3. CASE p.state # "replicate" \/ n = 0
  <2>1. SameFlow(p, q)
    BY <1>1, <1>2, <1>3, EntriesFlags
  <2>2. ProgressOk(l, q) /\ q.match = p.match /\ q.next = p.next /\ q.state = p.state
    BY <2>1, SameFlowOk
  <2> QED
    BY <1>1, <2>2
<1>4. CASE p.state = "replicate" /\ n # 0
  <2>5. /\ q \in Progresses /\ q.match = p.match /\ q.next = p.next + n /\ q.state = p.state
        /\ q.pending = p.pending /\ q.infl = Append(p.infl, p.next + n - 1) /\ q.size = p.size
    <3>1. MoreFlow(p, q, n)
      BY <1>1, <1>2, <1>4, EntriesMove
    <3> QED
      BY <3>1 DEF MoreFlow
  <2>6. Len(p.infl) < p.size
    <3>1. Len(p.infl) # p.size
      BY <1>4 DEF Full
    <3>2. Len(p.infl) <= p.size
      BY DEF ProgressOk, Window
    <3> QED
      BY <1>1, <3>1, <3>2
  <2>7. n > 0
    BY <1>4
  <2>8. ProgressOk(l, q)
    BY <1>1, <1>4, <2>5, <2>6, <2>7, WindowAppend
  <2> QED
    BY <1>1, <2>5, <2>8
<1> QED
  BY <1>3, <1>4

\* maybeSendAppend keeps Progress sound and sends true messages.
LEMMA AppendSends ==
  ASSUME NEW l, LeaderOk(l), NEW p, ProgressOk(l, p), NEW s, s = SendAppend(l, p)
  PROVE  SendOk(l, p, s.pr, s.out)
<1>1. /\ p.next \in Nat /\ p.next >= 1 /\ p.next <= Len(l.log) + 1 /\ Len(l.log) \in Nat
      /\ MsgEntries \in Nat /\ l.commit \in Nat
  BY LeaderType, ProgressType, FlowAssumption
<1>2. PICK n : n = IF p.state = "replicate" /\ Full(p) THEN 0 ELSE MinOf(MsgEntries, Len(l.log) - (p.next - 1))
  OBVIOUS
<1>3. n \in Nat /\ p.next + n <= Len(l.log) + 1
  BY <1>1, <1>2, MinMax DEF MinOf
<1>4. CASE IsPaused(p)
  <2>1. s.pr = p /\ s.out = << >>
    BY <1>4 DEF SendAppend, MaybeSendAppend, Sent
  <2> QED
    BY <2>1, NothingSent
<1>5. CASE ~IsPaused(p) /\ p.next - 1 < l.base
  <2>1. s = MaybeSendSnapshot(l, p)
    BY <1>5 DEF SendAppend, MaybeSendAppend
  <2> QED
    BY <1>5, <2>1, SnapshotSends
<1>6. CASE ~IsPaused(p) /\ p.next - 1 >= l.base
  <2>1. PICK m, q : /\ q = SentApp(p, n, l.commit)
                    /\ m = [type |-> "App", prev |-> p.next - 1, last |-> p.next - 1 + n, commit |-> l.commit]
    OBVIOUS
  <2>2. s = [pr |-> q, out |-> <<m>>]
    <3>1. ~(p.next - 1 < l.base)
      BY <1>1, <1>6, LeaderType
    <3> QED
      BY <1>2, <1>6, <2>1, <3>1 DEF SendAppend, MaybeSendAppend, Sent, SentApp
  <2>3. m \in Apps /\ m.prev <= m.last /\ m.last <= Len(l.log)
    <3>1. PICK i, j : i = p.next - 1 /\ j = p.next - 1 + n
      OBVIOUS
    <3>2. i \in Nat /\ j \in Nat /\ i <= j /\ j <= Len(l.log)
      BY <1>1, <1>3, <3>1
    <3>3. m = [type |-> "App", prev |-> i, last |-> j, commit |-> l.commit]
      BY <2>1, <3>1
    <3> QED
      BY <1>1, <3>2, <3>3 DEF Apps
  <2>4. ProgressOk(l, q) /\ q.match = p.match /\ q.next >= p.next /\ q.state = p.state
    BY <1>2, <1>3, <2>1, EntriesSend
  <2>5. OutOk(l, <<m>>)
    BY <2>3 DEF OutOk
  <2>6. s.pr = q /\ s.out = <<m>>
    BY <2>2
  <2> QED
    BY <2>4, <2>5, <2>6 DEF SendOk
<1>7. IsPaused(p) \/ p.next - 1 < l.base \/ p.next - 1 >= l.base
  BY <1>1, LeaderType
<1> QED
  BY <1>4, <1>5, <1>6, <1>7

-----------------------------------------------------------------------------
(* The messages of SendAll: the k-th is for the entries after ChunkFrom up *)
(* to ChunkUpto.                                                           *)

ChunkFrom(prev, k) == prev + (k - 1) * MsgEntries
ChunkUpto(prev, len, k) == MinOf(prev + k * MsgEntries, len)

\* Multiples of the message size.
LEMMA Multiples ==
  ASSUME NEW a \in Nat, NEW b \in Nat, a <= b
  PROVE  /\ a * MsgEntries \in Nat /\ b * MsgEntries \in Nat /\ a * MsgEntries <= b * MsgEntries
         /\ (a + 1) * MsgEntries = a * MsgEntries + MsgEntries
<1>1. MsgEntries \in Nat /\ MsgEntries > 0
  BY FlowAssumption
<1>2. PICK c \in Nat : b = a + c
  <2>1. b - a \in Nat /\ b = a + (b - a)
    OBVIOUS
  <2> QED
    BY <2>1
<1>3. PICK x, y : x = a * MsgEntries /\ y = c * MsgEntries
  OBVIOUS
<1>4. x \in Nat /\ y \in Nat
  BY <1>1, <1>3
<1>5. b * MsgEntries = x + y
  BY <1>1, <1>2, <1>3
<1>6. (a + 1) * MsgEntries = a * MsgEntries + MsgEntries
  BY <1>1
<1> QED
  BY <1>3, <1>4, <1>5, <1>6

\* The messages of one burst: each is not empty, lies in the log and begins
\* where the one before it ends.
LEMMA Chunks ==
  ASSUME NEW prev \in Nat, NEW len \in Nat, NEW d \in Nat, NEW n,
         n = Cardinality({k \in 1 .. d : ChunkFrom(prev, k) < len})
  PROVE  /\ n \in Nat /\ n <= d
         /\ \A k \in 1 .. n : /\ ChunkFrom(prev, k) \in Nat /\ ChunkUpto(prev, len, k) \in Nat
                              /\ prev <= ChunkFrom(prev, k) /\ ChunkFrom(prev, k) < ChunkUpto(prev, len, k)
                              /\ ChunkUpto(prev, len, k) <= len
         /\ \A k \in 2 .. n : ChunkUpto(prev, len, k - 1) < ChunkUpto(prev, len, k)
<1> DEFINE K == {k \in 1 .. d : ChunkFrom(prev, k) < len}
           T == K \cup {0}
<1>1. MsgEntries \in Nat /\ MsgEntries > 0
  BY FlowAssumption
<1>2. ASSUME NEW k \in Nat, k >= 1
      PROVE  /\ (k - 1) * MsgEntries \in Nat /\ k * MsgEntries = (k - 1) * MsgEntries + MsgEntries
             /\ ChunkFrom(prev, k) \in Nat /\ prev <= ChunkFrom(prev, k)
             /\ prev + k * MsgEntries = ChunkFrom(prev, k) + MsgEntries
  <2>1. PICK j \in Nat : k = j + 1
    <3>1. k - 1 \in Nat /\ k = (k - 1) + 1
      BY <1>2
    <3> QED
      BY <3>1
  <2>2. j * MsgEntries \in Nat /\ (j + 1) * MsgEntries = j * MsgEntries + MsgEntries
    BY Multiples
  <2>3. k - 1 = j
    BY <2>1
  <2> QED
    BY <1>1, <2>1, <2>2, <2>3 DEF ChunkFrom
<1>3. PICK h : h = Highest(T)
  OBVIOUS
<1>4. h \in T /\ \A j \in T : j <= h
  <2>1. T \in SUBSET (0 .. d) /\ T # {}
    OBVIOUS
  <2> QED
    BY <1>3, <2>1, HighestIs
<1>5. h \in Nat /\ h <= d
  BY <1>4
<1>6. \A k \in 1 .. h : k \in K
  <2> TAKE k \in 1 .. h
  <2>1. h \in K /\ h \in Nat /\ ChunkFrom(prev, h) < len
    BY <1>4, <1>5
  <2>2. PICK i \in Nat, j \in Nat : i = k - 1 /\ j = h - 1
    BY <2>1
  <2>3. i * MsgEntries <= j * MsgEntries /\ i * MsgEntries \in Nat /\ j * MsgEntries \in Nat
    BY <2>1, <2>2, Multiples
  <2>4. ChunkFrom(prev, k) = prev + i * MsgEntries /\ ChunkFrom(prev, h) = prev + j * MsgEntries
    BY <2>2 DEF ChunkFrom
  <2> QED
    BY <1>5, <2>1, <2>3, <2>4
<1>7. K = 1 .. h
  <2>1. \A k \in K : k \in 1 .. h
    BY <1>4, <1>5
  <2> QED
    BY <1>6, <2>1
<1>8. n = h
  <2>1. Cardinality(1 .. h) = h
    BY <1>5, FS_Interval
  <2> QED
    BY <1>7, <2>1
<1>9. \A k \in 1 .. n : k \in Nat /\ k >= 1 /\ ChunkFrom(prev, k) < len
  BY <1>5, <1>6, <1>8
<1> HIDE DEF K, T
<1>10. ASSUME NEW k \in 1 .. n
       PROVE  /\ ChunkFrom(prev, k) \in Nat /\ ChunkUpto(prev, len, k) \in Nat
              /\ prev <= ChunkFrom(prev, k) /\ ChunkFrom(prev, k) < ChunkUpto(prev, len, k)
              /\ ChunkUpto(prev, len, k) <= len
  BY <1>1, <1>2, <1>9 DEF ChunkUpto, MinOf
<1>11. ASSUME NEW k \in 2 .. n
       PROVE  ChunkUpto(prev, len, k - 1) < ChunkUpto(prev, len, k)
  <2>0. PICK j : j = k - 1
    OBVIOUS
  <2>1. j \in Nat /\ j >= 1 /\ k \in 1 .. n /\ k \in Nat /\ k >= 1
    BY <1>5, <1>8, <2>0
  <2>2. ChunkFrom(prev, k) = prev + j * MsgEntries
    BY <2>0 DEF ChunkFrom
  <2>3. j * MsgEntries \in Nat
    BY <1>1, <2>1
  <2>4. ChunkUpto(prev, len, j) <= ChunkFrom(prev, k)
    BY <2>2, <2>3 DEF ChunkUpto, MinOf
  <2>5. ChunkUpto(prev, len, j) \in Nat
    BY <2>3 DEF ChunkUpto, MinOf
  <2>6. ChunkFrom(prev, k) < ChunkUpto(prev, len, k) /\ ChunkFrom(prev, k) \in Nat /\ ChunkUpto(prev, len, k) \in Nat
    BY <1>10, <2>1
  <2> QED
    BY <2>0, <2>4, <2>5, <2>6
<1> QED
  BY <1>5, <1>8, <1>10, <1>11

\* A window followed by increasing indexes.
Extends(p, q, w) ==
  /\ q \in Progresses /\ q.match = p.match /\ q.next = w[Len(w)] + 1 /\ q.state = p.state
  /\ q.pending = p.pending /\ q.infl = p.infl \o w /\ q.size = p.size

Rising(p, w) ==
  /\ w \in Seq(Nat) /\ Len(w) > 0 /\ Len(p.infl) + Len(w) <= p.size /\ w[1] >= p.next
  /\ \A j \in 2 .. Len(w) : w[j - 1] < w[j]

\* A rising run of last indexes extends the window.
LEMMA WindowExtend ==
  ASSUME NEW l, LeaderOk(l), NEW p, ProgressOk(l, p), p.state = "replicate",
         NEW w, Rising(p, w), w[Len(w)] >= p.next, w[Len(w)] <= Len(l.log),
         NEW q, Extends(p, q, w)
  PROVE  ProgressOk(l, q)
<1>1. /\ p \in Progresses /\ p.match \in Nat /\ p.next \in Nat /\ p.size \in Nat /\ p.infl \in Seq(Nat)
      /\ Len(p.infl) \in Nat /\ p.match < p.next /\ p.next >= 1 /\ Len(l.log) \in Nat
  BY ProgressType
<1>2. /\ w \in Seq(Nat) /\ Len(w) \in Nat /\ Len(w) > 0 /\ Len(p.infl) + Len(w) <= p.size /\ w[1] >= p.next
      /\ \A j \in 2 .. Len(w) : w[j - 1] < w[j]
      /\ w[1] \in Nat /\ w[Len(w)] \in Nat
  BY DEF Rising
<1>3. PICK e, n : e = p.infl /\ n = Len(p.infl)
  OBVIOUS
<1>4. PICK v : v = e \o w
  OBVIOUS
<1>5. /\ v \in Seq(Nat) /\ Len(v) = n + Len(w) /\ \A j \in 1 .. n : v[j] = e[j]
      /\ \A j \in 1 .. Len(w) : v[n + j] = w[j]
  BY <1>1, <1>2, <1>3, <1>4
<1>6. q.infl = v /\ q.next = w[Len(w)] + 1 /\ q.match = p.match /\ q.size = p.size
  BY <1>3, <1>4 DEF Extends
<1>7. /\ Len(v) <= q.size /\ v[Len(v)] = q.next - 1
  <2>1. v[n + Len(w)] = w[Len(w)]
    BY <1>2, <1>5
  <2> QED
    BY <1>1, <1>2, <1>3, <1>5, <1>6, <2>1
<1>8. n # 0 => e[n] = p.next - 1 /\ e[1] > p.match
  <2>1. n # 0 => p.infl # << >>
    BY <1>1, <1>3
  <2> QED
    BY <1>3, <2>1 DEF ProgressOk, Window
<1>9. v[1] > q.match
  <2>1. CASE n = 0
    <3>1. v[n + 1] = w[1]
      BY <1>2, <1>5
    <3> QED
      BY <1>1, <1>2, <1>6, <2>1, <3>1
  <2>2. CASE n # 0
    <3>1. v[1] = e[1]
      BY <1>1, <1>3, <1>5, <2>2
    <3> QED
      BY <1>6, <1>8, <2>2, <3>1
  <2> QED
    BY <2>1, <2>2
<1>10. ASSUME NEW j \in 2 .. Len(v)
       PROVE  v[j - 1] < v[j]
  <2>0. n \in Nat
    BY <1>1, <1>3
  <2>1. CASE j <= n
    <3>1. j \in 2 .. Len(p.infl) /\ j - 1 \in 1 .. n /\ j \in 1 .. n
      BY <1>3, <2>0, <2>1
    <3>2. e[j - 1] < e[j]
      BY <1>3, <3>1 DEF ProgressOk, Window
    <3> QED
      BY <1>5, <3>1, <3>2
  <2>2. CASE j = n + 1
    <3>1. v[j] = w[1]
      BY <1>2, <1>5, <2>2
    <3>2. n # 0 /\ n \in 1 .. n /\ j - 1 = n
      BY <2>0, <2>2
    <3>3. v[j - 1] = e[n]
      BY <1>5, <3>2
    <3> QED
      BY <1>1, <1>2, <1>8, <3>1, <3>2, <3>3
  <2>3. CASE j > n + 1
    <3>1. PICK i : i = j - n
      OBVIOUS
    <3>2. i \in 2 .. Len(w) /\ i - 1 \in 1 .. Len(w) /\ i \in 1 .. Len(w) /\ j = n + i /\ j - 1 = n + (i - 1)
      BY <1>2, <1>5, <2>0, <2>3, <3>1
    <3>3. v[n + i] = w[i] /\ v[n + (i - 1)] = w[i - 1]
      BY <1>5, <3>2
    <3> QED
      BY <1>2, <3>2, <3>3
  <2> QED
    BY <2>0, <2>1, <2>2, <2>3
<1>11. Window(q)
  BY <1>6, <1>7, <1>9, <1>10 DEF Window
<1>12. /\ q.match < q.next /\ q.next <= Len(l.log) + 1 /\ q.pending <= Len(l.log)
  BY <1>1, <1>2, <1>6 DEF ProgressOk, Extends
<1> QED
  BY <1>11, <1>12 DEF ProgressOk, Extends

\* The Progress and the messages of SendAll when it sends entries.
AllSent(l, p, n) ==
  [p EXCEPT !.next = ChunkUpto(p.next - 1, Len(l.log), n) + 1,
            !.infl = p.infl \o [k \in 1 .. n |-> ChunkUpto(p.next - 1, Len(l.log), k)],
            !.sent = l.commit,
            !.paused = Len(p.infl \o [k \in 1 .. n |-> ChunkUpto(p.next - 1, Len(l.log), k)]) = p.size]

Chunk(l, p, k) ==
  [type |-> "App", prev |-> ChunkFrom(p.next - 1, k), last |-> ChunkUpto(p.next - 1, Len(l.log), k),
   commit |-> l.commit]

\* What a burst sends, when it is neither paused nor in need of a snapshot.
LEMMA SendAllIs ==
  ASSUME NEW l, NEW p, ~IsPaused(p), p.next - 1 >= l.base, ~(p.next - 1 < l.base), NEW n,
         n = Cardinality({k \in 1 .. p.size - Len(p.infl) : ChunkFrom(p.next - 1, k) < Len(l.log)}),
         NEW s, s = SendAll(l, p)
  PROVE  s = IF n = 0 THEN Sent(p, << >>)
             ELSE Sent(AllSent(l, p, n), [k \in 1 .. n |-> Chunk(l, p, k)])
BY DEF SendAll, AllSent, Chunk, ChunkFrom, ChunkUpto

Uptos(l, p, n) == [k \in 1 .. n |-> ChunkUpto(p.next - 1, Len(l.log), k)]
LastUpto(l, p, n) == ChunkUpto(p.next - 1, Len(l.log), n) + 1

WindowIs(p, q, i, w) ==
  /\ q \in Progresses /\ q.match = p.match /\ q.next = i /\ q.state = p.state
  /\ q.pending = p.pending /\ q.infl = p.infl \o w /\ q.size = p.size

\* The fields after a burst.
LEMMA AllSentType ==
  ASSUME NEW l, l.commit \in Nat, NEW p, p \in Progresses, NEW n, NEW w, w \in Seq(Nat),
         w = Uptos(l, p, n), NEW i, i \in Nat, i = LastUpto(l, p, n),
         NEW q, q = AllSent(l, p, n)
  PROVE  WindowIs(p, q, i, w)
<1>1. PICK v, c : v = p.infl \o w /\ c = l.commit
  OBVIOUS
<1>2. v \in Seq(Nat) /\ c \in Nat
  BY <1>1 DEF Progresses
<1>3. q = [p EXCEPT !.next = i, !.infl = v, !.sent = c, !.paused = Len(v) = p.size]
  BY <1>1 DEF AllSent, Uptos, LastUpto
<1> QED
  BY <1>1, <1>2, <1>3 DEF Progresses, WindowIs

\* A burst keeps Progress sound and sends true messages.
LEMMA AllSends ==
  ASSUME NEW l, LeaderOk(l), NEW p, ProgressOk(l, p), p.state \in {"replicate", "snapshot"},
         NEW s, s = SendAll(l, p)
  PROVE  SendOk(l, p, s.pr, s.out)
<1>1. /\ p.next \in Nat /\ p.next >= 1 /\ p.next <= Len(l.log) + 1 /\ Len(l.log) \in Nat
      /\ l.commit \in Nat /\ l.base \in Nat /\ p.size \in Nat /\ Len(p.infl) \in Nat /\ p \in Progresses
      /\ p.infl \in Seq(Nat)
  BY LeaderType, ProgressType
<1>2. CASE IsPaused(p)
  <2>1. s.pr = p /\ s.out = << >>
    BY <1>2 DEF SendAll, Sent
  <2> QED
    BY <2>1, NothingSent
<1>3. CASE ~IsPaused(p) /\ p.next - 1 < l.base
  <2>0. ~(p.next - 1 >= l.base)
    BY <1>1, <1>3
  <2>1. s = MaybeSendSnapshot(l, p)
    BY <1>3, <2>0 DEF SendAll
  <2> QED
    BY <1>3, <2>1, SnapshotSends
<1>4. CASE ~IsPaused(p) /\ p.next - 1 >= l.base
  <2> DEFINE ChunkSet == {k \in 1 .. p.size - Len(p.infl) : ChunkFrom(p.next - 1, k) < Len(l.log)}
  <2>1. PICK n : n = Cardinality(ChunkSet)
    OBVIOUS
  <2>2. s = IF n = 0 THEN Sent(p, << >>)
            ELSE Sent(AllSent(l, p, n), [k \in 1 .. n |-> Chunk(l, p, k)])
    <3>1. ~(p.next - 1 < l.base)
      BY <1>1, <1>4
    <3> QED
      BY <1>4, <2>1, <3>1, SendAllIs
  <2>3. PICK prev, len, d : prev = p.next - 1 /\ len = Len(l.log) /\ d = p.size - Len(p.infl)
    OBVIOUS
  <2>4. prev \in Nat /\ len \in Nat /\ d \in Nat
    <3>1. Len(p.infl) <= p.size
      BY DEF ProgressOk, Window
    <3> QED
      BY <1>1, <2>3, <3>1
  <2>5. n = Cardinality({k \in 1 .. d : ChunkFrom(prev, k) < len})
    BY <2>1, <2>3
  <2> HIDE DEF ChunkSet
  <2>6. /\ n \in Nat /\ n <= d
        /\ \A k \in 1 .. n : /\ ChunkFrom(prev, k) \in Nat /\ ChunkUpto(prev, len, k) \in Nat
                             /\ prev <= ChunkFrom(prev, k) /\ ChunkFrom(prev, k) < ChunkUpto(prev, len, k)
                             /\ ChunkUpto(prev, len, k) <= len
        /\ \A k \in 2 .. n : ChunkUpto(prev, len, k - 1) < ChunkUpto(prev, len, k)
    BY <2>4, <2>5, Chunks
  <2>7. CASE n = 0
    <3>1. s.pr = p /\ s.out = << >>
      BY <2>2, <2>7 DEF Sent
    <3> QED
      BY <3>1, NothingSent
  <2>8. CASE n # 0
    <3>1. PICK q, out : q = AllSent(l, p, n) /\ out = [k \in 1 .. n |-> Chunk(l, p, k)]
      OBVIOUS
    <3>2. s.pr = q /\ s.out = out
      BY <2>2, <2>8, <3>1 DEF Sent
    <3>3. PICK w : w = [k \in 1 .. n |-> ChunkUpto(prev, len, k)]
      OBVIOUS
    <3>4. w \in Seq(Nat) /\ Len(w) = n /\ \A k \in 1 .. n : w[k] = ChunkUpto(prev, len, k)
      BY <2>6, <3>3
    <3>5. PICK i : i = ChunkUpto(prev, len, n) + 1
      OBVIOUS
    <3>6. /\ 1 \in 1 .. n /\ n \in 1 .. n /\ ChunkUpto(prev, len, n) \in Nat /\ ChunkUpto(prev, len, 1) \in Nat
          /\ ChunkUpto(prev, len, n) <= len /\ ChunkUpto(prev, len, n) > prev
          /\ ChunkUpto(prev, len, 1) > prev
      <4>1. 1 \in 1 .. n /\ n \in 1 .. n
        BY <2>6, <2>8
      <4> QED
        BY <2>4, <2>6, <4>1
    <3>7. i \in Nat
      BY <3>5, <3>6
    <3>8. /\ q \in Progresses /\ q.match = p.match /\ q.next = i /\ q.state = p.state
          /\ q.pending = p.pending /\ q.infl = p.infl \o w /\ q.size = p.size
      <4>1. w = Uptos(l, p, n) /\ i = LastUpto(l, p, n)
        BY <2>3, <3>3, <3>5 DEF Uptos, LastUpto
      <4>2. WindowIs(p, q, i, w)
        BY <1>1, <3>1, <3>4, <3>7, <4>1, AllSentType
      <4> QED
        BY <4>2 DEF WindowIs
    <3>9. w[n] = i - 1 /\ w[n] <= Len(l.log) /\ w[n] >= p.next /\ w[1] >= p.next
      <4>1. PICK a, b : a = ChunkUpto(prev, len, n) /\ b = ChunkUpto(prev, len, 1)
        OBVIOUS
      <4>2. w[n] = a /\ w[1] = b /\ a \in Nat /\ b \in Nat /\ a <= len /\ a > prev /\ b > prev /\ i = a + 1
        BY <3>4, <3>5, <3>6, <4>1
      <4>3. a = i - 1 /\ a <= Len(l.log) /\ a >= p.next /\ b >= p.next
        BY <1>1, <2>3, <2>4, <4>2
      <4> QED
        BY <4>2, <4>3
    <3>10. Extends(p, q, w)
      BY <3>4, <3>5, <3>6, <3>8 DEF Extends
    <3>11. Rising(p, w)
      <4>1. Len(p.infl) + n <= p.size
        BY <1>1, <2>3, <2>6
      <4>2. \A j \in 2 .. n : w[j - 1] < w[j]
        <5> TAKE j \in 2 .. n
        <5>1. j - 1 \in 1 .. n /\ j \in 1 .. n
          BY <2>6
        <5> QED
          BY <2>6, <3>4, <5>1
      <4> QED
        BY <2>6, <2>8, <3>4, <3>9, <4>1, <4>2 DEF Rising
    <3>12. p.state = "replicate"
      BY <1>4 DEF IsPaused
    <3>13. ProgressOk(l, q)
      BY <3>4, <3>9, <3>10, <3>11, <3>12, WindowExtend
    <3>14. \A k \in 1 .. n : Chunk(l, p, k) \in Apps /\ Chunk(l, p, k).prev <= Chunk(l, p, k).last
                             /\ Chunk(l, p, k).last <= Len(l.log)
      <4> TAKE k \in 1 .. n
      <4>1. PICK a, b : a = ChunkFrom(prev, k) /\ b = ChunkUpto(prev, len, k)
        OBVIOUS
      <4>2. a \in Nat /\ b \in Nat /\ a <= b /\ b <= Len(l.log)
        BY <2>3, <2>6, <4>1
      <4>3. Chunk(l, p, k) = [type |-> "App", prev |-> a, last |-> b, commit |-> l.commit]
        BY <2>3, <4>1 DEF Chunk
      <4> QED
        BY <1>1, <4>2, <4>3 DEF Apps
    <3>15. OutOk(l, out)
      <4>1. out \in Seq(Apps \cup Beats \cup Snaps) /\ DOMAIN out = 1 .. n /\ \A k \in 1 .. n : out[k] = Chunk(l, p, k)
        BY <2>6, <3>1, <3>14
      <4> QED
        BY <3>14, <4>1 DEF OutOk
    <3>16. q.next >= p.next
      BY <1>1, <3>7, <3>8, <3>9
    <3> QED
      BY <3>2, <3>8, <3>13, <3>15, <3>16 DEF SendOk
  <2> QED
    BY <2>7, <2>8
<1> QED
  BY <1>1, <1>2, <1>3, <1>4

-----------------------------------------------------------------------------
(* A step of the leader. *)

FMsgs == Apps \cup Beats \cup Snaps
LMsgs == Accepts \cup Rejects \cup BeatResps

ToFAllOk(l, f, s) == s \in Seq(FMsgs) /\ \A k \in DOMAIN s : ToFOk(l, f, s[k])
ToLAllOk(l, f, s) == s \in Seq(LMsgs) /\ \A k \in DOMAIN s : ToLOk(l, f, s[k])

\* The parts of the invariant,
LEMMA FlowInvIs ==
  FlowInv <=> /\ ~panicked /\ LeaderOk(ld) /\ FollowerOk(ld, fo) /\ ProgressOk(ld, pr)
              /\ Agreed(ld, fo, pr.match) /\ ToFAllOk(ld, fo, toF) /\ ToLAllOk(ld, fo, toL)
              /\ reports \in Seq(BOOLEAN)
BY DEF FlowInv, ToFAllOk, ToLAllOk, FMsgs, LMsgs

\* and of the invariant after a step.
LEMMA FlowInvNext ==
  FlowInv' <=> /\ ~panicked' /\ LeaderOk(ld') /\ FollowerOk(ld', fo') /\ ProgressOk(ld', pr')
               /\ Agreed(ld', fo', pr'.match) /\ ToFAllOk(ld', fo', toF') /\ ToLAllOk(ld', fo', toL')
               /\ reports' \in Seq(BOOLEAN)
BY DEF FlowInv, ToFAllOk, ToLAllOk, FMsgs, LMsgs

\* True messages may join those on their way.
LEMMA OutJoins ==
  ASSUME NEW l, NEW f, NEW s, ToFAllOk(l, f, s), NEW out, OutOk(l, out)
  PROVE  ToFAllOk(l, f, s \o out)
<1>1. s \in Seq(FMsgs) /\ out \in Seq(FMsgs)
  BY DEF ToFAllOk, OutOk, FMsgs
<1>2. \A k \in DOMAIN out : ToFOk(l, f, out[k])
  BY DEF OutOk, ToFOk
<1>3. PICK t : t = s \o out
  OBVIOUS
<1>4. /\ t \in Seq(FMsgs) /\ Len(s) \in Nat /\ Len(out) \in Nat /\ DOMAIN t = 1 .. Len(s) + Len(out)
      /\ DOMAIN s = 1 .. Len(s) /\ DOMAIN out = 1 .. Len(out)
      /\ \A k \in 1 .. Len(s) : t[k] = s[k]
      /\ \A k \in 1 .. Len(out) : t[Len(s) + k] = out[k]
  BY <1>1, <1>3
<1>5. ASSUME NEW k \in DOMAIN t
      PROVE  ToFOk(l, f, t[k])
  <2>1. CASE k <= Len(s)
    BY <1>4, <2>1 DEF ToFAllOk
  <2>2. CASE k > Len(s)
    <3>1. PICK j : j = k - Len(s)
      OBVIOUS
    <3>2. j \in 1 .. Len(out) /\ k = Len(s) + j
      BY <1>4, <2>2, <3>1
    <3> QED
      BY <1>2, <1>4, <3>2
  <2> QED
    BY <1>4, <2>1, <2>2
<1> QED
  BY <1>3, <1>4, <1>5 DEF ToFAllOk

\* The messages on their way stay true while the leader grows,
LEMMA GrownAll ==
  ASSUME NEW l, NEW n, LeaderOk(l), Grown(l, n), NEW f, FollowerOk(l, f), NEW s
  PROVE  (ToFAllOk(l, f, s) => ToFAllOk(n, f, s)) /\ (ToLAllOk(l, f, s) => ToLAllOk(n, f, s))
BY GrownMessages DEF ToFAllOk, ToLAllOk

\* and while the follower advances.
LEMMA AdvancedAll ==
  ASSUME NEW l, NEW f, NEW g, Advanced(l, f, g), NEW s
  PROVE  (ToFAllOk(l, f, s) => ToFAllOk(l, g, s)) /\ (ToLAllOk(l, f, s) => ToLAllOk(l, g, s))
BY AdvancedMessages DEF ToFAllOk, ToLAllOk

\* Taking a message leaves true ones: towards the follower,
LEMMA TailFOk ==
  ASSUME NEW l, NEW f, NEW s, s # << >>, ToFAllOk(l, f, s)
  PROVE  ToFAllOk(l, f, Tail(s)) /\ ToFOk(l, f, Head(s)) /\ Head(s) \in FMsgs
<1>1. /\ s \in Seq(FMsgs) /\ Len(s) \in Nat /\ Len(s) >= 1 /\ Tail(s) \in Seq(FMsgs) /\ Len(Tail(s)) = Len(s) - 1
      /\ \A k \in 1 .. Len(s) - 1 : Tail(s)[k] = s[k + 1]
      /\ Head(s) = s[1] /\ Head(s) \in FMsgs
  BY DEF ToFAllOk
<1> QED
  BY <1>1 DEF ToFAllOk

\* and towards the leader.
LEMMA TailLOk ==
  ASSUME NEW l, NEW f, NEW s, s # << >>, ToLAllOk(l, f, s)
  PROVE  ToLAllOk(l, f, Tail(s)) /\ ToLOk(l, f, Head(s)) /\ Head(s) \in LMsgs
<1>1. /\ s \in Seq(LMsgs) /\ Len(s) \in Nat /\ Len(s) >= 1 /\ Tail(s) \in Seq(LMsgs) /\ Len(Tail(s)) = Len(s) - 1
      /\ \A k \in 1 .. Len(s) - 1 : Tail(s)[k] = s[k + 1]
      /\ Head(s) = s[1] /\ Head(s) \in LMsgs
  BY DEF ToLAllOk
<1> QED
  BY <1>1 DEF ToLAllOk

\* The leader becomes l, its Progress q, and it sends out.
LeaderStep(l, q, out) == ld' = l /\ pr' = q /\ toF' = toF \o out

\* The others do nothing, but that a message to the leader may have gone.
Alone ==
  /\ fo' = fo /\ panicked' = panicked /\ reports' \in Seq(BOOLEAN)
  /\ toL' = toL \/ (toL # << >> /\ toL' = Tail(toL))

\* A step of the leader keeps the invariant if what it sends and believes is
\* sound.
LEMMA LeaderStepOk ==
  ASSUME FlowInv, Alone, NEW l, Grown(ld, l), NEW p, NEW q, NEW out, SendOk(l, p, q, out),
         Agreed(l, fo, p.match), LeaderStep(l, q, out)
  PROVE  FlowInv'
<1>1. /\ ~panicked /\ LeaderOk(ld) /\ FollowerOk(ld, fo) /\ ToFAllOk(ld, fo, toF) /\ ToLAllOk(ld, fo, toL)
  BY FlowInvIs
<1>2. LeaderOk(l) /\ FollowerOk(l, fo) /\ ToFAllOk(l, fo, toF) /\ ToLAllOk(l, fo, toL)
  BY <1>1, GrownFollower, GrownAll DEF Grown
<1>3. ToFAllOk(l, fo, toF \o out)
  BY <1>2, OutJoins DEF SendOk
<1>4. ToLAllOk(l, fo, toL')
  BY <1>2, TailLOk DEF Alone
<1>5. ld' = l /\ fo' = fo /\ pr' = q /\ toF' = toF \o out /\ ~panicked' /\ reports' \in Seq(BOOLEAN)
  BY <1>1 DEF Alone, LeaderStep
<1>6. ProgressOk(l, q) /\ Agreed(l, fo, q.match)
  BY DEF SendOk
<1> QED
  BY <1>2, <1>3, <1>4, <1>5, <1>6, FlowInvNext

\* A leader that keeps its log has grown.
LEMMA SameLog ==
  ASSUME NEW l, LeaderOk(l), NEW n, LeaderOk(n), n.log = l.log
  PROVE  Grown(l, n)
BY LeaderType DEF Grown

\* The leader becomes l, and it sends an append from p or nothing.
LeaderSends(l, p) ==
  /\ ld' = l
  /\ \/ pr' = SendAppend(l, p).pr /\ toF' = toF \o SendAppend(l, p).out
     \/ pr' = p /\ toF' = toF \o << >>

\* A step of the leader that ends in sending keeps the invariant, and does
\* not lower Next.
LEMMA LeaderSendsOk ==
  ASSUME FlowInv, Alone, NEW l, Grown(ld, l), NEW p, ProgressOk(l, p), Agreed(l, fo, p.match),
         LeaderSends(l, p)
  PROVE  FlowInv' /\ pr'.next >= p.next
<1>1. LeaderOk(l)
  BY DEF Grown
<1>2. CASE pr' = SendAppend(l, p).pr /\ toF' = toF \o SendAppend(l, p).out
  <2>1. PICK s : s = SendAppend(l, p)
    OBVIOUS
  <2>2. SendOk(l, p, s.pr, s.out)
    BY <1>1, <2>1, AppendSends
  <2>3. LeaderStep(l, s.pr, s.out)
    BY <1>2, <2>1 DEF LeaderSends, LeaderStep
  <2>4. FlowInv'
    BY <2>2, <2>3, LeaderStepOk
  <2> QED
    BY <1>2, <2>1, <2>2, <2>4 DEF SendOk
<1>3. CASE pr' = p /\ toF' = toF \o << >>
  <2>1. PICK e : e = << >>
    OBVIOUS
  <2>2. SendOk(l, p, p, e)
    BY <1>1, <2>1, NothingSent
  <2>3. LeaderStep(l, p, e)
    BY <1>3, <2>1 DEF LeaderSends, LeaderStep
  <2>4. FlowInv'
    BY <2>2, <2>3, LeaderStepOk
  <2> QED
    BY <1>3, <2>2, <2>4 DEF SendOk
<1> QED
  BY <1>2, <1>3 DEF LeaderSends

\* At most one append is such an end.
LEMMA OneSent ==
  ASSUME NEW l, NEW p, NEW s, s = SendAppend(l, p) \/ s = Sent(p, << >>),
         ld' = l, pr' = s.pr, toF' = toF \o s.out
  PROVE  LeaderSends(l, p)
<1>1. CASE s = SendAppend(l, p)
  BY <1>1 DEF LeaderSends
<1>2. CASE s = Sent(p, << >>)
  <2>1. s.pr = p /\ s.out = << >>
    BY <1>2 DEF Sent
  <2> QED
    BY <2>1 DEF LeaderSends
<1> QED
  BY <1>1, <1>2

\* maybeCommit keeps the leader's state right.
LEMMA CommitOk ==
  ASSUME NEW l, LeaderOk(l), NEW i, i \in Nat, i <= Len(l.log), NEW n, n = MaybeCommit(l, i)
  PROVE  LeaderOk(n) /\ Grown(l, n)
<1>1. /\ l.base \in Nat /\ l.snap \in Nat /\ l.commit \in Nat /\ l.other \in Nat
      /\ l.base <= l.snap /\ l.snap <= l.commit /\ l.other <= Len(l.log)
      /\ Len(l.log) \in Nat /\ l \in Leaders
  BY LeaderType
<1>2. PICK c : c = MaxOf(i, l.other)
  OBVIOUS
<1>3. c \in Nat /\ c <= Len(l.log)
  BY <1>1, <1>2 DEF MaxOf
<1>4. CASE c > l.commit /\ TermAt(l.log, c) = Term
  <2>1. n = [l EXCEPT !.commit = c]
    BY <1>2, <1>4 DEF MaybeCommit
  <2>2. n \in Leaders /\ n.log = l.log /\ n.base = l.base /\ n.snap = l.snap /\ n.commit = c /\ n.other = l.other
    BY <1>1, <1>3, <2>1 DEF Leaders
  <2>3. LeaderOk(n)
    BY <1>1, <1>3, <1>4, <2>2 DEF LeaderOk
  <2> QED
    BY <2>2, <2>3, SameLog
<1>5. CASE ~(c > l.commit /\ TermAt(l.log, c) = Term)
  <2>1. n = l
    BY <1>2, <1>5 DEF MaybeCommit
  <2> QED
    BY <2>1, SameLog
<1> QED
  BY <1>4, <1>5

\* Propose keeps the invariant.
LEMMA ProposeStep ==
  ASSUME FlowInv, Propose
  PROVE  FlowInv'
<1>1. /\ LeaderOk(ld) /\ FollowerOk(ld, fo) /\ ProgressOk(ld, pr) /\ Agreed(ld, fo, pr.match) /\ reports \in Seq(BOOLEAN)
  BY FlowInvIs
<1>2. PICK l : l = [ld EXCEPT !.log = Append(@, Term)]
  OBVIOUS
<1>3. LeaderSends(l, pr) /\ Alone
  BY <1>1, <1>2 DEF Propose, Sends, SendAppend, LeaderSends, Alone
<1>4. /\ ld \in Leaders /\ ld.log \in Seq(1 .. Term) /\ Len(ld.log) \in Nat /\ Term \in 1 .. Term
      /\ \A j \in 1 .. Len(ld.log) : ld.log[j] \in 1 .. Term
  BY <1>1, LeaderType, FlowAssumption
<1>5. /\ l \in Leaders /\ l.log = Append(ld.log, Term) /\ l.base = ld.base /\ l.snap = ld.snap
      /\ l.commit = ld.commit /\ l.other = ld.other
  <2>1. PICK w : w = Append(ld.log, Term)
    OBVIOUS
  <2>2. w \in Logs
    BY <1>4, <2>1 DEF Logs
  <2>3. l = [ld EXCEPT !.log = w]
    BY <1>2, <2>1
  <2> QED
    BY <1>4, <2>1, <2>2, <2>3 DEF Leaders
<1>6. /\ Len(l.log) = Len(ld.log) + 1 /\ DOMAIN l.log = 1 .. Len(ld.log) + 1
      /\ \A j \in 1 .. Len(ld.log) : l.log[j] = ld.log[j]
      /\ l.log[Len(ld.log) + 1] = Term
  BY <1>4, <1>5
<1>7. Nondecreasing(l.log)
  <2>1. ASSUME NEW i \in 1 .. Len(ld.log) + 1, NEW j \in 1 .. Len(ld.log) + 1, i <= j
        PROVE  l.log[i] <= l.log[j]
    <3>1. CASE j \in 1 .. Len(ld.log)
      <4>1. i \in 1 .. Len(ld.log)
        BY <1>4, <2>1, <3>1
      <4>2. ld.log[i] <= ld.log[j]
        BY <1>1, <1>4, <2>1, <3>1, <4>1 DEF LeaderOk, Nondecreasing
      <4> QED
        BY <1>6, <3>1, <4>1, <4>2
    <3>2. CASE j = Len(ld.log) + 1
      <4>1. l.log[i] \in 1 .. Term /\ l.log[j] = Term
        BY <1>4, <1>6, <3>2
      <4> QED
        BY <4>1, FlowAssumption
    <3> QED
      BY <1>4, <3>1, <3>2
  <2> QED
    BY <1>6, <2>1 DEF Nondecreasing
<1>8. LeaderOk(l)
  BY <1>1, <1>4, <1>5, <1>6, <1>7, LeaderType DEF LeaderOk
<1>9. Grown(ld, l)
  BY <1>4, <1>6, <1>8 DEF Grown
<1>10. ProgressOk(l, pr) /\ Agreed(l, fo, pr.match)
  <2>1. pr.match \in Nat
    BY <1>1, ProgressType
  <2> QED
    BY <1>1, <1>9, <2>1, GrownProgress, GrownAgreed
<1> QED
  BY <1>3, <1>9, <1>10, LeaderSendsOk

\* OtherAcks keeps the invariant.
LEMMA OtherAcksStep ==
  ASSUME FlowInv, NEW i \in 1 .. MaxIndex, OtherAcks(i)
  PROVE  FlowInv'
<1>1. /\ LeaderOk(ld) /\ FollowerOk(ld, fo) /\ ProgressOk(ld, pr) /\ Agreed(ld, fo, pr.match) /\ reports \in Seq(BOOLEAN)
  BY FlowInvIs
<1>2. PICK n, l : n = [ld EXCEPT !.other = i] /\ l = MaybeCommit(n, pr.match)
  OBVIOUS
<1>3. LeaderSends(l, pr) /\ Alone
  <2>1. PICK s \in {IF l.commit > ld.commit THEN MaybeSendAppend(l, pr, TRUE) ELSE Sent(pr, << >>)} :
          ld' = l /\ pr' = s.pr /\ toF' = toF \o s.out
    BY <1>2 DEF OtherAcks, Sends
  <2>2. s = SendAppend(l, pr) \/ s = Sent(pr, << >>)
    BY DEF SendAppend
  <2>3. LeaderSends(l, pr)
    BY <2>1, <2>2, OneSent
  <2>4. Alone
    BY <1>1 DEF OtherAcks, Alone
  <2> QED
    BY <2>3, <2>4
<1>4. i \in Nat /\ i <= Len(ld.log)
  BY FlowAssumption DEF OtherAcks
<1>5. n \in Leaders /\ n.log = ld.log /\ n.base = ld.base /\ n.snap = ld.snap /\ n.commit = ld.commit /\ n.other = i
  <2>1. ld \in Leaders
    BY <1>1, LeaderType
  <2> QED
    BY <1>2, <1>4, <2>1 DEF Leaders
<1>6. LeaderOk(n)
  BY <1>1, <1>4, <1>5 DEF LeaderOk
<1>7. pr.match \in Nat /\ pr.match <= Len(n.log)
  BY <1>1, <1>5, ProgressType
<1>8. LeaderOk(l) /\ Grown(n, l)
  BY <1>2, <1>6, <1>7, CommitOk
<1>9. Grown(ld, l)
  BY <1>1, <1>5, <1>8 DEF Grown
<1>10. ProgressOk(l, pr) /\ Agreed(l, fo, pr.match)
  BY <1>1, <1>7, <1>9, GrownProgress, GrownAgreed
<1> QED
  BY <1>3, <1>9, <1>10, LeaderSendsOk

\* CheckQuorum keeps the invariant.
LEMMA CheckQuorumStep ==
  ASSUME FlowInv, CheckQuorum
  PROVE  FlowInv'
<1>1. /\ ~panicked /\ LeaderOk(ld) /\ FollowerOk(ld, fo) /\ ProgressOk(ld, pr) /\ Agreed(ld, fo, pr.match)
      /\ ToFAllOk(ld, fo, toF) /\ ToLAllOk(ld, fo, toL) /\ reports \in Seq(BOOLEAN)
  BY FlowInvIs
<1>2. SameFlow(pr, pr')
  BY <1>1 DEF CheckQuorum, SameFlow, ProgressOk, Progresses
<1>3. ProgressOk(ld, pr') /\ pr'.match = pr.match
  BY <1>1, <1>2, SameFlowOk
<1> QED
  BY <1>1, <1>3, FlowInvNext DEF CheckQuorum

\* CreateSnapshot keeps the invariant.
LEMMA CreateSnapshotStep ==
  ASSUME FlowInv, NEW i \in 1 .. MaxIndex, CreateSnapshot(i)
  PROVE  FlowInv'
<1>1. /\ ~panicked /\ LeaderOk(ld) /\ FollowerOk(ld, fo) /\ ProgressOk(ld, pr) /\ Agreed(ld, fo, pr.match)
      /\ ToFAllOk(ld, fo, toF) /\ ToLAllOk(ld, fo, toL) /\ reports \in Seq(BOOLEAN)
  BY FlowInvIs
<1>2. ld' \in Leaders /\ ld'.log = ld.log /\ ld'.base = ld.base /\ ld'.snap = i /\ ld'.commit = ld.commit /\ ld'.other = ld.other
  <2>1. ld \in Leaders /\ i \in Nat
    BY <1>1, LeaderType, FlowAssumption
  <2> QED
    BY <2>1 DEF CreateSnapshot, Leaders
<1>3. LeaderOk(ld')
  <2>1. ld.base \in Nat /\ ld.snap \in Nat /\ i \in Nat /\ ld.base <= ld.snap /\ ld.snap < i /\ i <= ld.commit
    BY <1>1, LeaderType, FlowAssumption DEF CreateSnapshot
  <2> QED
    BY <1>1, <1>2, <2>1 DEF LeaderOk
<1>4. Grown(ld, ld')
  BY <1>1, <1>2, <1>3, SameLog
<1>5. /\ FollowerOk(ld', fo) /\ ProgressOk(ld', pr) /\ Agreed(ld', fo, pr.match)
      /\ ToFAllOk(ld', fo, toF) /\ ToLAllOk(ld', fo, toL)
  BY <1>1, <1>4, GrownFollower, GrownProgress, GrownAgreed, GrownAll, ProgressType
<1> QED
  BY <1>1, <1>3, <1>5, FlowInvNext DEF CreateSnapshot

\* Compact keeps the invariant.
LEMMA CompactStep ==
  ASSUME FlowInv, NEW i \in 1 .. MaxIndex, Compact(i)
  PROVE  FlowInv'
<1>1. /\ ~panicked /\ LeaderOk(ld) /\ FollowerOk(ld, fo) /\ ProgressOk(ld, pr) /\ Agreed(ld, fo, pr.match)
      /\ ToFAllOk(ld, fo, toF) /\ ToLAllOk(ld, fo, toL) /\ reports \in Seq(BOOLEAN)
  BY FlowInvIs
<1>2. ld' \in Leaders /\ ld'.log = ld.log /\ ld'.base = i /\ ld'.snap = ld.snap /\ ld'.commit = ld.commit /\ ld'.other = ld.other
  <2>1. ld \in Leaders /\ i \in Nat
    BY <1>1, LeaderType, FlowAssumption
  <2> QED
    BY <2>1 DEF Compact, Leaders
<1>3. LeaderOk(ld')
  BY <1>1, <1>2, LeaderType DEF LeaderOk, Compact
<1>4. Grown(ld, ld')
  BY <1>1, <1>2, <1>3, SameLog
<1>5. /\ FollowerOk(ld', fo) /\ ProgressOk(ld', pr) /\ Agreed(ld', fo, pr.match)
      /\ ToFAllOk(ld', fo, toF) /\ ToLAllOk(ld', fo, toL)
  BY <1>1, <1>4, GrownFollower, GrownProgress, GrownAgreed, GrownAll, ProgressType
<1> QED
  BY <1>1, <1>3, <1>5, FlowInvNext DEF Compact

\* A heartbeat keeps the invariant.
LEMMA HeartbeatStep ==
  ASSUME FlowInv, SendHeartbeat
  PROVE  FlowInv'
<1>1. /\ ~panicked /\ LeaderOk(ld) /\ FollowerOk(ld, fo) /\ ProgressOk(ld, pr) /\ Agreed(ld, fo, pr.match)
      /\ ToFAllOk(ld, fo, toF) /\ ToLAllOk(ld, fo, toL) /\ reports \in Seq(BOOLEAN)
  BY FlowInvIs
<1>2. PICK c : c = MinOf(pr.match, ld.commit)
  OBVIOUS
<1>3. c \in Nat /\ c <= pr.match /\ pr.match \in Nat
  BY <1>1, <1>2, ProgressType, LeaderType DEF MinOf
<1>4. Agreed(ld, fo, c)
  BY <1>1, <1>3, AgreedBelow
<1>5. SameFlow(pr, pr')
  BY <1>1, <1>2, <1>3 DEF SendHeartbeat, SameFlow, ProgressOk, Progresses
<1>6. ProgressOk(ld, pr') /\ pr'.match = pr.match
  BY <1>1, <1>5, SameFlowOk
<1>7. PICK m : m = [type |-> "Beat", commit |-> c]
  OBVIOUS
<1>8. ToFOk(ld, fo, m) /\ m \in FMsgs
  BY <1>3, <1>4, <1>7 DEF ToFOk, Beats, FMsgs
<1>9. ToFAllOk(ld, fo, Append(toF, m))
  BY <1>1, <1>8 DEF ToFAllOk
<1>10. ToFAllOk(ld, fo, toF')
  BY <1>2, <1>7, <1>9 DEF SendHeartbeat
<1> QED
  BY <1>1, <1>6, <1>10, FlowInvNext DEF SendHeartbeat

-----------------------------------------------------------------------------
(* Answers. *)

\* An acknowledgement of i.
Updated(p, i) == [p EXCEPT !.match = i, !.next = MaxOf(p.next, i + 1), !.paused = FALSE]

\* The fields after MaybeUpdate.
LEMMA UpdatedIs ==
  ASSUME NEW p, p \in Progresses, NEW i, i \in Nat, NEW u, u = Updated(p, i)
  PROVE  /\ u \in Progresses /\ u.match = i /\ u.next = MaxOf(p.next, i + 1) /\ u.state = p.state
         /\ u.pending = p.pending /\ u.infl = p.infl /\ u.size = p.size
<1>1. PICK n : n = MaxOf(p.next, i + 1)
  OBVIOUS
<1>2. n \in Nat
  BY <1>1 DEF MaxOf, Progresses
<1>3. u = [p EXCEPT !.match = i, !.next = n, !.paused = FALSE]
  BY <1>1 DEF Updated
<1> QED
  BY <1>1, <1>2, <1>3 DEF Progresses

\* Outside replication MaybeUpdate keeps Progress sound.
LEMMA UpdatedOk ==
  ASSUME NEW l, LeaderOk(l), NEW p, ProgressOk(l, p), p.state # "replicate",
         NEW i, i \in Nat, i <= Len(l.log), i > p.match, NEW u, u = Updated(p, i)
  PROVE  ProgressOk(l, u) /\ u.match = i /\ u.state = p.state
<1>1. /\ p \in Progresses /\ p.next \in Nat /\ p.size \in Nat /\ p.next <= Len(l.log) + 1 /\ Len(l.log) \in Nat
      /\ p.pending <= Len(l.log) /\ p.infl = << >>
  BY ProgressType DEF ProgressOk
<1>2. /\ u \in Progresses /\ u.match = i /\ u.next = MaxOf(p.next, i + 1) /\ u.state = p.state
      /\ u.pending = p.pending /\ u.infl = p.infl /\ u.size = p.size
  BY <1>1, UpdatedIs
<1>3. Window(u)
  BY <1>1, <1>2, EmptyWindow
<1>4. u.match < u.next /\ u.next <= Len(l.log) + 1
  BY <1>1, <1>2 DEF MaxOf
<1> QED
  BY <1>1, <1>2, <1>3, <1>4 DEF ProgressOk

\* What is left of a window after Inflights.FreeLE(i).
Freeable(e, i) == Highest({n \in 0 .. Len(e) : \A k \in 1 .. n : e[k] <= i})

\* The first message of the window that FreeLE keeps is above the index.
LEMMA FreeableIs ==
  ASSUME NEW e, e \in Seq(Nat), NEW i, i \in Nat, NEW h, h = Freeable(e, i)
  PROVE  h \in Nat /\ h <= Len(e) /\ (h < Len(e) => e[h + 1] > i)
<1> DEFINE S == {n \in 0 .. Len(e) : \A k \in 1 .. n : e[k] <= i}
<1>1. Len(e) \in Nat /\ \A j \in 1 .. Len(e) : e[j] \in Nat
  OBVIOUS
<1>2. S \in SUBSET (0 .. Len(e)) /\ 0 \in S
  BY <1>1
<1>3. h = Highest(S)
  BY DEF Freeable
<1>4. h \in S /\ \A j \in S : j <= h
  <2>1. S # {}
    BY <1>2
  <2> HIDE DEF S
  <2> QED
    BY <1>1, <1>2, <1>3, <2>1, HighestIs
<1>5. h \in Nat /\ h <= Len(e) /\ \A k \in 1 .. h : e[k] <= i
  BY <1>1, <1>4
<1>8. ASSUME h < Len(e)
      PROVE  e[h + 1] > i
  <2>1. h + 1 \in 1 .. Len(e) /\ ~(h + 1 <= h)
    BY <1>1, <1>5, <1>8
  <2>2. h + 1 \notin S
    BY <1>4, <2>1
  <2>3. PICK k \in 1 .. h + 1 : ~(e[k] <= i)
    BY <1>1, <2>1, <2>2
  <2>4. k = h + 1
    BY <1>5, <2>3
  <2> QED
    BY <1>1, <2>1, <2>3, <2>4
<1> QED
  BY <1>5, <1>8

Increasing(e) == \A j \in 2 .. Len(e) : e[j - 1] < e[j]

Remains(e, i, w) ==
  /\ w \in Seq(Nat) /\ Len(w) <= Len(e)
  /\ w # << >> => Len(w) > 0 /\ w[1] > i /\ e # << >> /\ w[Len(w)] = e[Len(e)] /\ e[Len(e)] > i
  /\ Increasing(w)

Suffix(e, h, w) == w \in Seq(Nat) /\ Len(w) = Len(e) - h /\ \A j \in 1 .. Len(e) - h : w[j] = e[h + j]

\* The rest of a window.
LEMMA SuffixIs ==
  ASSUME NEW e, e \in Seq(Nat), NEW h, h \in Nat, h <= Len(e)
  PROVE  Suffix(e, h, SubSeq(e, h + 1, Len(e)))
<1>1. Len(e) \in Nat /\ \A j \in 1 .. Len(e) : e[j] \in Nat
  OBVIOUS
<1>2. SubSeq(e, h + 1, Len(e)) \in Seq(Nat)
  BY <1>1
<1>3. /\ Len(SubSeq(e, h + 1, Len(e))) = Len(e) - h
      /\ \A j \in 1 .. Len(e) - h : SubSeq(e, h + 1, Len(e))[j] = e[h + j]
  BY <1>1
<1> QED
  BY <1>2, <1>3 DEF Suffix

\* What is left of an increasing window is above the index, and ends where it
\* did.
LEMMA FreedIs ==
  ASSUME NEW e, e \in Seq(Nat), Increasing(e), NEW i, i \in Nat,
         NEW h, h \in Nat, h <= Len(e), h < Len(e) => e[h + 1] > i,
         NEW w, Suffix(e, h, w)
  PROVE  Remains(e, i, w)
<1>1. Len(e) \in Nat /\ \A j \in 1 .. Len(e) : e[j] \in Nat
  OBVIOUS
<1>5. h \in Nat /\ h <= Len(e) /\ \A j \in 2 .. Len(e) : e[j - 1] < e[j]
  BY DEF Increasing
<1>7. /\ w \in Seq(Nat) /\ Len(w) = Len(e) - h /\ \A j \in 1 .. Len(e) - h : w[j] = e[h + j]
  BY DEF Suffix
<1>8. ASSUME h < Len(e)
      PROVE  e[h + 1] > i
  BY <1>8
<1>9. ASSUME h < Len(e), NEW j \in h + 1 .. Len(e)
      PROVE  e[j] > i
  <2> DEFINE T == {k \in h + 1 .. Len(e) : e[k] <= i}
  <2>1. ASSUME T # {}
        PROVE  FALSE
    <3>1. T \in SUBSET Nat
      BY <1>1, <1>5
    <3>2. PICK m \in T : \A n \in T : m <= n
      <4> HIDE DEF T
      <4> QED
        BY <2>1, <3>1, Least
    <3>3. m \in h + 1 .. Len(e) /\ e[m] <= i /\ m \in Nat
      BY <1>5, <3>2
    <3>4. m # h + 1
      BY <1>1, <1>5, <1>8, <1>9, <3>3
    <3>5. m - 1 \in h + 1 .. Len(e) /\ m \in 2 .. Len(e) /\ m - 1 \in 1 .. Len(e) /\ m \in 1 .. Len(e) /\ ~(m <= m - 1)
      BY <1>1, <1>5, <3>3, <3>4
    <3>6. ~(e[m - 1] <= i)
      BY <3>2, <3>5
    <3>7. e[m - 1] < e[m] /\ e[m - 1] \in Nat /\ e[m] \in Nat
      BY <1>1, <1>5, <3>5
    <3> QED
      BY <3>3, <3>6, <3>7
  <2>2. ~(e[j] <= i)
    BY <2>1
  <2>3. e[j] \in Nat
    BY <1>1, <1>5
  <2> QED
    BY <2>2, <2>3
<1>10. ASSUME w # << >>
       PROVE  Len(w) > 0 /\ w[1] > i /\ e # << >> /\ w[Len(w)] = e[Len(e)] /\ e[Len(e)] > i
  <2>1. Len(w) > 0 /\ h < Len(e)
    BY <1>1, <1>5, <1>7, <1>10
  <2>2. w[1] = e[h + 1] /\ e # << >> /\ Len(e) \in h + 1 .. Len(e)
    BY <1>1, <1>5, <1>7, <2>1
  <2>3. w[Len(w)] = e[Len(e)]
    <3>1. PICK d : d = Len(e) - h
      OBVIOUS
    <3>2. d \in 1 .. Len(e) - h /\ h + d = Len(e) /\ Len(w) = d
      BY <1>1, <1>5, <1>7, <2>1, <3>1
    <3> QED
      BY <1>7, <3>2
  <2> QED
    BY <1>8, <1>9, <2>1, <2>2, <2>3
<1>11. ASSUME NEW j \in 2 .. Len(w)
       PROVE  w[j - 1] < w[j]
  <2>0. PICK a, b : a = j - 1 /\ b = h + j
    OBVIOUS
  <2>1. /\ j \in 1 .. Len(e) - h /\ a \in 1 .. Len(e) - h /\ h + a = b - 1 /\ b \in 2 .. Len(e)
    BY <1>1, <1>5, <1>7, <2>0
  <2>2. e[b - 1] < e[b]
    BY <1>5, <2>1
  <2>3. w[j] = e[b] /\ w[a] = e[b - 1]
    BY <1>7, <2>0, <2>1
  <2> QED
    BY <2>0, <2>2, <2>3
<1> QED
  BY <1>1, <1>5, <1>7, <1>10, <1>11 DEF Remains, Increasing

\* MaybeUpdate with FreeLE keeps a replicating Progress sound.
LEMMA FreeOk ==
  ASSUME NEW l, LeaderOk(l), NEW p, ProgressOk(l, p), p.state = "replicate",
         NEW i, i \in Nat, i <= Len(l.log), i > p.match, NEW u, u = Updated(p, i), NEW q, q = FreeLE(u, i)
  PROVE  ProgressOk(l, q) /\ q.match = i /\ q.state = "replicate"
<1>1. /\ p \in Progresses /\ p.next \in Nat /\ p.size \in Nat /\ p.next <= Len(l.log) + 1 /\ Len(l.log) \in Nat
      /\ p.pending <= Len(l.log) /\ p.infl \in Seq(Nat) /\ Len(p.infl) \in Nat
  BY ProgressType DEF ProgressOk
<1>2. /\ u \in Progresses /\ u.match = i /\ u.next = MaxOf(p.next, i + 1) /\ u.state = p.state
      /\ u.pending = p.pending /\ u.infl = p.infl /\ u.size = p.size
  BY <1>1, UpdatedIs
<1>3. PICK e : e = p.infl
  OBVIOUS
<1>4. PICK h, w : h = Freeable(e, i) /\ w = SubSeq(e, h + 1, Len(e))
  OBVIOUS
<1>5. e \in Seq(Nat) /\ Increasing(e)
  BY <1>1, <1>3 DEF ProgressOk, Window, Increasing
<1>6. /\ w \in Seq(Nat) /\ Len(w) <= Len(e)
      /\ w # << >> => Len(w) > 0 /\ w[1] > i /\ e # << >> /\ w[Len(w)] = e[Len(e)] /\ e[Len(e)] > i
      /\ \A j \in 2 .. Len(w) : w[j - 1] < w[j]
  <2>1. h \in Nat /\ h <= Len(e) /\ (h < Len(e) => e[h + 1] > i)
    BY <1>4, <1>5, FreeableIs
  <2>2. Suffix(e, h, w)
    BY <1>4, <1>5, <2>1, SuffixIs
  <2>3. Remains(e, i, w)
    BY <1>5, <2>1, <2>2, FreedIs
  <2> QED
    BY <2>3 DEF Remains, Increasing
<1>7. q = [u EXCEPT !.infl = w]
  BY <1>2, <1>3, <1>4 DEF FreeLE, Freeable
<1>8. /\ q \in Progresses /\ q.match = i /\ q.next = MaxOf(p.next, i + 1) /\ q.state = p.state
      /\ q.pending = p.pending /\ q.infl = w /\ q.size = p.size
  BY <1>2, <1>6, <1>7 DEF Progresses
<1>9. /\ q.match < q.next /\ q.next <= Len(l.log) + 1
  BY <1>1, <1>8 DEF MaxOf
<1>10. Len(w) <= p.size
  <2>1. Len(e) <= p.size
    BY <1>3 DEF ProgressOk, Window
  <2> QED
    BY <1>1, <1>3, <1>6, <2>1
<1>11. w # << >> => w[Len(w)] = q.next - 1
  <2>1. e # << >> => e[Len(e)] = p.next - 1
    BY <1>3 DEF ProgressOk, Window
  <2>2. w # << >> => p.next - 1 > i
    BY <1>6, <2>1
  <2>3. w # << >> => MaxOf(p.next, i + 1) = p.next
    BY <1>1, <2>2 DEF MaxOf
  <2> QED
    BY <1>6, <1>8, <2>1, <2>3
<1>12. Window(q)
  BY <1>6, <1>8, <1>10, <1>11 DEF Window
<1> QED
  BY <1>1, <1>8, <1>9, <1>12 DEF ProgressOk

\* Marking the follower active changes no part of its flow.
LEMMA ActiveOk ==
  ASSUME FlowInv
  PROVE  ProgressOk(ld, Active) /\ Active.match = pr.match /\ Active.next = pr.next /\ Active.state = pr.state
<1>1. ProgressOk(ld, pr)
  BY FlowInvIs
<1>2. PICK a : a = Active
  OBVIOUS
<1>3. SameFlow(pr, a)
  BY <1>1, <1>2 DEF Active, SameFlow, ProgressOk, Progresses
<1>4. ProgressOk(ld, a) /\ a.match = pr.match /\ a.next = pr.next /\ a.state = pr.state
  BY <1>1, <1>3, SameFlowOk
<1> QED
  BY <1>2, <1>4

\* An acknowledgement leaves a sound Progress, whatever state it meets.
LEMMA AcceptedOk ==
  ASSUME FlowInv, NEW i, i \in Nat, Agreed(ld, fo, i), i > pr.match \/ (i = pr.match /\ pr.state = "probe"),
         NEW q, q = Accepted(i)
  PROVE  ProgressOk(ld, q) /\ q.match = i /\ q.state \in {"replicate", "snapshot"}
<1>1. LeaderOk(ld) /\ i <= Len(ld.log)
  BY FlowInvIs DEF Agreed
<1>2. PICK a, u : a = Active /\ u = MaybeUpdate(a, i)
  OBVIOUS
<1>3. ProgressOk(ld, a) /\ a.match = pr.match /\ a.state = pr.state
  BY <1>2, ActiveOk
<1>4. a.match \in Nat /\ a.state \in {"probe", "replicate", "snapshot"}
  BY <1>1, <1>3, ProgressType
<1>5. CASE i > pr.match
  <2>1. u = Updated(a, i)
    BY <1>2, <1>3, <1>4, <1>5 DEF MaybeUpdate, Updated
  <2>2. i > a.match
    BY <1>3, <1>5
  <2>3. CASE a.state = "replicate"
    <3>0. u.state = "replicate"
      BY <1>3, <2>1, <2>3, UpdatedIs DEF ProgressOk
    <3>1. q = FreeLE(u, i)
      BY <1>2, <2>3, <3>0 DEF Accepted
    <3>2. ProgressOk(ld, q) /\ q.match = i /\ q.state = "replicate"
      BY <1>1, <1>3, <2>1, <2>2, <2>3, <3>1, FreeOk
    <3> QED
      BY <3>2
  <2>4. CASE a.state # "replicate"
    <3>1. ProgressOk(ld, u) /\ u.match = i /\ u.state = a.state
      BY <1>1, <1>3, <2>1, <2>2, <2>4, UpdatedOk
    <3>2. CASE a.state = "probe"
      <4>1. q = BecomeReplicate(u)
        BY <1>2, <3>1, <3>2 DEF Accepted
      <4>2. ProgressOk(ld, q) /\ q.match = u.match /\ q.state = "replicate"
        BY <1>1, <3>1, <4>1, ReplicateOk
      <4> QED
        BY <3>1, <4>2
    <3>3. CASE a.state = "snapshot" /\ u.match >= ld.base
      <4>1. PICK v : v = BecomeProbe(u)
        OBVIOUS
      <4>2. ProgressOk(ld, v) /\ v.match = u.match /\ v.state = "probe" /\ v.active = u.active
        BY <1>1, <3>1, <4>1, ProgressType, ProbeOk
      <4>3. q = BecomeReplicate(v)
        BY <1>2, <3>1, <3>3, <4>1 DEF Accepted
      <4>4. ProgressOk(ld, q) /\ q.match = v.match /\ q.state = "replicate"
        BY <1>1, <4>2, <4>3, ReplicateOk
      <4> QED
        BY <3>1, <4>2, <4>4
    <3>4. CASE a.state = "snapshot" /\ ~(u.match >= ld.base)
      <4>1. q = u
        BY <1>2, <3>1, <3>4 DEF Accepted
      <4> QED
        BY <3>1, <3>4, <4>1
    <3> QED
      BY <1>4, <2>4, <3>2, <3>3, <3>4
  <2> QED
    BY <2>3, <2>4
<1>6. CASE i = pr.match /\ pr.state = "probe"
  <2>1. u = a
    BY <1>2, <1>3, <1>4, <1>6 DEF MaybeUpdate
  <2>2. q = BecomeReplicate(a)
    BY <1>2, <1>3, <1>6, <2>1 DEF Accepted
  <2>3. ProgressOk(ld, q) /\ q.match = a.match /\ q.state = "replicate"
    BY <1>1, <1>3, <2>2, ReplicateOk
  <2> QED
    BY <1>3, <1>6, <2>3
<1> QED
  BY <1>5, <1>6

\* A response that causes nothing keeps the invariant.
LEMMA NoSend ==
  ASSUME FlowInv, Alone, Sends(ld, Active, FALSE)
  PROVE  FlowInv' /\ pr'.next = pr.next
<1>1. LeaderOk(ld) /\ Agreed(ld, fo, pr.match)
  BY FlowInvIs
<1>2. PICK a : a = Active
  OBVIOUS
<1>3. ProgressOk(ld, a) /\ a.match = pr.match /\ a.next = pr.next /\ a.state = pr.state
  BY <1>2, ActiveOk
<1>4. ld' = ld /\ pr' = a /\ toF' = toF \o << >>
  <2>1. PICK s \in {IF FALSE THEN MaybeSendAppend(ld, Active, TRUE) ELSE Sent(Active, << >>)} :
          ld' = ld /\ pr' = s.pr /\ toF' = toF \o s.out
    BY Zenon DEF Sends
  <2>2. s.pr = Active /\ s.out = << >>
    BY DEF Sent
  <2> QED
    BY <1>2, <2>1, <2>2
<1>5. LeaderSends(ld, a)
  BY <1>4 DEF LeaderSends
<1>6. Grown(ld, ld)
  BY <1>1, SameLog
<1>7. FlowInv' /\ pr'.next >= a.next
  BY <1>1, <1>3, <1>5, <1>6, LeaderSendsOk
<1> QED
  BY <1>3, <1>4, <1>7

\* An acknowledgement, however old, keeps the invariant.
LEMMA OnAcceptStep ==
  ASSUME FlowInv, Alone, NEW i, i \in Nat, Agreed(ld, fo, i), OnAccept(i)
  PROVE  FlowInv'
<1>1. CASE ~(i > pr.match \/ (i = pr.match /\ pr.state = "probe"))
  <2>1. Sends(ld, Active, FALSE)
    BY <1>1 DEF OnAccept
  <2> QED
    BY <2>1, NoSend
<1>2. CASE i > pr.match \/ (i = pr.match /\ pr.state = "probe")
  <2>a. PICK p \in {Accepted(i)} : \E l \in {MaybeCommit(ld, p.match)} :
           \E s \in {IF l.commit > ld.commit \/ CanBumpCommit(p, l.commit)
                     THEN MaybeSendAppend(l, p, TRUE) ELSE Sent(p, << >>)} :
           \E more \in {SendAll(l, s.pr)} :
              ld' = l /\ pr' = more.pr /\ toF' = toF \o s.out \o more.out
    BY <1>2 DEF OnAccept
  <2>b. PICK l \in {MaybeCommit(ld, p.match)} :
           \E s \in {IF l.commit > ld.commit \/ CanBumpCommit(p, l.commit)
                     THEN MaybeSendAppend(l, p, TRUE) ELSE Sent(p, << >>)} :
           \E more \in {SendAll(l, s.pr)} :
              ld' = l /\ pr' = more.pr /\ toF' = toF \o s.out \o more.out
    BY <2>a
  <2>c. PICK s \in {IF l.commit > ld.commit \/ CanBumpCommit(p, l.commit)
                     THEN MaybeSendAppend(l, p, TRUE) ELSE Sent(p, << >>)} :
           \E more \in {SendAll(l, s.pr)} :
              ld' = l /\ pr' = more.pr /\ toF' = toF \o s.out \o more.out
    BY <2>b
  <2>d. PICK more \in {SendAll(l, s.pr)} : ld' = l /\ pr' = more.pr /\ toF' = toF \o s.out \o more.out
    BY <2>c
  <2>e. s = SendAppend(l, p) \/ s = Sent(p, << >>)
    BY DEF SendAppend
  <2>1. /\ p = Accepted(i) /\ l = MaybeCommit(ld, p.match) /\ more = SendAll(l, s.pr)
        /\ ld' = l /\ pr' = more.pr /\ toF' = (toF \o s.out) \o more.out
    BY <2>d
  <2>2. /\ ~panicked /\ LeaderOk(ld) /\ FollowerOk(ld, fo) /\ ToFAllOk(ld, fo, toF) /\ ToLAllOk(ld, fo, toL)
    BY FlowInvIs
  <2>3. ProgressOk(ld, p) /\ p.match = i /\ p.state \in {"replicate", "snapshot"}
    BY <1>2, <2>1, AcceptedOk
  <2>4. LeaderOk(l) /\ Grown(ld, l)
    <3>1. p.match \in Nat /\ p.match <= Len(ld.log)
      BY <2>2, <2>3, ProgressType
    <3> QED
      BY <2>1, <2>2, <3>1, CommitOk
  <2>5. ProgressOk(l, p) /\ Agreed(l, fo, i)
    BY <2>2, <2>3, <2>4, GrownProgress, GrownAgreed
  <2>6. SendOk(l, p, s.pr, s.out)
    <3>1. CASE s = SendAppend(l, p)
      BY <2>4, <2>5, <3>1, AppendSends
    <3>2. CASE s = Sent(p, << >>)
      <4>1. s.pr = p /\ s.out = << >>
        BY <3>2 DEF Sent
      <4> QED
        BY <2>4, <2>5, <4>1, NothingSent
    <3> QED
      BY <2>e, <3>1, <3>2
  <2>7. PICK v : v = s.pr
    OBVIOUS
  <2>8. ProgressOk(l, v) /\ v.match = i /\ v.state \in {"replicate", "snapshot"} /\ OutOk(l, s.out)
    BY <2>3, <2>6, <2>7 DEF SendOk
  <2>9. SendOk(l, v, more.pr, more.out)
    BY <2>1, <2>4, <2>7, <2>8, AllSends
  <2>10. ProgressOk(l, more.pr) /\ more.pr.match = i /\ OutOk(l, more.out)
    BY <2>8, <2>9 DEF SendOk
  <2>11. FollowerOk(l, fo) /\ ToFAllOk(l, fo, toF) /\ ToLAllOk(l, fo, toL)
    BY <2>2, <2>4, GrownFollower, GrownAll
  <2>12. ToFAllOk(l, fo, toF \o s.out)
    BY <2>8, <2>11, OutJoins
  <2>13. ToFAllOk(l, fo, (toF \o s.out) \o more.out)
    BY <2>10, <2>12, OutJoins
  <2>14. ToLAllOk(l, fo, toL')
    BY <2>11, TailLOk DEF Alone
  <2>15. ~panicked' /\ fo' = fo /\ reports' \in Seq(BOOLEAN)
    BY <2>2 DEF Alone
  <2> QED
    BY <2>1, <2>4, <2>5, <2>10, <2>11, <2>13, <2>14, <2>15, FlowInvNext
<1> QED
  BY <1>1, <1>2

RejectOk(m) ==
  /\ m \in Rejects /\ m.index <= Len(ld.log) /\ m.hint <= Len(ld.log)
  /\ m.common < m.index /\ m.common <= m.hint /\ TermAt(ld.log, m.common) <= m.term

\* Next lowered to n.
Lowered(p, n) == [p EXCEPT !.next = n, !.sent = MinOf(p.sent, n - 1)]

\* The fields after MaybeDecrTo.
LEMMA LoweredIs ==
  ASSUME NEW p, p \in Progresses, NEW n, n \in Nat, n >= 1, NEW q, q = Lowered(p, n) \/ q = [Lowered(p, n) EXCEPT !.paused = FALSE]
  PROVE  /\ q \in Progresses /\ q.match = p.match /\ q.next = n /\ q.state = p.state
         /\ q.pending = p.pending /\ q.infl = p.infl /\ q.size = p.size
<1>1. PICK a : a = MinOf(p.sent, n - 1)
  OBVIOUS
<1>2. a \in Nat
  BY <1>1 DEF MinOf, Progresses
<1>3. CASE q = Lowered(p, n)
  <2>1. q = [p EXCEPT !.next = n, !.sent = a]
    BY <1>1, <1>3 DEF Lowered
  <2> QED
    BY <1>2, <2>1 DEF Progresses
<1>4. CASE q = [Lowered(p, n) EXCEPT !.paused = FALSE]
  <2>1. q = [[p EXCEPT !.next = n, !.sent = a] EXCEPT !.paused = FALSE]
    BY <1>1, <1>4 DEF Lowered
  <2> QED
    BY <1>2, <2>1 DEF Progresses
<1> QED
  BY <1>3, <1>4

\* A genuine rejection leaves a sound Progress, with Next above the common
\* point.
LEMMA RejectedOk ==
  ASSUME FlowInv, NEW m, RejectOk(m), Genuine(pr, m.index), NEW q, q = Rejected(m)
  PROVE  ProgressOk(ld, q) /\ q.match = pr.match /\ (pr.state = "probe" => q.next > m.common)
<1>1. LeaderOk(ld) /\ ProgressOk(ld, pr)
  BY FlowInvIs
<1>2. /\ m.index \in Nat /\ m.hint \in Nat /\ m.term \in Nat /\ m.common \in Nat /\ m.index <= Len(ld.log)
      /\ m.hint <= Len(ld.log) /\ m.common < m.index /\ m.common <= m.hint /\ TermAt(ld.log, m.common) <= m.term
  BY DEF RejectOk, Rejects
<1>3. PICK h : h = IF m.term > 0 THEN FindConflictByTerm(ld.log, ld.base, m.hint, m.term) ELSE m.hint
  OBVIOUS
<1>4. h \in Nat /\ m.common <= h
  <2>1. CASE m.term > 0
    <3>1. PICK c : c = FindConflictByTerm(ld.log, ld.base, m.hint, m.term)
      OBVIOUS
    <3>2. c \in 0 .. m.hint /\ \A j \in 0 .. m.hint : TermAt(ld.log, j) <= m.term => j <= c
      BY <1>2, <3>1, ConflictIs
    <3>3. h = c
      BY <1>3, <2>1, <3>1
    <3> QED
      BY <1>2, <3>2, <3>3
  <2>2. CASE ~(m.term > 0)
    BY <1>2, <1>3, <2>2
  <2> QED
    BY <2>1, <2>2
<1>5. PICK a, p : a = Active /\ p = MaybeDecrTo(a, m.index, h)
  OBVIOUS
<1>6. ProgressOk(ld, a) /\ a.match = pr.match /\ a.next = pr.next /\ a.state = pr.state
  BY <1>5, ActiveOk
<1>7. /\ a \in Progresses /\ a.match \in Nat /\ a.next \in Nat /\ a.match <= Len(ld.log) /\ Len(ld.log) \in Nat
      /\ a.pending <= Len(ld.log) /\ a.pending \in Nat /\ a.size \in Nat
  BY <1>1, <1>6, ProgressType
<1>8. q = IF p.state = "replicate" THEN BecomeProbe(p) ELSE p
  BY <1>3, <1>5 DEF Rejected
<1>9. CASE pr.state = "replicate"
  <2>1. PICK n : n = a.match + 1
    OBVIOUS
  <2>2. p = Lowered(a, n)
    BY <1>5, <1>6, <1>9, <2>1 DEF MaybeDecrTo, Genuine, Lowered
  <2>3. n \in Nat /\ n >= 1
    BY <1>7, <2>1
  <2>4. /\ p \in Progresses /\ p.match = a.match /\ p.next = n /\ p.state = a.state
        /\ p.pending = a.pending /\ p.infl = a.infl /\ p.size = a.size
    BY <1>7, <2>2, <2>3, LoweredIs
  <2>5. q = BecomeProbe(p)
    BY <1>6, <1>8, <1>9, <2>4
  <2>6. ProgressOk(ld, q) /\ q.match = p.match /\ q.state = "probe" /\ q.active = p.active
    BY <1>1, <1>7, <2>4, <2>5, ProbeOk
  <2> QED
    BY <1>6, <1>9, <2>4, <2>6
<1>10. CASE pr.state # "replicate"
  <2>1. PICK n : n = MaxOf(MinOf(m.index, h + 1), a.match + 1)
    OBVIOUS
  <2>2. p = [Lowered(a, n) EXCEPT !.paused = FALSE]
    BY <1>5, <1>6, <1>10, <2>1 DEF MaybeDecrTo, Genuine, Lowered
  <2>3. n \in Nat /\ n >= 1 /\ n > a.match /\ n > m.common /\ n <= Len(ld.log) + 1
    BY <1>2, <1>4, <1>7, <2>1 DEF MaxOf, MinOf
  <2>4. /\ p \in Progresses /\ p.match = a.match /\ p.next = n /\ p.state = a.state
        /\ p.pending = a.pending /\ p.infl = a.infl /\ p.size = a.size
    BY <1>7, <2>2, <2>3, LoweredIs
  <2>5. q = p
    BY <1>6, <1>8, <1>10, <2>4
  <2>6. p.infl = << >>
    BY <1>6, <1>10, <2>4 DEF ProgressOk
  <2>7. Window(p)
    BY <1>7, <2>4, <2>6, EmptyWindow
  <2>8. ProgressOk(ld, p)
    BY <1>7, <2>3, <2>4, <2>6, <2>7 DEF ProgressOk
  <2> QED
    BY <1>6, <2>3, <2>4, <2>5, <2>8
<1> QED
  BY <1>9, <1>10

\* A rejection, however old, keeps the invariant.
LEMMA OnRejectStep ==
  ASSUME FlowInv, Alone, NEW m, RejectOk(m), OnReject(m)
  PROVE  FlowInv' /\ (pr.state = "probe" /\ pr'.next < pr.next => pr'.next > m.common)
<1>1. LeaderOk(ld) /\ ProgressOk(ld, pr) /\ Agreed(ld, fo, pr.match)
  BY FlowInvIs
<1>2. CASE ~Genuine(pr, m.index)
  <2>1. Sends(ld, Active, FALSE)
    BY <1>2 DEF OnReject
  <2>2. FlowInv' /\ pr'.next = pr.next
    BY <2>1, NoSend
  <2>3. pr.next \in Nat
    BY <1>1, ProgressType
  <2> QED
    BY <2>2, <2>3
<1>3. CASE Genuine(pr, m.index)
  <2>1. PICK p \in {Rejected(m)} : Sends(ld, p, TRUE)
    BY <1>3 DEF OnReject
  <2>2. ProgressOk(ld, p) /\ p.match = pr.match /\ (pr.state = "probe" => p.next > m.common)
    BY <1>3, <2>1, RejectedOk
  <2>3. LeaderSends(ld, p)
    BY <2>1 DEF Sends, SendAppend, LeaderSends
  <2>4. Grown(ld, ld)
    BY <1>1, SameLog
  <2>5. FlowInv' /\ pr'.next >= p.next
    BY <1>1, <2>2, <2>3, <2>4, LeaderSendsOk
  <2>6. pr'.next \in Nat /\ p.next \in Nat /\ m.common \in Nat
    <3>1. LeaderOk(ld') /\ ProgressOk(ld', pr')
      BY <2>5, FlowInvNext
    <3> QED
      BY <1>1, <2>2, <3>1, ProgressType DEF RejectOk, Rejects
  <2> QED
    BY <2>2, <2>5, <2>6
<1> QED
  BY <1>2, <1>3

\* A heartbeat's response keeps the invariant.
LEMMA OnBeatRespStep ==
  ASSUME FlowInv, Alone, OnBeatResp
  PROVE  FlowInv'
<1>1. LeaderOk(ld) /\ ProgressOk(ld, pr) /\ Agreed(ld, fo, pr.match)
  BY FlowInvIs
<1>2. PICK p \in {[Active EXCEPT !.paused = FALSE]} : Sends(ld, p, p.match < Len(ld.log) \/ p.state = "probe")
  BY DEF OnBeatResp
<1>3. PICK s \in {IF p.match < Len(ld.log) \/ p.state = "probe" THEN MaybeSendAppend(ld, p, TRUE) ELSE Sent(p, << >>)} :
        ld' = ld /\ pr' = s.pr /\ toF' = toF \o s.out
  BY <1>2 DEF Sends
<1>4. s = SendAppend(ld, p) \/ s = Sent(p, << >>)
  BY DEF SendAppend
<1>5. LeaderSends(ld, p)
  BY <1>3, <1>4, OneSent
<1>6. PICK a : a = Active
  OBVIOUS
<1>7. ProgressOk(ld, a) /\ a.match = pr.match /\ a.next = pr.next /\ a.state = pr.state
  BY <1>6, ActiveOk
<1>8. p = [a EXCEPT !.paused = FALSE]
  BY <1>6
<1>9. SameFlow(a, p)
  BY <1>7, <1>8 DEF SameFlow, ProgressOk, Progresses
<1>10. ProgressOk(ld, p) /\ p.match = pr.match
  BY <1>7, <1>9, SameFlowOk
<1>11. Grown(ld, ld)
  BY <1>1, SameLog
<1> QED
  BY <1>1, <1>5, <1>10, <1>11, LeaderSendsOk

\* Whatever the leader receives keeps the invariant.
LEMMA ReceiveLStep ==
  ASSUME FlowInv, ReceiveL
  PROVE  /\ FlowInv'
         /\ Head(toL).type = "Reject" /\ pr.state = "probe" /\ pr'.next < pr.next
              => pr'.next > Head(toL).common
<1>1. LeaderOk(ld) /\ FollowerOk(ld, fo) /\ ToLAllOk(ld, fo, toL) /\ reports \in Seq(BOOLEAN)
  BY FlowInvIs
<1>2. Alone
  BY <1>1 DEF ReceiveL, Alone
<1>3. PICK m : m = Head(toL)
  OBVIOUS
<1>4. ToLOk(ld, fo, m)
  BY <1>1, <1>3, TailLOk DEF ReceiveL
<1>5. CASE m \in Accepts /\ Agreed(ld, fo, m.index)
  <2>1. m.type = "Accept" /\ m.index \in Nat
    BY <1>5 DEF Accepts
  <2>2. OnAccept(m.index)
    BY <1>3, <2>1 DEF ReceiveL
  <2> QED
    BY <1>2, <1>3, <1>5, <2>1, <2>2, OnAcceptStep
<1>6. CASE RejectOk(m)
  <2>1. m.type = "Reject"
    BY <1>6 DEF RejectOk, Rejects
  <2>2. OnReject(m)
    BY <1>3, <2>1 DEF ReceiveL
  <2>3. FlowInv' /\ (pr.state = "probe" /\ pr'.next < pr.next => pr'.next > m.common)
    BY <1>2, <1>6, <2>2, OnRejectStep
  <2> QED
    BY <1>3, <2>3
<1>7. CASE m \in BeatResps
  <2>1. m.type = "BeatResp"
    BY <1>7 DEF BeatResps
  <2>2. OnBeatResp
    BY <1>3, <2>1 DEF ReceiveL
  <2> QED
    BY <1>2, <1>3, <2>1, <2>2, OnBeatRespStep
<1> QED
  BY <1>4, <1>5, <1>6, <1>7 DEF ToLOk, RejectOk

\* The rest of a sequence has its type.
LEMMA SeqTail ==
  ASSUME NEW S, NEW s, s \in Seq(S), s # << >>
  PROVE  Tail(s) \in Seq(S)
OBVIOUS

\* A sequence with one more element has its type.
LEMMA SeqAppend ==
  ASSUME NEW S, NEW s, s \in Seq(S), NEW x, x \in S
  PROVE  Append(s, x) \in Seq(S)
OBVIOUS

\* A report about a snapshot keeps the invariant.
LEMMA SnapStatusStep ==
  ASSUME FlowInv, SnapStatus
  PROVE  FlowInv'
<1>1. /\ ~panicked /\ LeaderOk(ld) /\ FollowerOk(ld, fo) /\ ProgressOk(ld, pr) /\ Agreed(ld, fo, pr.match)
      /\ ToFAllOk(ld, fo, toF) /\ ToLAllOk(ld, fo, toL) /\ reports \in Seq(BOOLEAN)
  BY FlowInvIs
<1>2. PICK p : p = IF Head(reports) THEN [pr EXCEPT !.pending = 0] ELSE pr
  OBVIOUS
<1>3. pr \in Progresses /\ pr.match \in Nat /\ pr.match <= Len(ld.log) /\ pr.pending <= Len(ld.log) /\ Len(ld.log) \in Nat
  BY <1>1, ProgressType
<1>4. p \in Progresses /\ p.match = pr.match /\ p.pending <= Len(ld.log)
  <2>1. CASE p = pr
    BY <1>3, <2>1
  <2>2. CASE p = [pr EXCEPT !.pending = 0]
    <3>1. p \in Progresses /\ p.match = pr.match /\ p.pending = 0
      <4>1. pr \in Progresses /\ 0 \in Nat
        BY <1>3
      <4> QED
        BY <2>2, <4>1 DEF Progresses
    <3> QED
      BY <1>3, <3>1
  <2> QED
    BY <1>2, <2>1, <2>2
<1>5. PICK b : b = BecomeProbe(p)
  OBVIOUS
<1>6. ProgressOk(ld, b) /\ b.match = p.match
  BY <1>1, <1>3, <1>4, <1>5, ProbeOk
<1>7. PICK q : q = [b EXCEPT !.paused = TRUE]
  OBVIOUS
<1>8. SameFlow(b, q)
  BY <1>6, <1>7 DEF SameFlow, ProgressOk, Progresses
<1>9. ProgressOk(ld, q) /\ q.match = pr.match
  BY <1>4, <1>6, <1>8, SameFlowOk
<1>10. pr' = IF pr.state = "snapshot" THEN q ELSE pr
  BY <1>2, <1>5, <1>7 DEF SnapStatus
<1>11. ProgressOk(ld, pr') /\ pr'.match = pr.match
  BY <1>1, <1>9, <1>10
<1>12. reports' \in Seq(BOOLEAN)
  <2>1. reports # << >> /\ reports' = Tail(reports)
    BY DEF SnapStatus
  <2> QED
    BY <1>1, <2>1, SeqTail, Zenon
<1>13. ld' = ld /\ fo' = fo /\ toF' = toF /\ toL' = toL /\ panicked' = panicked
  BY DEF SnapStatus
<1> QED
  BY <1>1, <1>11, <1>12, <1>13, FlowInvNext

\* A report that the follower is unreachable keeps the invariant.
LEMMA UnreachableStep ==
  ASSUME FlowInv, Unreachable
  PROVE  FlowInv'
<1>1. /\ ~panicked /\ LeaderOk(ld) /\ FollowerOk(ld, fo) /\ ProgressOk(ld, pr) /\ Agreed(ld, fo, pr.match)
      /\ ToFAllOk(ld, fo, toF) /\ ToLAllOk(ld, fo, toL) /\ reports \in Seq(BOOLEAN)
  BY FlowInvIs
<1>2. pr \in Progresses /\ pr.match <= Len(ld.log) /\ pr.pending <= Len(ld.log)
  BY <1>1, ProgressType
<1>3. PICK q : q = BecomeProbe(pr)
  OBVIOUS
<1>4. ProgressOk(ld, q) /\ q.match = pr.match
  BY <1>1, <1>2, <1>3, ProbeOk
<1>5. pr' = q /\ ld' = ld /\ fo' = fo /\ toF' = toF /\ toL' = toL /\ panicked' = panicked /\ reports' = reports
  BY <1>3 DEF Unreachable
<1> QED
  BY <1>1, <1>4, <1>5, FlowInvNext

-----------------------------------------------------------------------------
(* A step of the follower. *)

\* One more true message towards the leader,
LEMMA AppendLOk ==
  ASSUME NEW l, NEW f, NEW s, ToLAllOk(l, f, s), NEW m, m \in LMsgs, ToLOk(l, f, m)
  PROVE  ToLAllOk(l, f, Append(s, m))
BY DEF ToLAllOk

\* or the follower.
LEMMA AppendFOk ==
  ASSUME NEW l, NEW f, NEW s, ToFAllOk(l, f, s), NEW m, m \in FMsgs, ToFOk(l, f, m)
  PROVE  ToFAllOk(l, f, Append(s, m))
BY DEF ToFAllOk

\* The follower becomes f and answers a.
FollowerStep(f, a) ==
  /\ fo' = f /\ toL' = Append(toL, a) /\ ~panicked'
  /\ ld' = ld /\ pr' = pr /\ reports' \in Seq(BOOLEAN) /\ toF # << >> /\ toF' = Tail(toF)

\* A step of the follower keeps the invariant if it advances and answers
\* truly.
LEMMA FollowerStepOk ==
  ASSUME FlowInv, NEW f, Advanced(ld, fo, f), NEW a, a \in LMsgs, ToLOk(ld, f, a), FollowerStep(f, a)
  PROVE  FlowInv'
<1>1. /\ LeaderOk(ld) /\ ProgressOk(ld, pr) /\ Agreed(ld, fo, pr.match)
      /\ ToFAllOk(ld, fo, toF) /\ ToLAllOk(ld, fo, toL)
  BY FlowInvIs
<1>2. FollowerOk(ld, f) /\ Agreed(ld, f, pr.match)
  BY <1>1, ProgressType DEF Advanced
<1>3. ToFAllOk(ld, f, toF) /\ ToLAllOk(ld, f, toL)
  BY <1>1, AdvancedAll
<1>4. ToFAllOk(ld, f, Tail(toF))
  BY <1>3, TailFOk DEF FollowerStep
<1>5. ToLAllOk(ld, f, Append(toL, a))
  BY <1>3, AppendLOk
<1> QED
  BY <1>1, <1>2, <1>4, <1>5, FlowInvNext DEF FollowerStep

\* Doing nothing advances.
LEMMA SameFollower ==
  ASSUME NEW l, NEW f, FollowerOk(l, f)
  PROVE  Advanced(l, f, f)
BY DEF Advanced

\* An acknowledgement of what is agreed is true.
LEMMA AcceptMsg ==
  ASSUME NEW l, NEW f, NEW i, i \in Nat, Agreed(l, f, i)
  PROVE  Accept(i) \in LMsgs /\ ToLOk(l, f, Accept(i))
<1>1. PICK a : a = Accept(i)
  OBVIOUS
<1>2. a \in Accepts /\ a.index = i
  BY <1>1 DEF Accept, Accepts
<1>3. a \in LMsgs /\ ToLOk(l, f, a)
  BY <1>2 DEF LMsgs, ToLOk
<1> QED
  BY <1>1, <1>3

\* A rejection's hint is not below where the logs part, and its term not below
\* the leader's there.
LEMMA RejectMsg ==
  ASSUME FlowInv, NEW i, i \in Nat, i <= Len(ld.log), ~Agreed(ld, fo, i)
  PROVE  Reject(i) \in LMsgs /\ ToLOk(ld, fo, Reject(i))
<1>1. LeaderOk(ld) /\ FollowerOk(ld, fo)
  BY FlowInvIs
<1>2. /\ Len(ld.log) \in Nat /\ DOMAIN ld.log = 1 .. Len(ld.log) /\ \A j \in 1 .. Len(ld.log) : ld.log[j] \in 1 .. Term
      /\ Term \in Nat
  BY <1>1, LeaderType
<1>3. /\ Len(fo.log) \in Nat /\ DOMAIN fo.log = 1 .. Len(fo.log) /\ \A j \in 1 .. Len(fo.log) : fo.log[j] \in 1 .. Term
  BY <1>1, FollowerType
<1>4. PICK c : c = Common(fo)
  OBVIOUS
<1>5. c \in Nat /\ Agreed(ld, fo, c) /\ \A j \in Nat : Agreed(ld, fo, j) => j <= c
  BY <1>1, <1>4, CommonIs
<1>6. c < i
  <2>1. CASE i <= c
    BY <1>1, <1>5, <2>1, AgreedBelow
  <2> QED
    BY <1>5, <2>1
<1>7. PICK n, t : n = MinOf(i, Len(fo.log)) /\ t = TermAt(ld.log, i)
  OBVIOUS
<1>8. n \in Nat /\ n <= i /\ n <= Len(fo.log) /\ c <= n
  <2>1. c <= Len(fo.log)
    BY <1>5 DEF Agreed
  <2> QED
    BY <1>3, <1>5, <1>6, <1>7, <2>1 DEF MinOf
<1>9. PICK h : h = FindConflictByTerm(fo.log, 0, n, t)
  OBVIOUS
<1>10. /\ h \in 0 .. n /\ \A j \in 0 .. n : TermAt(fo.log, j) <= t => j <= h
  BY <1>8, <1>9, ConflictIs
<1>11. c <= Len(ld.log) /\ TermAt(fo.log, c) = TermAt(ld.log, c) /\ TermAt(ld.log, c) <= t
  <2>1. TermAt(fo.log, c) = TermAt(ld.log, c) /\ c <= Len(ld.log)
    <3>1. c <= Len(ld.log)
      BY <1>5 DEF Agreed
    <3> QED
      BY <1>1, <1>5, <3>1, TermAgrees
  <2>2. CASE c = 0
    <3>1. t \in 1 .. Term /\ TermAt(ld.log, c) = 0
      BY <1>2, <1>5, <1>6, <1>7, <2>2 DEF TermAt
    <3> QED
      BY <1>2, <2>1, <3>1
  <2>3. CASE c # 0
    <3>1. c \in DOMAIN ld.log /\ i \in DOMAIN ld.log /\ c <= i
      BY <1>2, <1>5, <1>6, <2>1, <2>3
    <3>2. ld.log[c] <= ld.log[i]
      BY <1>1, <3>1 DEF LeaderOk, Nondecreasing
    <3>3. TermAt(ld.log, c) = ld.log[c] /\ t = ld.log[i]
      BY <1>5, <1>6, <1>7, <2>3 DEF TermAt
    <3> QED
      BY <2>1, <3>2, <3>3
  <2> QED
    BY <2>2, <2>3
<1>12. c <= h /\ h \in Nat /\ h <= Len(fo.log) /\ h <= i
  BY <1>3, <1>5, <1>8, <1>10, <1>11
<1>13. TermAt(fo.log, h) \in Nat /\ TermAt(ld.log, c) <= TermAt(fo.log, h)
  <2>1. CASE c = 0
    <3>1. TermAt(ld.log, c) = 0
      BY <2>1 DEF TermAt
    <3>2. TermAt(fo.log, h) \in Nat
      BY <1>2, <1>3, <1>12 DEF TermAt
    <3> QED
      BY <3>1, <3>2
  <2>2. CASE c # 0
    <3>1. c \in DOMAIN fo.log /\ h \in DOMAIN fo.log /\ h # 0
      BY <1>3, <1>5, <1>12, <2>2
    <3>2. fo.log[c] <= fo.log[h]
      BY <1>1, <1>12, <3>1 DEF FollowerOk, Nondecreasing
    <3>3. TermAt(fo.log, c) = fo.log[c] /\ TermAt(fo.log, h) = fo.log[h] /\ fo.log[h] \in Nat
      BY <1>2, <1>3, <2>2, <3>1 DEF TermAt
    <3> QED
      BY <1>11, <3>2, <3>3
  <2> QED
    BY <2>1, <2>2
<1>14. PICK m, u : m = Reject(i) /\ u = TermAt(fo.log, h)
  OBVIOUS
<1>15. m = [type |-> "Reject", index |-> i, hint |-> h, term |-> u, common |-> c]
  BY <1>4, <1>7, <1>9, <1>14 DEF Reject
<1>16. m \in Rejects /\ m.index = i /\ m.hint = h /\ m.term = u /\ m.common = c
  BY <1>5, <1>12, <1>13, <1>14, <1>15 DEF Rejects
<1>17. h <= Len(ld.log)
  BY <1>2, <1>12
<1>18. m \in LMsgs /\ ToLOk(ld, fo, m)
  BY <1>6, <1>12, <1>13, <1>14, <1>16, <1>17 DEF LMsgs, ToLOk
<1> QED
  BY <1>14, <1>18

\* The message's entries that the follower does not have, the first of them,
\* and the log with them.
Same(i) == i <= Len(fo.log) /\ TermAt(fo.log, i) = TermAt(ld.log, i)
Differing(m) == {i \in m.prev + 1 .. m.last : ~Same(i)}
FirstOf(D) == CHOOSE i \in D : \A j \in D : i <= j
Mended(m) == SubSeq(fo.log, 1, FirstOf(Differing(m)) - 1) \o SubSeq(ld.log, FirstOf(Differing(m)), m.last)
CommitOf(m) == MaxOf(fo.commit, MinOf(m.commit, m.last))

\* What HandleAppend does, by cases.
LEMMA HandleAppendIs ==
  ASSUME NEW m, m.prev \in Nat, fo.commit \in Nat, HandleAppend(m)
  PROVE  \/ m.prev < fo.commit /\ fo' = fo /\ toL' = Append(toL, Accept(fo.commit)) /\ ~panicked'
         \/ m.prev >= fo.commit /\ ~Same(m.prev) /\ fo' = fo /\ toL' = Append(toL, Reject(m.prev)) /\ ~panicked'
         \/ /\ m.prev >= fo.commit /\ Same(m.prev) /\ Differing(m) = {}
            /\ fo' = [log |-> fo.log, commit |-> CommitOf(m)] /\ toL' = Append(toL, Accept(m.last))
            /\ ~panicked'
         \/ /\ m.prev >= fo.commit /\ Same(m.prev) /\ Differing(m) # {}
            /\ fo' = [log |-> Mended(m), commit |-> CommitOf(m)] /\ toL' = Append(toL, Accept(m.last))
            /\ panicked' => FirstOf(Differing(m)) <= fo.commit
<1>0. (CASE m.prev < fo.commit -> Answers(fo, Accept(fo.commit), FALSE)
        [] m.prev >= fo.commit /\ ~Same(m.prev) -> Answers(fo, Reject(m.prev), FALSE)
        [] OTHER -> Answers([log |-> IF Differing(m) = {} THEN fo.log ELSE Mended(m), commit |-> CommitOf(m)],
                            Accept(m.last), Differing(m) # {} /\ FirstOf(Differing(m)) <= fo.commit))
  BY DEF HandleAppend, Same, Differing, FirstOf, Mended, CommitOf
<1>1. CASE m.prev < fo.commit
  <2>1. ~(m.prev >= fo.commit)
    BY <1>1
  <2>2. Answers(fo, Accept(fo.commit), FALSE)
    BY <1>0, <1>1, <2>1, Zenon
  <2> QED
    BY <1>1, <2>2 DEF Answers
<1>2. CASE m.prev >= fo.commit /\ ~Same(m.prev)
  <2>1. ~(m.prev < fo.commit)
    BY <1>2
  <2>2. Answers(fo, Reject(m.prev), FALSE)
    BY <1>0, <1>2, <2>1, Zenon
  <2> QED
    BY <1>2, <2>2 DEF Answers
<1>3. CASE m.prev >= fo.commit /\ Same(m.prev)
  <2>1. ~(m.prev < fo.commit)
    BY <1>3
  <2>2. Answers([log |-> IF Differing(m) = {} THEN fo.log ELSE Mended(m), commit |-> CommitOf(m)],
                Accept(m.last), Differing(m) # {} /\ FirstOf(Differing(m)) <= fo.commit)
    BY <1>0, <1>3, <2>1, Zenon
  <2>3. /\ fo' = [log |-> IF Differing(m) = {} THEN fo.log ELSE Mended(m), commit |-> CommitOf(m)]
        /\ toL' = Append(toL, Accept(m.last))
        /\ panicked' = (Differing(m) # {} /\ FirstOf(Differing(m)) <= fo.commit)
    BY <2>2 DEF Answers
  <2>4. panicked' => Differing(m) # {} /\ FirstOf(Differing(m)) <= fo.commit
    BY <2>3
  <2> QED
    BY <1>3, <2>3, <2>4
<1> QED
  BY <1>1, <1>2, <1>3

\* fo has the entries up to prev but not all up to last: the first it lacks.
LEMMA FirstDiffers ==
  ASSUME NEW m, m \in Apps, Differing(m) # {}, NEW c, c = FirstOf(Differing(m))
  PROVE  c \in m.prev + 1 .. m.last /\ ~Same(c) /\ \A i \in m.prev + 1 .. m.last : ~Same(i) => c <= i
<1>1. m.prev \in Nat /\ m.last \in Nat
  BY DEF Apps
<1>2. PICK D : D = Differing(m)
  OBVIOUS
<1>3. D \in SUBSET Nat /\ D # {}
  BY <1>1, <1>2 DEF Differing
<1>4. \E k \in D : \A n \in D : k <= n
  BY <1>3, Least
<1>5. c \in D /\ \A n \in D : c <= n
  BY <1>2, <1>4 DEF FirstOf
<1> QED
  BY <1>2, <1>5 DEF Differing

\* s is what b is up to n.
Copies(s, b, n) == s \in Logs /\ Len(s) = n /\ \A j \in 1 .. n : s[j] = b[j]

\* A log cut at a conflict and continued with the leader's entries is the
\* leader's.
LEMMA Joined ==
  ASSUME NEW x, x \in Logs, NEW y, y \in Logs, NEW b, NEW c, c \in Nat, NEW n, n \in Nat, c >= 1, c <= n,
         Len(x) = c - 1, \A j \in 1 .. c - 1 : x[j] = b[j],
         Len(y) = n - c + 1, \A j \in 1 .. n - c + 1 : y[j] = b[c + j - 1]
  PROVE  Copies(x \o y, b, n)
<1>1. /\ x \o y \in Logs /\ Len(x \o y) = Len(x) + Len(y)
      /\ \A j \in 1 .. Len(x) : (x \o y)[j] = x[j]
      /\ \A j \in 1 .. Len(y) : (x \o y)[Len(x) + j] = y[j]
  BY DEF Logs
<1>2. PICK s : s = x \o y
  OBVIOUS
<1>3. s \in Logs /\ Len(s) = n
  <2>1. Len(x) + Len(y) = n
    OBVIOUS
  <2> QED
    BY <1>1, <1>2, <2>1, Zenon
<1>4. ASSUME NEW j \in 1 .. n
      PROVE  s[j] = b[j]
  <2>1. CASE j <= c - 1
    <3>1. j \in 1 .. c - 1 /\ j \in 1 .. Len(x)
      BY <2>1
    <3> QED
      BY <1>1, <1>2, <3>1
  <2>2. CASE j > c - 1
    <3>1. PICK k : k = j - (c - 1)
      OBVIOUS
    <3>2. k \in 1 .. n - c + 1 /\ k \in 1 .. Len(y) /\ Len(x) + k = j /\ c + k - 1 = j
      BY <2>2, <3>1
    <3>3. s[Len(x) + k] = y[k]
      BY <1>1, <1>2, <3>2
    <3> QED
      BY <3>2, <3>3
  <2> QED
    BY <2>1, <2>2
<1> QED
  BY <1>2, <1>3, <1>4 DEF Copies

\* A prefix of one log followed by the rest of another's prefix.
LEMMA Spliced ==
  ASSUME NEW a, a \in Logs, NEW b, b \in Logs, NEW c, c \in Nat, NEW n, n \in Nat, c >= 1, c <= n,
         c - 1 <= Len(a), n <= Len(b), \A j \in 1 .. c - 1 : a[j] = b[j]
  PROVE  Copies(SubSeq(a, 1, c - 1) \o SubSeq(b, c, n), b, n)
<1>1. /\ Len(a) \in Nat /\ \A j \in 1 .. Len(a) : a[j] \in 1 .. Term
      /\ Len(b) \in Nat /\ \A j \in 1 .. Len(b) : b[j] \in 1 .. Term
      /\ a \in Seq(1 .. Term) /\ b \in Seq(1 .. Term)
  <2>1. a \in Seq(1 .. Term) /\ b \in Seq(1 .. Term)
    BY DEF Logs
  <2>2. Len(a) \in Nat /\ \A j \in 1 .. Len(a) : a[j] \in 1 .. Term
    BY <2>1, FlowAssumption
  <2>3. Len(b) \in Nat /\ \A j \in 1 .. Len(b) : b[j] \in 1 .. Term
    BY <2>1, FlowAssumption
  <2> QED
    BY <2>1, <2>2, <2>3
<1>2. PICK d : d = c - 1
  OBVIOUS
<1>3. d \in Nat /\ d <= Len(a)
  BY <1>2
<1>4. SubSeq(a, 1, d) \in Logs /\ Len(SubSeq(a, 1, d)) = d /\ \A j \in 1 .. d : SubSeq(a, 1, d)[j] = a[j]
  <2>1. SubSeq(a, 1, d) \in Seq(1 .. Term)
    BY <1>1, <1>3
  <2>2. Len(SubSeq(a, 1, d)) = d /\ \A j \in 1 .. d : SubSeq(a, 1, d)[j] = a[j]
    BY <1>1, <1>3
  <2> QED
    BY <2>1, <2>2 DEF Logs
<1>5. /\ SubSeq(b, c, n) \in Logs /\ Len(SubSeq(b, c, n)) = n - c + 1
      /\ \A j \in 1 .. n - c + 1 : SubSeq(b, c, n)[j] = b[c + j - 1]
  <2>1. SubSeq(b, c, n) \in Seq(1 .. Term)
    BY <1>1
  <2>2. Len(SubSeq(b, c, n)) = n - c + 1 /\ \A j \in 1 .. n - c + 1 : SubSeq(b, c, n)[j] = b[c + j - 1]
    BY <1>1
  <2> QED
    BY <2>1, <2>2 DEF Logs
<1>6. PICK x, y : x = SubSeq(a, 1, d) /\ y = SubSeq(b, c, n)
  OBVIOUS
<1>7. x \in Logs /\ Len(x) = d /\ \A j \in 1 .. d : x[j] = b[j]
  BY <1>2, <1>4, <1>6
<1>8. y \in Logs /\ Len(y) = n - c + 1 /\ \A j \in 1 .. n - c + 1 : y[j] = b[c + j - 1]
  BY <1>5, <1>6
<1>9. Copies(x \o y, b, n)
  BY <1>2, <1>7, <1>8, Joined
<1> QED
  BY <1>2, <1>6, <1>9

\* Equality of terms at an index is agreement up to it.
LEMMA SameIs ==
  ASSUME FlowInv, NEW i, i \in Nat, i <= Len(ld.log)
  PROVE  Same(i) <=> Agreed(ld, fo, i)
BY FlowInvIs, TermAgrees DEF Same

\* Nothing to mend.
LEMMA HasAll ==
  ASSUME FlowInv, NEW m, m \in Apps, m.prev <= m.last, m.last <= Len(ld.log), Same(m.prev), Differing(m) = {}
  PROVE  Agreed(ld, fo, m.last)
<1>1. m.prev \in Nat /\ m.last \in Nat /\ Len(ld.log) \in Nat
  BY FlowInvIs, LeaderType DEF Apps
<1>2. CASE m.last = m.prev
  BY <1>1, <1>2, SameIs
<1>3. CASE m.last # m.prev
  <2>1. m.last \in m.prev + 1 .. m.last
    BY <1>1, <1>3
  <2>2. Same(m.last)
    BY <2>1 DEF Differing
  <2> QED
    BY <1>1, <2>2, SameIs
<1> QED
  BY <1>2, <1>3

\* The follower's new commit index is its old one or within the message.
LEMMA CommitOfIs ==
  ASSUME FlowInv, NEW m, m \in Apps, NEW c, c = CommitOf(m)
  PROVE  c \in Nat /\ (c = fo.commit \/ c <= m.last)
<1>1. fo.commit \in Nat /\ m.commit \in Nat /\ m.last \in Nat
  BY FlowInvIs, FollowerType DEF Apps
<1> QED
  BY <1>1 DEF CommitOf, MinOf, MaxOf

\* The conflict is above what is committed, and the mended log agrees up to
\* the message's end.
LEMMA MendedIs ==
  ASSUME FlowInv, NEW m, m \in Apps, m.prev <= m.last, m.last <= Len(ld.log), Same(m.prev), Differing(m) # {},
         fo.commit <= m.prev, NEW g, g = [log |-> Mended(m), commit |-> CommitOf(m)]
  PROVE  /\ Advanced(ld, fo, g) /\ Agreed(ld, g, m.last)
         /\ ~(FirstOf(Differing(m)) <= fo.commit)
<1>1. LeaderOk(ld) /\ FollowerOk(ld, fo)
  BY FlowInvIs
<1>2. /\ m.prev \in Nat /\ m.last \in Nat /\ Len(ld.log) \in Nat /\ fo.commit \in Nat /\ Len(fo.log) \in Nat
      /\ ld.log \in Seq(1 .. Term) /\ fo.log \in Seq(1 .. Term)
  BY <1>1, LeaderType, FollowerType DEF Apps
<1>3. PICK c : c = FirstOf(Differing(m))
  OBVIOUS
<1>4. c \in m.prev + 1 .. m.last /\ ~Same(c) /\ \A i \in m.prev + 1 .. m.last : ~Same(i) => c <= i
  BY <1>3, FirstDiffers
<1>5. c \in Nat /\ c >= 1 /\ c <= m.last /\ c > m.prev /\ c - 1 \in Nat /\ c - 1 <= Len(ld.log) /\ c <= Len(ld.log)
  BY <1>2, <1>4
<1>6. Agreed(ld, fo, c - 1)
  <2>1. CASE c - 1 = m.prev
    BY <1>5, <2>1, SameIs
  <2>2. CASE c - 1 # m.prev
    <3>1. c - 1 \in m.prev + 1 .. m.last /\ ~(c <= c - 1)
      BY <1>2, <1>5, <2>2
    <3>2. Same(c - 1)
      BY <1>4, <3>1
    <3> QED
      BY <1>5, <3>2, SameIs
  <2> QED
    BY <2>1, <2>2
<1>7. ~Agreed(ld, fo, c)
  BY <1>4, <1>5, SameIs
<1>8. PICK s, k : s = Mended(m) /\ k = CommitOf(m)
  OBVIOUS
<1>9. s \in Logs /\ Len(s) = m.last /\ \A j \in 1 .. m.last : s[j] = ld.log[j]
  <2>1. s = SubSeq(fo.log, 1, c - 1) \o SubSeq(ld.log, c, m.last)
    BY <1>3, <1>8 DEF Mended
  <2>2. c - 1 <= Len(fo.log) /\ \A j \in 1 .. c - 1 : fo.log[j] = ld.log[j]
    BY <1>6 DEF Agreed
  <2>3. PICK a, b, n : a = fo.log /\ b = ld.log /\ n = m.last
    OBVIOUS
  <2>4. /\ a \in Logs /\ b \in Logs /\ n \in Nat /\ c <= n /\ c - 1 <= Len(a)
        /\ n <= Len(b) /\ \A j \in 1 .. c - 1 : a[j] = b[j]
    BY <1>2, <1>5, <2>2, <2>3 DEF Logs
  <2>5. Copies(SubSeq(a, 1, c - 1) \o SubSeq(b, c, n), b, n)
    BY <1>5, <2>4, Spliced
  <2>6. Copies(s, b, n)
    BY <2>1, <2>3, <2>5
  <2> QED
    BY <2>3, <2>6 DEF Copies
<1>10. k \in Nat /\ k <= m.last
  <2>1. k \in Nat /\ (k = fo.commit \/ k <= m.last)
    BY <1>8, CommitOfIs
  <2> QED
    BY <1>2, <2>1
<1>11. g \in Followers /\ g.log = s /\ g.commit = k
  BY <1>8, <1>9, <1>10 DEF Followers
<1>12. ASSUME NEW j \in Nat, Agreed(ld, fo, j)
       PROVE  j <= m.last
  <2>1. CASE j > m.last
    <3>1. c <= j
      BY <1>2, <1>5, <2>1
    <3>2. Agreed(ld, fo, c)
      BY <1>1, <1>5, <1>12, <3>1, AgreedBelow
    <3> QED
      BY <1>7, <3>2
  <2> QED
    BY <1>2, <2>1
<1>13. Advanced(ld, fo, g) /\ \A j \in 0 .. m.last : Agreed(ld, g, j)
  <2>1. Len(g.log) = m.last /\ (\A j \in 1 .. m.last : g.log[j] = ld.log[j]) /\ g.commit <= m.last
    BY <1>9, <1>10, <1>11
  <2> QED
    BY <1>1, <1>2, <1>11, <1>12, <2>1, PrefixAdvances
<1>14. Agreed(ld, g, m.last)
  BY <1>2, <1>13
<1>15. ~(c <= fo.commit)
  BY <1>2, <1>5
<1> QED
  BY <1>3, <1>13, <1>14, <1>15

\* What ReceiveF leaves alone.
Receiving == ld' = ld /\ pr' = pr /\ reports' \in Seq(BOOLEAN) /\ toF # << >> /\ toF' = Tail(toF)

\* handleAppendEntries keeps the invariant, however old the message.
LEMMA HandleAppendStep ==
  ASSUME FlowInv, Receiving, NEW m, m \in Apps, m.prev <= m.last, m.last <= Len(ld.log), HandleAppend(m)
  PROVE  FlowInv'
<1>1. LeaderOk(ld) /\ FollowerOk(ld, fo) /\ Agreed(ld, fo, fo.commit)
  BY FlowInvIs DEF FollowerOk
<1>2. /\ m.prev \in Nat /\ m.last \in Nat /\ fo.commit \in Nat /\ m.prev <= Len(ld.log) /\ Len(ld.log) \in Nat
  BY <1>1, LeaderType, FollowerType DEF Apps
<1>3. CASE m.prev < fo.commit /\ fo' = fo /\ toL' = Append(toL, Accept(fo.commit)) /\ ~panicked'
  <2>1. FollowerStep(fo, Accept(fo.commit))
    BY <1>3 DEF FollowerStep, Receiving
  <2>2. Accept(fo.commit) \in LMsgs /\ ToLOk(ld, fo, Accept(fo.commit))
    BY <1>1, <1>2, AcceptMsg
  <2> QED
    BY <1>1, <2>1, <2>2, SameFollower, FollowerStepOk
<1>4. CASE m.prev >= fo.commit /\ ~Same(m.prev) /\ fo' = fo /\ toL' = Append(toL, Reject(m.prev)) /\ ~panicked'
  <2>1. FollowerStep(fo, Reject(m.prev))
    BY <1>4 DEF FollowerStep, Receiving
  <2>2. ~Agreed(ld, fo, m.prev)
    BY <1>2, <1>4, SameIs
  <2>3. Reject(m.prev) \in LMsgs /\ ToLOk(ld, fo, Reject(m.prev))
    BY <1>2, <2>2, RejectMsg
  <2> QED
    BY <1>1, <2>1, <2>3, SameFollower, FollowerStepOk
<1>5. CASE /\ m.prev >= fo.commit /\ Same(m.prev) /\ Differing(m) = {}
           /\ fo' = [log |-> fo.log, commit |-> CommitOf(m)] /\ toL' = Append(toL, Accept(m.last))
           /\ ~panicked'
  <2>1. Agreed(ld, fo, m.last)
    BY <1>5, HasAll
  <2>2. PICK c, g : c = CommitOf(m) /\ g = [log |-> fo.log, commit |-> c]
    OBVIOUS
  <2>3. c \in Nat /\ (c = fo.commit \/ c <= m.last)
    BY <2>2, CommitOfIs
  <2>4. Agreed(ld, fo, c)
    BY <1>1, <1>2, <2>1, <2>3, AgreedBelow
  <2>5. g \in Followers /\ g.log = fo.log /\ g.commit = c
    BY <1>1, <2>2, <2>3, FollowerType DEF Followers, Logs
  <2>6. Advanced(ld, fo, g)
    BY <1>1, <2>3, <2>4, <2>5, CommitAdvances
  <2>7. Agreed(ld, g, m.last)
    BY <1>2, <2>1, <2>6 DEF Advanced
  <2>8. Accept(m.last) \in LMsgs /\ ToLOk(ld, g, Accept(m.last))
    BY <1>2, <2>7, AcceptMsg
  <2>9. FollowerStep(g, Accept(m.last))
    BY <1>5, <2>2 DEF FollowerStep, Receiving
  <2> QED
    BY <2>6, <2>8, <2>9, FollowerStepOk
<1>6. CASE /\ m.prev >= fo.commit /\ Same(m.prev) /\ Differing(m) # {}
           /\ fo' = [log |-> Mended(m), commit |-> CommitOf(m)] /\ toL' = Append(toL, Accept(m.last))
           /\ panicked' => FirstOf(Differing(m)) <= fo.commit
  <2>1. PICK g : g = [log |-> Mended(m), commit |-> CommitOf(m)]
    OBVIOUS
  <2>2. fo.commit <= m.prev
    BY <1>2, <1>6
  <2>3. /\ Advanced(ld, fo, g) /\ Agreed(ld, g, m.last)
        /\ ~(FirstOf(Differing(m)) <= fo.commit)
    BY <1>6, <2>1, <2>2, MendedIs
  <2>4. Accept(m.last) \in LMsgs /\ ToLOk(ld, g, Accept(m.last))
    BY <1>2, <2>3, AcceptMsg
  <2>5. FollowerStep(g, Accept(m.last))
    BY <1>6, <2>1, <2>3 DEF FollowerStep, Receiving
  <2> QED
    BY <2>3, <2>4, <2>5, FollowerStepOk
<1> QED
  BY <1>2, <1>3, <1>4, <1>5, <1>6, HandleAppendIs

\* handleHeartbeat keeps the invariant.
LEMMA HandleHeartbeatStep ==
  ASSUME FlowInv, Receiving, NEW m, m \in Beats, Agreed(ld, fo, m.commit), HandleHeartbeat(m)
  PROVE  FlowInv'
<1>1. LeaderOk(ld) /\ FollowerOk(ld, fo) /\ Agreed(ld, fo, fo.commit)
  BY FlowInvIs DEF FollowerOk
<1>2. m.commit \in Nat /\ fo.commit \in Nat /\ fo \in Followers
  BY <1>1, FollowerType DEF Beats
<1>3. PICK c : c = MaxOf(fo.commit, m.commit)
  OBVIOUS
<1>4. c \in Nat /\ Agreed(ld, fo, c)
  BY <1>1, <1>2, <1>3 DEF MaxOf
<1>5. PICK g, a : g = [fo EXCEPT !.commit = c] /\ a = [type |-> "BeatResp"]
  OBVIOUS
<1>6. g \in Followers /\ g.log = fo.log /\ g.commit = c
  BY <1>2, <1>4, <1>5 DEF Followers
<1>7. Advanced(ld, fo, g)
  BY <1>1, <1>4, <1>6, CommitAdvances
<1>8. a \in LMsgs /\ ToLOk(ld, g, a)
  BY <1>5 DEF LMsgs, BeatResps, ToLOk
<1>9. fo' = g /\ toL' = Append(toL, a) /\ (panicked' => m.commit > Len(fo.log))
  BY <1>3, <1>5 DEF HandleHeartbeat, Answers
<1>10. ~(m.commit > Len(fo.log))
  BY <1>1, <1>2, FollowerType DEF Agreed
<1>11. FollowerStep(g, a)
  BY <1>9, <1>10 DEF FollowerStep, Receiving
<1> QED
  BY <1>7, <1>8, <1>11, FollowerStepOk

\* handleSnapshot keeps the invariant.
LEMMA HandleSnapshotStep ==
  ASSUME FlowInv, Receiving, NEW m, m \in Snaps, m.index <= Len(ld.log), HandleSnapshot(m)
  PROVE  FlowInv'
<1>1. LeaderOk(ld) /\ FollowerOk(ld, fo) /\ Agreed(ld, fo, fo.commit)
  BY FlowInvIs DEF FollowerOk
<1>2. /\ m.index \in Nat /\ fo.commit \in Nat /\ Len(ld.log) \in Nat /\ fo \in Followers
      /\ ld.log \in Seq(1 .. Term)
  BY <1>1, LeaderType, FollowerType DEF Snaps
<1>0. (CASE m.index <= fo.commit -> Answers(fo, Accept(fo.commit), FALSE)
          [] m.index > fo.commit /\ Same(m.index) ->
                Answers([fo EXCEPT !.commit = m.index], Accept(m.index), FALSE)
          [] OTHER -> Answers([log |-> SubSeq(ld.log, 1, m.index), commit |-> m.index],
                              Accept(m.index), FALSE))
  BY DEF HandleSnapshot, Same
<1>3. CASE m.index <= fo.commit
  <2>1. ~(m.index > fo.commit)
    BY <1>2, <1>3
  <2>2. Answers(fo, Accept(fo.commit), FALSE)
    BY <1>0, <1>3, <2>1, Zenon
  <2>3. FollowerStep(fo, Accept(fo.commit))
    BY <2>2 DEF FollowerStep, Receiving, Answers
  <2>4. Accept(fo.commit) \in LMsgs /\ ToLOk(ld, fo, Accept(fo.commit))
    BY <1>1, <1>2, AcceptMsg
  <2> QED
    BY <1>1, <2>3, <2>4, SameFollower, FollowerStepOk
<1>4. CASE m.index > fo.commit /\ Same(m.index)
  <2>1. ~(m.index <= fo.commit)
    BY <1>2, <1>4
  <2>2. Answers([fo EXCEPT !.commit = m.index], Accept(m.index), FALSE)
    BY <1>0, <1>4, <2>1, Zenon
  <2>3. PICK i, g : i = m.index /\ g = [fo EXCEPT !.commit = i]
    OBVIOUS
  <2>4. Agreed(ld, fo, i) /\ i \in Nat
    BY <1>2, <1>4, <2>3, SameIs
  <2>5. g \in Followers /\ g.log = fo.log /\ g.commit = i
    BY <1>2, <2>3, <2>4 DEF Followers
  <2>6. Advanced(ld, fo, g)
    BY <1>1, <2>4, <2>5, CommitAdvances
  <2>7. Agreed(ld, g, i)
    BY <2>4, <2>6 DEF Advanced
  <2>8. Accept(i) \in LMsgs /\ ToLOk(ld, g, Accept(i))
    BY <2>4, <2>7, AcceptMsg
  <2>9. FollowerStep(g, Accept(i))
    BY <2>2, <2>3 DEF FollowerStep, Receiving, Answers
  <2> QED
    BY <2>6, <2>8, <2>9, FollowerStepOk
<1>5. CASE m.index > fo.commit /\ ~Same(m.index)
  <2>1. ~(m.index <= fo.commit)
    BY <1>2, <1>5
  <2>2. Answers([log |-> SubSeq(ld.log, 1, m.index), commit |-> m.index], Accept(m.index), FALSE)
    BY <1>0, <1>5, <2>1, Zenon
  <2>3. PICK i, s : i = m.index /\ s = SubSeq(ld.log, 1, i)
    OBVIOUS
  <2>4. i \in Nat /\ i <= Len(ld.log) /\ ~Agreed(ld, fo, i)
    BY <1>2, <1>5, <2>3, SameIs
  <2>5. s \in Seq(1 .. Term) /\ Len(s) = i /\ \A j \in 1 .. i : s[j] = ld.log[j]
    <3>1. PICK b : b = ld.log
      OBVIOUS
    <3>2. b \in Seq(1 .. Term) /\ Len(b) \in Nat /\ \A j \in 1 .. Len(b) : b[j] \in 1 .. Term
      BY <1>1, <3>1, LeaderType
    <3>3. SubSeq(b, 1, i) \in Seq(1 .. Term)
      BY <2>4, <3>1, <3>2
    <3>4. Len(SubSeq(b, 1, i)) = i /\ \A j \in 1 .. i : SubSeq(b, 1, i)[j] = b[j]
      BY <2>4, <3>1, <3>2
    <3> QED
      BY <2>3, <3>1, <3>3, <3>4
  <2>6. PICK g : g = [log |-> s, commit |-> i]
    OBVIOUS
  <2>7. g \in Followers /\ g.log = s /\ g.commit = i
    BY <2>4, <2>5, <2>6 DEF Followers, Logs
  <2>8. ASSUME NEW j \in Nat, Agreed(ld, fo, j)
        PROVE  j <= i
    <3>1. CASE j > i
      <4>1. i <= j
        BY <2>4, <3>1
      <4> QED
        BY <1>1, <2>4, <2>8, <4>1, AgreedBelow
    <3> QED
      BY <2>4, <3>1
  <2>9. Advanced(ld, fo, g) /\ \A j \in 0 .. i : Agreed(ld, g, j)
    <3>1. Len(g.log) = i /\ (\A j \in 1 .. i : g.log[j] = ld.log[j]) /\ g.commit <= i
      BY <2>4, <2>5, <2>7
    <3> QED
      BY <1>1, <2>4, <2>7, <2>8, <3>1, PrefixAdvances
  <2>10. Agreed(ld, g, i)
    BY <2>4, <2>9
  <2>11. Accept(i) \in LMsgs /\ ToLOk(ld, g, Accept(i))
    BY <2>4, <2>10, AcceptMsg
  <2>12. FollowerStep(g, Accept(i))
    BY <2>2, <2>3, <2>6 DEF FollowerStep, Receiving, Answers
  <2> QED
    BY <2>9, <2>11, <2>12, FollowerStepOk
<1> QED
  BY <1>2, <1>3, <1>4, <1>5

\* Whatever the follower receives keeps the invariant.
LEMMA ReceiveFStep ==
  ASSUME FlowInv, ReceiveF
  PROVE  FlowInv'
<1>1. ToFAllOk(ld, fo, toF) /\ reports \in Seq(BOOLEAN)
  BY FlowInvIs
<1>2. PICK m : m = Head(toF)
  OBVIOUS
<1>3. ToFOk(ld, fo, m)
  BY <1>1, <1>2, TailFOk DEF ReceiveF
<1>4. Receiving
  <2>1. Append(reports, FALSE) \in Seq(BOOLEAN)
    BY <1>1, SeqAppend, Zenon
  <2>2. reports' \in Seq(BOOLEAN)
    BY <1>1, <2>1 DEF ReceiveF
  <2> QED
    BY <2>2 DEF ReceiveF, Receiving
<1>5. CASE m \in Apps /\ m.prev <= m.last /\ m.last <= Len(ld.log)
  <2>1. m.type = "App"
    BY <1>5 DEF Apps
  <2>2. HandleAppend(m)
    BY <1>2, <2>1 DEF ReceiveF
  <2> QED
    BY <1>4, <1>5, <2>2, HandleAppendStep
<1>6. CASE m \in Beats /\ Agreed(ld, fo, m.commit)
  <2>1. m.type = "Beat"
    BY <1>6 DEF Beats
  <2>2. HandleHeartbeat(m)
    BY <1>2, <2>1 DEF ReceiveF
  <2> QED
    BY <1>4, <1>6, <2>2, HandleHeartbeatStep
<1>7. CASE m \in Snaps /\ m.index <= Len(ld.log)
  <2>1. m.type = "Snap"
    BY <1>7 DEF Snaps
  <2>2. HandleSnapshot(m)
    BY <1>2, <2>1 DEF ReceiveF
  <2> QED
    BY <1>4, <1>7, <2>2, HandleSnapshotStep
<1> QED
  BY <1>3, <1>5, <1>6, <1>7 DEF ToFOk

-----------------------------------------------------------------------------
(* Faults. *)

\* Every message of w is one of q.
Drawn(w, q) == \A j \in DOMAIN w : \E i \in DOMAIN q : w[j] = q[i]

\* A queue without one message is drawn from it.
LEMMA WithoutIs ==
  ASSUME NEW S, NEW q, q \in Seq(S), NEW k, k \in DOMAIN q, NEW w, w = Without(q, k)
  PROVE  w \in Seq(S) /\ Drawn(w, q)
<1>1. Len(q) \in Nat /\ DOMAIN q = 1 .. Len(q) /\ k \in Nat /\ k >= 1 /\ k <= Len(q)
  OBVIOUS
<1>2. PICK a, n : a = k - 1 /\ n = k + 1
  OBVIOUS
<1>3. a \in Nat /\ a <= Len(q) /\ n \in Nat /\ n >= 1 /\ n <= Len(q) + 1
  BY <1>1, <1>2
<1>4. SubSeq(q, 1, a) \in Seq(S) /\ Len(SubSeq(q, 1, a)) = a /\ \A j \in 1 .. a : SubSeq(q, 1, a)[j] = q[j]
  <2>1. SubSeq(q, 1, a) \in Seq(S)
    BY <1>1, <1>3
  <2>2. Len(SubSeq(q, 1, a)) = a /\ \A j \in 1 .. a : SubSeq(q, 1, a)[j] = q[j]
    BY <1>1, <1>3
  <2> QED
    BY <2>1, <2>2
<1>5. /\ SubSeq(q, n, Len(q)) \in Seq(S) /\ Len(SubSeq(q, n, Len(q))) = Len(q) - n + 1
      /\ \A j \in 1 .. Len(q) - n + 1 : SubSeq(q, n, Len(q))[j] = q[n + j - 1]
  <2>1. SubSeq(q, n, Len(q)) \in Seq(S)
    BY <1>1, <1>3
  <2>2. /\ Len(SubSeq(q, n, Len(q))) = Len(q) - n + 1
        /\ \A j \in 1 .. Len(q) - n + 1 : SubSeq(q, n, Len(q))[j] = q[n + j - 1]
    BY <1>1, <1>3
  <2> QED
    BY <2>1, <2>2
<1>6. PICK x, y : x = SubSeq(q, 1, a) /\ y = SubSeq(q, n, Len(q))
  OBVIOUS
<1>7. x \in Seq(S) /\ Len(x) = a /\ \A j \in 1 .. a : x[j] = q[j]
  BY <1>4, <1>6
<1>8. y \in Seq(S) /\ Len(y) = Len(q) - n + 1 /\ \A j \in 1 .. Len(q) - n + 1 : y[j] = q[n + j - 1]
  BY <1>5, <1>6
<1>9. w = x \o y
  BY <1>2, <1>6 DEF Without
<1>10. /\ x \o y \in Seq(S) /\ DOMAIN (x \o y) = 1 .. Len(x) + Len(y)
       /\ \A j \in 1 .. Len(x) : (x \o y)[j] = x[j]
       /\ \A j \in 1 .. Len(y) : (x \o y)[Len(x) + j] = y[j]
  <2>1. x \in Seq(S) /\ y \in Seq(S)
    BY <1>7, <1>8
  <2> QED
    BY <2>1
<1>11. PICK z : z = x \o y
  OBVIOUS
<1>12. /\ z \in Seq(S) /\ DOMAIN z = 1 .. Len(x) + Len(y)
       /\ \A j \in 1 .. Len(x) : z[j] = x[j]
       /\ \A j \in 1 .. Len(y) : z[Len(x) + j] = y[j]
  BY <1>10, <1>11
<1>13. ASSUME NEW j \in DOMAIN z
       PROVE  \E i \in DOMAIN q : z[j] = q[i]
  <2>0. j \in Nat /\ j >= 1 /\ j <= a + (Len(q) - n + 1)
    BY <1>1, <1>3, <1>7, <1>8, <1>12
  <2>1. CASE j <= a
    <3>1. j \in 1 .. a /\ j \in 1 .. Len(q)
      BY <1>1, <1>3, <2>0, <2>1
    <3>2. z[j] = q[j]
      BY <1>7, <1>12, <3>1
    <3> QED
      BY <1>1, <3>1, <3>2
  <2>2. CASE j > a
    <3>1. PICK i, h : i = j - a /\ h = n + (j - a) - 1
      OBVIOUS
    <3>2. i \in 1 .. Len(q) - n + 1 /\ a + i = j /\ h = n + i - 1 /\ h \in 1 .. Len(q)
      BY <1>1, <1>3, <2>0, <2>2, <3>1
    <3>3. z[j] = y[i] /\ y[i] = q[h]
      BY <1>7, <1>8, <1>12, <3>2
    <3> QED
      BY <1>1, <3>2, <3>3
  <2> QED
    BY <1>3, <2>0, <2>1, <2>2
<1>14. w = z
  BY <1>9, <1>11
<1>15. Drawn(z, q)
  BY <1>13 DEF Drawn
<1> QED
  BY <1>12, <1>14, <1>15

\* Losing, repeating and delaying a message leaves true ones: towards the
\* follower,
LEMMA WithoutF ==
  ASSUME NEW l, NEW f, NEW s, ToFAllOk(l, f, s), NEW k, k \in DOMAIN s
  PROVE  ToFAllOk(l, f, Without(s, k)) /\ ToFAllOk(l, f, Append(s, s[k]))
         /\ ToFAllOk(l, f, Append(Without(s, k), s[k]))
<1>1. s \in Seq(FMsgs) /\ s[k] \in FMsgs /\ ToFOk(l, f, s[k])
  BY DEF ToFAllOk
<1>2. PICK w : w = Without(s, k)
  OBVIOUS
<1>3. w \in Seq(FMsgs) /\ Drawn(w, s)
  BY <1>1, <1>2, WithoutIs
<1>4. ToFAllOk(l, f, w)
  BY <1>3 DEF ToFAllOk, Drawn
<1>5. ToFAllOk(l, f, Append(w, s[k])) /\ ToFAllOk(l, f, Append(s, s[k]))
  BY <1>1, <1>4, AppendFOk
<1> QED
  BY <1>2, <1>4, <1>5

\* and towards the leader.
LEMMA WithoutL ==
  ASSUME NEW l, NEW f, NEW s, ToLAllOk(l, f, s), NEW k, k \in DOMAIN s
  PROVE  ToLAllOk(l, f, Without(s, k)) /\ ToLAllOk(l, f, Append(s, s[k]))
         /\ ToLAllOk(l, f, Append(Without(s, k), s[k]))
<1>1. s \in Seq(LMsgs) /\ s[k] \in LMsgs /\ ToLOk(l, f, s[k])
  BY DEF ToLAllOk
<1>2. PICK w : w = Without(s, k)
  OBVIOUS
<1>3. w \in Seq(LMsgs) /\ Drawn(w, s)
  BY <1>1, <1>2, WithoutIs
<1>4. ToLAllOk(l, f, w)
  BY <1>3 DEF ToLAllOk, Drawn
<1>5. ToLAllOk(l, f, Append(w, s[k])) /\ ToLAllOk(l, f, Append(s, s[k]))
  BY <1>1, <1>4, AppendLOk
<1> QED
  BY <1>2, <1>4, <1>5

\* The faults of the network.
LEMMA NetworkStep ==
  ASSUME FlowInv, Lose \/ Repeat \/ Overtake
  PROVE  FlowInv'
<1>1. /\ ~panicked /\ LeaderOk(ld) /\ FollowerOk(ld, fo) /\ ProgressOk(ld, pr) /\ Agreed(ld, fo, pr.match)
      /\ ToFAllOk(ld, fo, toF) /\ ToLAllOk(ld, fo, toL) /\ reports \in Seq(BOOLEAN)
  BY FlowInvIs
<1>2. ld' = ld /\ fo' = fo /\ pr' = pr /\ panicked' = panicked
  BY DEF Lose, Repeat, Overtake
<1>3. \/ toF' = toF
      \/ \E k \in DOMAIN toF : toF' \in {Without(toF, k), Append(toF, toF[k]), Append(Without(toF, k), toF[k])}
  BY DEF Lose, Repeat, Overtake
<1>4. \/ toL' = toL
      \/ \E k \in DOMAIN toL : toL' \in {Without(toL, k), Append(toL, toL[k]), Append(Without(toL, k), toL[k])}
  BY DEF Lose, Repeat, Overtake
<1>5. reports' = reports \/ reports' = Append(reports, TRUE)
  BY DEF Lose, Repeat, Overtake
<1>6. Append(reports, TRUE) \in Seq(BOOLEAN)
  BY <1>1, SeqAppend, Zenon
<1>7. reports' \in Seq(BOOLEAN)
  BY <1>1, <1>5, <1>6
<1>8. ToFAllOk(ld, fo, toF')
  BY <1>1, <1>3, WithoutF
<1>9. ToLAllOk(ld, fo, toL')
  BY <1>1, <1>4, WithoutL
<1> QED
  BY <1>1, <1>2, <1>7, <1>8, <1>9, FlowInvNext

-----------------------------------------------------------------------------
(* The theorems. *)

Started(start) ==
  [log |-> Append(start.log, Term), base |-> start.base, snap |-> start.base,
   commit |-> start.commit, other |-> 0]

\* A sequence over a set is one over a larger set.
LEMMA SeqSubset ==
  ASSUME NEW S, NEW T, S \subseteq T, NEW s, s \in Seq(S)
  PROVE  s \in Seq(T)
OBVIOUS

\* An election leaves a leader and a follower in order.
LEMMA StartedOk ==
  ASSUME NEW start \in Starts, NEW l, l = Started(start), NEW f, f = [log |-> start.flog, commit |-> start.fcommit]
  PROVE  LeaderOk(l) /\ FollowerOk(l, f) /\ Len(l.log) >= 1 /\ Agreed(l, f, 0)
<1> DEFINE a == start.log
           b == start.flog
           c == start.fcommit
<1>1. /\ a \in Seq(1 .. Term - 1) /\ Nondecreasing(a) /\ b \in Seq(1 .. Term - 1) /\ Nondecreasing(b)
      /\ start.base \in 0 .. start.commit /\ start.commit \in 0 .. Len(a)
      /\ c \in 0 .. Len(b) /\ c <= Len(a)
      /\ \A j \in 1 .. c : b[j] = a[j]
      /\ \A i \in DOMAIN a \cap DOMAIN b : a[i] = b[i] => \A j \in 1 .. i : a[j] = b[j]
  BY StartsAssumption
<1> HIDE DEF a, b, c
<1>2. Term \in Nat /\ Term >= 1 /\ Term \in 1 .. Term
  BY FlowAssumption
<1>3. /\ Len(a) \in Nat /\ DOMAIN a = 1 .. Len(a) /\ \A j \in 1 .. Len(a) : a[j] \in 1 .. Term - 1
      /\ Len(b) \in Nat /\ DOMAIN b = 1 .. Len(b) /\ \A j \in 1 .. Len(b) : b[j] \in 1 .. Term - 1
  <2>1. Len(a) \in Nat /\ DOMAIN a = 1 .. Len(a) /\ \A j \in 1 .. Len(a) : a[j] \in 1 .. Term - 1
    BY <1>1, <1>2
  <2>2. Len(b) \in Nat /\ DOMAIN b = 1 .. Len(b) /\ \A j \in 1 .. Len(b) : b[j] \in 1 .. Term - 1
    BY <1>1, <1>2
  <2> QED
    BY <2>1, <2>2
<1>4. start.base \in Nat /\ start.commit \in Nat /\ start.base <= start.commit /\ start.commit <= Len(a) /\ c \in Nat /\ c <= Len(b)
  BY <1>1, <1>3
<1>5. a \in Seq(1 .. Term) /\ b \in Seq(1 .. Term)
  <2>1. (1 .. Term - 1) \subseteq (1 .. Term)
    BY <1>2
  <2> QED
    BY <1>1, <2>1, SeqSubset
<1>6. PICK w : w = Append(a, Term)
  OBVIOUS
<1>7. /\ w \in Seq(1 .. Term) /\ Len(w) = Len(a) + 1 /\ DOMAIN w = 1 .. Len(a) + 1
      /\ \A j \in 1 .. Len(a) : w[j] = a[j]
      /\ w[Len(a) + 1] = Term
  BY <1>2, <1>3, <1>5, <1>6
<1>8. l.log = w /\ l.base = start.base /\ l.snap = start.base /\ l.commit = start.commit /\ l.other = 0 /\ l \in Leaders
  <2>1. l = [log |-> w, base |-> start.base, snap |-> start.base, commit |-> start.commit, other |-> 0]
    BY <1>6 DEF Started, a
  <2> QED
    BY <1>4, <1>7, <2>1 DEF Leaders, Logs
<1>9. Nondecreasing(w)
  <2>1. ASSUME NEW i \in 1 .. Len(a) + 1, NEW j \in 1 .. Len(a) + 1, i <= j
        PROVE  w[i] <= w[j]
    <3>1. CASE j \in 1 .. Len(a)
      <4>1. i \in 1 .. Len(a)
        BY <1>3, <2>1, <3>1
      <4>2. a[i] <= a[j]
        BY <1>1, <1>3, <2>1, <3>1, <4>1 DEF Nondecreasing
      <4> QED
        BY <1>7, <3>1, <4>1, <4>2
    <3>2. CASE j = Len(a) + 1
      <4>1. w[j] = Term
        BY <1>7, <3>2
      <4>2. CASE i = j
        BY <1>2, <4>1, <4>2
      <4>3. CASE i # j
        <5>1. i \in 1 .. Len(a)
          BY <1>3, <2>1, <3>2, <4>3
        <5>2. w[i] = a[i] /\ a[i] \in 1 .. Term - 1
          BY <1>3, <1>7, <5>1
        <5> QED
          BY <1>2, <4>1, <5>2
      <4> QED
        BY <4>2, <4>3
    <3> QED
      BY <1>3, <3>1, <3>2
  <2> QED
    BY <1>7, <2>1 DEF Nondecreasing
<1>10. LeaderOk(l)
  <2>1. l.base <= l.snap /\ l.snap <= l.commit /\ l.commit <= Len(w) /\ l.other <= Len(w)
    BY <1>3, <1>4, <1>7, <1>8
  <2> QED
    BY <1>8, <1>9, <2>1 DEF LeaderOk
<1>11. f.log = b /\ f.commit = c /\ f \in Followers
  <2>1. f = [log |-> b, commit |-> c]
    BY DEF b, c
  <2> QED
    BY <1>4, <1>5, <2>1 DEF Followers, Logs
<1>12. \A i \in DOMAIN b : b[i] # Term
  BY <1>2, <1>3
<1>13. ASSUME NEW i \in DOMAIN b, i <= Len(w), b[i] = w[i]
       PROVE  Agreed(l, f, i)
  <2>1. i \in 1 .. Len(a)
    <3>1. i # Len(a) + 1
      BY <1>7, <1>12, <1>13
    <3> QED
      BY <1>3, <1>7, <1>13, <3>1
  <2>2. a[i] = b[i] /\ i \in DOMAIN a \cap DOMAIN b
    BY <1>3, <1>7, <1>13, <2>1
  <2>3. \A j \in 1 .. i : a[j] = b[j]
    BY <1>1, <2>2
  <2>4. \A j \in 1 .. i : w[j] = b[j]
    BY <1>3, <1>7, <2>1, <2>3
  <2>5. i <= Len(w) /\ i <= Len(b)
    BY <1>3, <1>13
  <2> QED
    BY <1>8, <1>11, <2>4, <2>5 DEF Agreed
<1>14. Agreed(l, f, c)
  <2>1. c <= Len(w) /\ c <= Len(b)
    BY <1>1, <1>3, <1>4, <1>7
  <2>2. \A j \in 1 .. c : b[j] = w[j]
    BY <1>1, <1>3, <1>4, <1>7
  <2> QED
    BY <1>8, <1>11, <2>1, <2>2 DEF Agreed
<1>15. FollowerOk(l, f)
  <2>1. /\ \A i \in DOMAIN f.log : f.log[i] = Term => i <= Len(l.log)
    BY <1>11, <1>12
  <2>2. \A i \in DOMAIN f.log : i <= Len(l.log) /\ f.log[i] = l.log[i] => Agreed(l, f, i)
    BY <1>8, <1>11, <1>13
  <2>3. Nondecreasing(f.log) /\ Agreed(l, f, f.commit)
    BY <1>1, <1>11, <1>14
  <2> QED
    BY <1>11, <2>1, <2>2, <2>3 DEF FollowerOk
<1>16. Len(l.log) >= 1 /\ Agreed(l, f, 0)
  <2>1. 0 <= Len(w) /\ 0 <= Len(b) /\ Len(w) >= 1
    BY <1>3, <1>7
  <2> QED
    BY <1>8, <1>11, <2>1 DEF Agreed
<1> QED
  BY <1>10, <1>15, <1>16

\* A new leader's Progress is sound.
LEMMA NewProgressOk ==
  ASSUME NEW l, LeaderOk(l), Len(l.log) >= 1, NEW size \in Nat, NEW p, p = NewProgress(l, size)
  PROVE  ProgressOk(l, p) /\ p.match = 0
<1>1. Len(l.log) \in Nat /\ size \in Nat
  BY LeaderType
<1>2. PICK n, e : n = Len(l.log) /\ e = << >>
  OBVIOUS
<1>3. n \in Nat /\ e \in Seq(Nat)
  BY <1>1, <1>2
<1>4. p = [match |-> 0, next |-> n, sent |-> 0, state |-> "probe", pending |-> 0,
           paused |-> FALSE, active |-> FALSE, infl |-> e, size |-> size]
  BY <1>2 DEF NewProgress
<1>5. /\ p \in Progresses /\ p.match = 0 /\ p.next = n /\ p.pending = 0 /\ p.infl = e /\ p.size = size
  BY <1>1, <1>3, <1>4 DEF Progresses
<1>6. Window(p)
  BY <1>1, <1>2, <1>5, EmptyWindow
<1> QED
  BY <1>1, <1>2, <1>5, <1>6 DEF ProgressOk

\* The invariant holds initially,
LEMMA FlowInit ==
  Init => FlowInv
<1> SUFFICES ASSUME Init
             PROVE  FlowInv
  OBVIOUS
<1>1. PICK start \in Starts :
        LET l == Started(start)
            s == SendAppend(l, NewProgress(l, start.size))
        IN  /\ ld = l /\ pr = s.pr /\ toF = s.out
            /\ fo = [log |-> start.flog, commit |-> start.fcommit]
            /\ toL = << >> /\ reports = << >> /\ panicked = FALSE /\ faults = 0
  BY DEF Init, Started, SendAppend
<1>2. PICK l, p, s : l = Started(start) /\ p = NewProgress(l, start.size) /\ s = SendAppend(l, p)
  OBVIOUS
<1>3. /\ ld = l /\ pr = s.pr /\ toF = s.out /\ fo = [log |-> start.flog, commit |-> start.fcommit]
      /\ toL = << >> /\ reports = << >> /\ ~panicked
  BY <1>1, <1>2
<1>4. LeaderOk(ld) /\ FollowerOk(ld, fo) /\ Len(ld.log) >= 1 /\ Agreed(ld, fo, 0)
  BY <1>2, <1>3, StartedOk
<1>5. ProgressOk(ld, p) /\ p.match = 0
  BY <1>2, <1>3, <1>4, NewProgressOk, StartsAssumption
<1>6. SendOk(ld, p, s.pr, s.out)
  BY <1>2, <1>3, <1>4, <1>5, AppendSends
<1>7. ProgressOk(ld, pr) /\ Agreed(ld, fo, pr.match) /\ OutOk(ld, toF)
  BY <1>3, <1>4, <1>5, <1>6 DEF SendOk
<1>8. ToFAllOk(ld, fo, toF)
  BY <1>7 DEF OutOk, ToFAllOk, ToFOk, FMsgs
<1>9. ToLAllOk(ld, fo, toL)
  BY <1>3 DEF ToLAllOk
<1>10. reports \in Seq(BOOLEAN)
  BY <1>3
<1> QED
  BY <1>3, <1>4, <1>7, <1>8, <1>9, <1>10, FlowInvIs

\* and after every step.
LEMMA FlowNext ==
  ASSUME FlowInv, [Next]_vars
  PROVE  FlowInv'
<1>1. CASE Next
  BY <1>1, ProposeStep, OtherAcksStep, HeartbeatStep, CheckQuorumStep,
     CreateSnapshotStep, CompactStep, ReceiveLStep, SnapStatusStep, ReceiveFStep, NetworkStep, UnreachableStep DEF Next, Beat, BeatAgain
<1>2. CASE UNCHANGED vars
  <2>1. /\ ld' = ld /\ fo' = fo /\ pr' = pr /\ panicked' = panicked /\ toF' = toF /\ toL' = toL
        /\ reports' = reports
    BY <1>2 DEF vars
  <2> QED
    BY <2>1, FlowInvIs, FlowInvNext
<1> QED
  BY <1>1, <1>2

\* The invariant that the other theorems rest on holds in every reachable
\* state.
THEOREM FlowInvCorrect == Spec => []FlowInv
<1>1. Init => FlowInv
  BY FlowInit
<1>2. FlowInv /\ [Next]_vars => FlowInv'
  BY FlowNext
<1> QED
  BY <1>1, <1>2, PTL DEF Spec

\* The leader never believes more than the follower has, its window is exact
\* and the follower never panics (Progress.MaybeUpdate, Inflights,
\* maybeAppend), whatever is lost, repeated, overtaken or compacted.
THEOREM FlowSoundCorrect == Spec => []FlowSound
<1>1. ASSUME FlowInv
      PROVE  FlowSound
  <2>1. ~panicked /\ LeaderOk(ld) /\ FollowerOk(ld, fo) /\ ProgressOk(ld, pr) /\ Agreed(ld, fo, pr.match)
    BY <1>1, FlowInvIs
  <2>2. pr.match \in Nat /\ pr.match < pr.next
    BY <2>1, ProgressType
  <2>3. pr.match <= Common(fo)
    BY <2>1, <2>2, CommonIs
  <2>4. WindowExact
    BY <2>1 DEF ProgressOk, Window, WindowExact
  <2> QED
    BY <2>1, <2>2, <2>3, <2>4 DEF FlowSound, MatchAgrees
<1>2. FlowInv => FlowSound
  BY <1>1
<1> QED
  BY <1>2, FlowInvCorrect, PTL

\* A rejection never sends a probing leader below the point up to which the
\* logs agreed when it was made (findConflictByTerm, on both sides).
THEOREM ProbesWellCorrect == Spec => ProbesWell
<1> DEFINE Rejection == toL # << >> /\ toL' = Tail(toL) /\ Head(toL).type = "Reject"
                        /\ pr.state = "probe" /\ pr'.next < pr.next
           Well == Rejection => pr'.next > Head(toL).common
<1>1. ASSUME FlowInv, [Next]_vars, Rejection
      PROVE  pr'.next > Head(toL).common
  <2>1. LeaderOk(ld) /\ ProgressOk(ld, pr) /\ ToLAllOk(ld, fo, toL)
    BY <1>1, FlowInvIs
  <2>2. pr.next \in Nat /\ pr' # pr
    <3>1. pr.next \in Nat
      BY <2>1, ProgressType
    <3> QED
      BY <1>1, <3>1
  <2>3. toL' # toL
    <3>1. toL \in Seq(LMsgs) /\ toL # << >>
      BY <1>1, <2>1 DEF ToLAllOk
    <3>2. Len(Tail(toL)) = Len(toL) - 1 /\ Len(toL) \in Nat
      BY <3>1
    <3>3. CASE toL' = toL
      <4>1. Tail(toL) = toL
        BY <1>1, <3>3
      <4>2. Len(toL) = Len(toL) - 1
        BY <3>2, <4>1, Zenon
      <4> QED
        BY <3>2, <4>2
    <3> QED
      BY <3>3
  <2>4. ReceiveL
    BY <1>1, <2>2, <2>3 DEF Next, vars, Propose, OtherAcks, Beat, BeatAgain, SendHeartbeat, CheckQuorum, CreateSnapshot,
       Compact, SnapStatus, ReceiveF, Lose, Repeat, Overtake, Unreachable
  <2> QED
    BY <1>1, <2>4, ReceiveLStep
<1>2. FlowInv /\ [Next]_vars => [Well]_vars
  BY <1>1
<1> QED
  BY <1>2, FlowInvCorrect, PTL DEF Spec, ProbesWell
=============================================================================
