-------------------------- MODULE ConfChangeProofs --------------------------
(***************************************************************************)
(* What the proofs about clusters need of configurations, their changes    *)
(* and their quorums: a change keeps the members tracked and moves the     *)
(* voters so that quorums before and after it meet, Restore rebuilds a     *)
(* configuration, and the committed index has a quorum.                    *)
(***************************************************************************)
EXTENDS ConfChange, FiniteSetTheorems, NaturalsInduction, TLAPS

-----------------------------------------------------------------------------
(* Induction over natural numbers, for a property given as a set. *)

\* A nonempty set of natural numbers has a least element.
LEMMA LeastElement ==
  ASSUME NEW T \in SUBSET Nat, T # {}
  PROVE  \E m \in T : \A n \in T : m <= n
<1>1. PICK m \in T : \A n \in T : ~(<<n, m>> \in OpToRel(<, Nat))
  BY WFMin, NatLessThanWellFounded
<1>2. ASSUME NEW n \in T PROVE m <= n
  <2>1. m \in Nat /\ n \in Nat
    OBVIOUS
  <2>2. ~(n < m)
    BY <1>1, <2>1 DEF OpToRel
  <2> QED
    BY <2>1, <2>2
<1> QED
  BY <1>2

\* What holds at 0, and at k whenever it holds at k - 1, holds up to n.
LEMMA UpTo ==
  ASSUME NEW n \in Nat, NEW T, 0 \in T, \A k \in 1 .. n : k - 1 \in T => k \in T
  PROVE  \A k \in 0 .. n : k \in T
<1> DEFINE B == {k \in 0 .. n : k \notin T}
<1> SUFFICES ASSUME B # {} PROVE FALSE
  OBVIOUS
<1>0. B \in SUBSET Nat
  OBVIOUS
<1> HIDE DEF B
<1>1. PICK m \in B : \A k \in B : m <= k
  BY <1>0, LeastElement
<1> USE DEF B
<1>2. m # 0 /\ m \in 1 .. n
  BY <1>1
<1>3. m - 1 \in 0 .. n /\ m - 1 \notin B
  BY <1>1, <1>2
<1> QED
  BY <1>1, <1>2, <1>3

\* f iterates the step G from c along ops.
Iterates(f, S, G, c, ops) ==
  /\ f \in [0 .. Len(ops) -> S]
  /\ f[0] = c
  /\ \A k \in 1 .. Len(ops) : f[k] = G[<<f[k - 1], ops[k]>>]

\* A total step function can be iterated along a list of arguments.
LEMMA Iteration ==
  ASSUME NEW S, NEW A, NEW G, G \in [S \X A -> S], NEW c, c \in S, NEW ops, ops \in Seq(A)
  PROVE  \E f : Iterates(f, S, G, c, ops)
<1> DEFINE Runs(n) == {f \in [0 .. n -> S] :
                        f[0] = c /\ \A k \in 1 .. n : f[k] = G[<<f[k - 1], ops[k]>>]}
           T == {n \in Nat : n <= Len(ops) => Runs(n) # {}}
<1>1. 0 \in T
  <2>1. [k \in 0 .. 0 |-> c] \in Runs(0)
    OBVIOUS
  <2> QED
    BY <2>1
<1>2. ASSUME NEW n \in 1 .. Len(ops), n - 1 \in T PROVE n \in T
  <2>1. n \in Nat /\ n - 1 \in Nat /\ n - 1 <= Len(ops) /\ ops[n] \in A
    OBVIOUS
  <2>2. PICK f \in Runs(n - 1) : TRUE
    BY <1>2, <2>1
  <2>3. /\ f \in [0 .. (n - 1) -> S] /\ f[0] = c
        /\ \A k \in 1 .. (n - 1) : f[k] = G[<<f[k - 1], ops[k]>>]
    BY <2>2
  <2> DEFINE g == [k \in 0 .. n |-> IF k = n THEN G[<<f[n - 1], ops[n]>>] ELSE f[k]]
  <2>4. f[n - 1] \in S /\ G[<<f[n - 1], ops[n]>>] \in S
    BY <2>1, <2>3
  <2>5. g \in [0 .. n -> S]
    BY <2>1, <2>3, <2>4
  <2>6. g[0] = c
    BY <2>1, <2>3
  <2>7. ASSUME NEW k \in 1 .. n PROVE g[k] = G[<<g[k - 1], ops[k]>>]
    <3>1. CASE k = n
      <4>1. n - 1 # n /\ n - 1 \in 0 .. n
        BY <2>1
      <4>2. g[n] = G[<<f[n - 1], ops[n]>>] /\ g[n - 1] = f[n - 1]
        BY <2>1, <4>1
      <4> QED
        BY <3>1, <4>2
    <3>2. CASE k # n
      <4>1. k \in 1 .. (n - 1) /\ k - 1 # n /\ k - 1 \in 0 .. n /\ k \in 0 .. n
        BY <2>1, <3>2
      <4>2. g[k] = f[k] /\ g[k - 1] = f[k - 1]
        BY <3>2, <4>1
      <4> QED
        BY <2>3, <4>1, <4>2
    <3> QED
      BY <3>1, <3>2
  <2>8. g \in Runs(n)
    BY <2>5, <2>6, <2>7
  <2> QED
    BY <2>1, <2>8
<1> HIDE DEF T
<1>3. Len(ops) \in Nat
  OBVIOUS
<1>4. \A k \in 0 .. Len(ops) : k \in T
  BY <1>1, <1>2, <1>3, UpTo, Zenon
<1> QED
  BY <1>3, <1>4 DEF T, Iterates

-----------------------------------------------------------------------------
(* Quorums. *)

Majority(c, S) == 2 * Cardinality(c \cap S) > Cardinality(c)

\* A vote is won by more than half of the voters.
LEMMA WonByMajority ==
  ASSUME NEW c, IsFiniteSet(c), NEW S
  PROVE  MajorityVote(c, S, {}) = "won" <=> c = {} \/ Majority(c, S)
<1>1. Cardinality(c) \in Nat /\ Cardinality(c \cap S) \in Nat
  BY FS_CardinalityType, FS_Intersection
<1>2. Cardinality(c \cap S) >= Cardinality(c) \div 2 + 1 <=> Majority(c, S)
  BY <1>1 DEF Majority
<1>3. CASE c = {}
  BY <1>3 DEF MajorityVote
<1>4. CASE c # {} /\ Cardinality(c \cap S) >= Cardinality(c) \div 2 + 1
  BY <1>1, <1>2, <1>4 DEF MajorityVote
<1>5. CASE c # {} /\ ~(Cardinality(c \cap S) >= Cardinality(c) \div 2 + 1)
  <2>1. MajorityVote(c, S, {}) \in {"pending", "lost"}
    BY <1>1, <1>5 DEF MajorityVote
  <2> QED
    BY <1>2, <1>5, <2>1
<1> QED
  BY <1>3, <1>4, <1>5

\* A joint vote is won by a majority of each configuration.
LEMMA QuorumIsJointMajority ==
  ASSUME NEW in, IsFiniteSet(in), NEW out, IsFiniteSet(out), NEW S
  PROVE  IsQuorum(in, out, S) <=> /\ in = {} \/ Majority(in, S)
                                  /\ out = {} \/ Majority(out, S)
<1>1. IsQuorum(in, out, S) <=> /\ MajorityVote(in, S, {}) = "won"
                               /\ MajorityVote(out, S, {}) = "won"
  BY DEF IsQuorum, VoteResult
<1> QED
  BY <1>1, WonByMajority

\* Two majorities of sets of voters that differ in one member at most meet.
LEMMA NeighbouringMajoritiesMeet ==
  ASSUME NEW A, IsFiniteSet(A), NEW B, IsFiniteSet(B),
         Cardinality((A \ B) \cup (B \ A)) <= 1,
         NEW P, NEW Q, Majority(A, P), Majority(B, Q)
  PROVE  P \cap Q # {}
<1> SUFFICES ASSUME P \cap Q = {} PROVE FALSE
  OBVIOUS
<1> DEFINE C == A \cap B
           D == (A \ B) \cup (B \ A)
<1>1. /\ IsFiniteSet(C) /\ IsFiniteSet(A \ B) /\ IsFiniteSet(B \ A) /\ IsFiniteSet(D)
      /\ Cardinality(A) = Cardinality(C) + Cardinality(A \ B)
      /\ Cardinality(B) = Cardinality(C) + Cardinality(B \ A)
      /\ Cardinality(A \ B) + Cardinality(B \ A) = Cardinality(D)
  <2>1. /\ IsFiniteSet(C) /\ IsFiniteSet(A \ B) /\ IsFiniteSet(B \ A)
        /\ Cardinality(A \ B) = Cardinality(A) - Cardinality(A \cap B)
        /\ Cardinality(B \ A) = Cardinality(B) - Cardinality(B \cap A)
    BY FS_Difference, FS_Intersection
  <2>2. B \cap A = C /\ (A \ B) \cap (B \ A) = {}
    OBVIOUS
  <2>3. /\ IsFiniteSet(D)
        /\ Cardinality(D) = Cardinality(A \ B) + Cardinality(B \ A) - Cardinality((A \ B) \cap (B \ A))
    BY <2>1, FS_Union
  <2>4. Cardinality((A \ B) \cap (B \ A)) = 0
    BY <2>2, FS_EmptySet
  <2>5. /\ Cardinality(A) \in Nat /\ Cardinality(B) \in Nat /\ Cardinality(C) \in Nat
        /\ Cardinality(A \ B) \in Nat /\ Cardinality(B \ A) \in Nat
    BY <2>1, FS_CardinalityType
  <2>6. Cardinality(B \cap A) = Cardinality(C)
    BY <2>2, Zenon
  <2> HIDE DEF C, D
  <2>7. Cardinality(A \cap B) = Cardinality(C)
    BY DEF C
  <2> QED
    BY <2>1, <2>3, <2>4, <2>5, <2>6, <2>7
<1>2. /\ Cardinality(A \cap P) <= Cardinality(C \cap P) + Cardinality(A \ B)
      /\ Cardinality(B \cap Q) <= Cardinality(C \cap Q) + Cardinality(B \ A)
  <2>1. ASSUME NEW X, NEW Y, NEW R, IsFiniteSet(X)
        PROVE  Cardinality(X \cap R) <= Cardinality((X \cap Y) \cap R) + Cardinality(X \ Y)
    <3>1. /\ IsFiniteSet((X \cap Y) \cap R) /\ IsFiniteSet(X \ Y)
          /\ IsFiniteSet(((X \cap Y) \cap R) \cap (X \ Y))
      BY <2>1, FS_Difference, FS_Intersection
    <3>2. /\ Cardinality((X \cap Y) \cap R) \in Nat /\ Cardinality(X \ Y) \in Nat
          /\ Cardinality(((X \cap Y) \cap R) \cap (X \ Y)) \in Nat
      BY <3>1, FS_CardinalityType
    <3>3. /\ IsFiniteSet(((X \cap Y) \cap R) \cup (X \ Y))
          /\ Cardinality(((X \cap Y) \cap R) \cup (X \ Y))
               <= Cardinality((X \cap Y) \cap R) + Cardinality(X \ Y)
      <4>1. /\ IsFiniteSet(((X \cap Y) \cap R) \cup (X \ Y))
            /\ Cardinality(((X \cap Y) \cap R) \cup (X \ Y))
                 = Cardinality((X \cap Y) \cap R) + Cardinality(X \ Y)
                   - Cardinality(((X \cap Y) \cap R) \cap (X \ Y))
        BY <3>1, FS_Union, Zenon
      <4> QED
        BY <3>2, <4>1
    <3>4. X \cap R \in SUBSET (((X \cap Y) \cap R) \cup (X \ Y))
      OBVIOUS
    <3>5. /\ IsFiniteSet(X \cap R)
          /\ Cardinality(X \cap R) <= Cardinality(((X \cap Y) \cap R) \cup (X \ Y))
      BY <3>3, <3>4, FS_Subset
    <3>6. Cardinality(X \cap R) \in Nat /\ Cardinality(((X \cap Y) \cap R) \cup (X \ Y)) \in Nat
      BY <3>3, <3>5, FS_CardinalityType
    <3> QED
      BY <3>2, <3>3, <3>5, <3>6
  <2>2. (B \cap A) \cap Q = C \cap Q
    OBVIOUS
  <2> QED
    BY <2>1, <2>2
<1>3. Cardinality(C \cap P) + Cardinality(C \cap Q) <= Cardinality(C)
  <2> SUFFICES ASSUME Cardinality(C \cap P) + Cardinality(C \cap Q) > Cardinality(C) PROVE FALSE
    <3>1. /\ Cardinality(C \cap P) \in Nat /\ Cardinality(C \cap Q) \in Nat
          /\ Cardinality(C) \in Nat
      BY <1>1, FS_CardinalityType, FS_Intersection
    <3> QED
      BY <3>1
  <2>1. (C \cap P) \cap (C \cap Q) # {}
    BY <1>1, FS_MajoritiesIntersect
  <2> QED
    BY <2>1
<1>4. /\ Cardinality(A) \in Nat /\ Cardinality(B) \in Nat /\ Cardinality(C) \in Nat
      /\ Cardinality(A \ B) \in Nat /\ Cardinality(B \ A) \in Nat /\ Cardinality(D) \in Nat
      /\ Cardinality(A \cap P) \in Nat /\ Cardinality(B \cap Q) \in Nat
      /\ Cardinality(C \cap P) \in Nat /\ Cardinality(C \cap Q) \in Nat
  BY <1>1, FS_CardinalityType, FS_Intersection
<1> HIDE DEF C, D
<1> QED
  BY <1>1, <1>2, <1>3, <1>4 DEF Majority, D

-----------------------------------------------------------------------------
(* Configurations. *)

Progress == [learner : BOOLEAN, match : Nat]
Tracks == UNION {[D -> Progress] : D \in SUBSET Ids}
Confs == [in : SUBSET Ids, out : SUBSET Ids, learners : SUBSET Ids, next : SUBSET Ids,
          auto : BOOLEAN, trk : Tracks]

\* Progress is tracked for the members and for nobody else, and its learner
\* flag is the set of learners; staged learners are outgoing voters only.
Tracked(c) ==
  /\ c \in Confs
  /\ DOMAIN c.trk = Voters(c) \cup c.learners \cup c.next
  /\ c.next \subseteq c.out \ c.in
  /\ c.learners \cap Voters(c) = {}
  /\ \A id \in DOMAIN c.trk : c.trk[id].learner <=> id \in c.learners

\* The match indexes of d are those of c, or 0.
Keeps(c, d) ==
  \A j \in DOMAIN d.trk :
    d.trk[j].match = 0 \/ (j \in DOMAIN c.trk /\ d.trk[j].match = c.trk[j].match)

\* Nothing is matched yet.
Zero(c) == \A j \in DOMAIN c.trk : c.trk[j].match = 0

\* Two configurations that differ in what is matched at most, or in AutoLeave.
Alike(c, d) ==
  c.in = d.in /\ c.out = d.out /\ c.learners = d.learners /\ c.next = d.next

\* What a single change does to the incoming voters.
AppliedIn(in, o) ==
  IF o.id = 0 \/ o.op = "update" THEN in
  ELSE IF o.op = "voter" THEN in \cup {o.id} ELSE in \ {o.id}

\* The fields of a configuration are typed, and a configuration of typed
\* fields is one.
LEMMA ConfFields ==
  ASSUME NEW c \in Confs
  PROVE  /\ c.in \in SUBSET Ids /\ c.out \in SUBSET Ids
         /\ c.learners \in SUBSET Ids /\ c.next \in SUBSET Ids
         /\ c.auto \in BOOLEAN
         /\ c.trk \in Tracks /\ DOMAIN c.trk \subseteq Ids
         /\ \A id \in DOMAIN c.trk : c.trk[id] \in Progress
         /\ c.trk \in [DOMAIN c.trk -> Progress]
<1>1. /\ c.in \in SUBSET Ids /\ c.out \in SUBSET Ids
      /\ c.learners \in SUBSET Ids /\ c.next \in SUBSET Ids
      /\ c.auto \in BOOLEAN
      /\ c.trk \in Tracks
  BY DEF Confs
<1>2. PICK D \in SUBSET Ids : c.trk \in [D -> Progress]
  BY <1>1 DEF Tracks
<1> QED
  BY <1>1, <1>2

\* A function from tracked nodes to progress is a track.
LEMMA TrackTyping ==
  ASSUME NEW D \in SUBSET Ids, NEW t \in [D -> Progress]
  PROVE  t \in Tracks
BY DEF Tracks

\* A configuration with some sets, tracks and flag.
Conf(i, o, l, n, a, t) ==
  [in |-> i, out |-> o, learners |-> l, next |-> n, auto |-> a, trk |-> t]

\* MakeVoter on each field.
LEMMA MakeVoterFields ==
  ASSUME NEW c, Tracked(c), NEW id \in Ids, NEW d, d = MakeVoter(c, id)
  PROVE  /\ d \in Confs
         /\ d.in = c.in \cup {id} /\ d.out = c.out /\ d.auto = c.auto
         /\ d.learners = c.learners \ {id} /\ d.next = c.next \ {id}
         /\ DOMAIN d.trk = DOMAIN c.trk \cup {id}
         /\ \A j \in DOMAIN d.trk : d.trk[j].learner <=> j # id /\ c.trk[j].learner
         /\ Keeps(c, d)
<1>0. c \in Confs /\ c.learners \subseteq DOMAIN c.trk /\ c.next \subseteq DOMAIN c.trk
  BY DEF Tracked
<1>1. CASE id \notin DOMAIN c.trk
  <2>0. /\ c.in \cup {id} \in SUBSET Ids /\ c.out \in SUBSET Ids /\ c.auto \in BOOLEAN
        /\ c.learners \in SUBSET Ids /\ c.next \in SUBSET Ids
    BY <1>0, ConfFields
  <2> DEFINE t == [j \in DOMAIN c.trk \cup {id} |->
                     IF j = id THEN [learner |-> FALSE, match |-> 0] ELSE c.trk[j]]
  <2>1. t \in [DOMAIN c.trk \cup {id} -> Progress]
    BY <1>0, ConfFields DEF Progress
  <2>2. t \in Tracks
    BY <1>0, <2>1, ConfFields, TrackTyping
  <2>3. d = Conf(c.in \cup {id}, c.out, c.learners, c.next, c.auto, t)
    BY <1>0, <1>1 DEF MakeVoter, InitProgress, Track, Confs, Conf
  <2> HIDE DEF t
  <2>4. /\ d \in Confs
        /\ d.in = c.in \cup {id} /\ d.out = c.out /\ d.auto = c.auto
        /\ d.learners = c.learners /\ d.next = c.next /\ d.trk = t
    BY <2>0, <2>2, <2>3 DEF Conf, Confs
  <2> QED
    BY <1>0, <1>1, <2>4 DEF t, Keeps
<1>2. CASE id \in DOMAIN c.trk
  <2>0. /\ c.in \cup {id} \in SUBSET Ids /\ c.out \in SUBSET Ids /\ c.auto \in BOOLEAN
        /\ c.learners \ {id} \in SUBSET Ids /\ c.next \ {id} \in SUBSET Ids
    BY <1>0, ConfFields
  <2> DEFINE t == [c.trk EXCEPT ![id].learner = FALSE]
  <2>1. t \in [DOMAIN c.trk -> Progress]
    BY <1>0, <1>2, ConfFields DEF Progress
  <2>2. t \in Tracks
    BY <1>0, <2>1, ConfFields, TrackTyping
  <2>3. d = Conf(c.in \cup {id}, c.out, c.learners \ {id}, c.next \ {id}, c.auto, t)
    BY <1>0, <1>2 DEF MakeVoter, Confs, Conf
  <2>5. /\ DOMAIN t = DOMAIN c.trk
        /\ \A j \in DOMAIN t : t[j].learner <=> j # id /\ c.trk[j].learner
        /\ \A j \in DOMAIN t : t[j].match = c.trk[j].match
    BY <1>0, <1>2, ConfFields DEF Progress
  <2> HIDE DEF t
  <2>4. /\ d \in Confs
        /\ d.in = c.in \cup {id} /\ d.out = c.out /\ d.auto = c.auto
        /\ d.learners = c.learners \ {id} /\ d.next = c.next \ {id} /\ d.trk = t
    BY <2>0, <2>2, <2>3 DEF Conf, Confs
  <2> QED
    BY <1>2, <2>4, <2>5 DEF Keeps
<1> QED
  BY <1>1, <1>2

\* Remove on each field.
LEMMA RemoveFields ==
  ASSUME NEW c, Tracked(c), NEW id \in Ids, NEW d, d = Remove(c, id)
  PROVE  /\ d \in Confs
         /\ d.in = c.in \ {id} /\ d.out = c.out /\ d.auto = c.auto
         /\ d.learners = c.learners \ {id} /\ d.next = c.next \ {id}
         /\ DOMAIN d.trk = DOMAIN c.trk \ ({id} \ c.out)
         /\ \A j \in DOMAIN d.trk : d.trk[j].learner <=> c.trk[j].learner
         /\ Keeps(c, d)
<1>0. c \in Confs
  BY DEF Tracked
<1>t. /\ c.in \ {id} \in SUBSET Ids /\ c.out \in SUBSET Ids /\ c.auto \in BOOLEAN
      /\ c.learners \ {id} \in SUBSET Ids /\ c.next \ {id} \in SUBSET Ids /\ c.trk \in Tracks
  BY <1>0, ConfFields
<1>1. CASE id \in DOMAIN c.trk \ c.out
  <2> DEFINE t == [j \in DOMAIN c.trk \ {id} |-> c.trk[j]]
  <2>1. t \in [DOMAIN c.trk \ {id} -> Progress]
    BY <1>0, ConfFields
  <2>2. t \in Tracks
    BY <1>0, <2>1, ConfFields, TrackTyping
  <2>3. d = Conf(c.in \ {id}, c.out, c.learners \ {id}, c.next \ {id}, c.auto, t)
    BY <1>0, <1>1 DEF Remove, Untrack, Confs, Conf
  <2> HIDE DEF t
  <2>4. /\ d \in Confs
        /\ d.in = c.in \ {id} /\ d.out = c.out /\ d.auto = c.auto
        /\ d.learners = c.learners \ {id} /\ d.next = c.next \ {id} /\ d.trk = t
    BY <1>t, <2>2, <2>3 DEF Conf, Confs
  <2>5. DOMAIN t = DOMAIN c.trk \ {id} /\ \A j \in DOMAIN t : t[j] = c.trk[j]
    BY DEF t
  <2> QED
    BY <1>1, <2>4, <2>5 DEF Keeps
<1>2. CASE id \notin DOMAIN c.trk \ c.out
  <2>3. d = Conf(c.in \ {id}, c.out, c.learners \ {id}, c.next \ {id}, c.auto, c.trk)
    BY <1>0, <1>2 DEF Remove, Confs, Conf
  <2>4. /\ d \in Confs
        /\ d.in = c.in \ {id} /\ d.out = c.out /\ d.auto = c.auto
        /\ d.learners = c.learners \ {id} /\ d.next = c.next \ {id} /\ d.trk = c.trk
    BY <1>t, <2>3 DEF Conf, Confs
  <2> QED
    BY <1>2, <2>4 DEF Keeps
<1> QED
  BY <1>1, <1>2

\* MakeLearner on each field: an outgoing voter is staged.
LEMMA MakeLearnerFields ==
  ASSUME NEW c, Tracked(c), NEW id \in Ids, NEW d, d = MakeLearner(c, id)
  PROVE  /\ d \in Confs
         /\ d.in = c.in \ {id} /\ d.out = c.out /\ d.auto = c.auto
         /\ d.learners = c.learners \cup ({id} \ c.out)
         /\ d.next = c.next \cup ({id} \cap c.out)
         /\ DOMAIN d.trk = DOMAIN c.trk \cup {id}
         /\ \A j \in DOMAIN d.trk :
              d.trk[j].learner <=> (j = id /\ id \notin c.out) \/ (j # id /\ c.trk[j].learner)
         /\ Keeps(c, d)
<1>0. /\ c \in Confs /\ c.in \subseteq DOMAIN c.trk /\ c.out \subseteq DOMAIN c.trk
      /\ c.next \subseteq c.out \ c.in
      /\ \A j \in DOMAIN c.trk : c.trk[j].learner <=> j \in c.learners
      /\ \A j \in c.learners : j \notin c.in /\ j \notin c.out
  BY DEF Tracked, Voters
<1>t. /\ c.in \in SUBSET Ids /\ c.out \in SUBSET Ids /\ c.auto \in BOOLEAN
      /\ c.learners \in SUBSET Ids /\ c.next \in SUBSET Ids /\ c.trk \in Tracks
  BY <1>0, ConfFields
<1>1. CASE id \notin DOMAIN c.trk
  <2> DEFINE t == [j \in DOMAIN c.trk \cup {id} |->
                     IF j = id THEN [learner |-> TRUE, match |-> 0] ELSE c.trk[j]]
  <2>1. t \in [DOMAIN c.trk \cup {id} -> Progress]
    BY <1>0, ConfFields DEF Progress
  <2>2. t \in Tracks
    BY <1>0, <2>1, ConfFields, TrackTyping
  <2>3. d = Conf(c.in, c.out, c.learners \cup {id}, c.next, c.auto, t)
    BY <1>0, <1>1 DEF MakeLearner, InitProgress, Track, Confs, Conf
  <2>5. /\ DOMAIN t = DOMAIN c.trk \cup {id}
        /\ \A j \in DOMAIN t : t[j].learner <=> j = id \/ c.trk[j].learner
        /\ \A j \in DOMAIN t : t[j].match = IF j = id THEN 0 ELSE c.trk[j].match
    BY <1>1
  <2> HIDE DEF t
  <2>4. /\ d \in Confs
        /\ d.in = c.in /\ d.out = c.out /\ d.auto = c.auto
        /\ d.learners = c.learners \cup {id} /\ d.next = c.next /\ d.trk = t
    BY <1>t, <2>2, <2>3 DEF Conf, Confs
  <2> QED
    BY <1>0, <1>1, <2>4, <2>5 DEF Keeps
<1>2. CASE id \in DOMAIN c.trk /\ c.trk[id].learner
  <2>1. d = c
    BY <1>2 DEF MakeLearner
  <2> QED
    BY <1>0, <1>2, <2>1 DEF Keeps
<1>3. CASE id \in DOMAIN c.trk /\ ~c.trk[id].learner /\ id \in c.out
  <2>1. d = [[Remove(c, id) EXCEPT !.trk = c.trk] EXCEPT !.next = @ \cup {id}]
    BY <1>3 DEF MakeLearner
  <2>2. PICK r : r = Remove(c, id)
    OBVIOUS
  <2>3. /\ r \in Confs
        /\ r.in = c.in \ {id} /\ r.out = c.out /\ r.auto = c.auto
        /\ r.learners = c.learners \ {id} /\ r.next = c.next \ {id}
    BY <2>2, RemoveFields
  <2>4. d = Conf(c.in \ {id}, c.out, c.learners \ {id}, (c.next \ {id}) \cup {id}, c.auto, c.trk)
    BY <2>1, <2>2, <2>3 DEF Confs, Conf
  <2>5. /\ d \in Confs
        /\ d.in = c.in \ {id} /\ d.out = c.out /\ d.auto = c.auto
        /\ d.learners = c.learners \ {id} /\ d.next = (c.next \ {id}) \cup {id} /\ d.trk = c.trk
    BY <1>t, <2>4 DEF Conf, Confs
  <2> QED
    BY <1>0, <1>3, <2>5 DEF Keeps
<1>4. CASE id \in DOMAIN c.trk /\ ~c.trk[id].learner /\ id \notin c.out
  <2>1. d = [[Remove(c, id) EXCEPT !.trk = c.trk]
               EXCEPT !.learners = @ \cup {id}, !.trk[id].learner = TRUE]
    BY <1>4 DEF MakeLearner
  <2>2. PICK r : r = Remove(c, id)
    OBVIOUS
  <2>3. /\ r \in Confs
        /\ r.in = c.in \ {id} /\ r.out = c.out /\ r.auto = c.auto
        /\ r.learners = c.learners \ {id} /\ r.next = c.next \ {id}
    BY <2>2, RemoveFields
  <2> DEFINE t == [c.trk EXCEPT ![id].learner = TRUE]
  <2>4. t \in [DOMAIN c.trk -> Progress]
    BY <1>0, <1>4, ConfFields DEF Progress
  <2>5. t \in Tracks
    BY <1>0, <2>4, ConfFields, TrackTyping
  <2>6. /\ DOMAIN t = DOMAIN c.trk
        /\ \A j \in DOMAIN t : t[j].learner <=> j = id \/ c.trk[j].learner
        /\ \A j \in DOMAIN t : t[j].match = c.trk[j].match
    BY <1>0, <1>4, ConfFields DEF Progress
  <2>7. d = Conf(c.in \ {id}, c.out, (c.learners \ {id}) \cup {id}, c.next \ {id}, c.auto, t)
    BY <2>1, <2>2, <2>3 DEF Confs, Conf
  <2> HIDE DEF t
  <2>8. /\ d \in Confs
        /\ d.in = c.in \ {id} /\ d.out = c.out /\ d.auto = c.auto
        /\ d.learners = (c.learners \ {id}) \cup {id} /\ d.next = c.next \ {id} /\ d.trk = t
    BY <1>t, <2>5, <2>7 DEF Conf, Confs
  <2> QED
    BY <1>0, <1>4, <2>6, <2>8 DEF Keeps
<1> QED
  BY <1>1, <1>2, <1>3, <1>4

\* A single change keeps the members tracked, and the outgoing voters.
LEMMA ApplyOneTracked ==
  ASSUME NEW c, Tracked(c), NEW o \in Singles, NEW d, d = ApplyOne(c, o)
  PROVE  /\ Tracked(d)
         /\ d.out = c.out /\ d.auto = c.auto
         /\ d.in = AppliedIn(c.in, o)
<1>0. /\ o.op \in {"voter", "learner", "remove", "update"}
      /\ o.id # 0 => o.id \in Ids
  BY DEF Singles
<1>c. /\ DOMAIN c.trk = c.in \cup c.out \cup c.learners \cup c.next
      /\ c.next \subseteq c.out \ c.in
      /\ \A j \in c.learners : j \notin c.in /\ j \notin c.out
      /\ \A j \in DOMAIN c.trk : c.trk[j].learner <=> j \in c.learners
  BY DEF Tracked, Voters
<1>d. ASSUME d \in Confs,
             DOMAIN d.trk = d.in \cup d.out \cup d.learners \cup d.next,
             d.next \subseteq d.out \ d.in,
             \A j \in d.learners : j \notin d.in /\ j \notin d.out,
             \A j \in DOMAIN d.trk : d.trk[j].learner <=> j \in d.learners
      PROVE  Tracked(d)
  BY <1>d DEF Tracked, Voters
<1>1. CASE o.id = 0 \/ o.op = "update"
  <2>1. d = c
    BY <1>1 DEF ApplyOne
  <2> QED
    BY <1>1, <2>1 DEF AppliedIn
<1>2. CASE o.id # 0 /\ o.op = "voter"
  <2>1. d = MakeVoter(c, o.id)
    BY <1>2 DEF ApplyOne
  <2>2. /\ d \in Confs
        /\ d.in = c.in \cup {o.id} /\ d.out = c.out /\ d.auto = c.auto
        /\ d.learners = c.learners \ {o.id} /\ d.next = c.next \ {o.id}
        /\ DOMAIN d.trk = DOMAIN c.trk \cup {o.id}
        /\ \A j \in DOMAIN d.trk : d.trk[j].learner <=> j # o.id /\ c.trk[j].learner
    BY <1>0, <1>2, <2>1, MakeVoterFields
  <2>3. Tracked(d)
    <3>1. DOMAIN d.trk = d.in \cup d.out \cup d.learners \cup d.next
      BY <1>c, <2>2
    <3>2. d.next \subseteq d.out \ d.in /\ \A j \in d.learners : j \notin d.in /\ j \notin d.out
      BY <1>c, <2>2
    <3>3. \A j \in DOMAIN d.trk : d.trk[j].learner <=> j \in d.learners
      BY <1>c, <2>2
    <3> QED
      BY <1>d, <2>2, <3>1, <3>2, <3>3
  <2> QED
    BY <1>2, <2>2, <2>3 DEF AppliedIn
<1>3. CASE o.id # 0 /\ o.op = "learner"
  <2>1. d = MakeLearner(c, o.id)
    BY <1>3 DEF ApplyOne
  <2>2. /\ d \in Confs
        /\ d.in = c.in \ {o.id} /\ d.out = c.out /\ d.auto = c.auto
        /\ d.learners = c.learners \cup ({o.id} \ c.out)
        /\ d.next = c.next \cup ({o.id} \cap c.out)
        /\ DOMAIN d.trk = DOMAIN c.trk \cup {o.id}
        /\ \A j \in DOMAIN d.trk :
             d.trk[j].learner <=> (j = o.id /\ o.id \notin c.out) \/ (j # o.id /\ c.trk[j].learner)
    BY <1>0, <1>3, <2>1, MakeLearnerFields
  <2>3. Tracked(d)
    <3>1. DOMAIN d.trk = d.in \cup d.out \cup d.learners \cup d.next
      BY <1>c, <2>2
    <3>2. d.next \subseteq d.out \ d.in /\ \A j \in d.learners : j \notin d.in /\ j \notin d.out
      BY <1>c, <2>2
    <3>3. \A j \in DOMAIN d.trk : d.trk[j].learner <=> j \in d.learners
      BY <1>c, <2>2
    <3> QED
      BY <1>d, <2>2, <3>1, <3>2, <3>3
  <2> QED
    BY <1>3, <2>2, <2>3 DEF AppliedIn
<1>4. CASE o.id # 0 /\ o.op = "remove"
  <2>1. d = Remove(c, o.id)
    BY <1>4 DEF ApplyOne
  <2>2. /\ d \in Confs
        /\ d.in = c.in \ {o.id} /\ d.out = c.out /\ d.auto = c.auto
        /\ d.learners = c.learners \ {o.id} /\ d.next = c.next \ {o.id}
        /\ DOMAIN d.trk = DOMAIN c.trk \ ({o.id} \ c.out)
        /\ \A j \in DOMAIN d.trk : d.trk[j].learner <=> c.trk[j].learner
    BY <1>0, <1>4, <2>1, RemoveFields
  <2>3. Tracked(d)
    <3>1. DOMAIN d.trk = d.in \cup d.out \cup d.learners \cup d.next
      BY <1>c, <2>2
    <3>2. d.next \subseteq d.out \ d.in /\ \A j \in d.learners : j \notin d.in /\ j \notin d.out
      BY <1>c, <2>2
    <3>3. \A j \in DOMAIN d.trk : d.trk[j].learner <=> j \in d.learners
      BY <1>c, <2>2
    <3> QED
      BY <1>d, <2>2, <3>1, <3>2, <3>3
  <2> QED
    BY <1>4, <2>2, <2>3 DEF AppliedIn
<1> QED
  BY <1>0, <1>1, <1>2, <1>3, <1>4

\* A single change keeps what is matched, or forgets it.
LEMMA ApplyOneKeeps ==
  ASSUME NEW c, Tracked(c), NEW o \in Singles, NEW d, d = ApplyOne(c, o)
  PROVE  Keeps(c, d)
<1>0. /\ o.op \in {"voter", "learner", "remove", "update"}
      /\ o.id # 0 => o.id \in Ids
  BY DEF Singles
<1>1. CASE o.id = 0 \/ o.op = "update"
  BY <1>1 DEF ApplyOne, Keeps
<1>2. CASE o.id # 0 /\ o.op = "voter"
  <2>1. d = MakeVoter(c, o.id)
    BY <1>2 DEF ApplyOne
  <2> QED
    BY <1>0, <1>2, <2>1, MakeVoterFields
<1>3. CASE o.id # 0 /\ o.op = "learner"
  <2>1. d = MakeLearner(c, o.id)
    BY <1>3 DEF ApplyOne
  <2> QED
    BY <1>0, <1>3, <2>1, MakeLearnerFields
<1>4. CASE o.id # 0 /\ o.op = "remove"
  <2>1. d = Remove(c, o.id)
    BY <1>4 DEF ApplyOne
  <2> QED
    BY <1>0, <1>4, <2>1, RemoveFields
<1> QED
  BY <1>0, <1>1, <1>2, <1>3, <1>4

\* What a single change does to the learners and to the staged ones.
LEMMA ApplyOneLearners ==
  ASSUME NEW c, Tracked(c), NEW o \in Singles, o.id # 0, NEW d, d = ApplyOne(c, o)
  PROVE  /\ o.op \in {"voter", "remove"} => /\ d.learners = c.learners \ {o.id}
                                            /\ d.next = c.next \ {o.id}
         /\ o.op = "learner" => /\ d.learners = c.learners \cup ({o.id} \ c.out)
                                /\ d.next = c.next \cup ({o.id} \cap c.out)
<1>0. o.id \in Ids
  BY DEF Singles
<1>1. CASE o.op = "voter"
  <2>1. d = MakeVoter(c, o.id)
    BY <1>1 DEF ApplyOne
  <2> QED
    BY <1>0, <1>1, <2>1, MakeVoterFields
<1>2. CASE o.op = "remove"
  <2>1. d = Remove(c, o.id)
    BY <1>2 DEF ApplyOne
  <2> QED
    BY <1>0, <1>2, <2>1, RemoveFields
<1>3. CASE o.op = "learner"
  <2>1. d = MakeLearner(c, o.id)
    BY <1>3 DEF ApplyOne
  <2> QED
    BY <1>0, <1>3, <2>1, MakeLearnerFields
<1> QED
  BY <1>1, <1>2, <1>3

\* Whatever is matched, a single change does the same.
LEMMA ApplyOneAlike ==
  ASSUME NEW c, Tracked(c), NEW d, Tracked(d), Alike(c, d), NEW o \in Singles
  PROVE  Alike(ApplyOne(c, o), ApplyOne(d, o))
<1>0. /\ o.op \in {"voter", "learner", "remove", "update"}
  BY DEF Singles
<1>a. PICK x, y : x = ApplyOne(c, o) /\ y = ApplyOne(d, o)
  OBVIOUS
<1>1. x.in = y.in /\ x.out = y.out
  BY <1>a, ApplyOneTracked DEF Alike
<1>2. CASE o.id = 0 \/ o.op = "update"
  BY <1>2, <1>a DEF ApplyOne, Alike
<1>3. CASE o.id # 0 /\ o.op # "update"
  <2>0. c.learners = d.learners /\ c.next = d.next /\ c.out = d.out
    BY DEF Alike
  <2>1. x.learners = y.learners /\ x.next = y.next
    <3>0. Tracked(c) /\ Tracked(d) /\ o.id # 0
      BY <1>3
    <3>1. /\ o.op \in {"voter", "remove"} => x.learners = c.learners \ {o.id} /\ x.next = c.next \ {o.id}
          /\ o.op = "learner" => /\ x.learners = c.learners \cup ({o.id} \ c.out)
                                 /\ x.next = c.next \cup ({o.id} \cap c.out)
      BY <1>a, <3>0, ApplyOneLearners
    <3>2. /\ o.op \in {"voter", "remove"} => y.learners = d.learners \ {o.id} /\ y.next = d.next \ {o.id}
          /\ o.op = "learner" => /\ y.learners = d.learners \cup ({o.id} \ d.out)
                                 /\ y.next = d.next \cup ({o.id} \cap d.out)
      BY <1>a, <3>0, ApplyOneLearners
    <3> QED
      BY <1>0, <1>3, <2>0, <3>1, <3>2
  <2> QED
    BY <1>a, <1>1, <2>1 DEF Alike
<1> QED
  BY <1>2, <1>3

\* The configurations a list of single changes goes through.
IsRun(f, c, ops) ==
  /\ f[0] = c
  /\ \A k \in 1 .. Len(ops) : f[k] = ApplyOne(f[k - 1], ops[k])
  /\ \A k \in 0 .. Len(ops) :
       Tracked(f[k]) /\ f[k].out = c.out /\ f[k].auto = c.auto /\ Keeps(c, f[k])

\* A list of single changes ends where its run does, or is refused there.
LEMMA ApplyAllRun ==
  ASSUME NEW c, Tracked(c), NEW ops \in Seq(Singles)
  PROVE  \E f : /\ IsRun(f, c, ops)
                /\ ApplyAll(c, ops) = IF f[Len(ops)].in = {} THEN Refused ELSE f[Len(ops)]
<1> DEFINE S == {x \in Confs : Tracked(x)}
           G == [x \in S \X Singles |-> ApplyOne(x[1], x[2])]
           F(f) == f = [k \in 0 .. Len(ops) |-> IF k = 0 THEN c ELSE ApplyOne(f[k - 1], ops[k])]
           h == CHOOSE f : F(f)
<1>0. Len(ops) \in Nat /\ \A k \in 1 .. Len(ops) : ops[k] \in Singles
  OBVIOUS
<1>s. \A x : x \in S <=> Tracked(x)
  BY DEF Tracked
<1>1. G \in [S \X Singles -> S]
  <2> SUFFICES ASSUME NEW x \in S, NEW o \in Singles PROVE ApplyOne(x, o) \in S
    OBVIOUS
  <2>1. Tracked(ApplyOne(x, o))
    BY <1>s, ApplyOneTracked
  <2> QED
    BY <1>s, <2>1
<1>2. PICK g : Iterates(g, S, G, c, ops)
  <2>1. c \in S
    BY <1>s
  <2> HIDE DEF S, G
  <2> QED
    BY <1>1, <2>1, Iteration, Zenon
<1>3. \A k \in 1 .. Len(ops) : g[k] = ApplyOne(g[k - 1], ops[k])
  BY <1>0, <1>2 DEF Iterates
<1>4. F(g)
  BY <1>0, <1>2, <1>3 DEF Iterates
<1> HIDE DEF F
<1>5. F(h)
  BY <1>4
<1> HIDE DEF h
<1>6. ApplyAll(c, ops) = IF h[Len(ops)].in = {} THEN Refused ELSE h[Len(ops)]
  BY DEF ApplyAll, h, F
<1>7. h[0] = c /\ \A k \in 1 .. Len(ops) : h[k] = ApplyOne(h[k - 1], ops[k])
  BY <1>0, <1>5 DEF F
<1>8. \A k \in 0 .. Len(ops) :
        Tracked(h[k]) /\ h[k].out = c.out /\ h[k].auto = c.auto /\ Keeps(c, h[k])
  <2> DEFINE T == {k \in 0 .. Len(ops) :
                     Tracked(h[k]) /\ h[k].out = c.out /\ h[k].auto = c.auto /\ Keeps(c, h[k])}
  <2>1. 0 \in T
    BY <1>0, <1>7 DEF Keeps
  <2>2. ASSUME NEW k \in 1 .. Len(ops), k - 1 \in T PROVE k \in T
    <3>1. Tracked(h[k - 1]) /\ h[k - 1].out = c.out /\ h[k - 1].auto = c.auto /\ Keeps(c, h[k - 1])
      BY <2>2
    <3>2. Tracked(h[k]) /\ h[k].out = c.out /\ h[k].auto = c.auto
      BY <1>0, <1>7, <3>1, ApplyOneTracked
    <3>3. Keeps(h[k - 1], h[k])
      BY <1>0, <1>7, <3>1, ApplyOneKeeps
    <3>4. Keeps(c, h[k])
      BY <3>1, <3>3 DEF Keeps
    <3> QED
      BY <1>0, <3>2, <3>4
  <2> HIDE DEF T
  <2>3. \A k \in 0 .. Len(ops) : k \in T
    BY <1>0, <2>1, <2>2, UpTo, Zenon
  <2> QED
    BY <2>3 DEF T
<1> QED
  BY <1>6, <1>7, <1>8 DEF IsRun

\* What is left after a list of single changes, when it has voters.
LEMMA ApplyAllTracked ==
  ASSUME NEW c, Tracked(c), NEW ops \in Seq(Singles), NEW d, d = ApplyAll(c, ops), d # Refused
  PROVE  Tracked(d) /\ d.in # {} /\ d.out = c.out /\ d.auto = c.auto /\ Keeps(c, d)
<1>1. PICK f : /\ IsRun(f, c, ops)
               /\ d = IF f[Len(ops)].in = {} THEN Refused ELSE f[Len(ops)]
  BY ApplyAllRun
<1>2. Len(ops) \in 0 .. Len(ops)
  OBVIOUS
<1> QED
  BY <1>1, <1>2 DEF IsRun

\* A list of single changes does the same to the incoming voters whatever the
\* rest of the configuration is.
LEMMA ApplyAllIn ==
  ASSUME NEW c, Tracked(c), NEW d, Tracked(d), c.in = d.in, NEW ops \in Seq(Singles)
  PROVE  /\ ApplyAll(c, ops) = Refused <=> ApplyAll(d, ops) = Refused
         /\ ApplyAll(c, ops).in = ApplyAll(d, ops).in
<1>0. Len(ops) \in Nat /\ \A k \in 1 .. Len(ops) : ops[k] \in Singles
  OBVIOUS
<1>1. PICK f : /\ IsRun(f, c, ops)
               /\ ApplyAll(c, ops) = IF f[Len(ops)].in = {} THEN Refused ELSE f[Len(ops)]
  BY ApplyAllRun
<1>2. PICK g : /\ IsRun(g, d, ops)
               /\ ApplyAll(d, ops) = IF g[Len(ops)].in = {} THEN Refused ELSE g[Len(ops)]
  BY ApplyAllRun
<1>3. \A k \in 0 .. Len(ops) : f[k].in = g[k].in
  <2> DEFINE T == {k \in 0 .. Len(ops) : f[k].in = g[k].in}
  <2>1. 0 \in T
    BY <1>0, <1>1, <1>2 DEF IsRun
  <2>2. ASSUME NEW k \in 1 .. Len(ops), k - 1 \in T PROVE k \in T
    <3>1. k - 1 \in 0 .. Len(ops) /\ k \in 0 .. Len(ops) /\ ops[k] \in Singles
      BY <1>0
    <3>2. Tracked(f[k - 1]) /\ Tracked(g[k - 1]) /\ f[k - 1].in = g[k - 1].in
      BY <1>1, <1>2, <2>2, <3>1 DEF IsRun
    <3>3. f[k] = ApplyOne(f[k - 1], ops[k]) /\ g[k] = ApplyOne(g[k - 1], ops[k])
      BY <1>1, <1>2 DEF IsRun
    <3>4. f[k].in = AppliedIn(f[k - 1].in, ops[k]) /\ g[k].in = AppliedIn(g[k - 1].in, ops[k])
      BY <3>1, <3>2, <3>3, ApplyOneTracked
    <3> QED
      BY <3>1, <3>2, <3>4
  <2> HIDE DEF T
  <2>3. \A k \in 0 .. Len(ops) : k \in T
    BY <1>0, <2>1, <2>2, UpTo, Zenon
  <2> QED
    BY <2>3 DEF T
<1>4. f[Len(ops)].in = g[Len(ops)].in
  BY <1>0, <1>3
<1>5. Refused.in = {}
  BY DEF Refused, Empty
<1> QED
  BY <1>1, <1>2, <1>4, <1>5

\* A list of single changes does the same whatever is matched.
LEMMA ApplyAllAlike ==
  ASSUME NEW c, Tracked(c), NEW d, Tracked(d), Alike(c, d), NEW ops \in Seq(Singles)
  PROVE  Alike(ApplyAll(c, ops), ApplyAll(d, ops))
<1>0. Len(ops) \in Nat /\ \A k \in 1 .. Len(ops) : ops[k] \in Singles
  OBVIOUS
<1>1. PICK f : /\ IsRun(f, c, ops)
               /\ ApplyAll(c, ops) = IF f[Len(ops)].in = {} THEN Refused ELSE f[Len(ops)]
  BY ApplyAllRun
<1>2. PICK g : /\ IsRun(g, d, ops)
               /\ ApplyAll(d, ops) = IF g[Len(ops)].in = {} THEN Refused ELSE g[Len(ops)]
  BY ApplyAllRun
<1>3. \A k \in 0 .. Len(ops) : Alike(f[k], g[k])
  <2> DEFINE T == {k \in 0 .. Len(ops) : Alike(f[k], g[k])}
  <2>1. 0 \in T
    BY <1>0, <1>1, <1>2 DEF IsRun
  <2>2. ASSUME NEW k \in 1 .. Len(ops), k - 1 \in T PROVE k \in T
    <3>1. k - 1 \in 0 .. Len(ops) /\ k \in 0 .. Len(ops) /\ ops[k] \in Singles
      BY <1>0
    <3>2. Tracked(f[k - 1]) /\ Tracked(g[k - 1]) /\ Alike(f[k - 1], g[k - 1])
      BY <1>1, <1>2, <2>2, <3>1 DEF IsRun
    <3>3. f[k] = ApplyOne(f[k - 1], ops[k]) /\ g[k] = ApplyOne(g[k - 1], ops[k])
      BY <1>1, <1>2 DEF IsRun
    <3>4. Alike(f[k], g[k])
      BY <3>1, <3>2, <3>3, ApplyOneAlike
    <3> QED
      BY <3>1, <3>4
  <2> HIDE DEF T
  <2>3. \A k \in 0 .. Len(ops) : k \in T
    BY <1>0, <2>1, <2>2, UpTo, Zenon
  <2> QED
    BY <2>3 DEF T
<1>4. Alike(f[Len(ops)], g[Len(ops)])
  BY <1>0, <1>3
<1> QED
  BY <1>1, <1>2, <1>4 DEF Alike

\* A single change moves one voter at most.
LEMMA ApplyAllOne ==
  ASSUME NEW c, Tracked(c), NEW o \in Singles
  PROVE  ApplyAll(c, <<o>>) = IF AppliedIn(c.in, o) = {} THEN Refused ELSE ApplyOne(c, o)
<1>1. PICK ops : ops = <<o>>
  OBVIOUS
<1>2. ops \in Seq(Singles) /\ Len(ops) = 1 /\ ops[1] = o
  BY <1>1
<1>3. PICK f : /\ IsRun(f, c, ops)
               /\ ApplyAll(c, ops) = IF f[Len(ops)].in = {} THEN Refused ELSE f[Len(ops)]
  BY <1>2, ApplyAllRun
<1>4. f[1] = ApplyOne(c, o)
  BY <1>2, <1>3 DEF IsRun
<1>5. f[1].in = AppliedIn(c.in, o)
  BY <1>4, ApplyOneTracked
<1> QED
  BY <1>1, <1>2, <1>3, <1>4, <1>5

-----------------------------------------------------------------------------
(* The three kinds of change. *)

\* The checks of the Changer on a configuration whose members are tracked come
\* down to AutoLeave.
LEMMA WellFormedTracked ==
  ASSUME NEW c, Tracked(c)
  PROVE  WellFormed(c) <=> Joint(c) \/ ~c.auto
<1>1. /\ DOMAIN c.trk = c.in \cup c.out \cup c.learners \cup c.next
      /\ c.next \subseteq c.out \ c.in
      /\ \A j \in c.learners : j \notin c.in /\ j \notin c.out
      /\ \A j \in DOMAIN c.trk : c.trk[j].learner <=> j \in c.learners
  BY DEF Tracked, Voters
<1> QED
  BY <1>1 DEF WellFormed, Voters, Joint

\* The same configuration with another flag.
LEMMA AutoTracked ==
  ASSUME NEW c, Tracked(c), NEW a \in BOOLEAN, NEW d, d = [c EXCEPT !.auto = a]
  PROVE  /\ Tracked(d)
         /\ d.in = c.in /\ d.out = c.out /\ d.learners = c.learners /\ d.next = c.next
         /\ d.trk = c.trk /\ d.auto = a
<1>0. c \in Confs
  BY DEF Tracked
<1>1. d = Conf(c.in, c.out, c.learners, c.next, a, c.trk)
  BY <1>0 DEF Conf, Confs
<1>2. /\ d \in Confs
      /\ d.in = c.in /\ d.out = c.out /\ d.learners = c.learners /\ d.next = c.next
      /\ d.trk = c.trk /\ d.auto = a
  BY <1>0, <1>1, ConfFields DEF Conf, Confs
<1> QED
  BY <1>2 DEF Tracked, Voters

\* The Changer works on the configuration without its AutoLeave.
LEMMA CopyTracked ==
  ASSUME NEW c, Tracked(c), NEW d, d = CheckAndCopy(c)
  PROVE  /\ Tracked(d)
         /\ d.in = c.in /\ d.out = c.out /\ d.learners = c.learners /\ d.next = c.next
         /\ d.trk = c.trk /\ d.auto = FALSE
<1>1. PICK e : e = [c EXCEPT !.auto = FALSE]
  OBVIOUS
<1>2. /\ Tracked(e)
      /\ e.in = c.in /\ e.out = c.out /\ e.learners = c.learners /\ e.next = c.next
      /\ e.trk = c.trk /\ e.auto = FALSE
  BY <1>1, AutoTracked
<1>3. WellFormed(e)
  BY <1>2, WellFormedTracked
<1>4. d = e
  BY <1>1, <1>3 DEF CheckAndCopy, CheckAndReturn
<1> QED
  BY <1>2, <1>4

\* Entering a joint configuration: the voters so far become the outgoing ones.
\* It is refused only when joint already, or when the changes leave no voter.
LEMMA EnterResult ==
  ASSUME NEW c, Tracked(c), c.in # {}, NEW a \in BOOLEAN, NEW ops \in Seq(Singles),
         NEW d, d = EnterJoint(c, a, ops)
  PROVE  /\ d # Refused => /\ Tracked(d) /\ d.in # {} /\ d.out = c.in /\ c.out = {}
                           /\ Keeps(c, d) /\ d.auto = a
         /\ ~Joint(c) /\ ApplyAll(c, ops) # Refused <=> d # Refused
         /\ ~Joint(c) => \E j : /\ Tracked(j) /\ j.in = c.in /\ j.out = c.in
                                /\ j.learners = c.learners /\ j.next = c.next
                                /\ j.trk = c.trk
                                /\ ApplyAll(j, ops) # Refused =>
                                     d = [ApplyAll(j, ops) EXCEPT !.auto = a]
<1>1. PICK b : b = CheckAndCopy(c)
  OBVIOUS
<1>2. /\ Tracked(b) /\ b \in Confs
      /\ b.in = c.in /\ b.out = c.out /\ b.learners = c.learners /\ b.next = c.next
      /\ b.trk = c.trk /\ b.auto = FALSE
  BY <1>1, CopyTracked DEF Tracked
<1>3. PICK j : j = [b EXCEPT !.out = b.in]
  OBVIOUS
<1>4. PICK e : e = ApplyAll(j, ops)
  OBVIOUS
<1>5. PICK r : r = [e EXCEPT !.auto = a]
  OBVIOUS
<1>6. d = IF b.in = {} \/ Joint(b) \/ e = Refused THEN Refused ELSE CheckAndReturn(r)
  BY <1>1, <1>3, <1>4, <1>5 DEF EnterJoint
<1>7. Joint(b) <=> Joint(c)
  BY <1>2 DEF Joint
<1>8. ASSUME ~Joint(c)
      PROVE  /\ Tracked(j) /\ j.in = c.in /\ j.out = c.in
             /\ j.learners = c.learners /\ j.next = c.next /\ j.trk = c.trk
  <2>1. j = Conf(b.in, b.in, b.learners, b.next, b.auto, b.trk)
    BY <1>2, <1>3 DEF Conf, Confs
  <2>2. /\ j \in Confs
        /\ j.in = b.in /\ j.out = b.in /\ j.learners = b.learners /\ j.next = b.next
        /\ j.trk = b.trk
    BY <1>2, <2>1, ConfFields DEF Conf, Confs
  <2>3. b.out = {}
    BY <1>2, <1>8 DEF Joint
  <2> QED
    BY <1>2, <2>2, <2>3 DEF Tracked, Voters
<1>9. ASSUME ~Joint(c), e # Refused
      PROVE  /\ d = r /\ Tracked(d) /\ d.in # {} /\ d.out = c.in
             /\ d # Refused /\ Keeps(c, d) /\ d.auto = a
  <2>1. Tracked(e) /\ e.in # {} /\ e.out = c.in /\ Keeps(j, e)
    BY <1>4, <1>8, <1>9, ApplyAllTracked
  <2>2. Tracked(r) /\ r.in = e.in /\ r.out = e.out /\ r.trk = e.trk /\ r.auto = a
    BY <1>5, <2>1, AutoTracked
  <2>k. Keeps(c, r)
    BY <1>8, <1>9, <2>1, <2>2 DEF Keeps
  <2>3. WellFormed(r)
    BY <2>1, <2>2, WellFormedTracked DEF Joint
  <2>4. d = r
    BY <1>2, <1>6, <1>7, <1>9, <2>3 DEF CheckAndReturn
  <2> QED
    BY <2>1, <2>2, <2>4, <2>k DEF Refused, Empty
<1>10. ASSUME d # Refused PROVE ~Joint(c) /\ e # Refused
  BY <1>6, <1>7, <1>10
<1>11. ASSUME ~Joint(c) PROVE e = Refused <=> ApplyAll(c, ops) = Refused
  BY <1>4, <1>8, <1>11, ApplyAllIn
<1>12. ASSUME ~Joint(c)
       PROVE  \E x : /\ Tracked(x) /\ x.in = c.in /\ x.out = c.in
                     /\ x.learners = c.learners /\ x.next = c.next /\ x.trk = c.trk
                     /\ ApplyAll(x, ops) # Refused => d = [ApplyAll(x, ops) EXCEPT !.auto = a]
  BY <1>4, <1>5, <1>8, <1>9, <1>12
<1> QED
  BY <1>9, <1>10, <1>11, <1>12 DEF Joint

\* Leaving a joint configuration: the incoming voters stay, and only they.
LEMMA LeaveResult ==
  ASSUME NEW c, Tracked(c), c.in # {}, NEW d, d = LeaveJoint(c)
  PROVE  /\ ~Joint(c) => d = Refused
         /\ Joint(c) => /\ d # Refused /\ Tracked(d) /\ d.in = c.in /\ d.out = {} /\ ~d.auto
                        /\ d.learners = c.learners \cup c.next /\ d.next = {}
                        /\ Keeps(c, d)
<1>1. PICK b : b = CheckAndCopy(c)
  OBVIOUS
<1>2. /\ Tracked(b) /\ b \in Confs
      /\ b.in = c.in /\ b.out = c.out /\ b.learners = c.learners /\ b.next = c.next
      /\ b.trk = c.trk /\ b.auto = FALSE
  BY <1>1, CopyTracked DEF Tracked
<1>b. /\ DOMAIN b.trk = b.in \cup b.out \cup b.learners \cup b.next
      /\ b.next \subseteq b.out \ b.in
      /\ \A j \in b.learners : j \notin b.in /\ j \notin b.out
      /\ \A j \in DOMAIN b.trk : b.trk[j].learner <=> j \in b.learners
      /\ \A j \in DOMAIN b.trk : b.trk[j] \in Progress
      /\ b.in \in SUBSET Ids /\ b.learners \in SUBSET Ids /\ b.next \in SUBSET Ids
      /\ DOMAIN b.trk \in SUBSET Ids
  BY <1>2, ConfFields DEF Tracked, Voters
<1> DEFINE t == [j \in DOMAIN b.trk |-> [b.trk[j] EXCEPT !.learner = @ \/ j \in b.next]]
           E(x) == [x EXCEPT !.learners = @ \cup x.next,
                             !.trk = [j \in DOMAIN x.trk |->
                                       [x.trk[j] EXCEPT !.learner = @ \/ j \in x.next]],
                             !.next = {}]
           R(x) == [Untrack(E(x), x.out \ (E(x).in \cup E(x).learners)) EXCEPT !.out = {}]
<1>3. PICK e : e = E(b)
  OBVIOUS
<1>4. PICK r : r = R(b)
  OBVIOUS
<1>5. d = IF ~Joint(b) THEN Refused ELSE CheckAndReturn(r)
  <2>1. LeaveJoint(c) = IF ~Joint(CheckAndCopy(c)) THEN Refused
                                                   ELSE CheckAndReturn(R(CheckAndCopy(c)))
    BY DEF LeaveJoint
  <2> HIDE DEF R
  <2> QED
    BY <1>1, <1>4, <2>1
<1>e. e = [b EXCEPT !.learners = @ \cup b.next, !.trk = t, !.next = {}]
  BY <1>3
<1>r. r = [Untrack(e, b.out \ (e.in \cup e.learners)) EXCEPT !.out = {}]
  <2> HIDE DEF E
  <2> QED
    BY <1>3, <1>4
<1> HIDE DEF E, R
<1>6. Joint(b) <=> Joint(c)
  BY <1>2 DEF Joint
<1>7. /\ DOMAIN t = DOMAIN b.trk
      /\ \A j \in DOMAIN t : t[j] \in Progress
      /\ \A j \in DOMAIN t : t[j].learner <=> j \in b.learners \/ j \in b.next
      /\ \A j \in DOMAIN t : t[j].match = b.trk[j].match
  BY <1>b DEF Progress
<1> HIDE DEF t
<1>8. e = Conf(b.in, b.out, b.learners \cup b.next, {}, b.auto, t)
  BY <1>2, <1>e DEF Conf, Confs
<1> DEFINE D == DOMAIN t \ (b.out \ (b.in \cup (b.learners \cup b.next)))
           u == [j \in D |-> t[j]]
<1>9. r = Conf(b.in, {}, b.learners \cup b.next, {}, b.auto, u)
  BY <1>r, <1>8 DEF Conf, Untrack
<1>10. u \in [D -> Progress] /\ D \in SUBSET Ids
  BY <1>b, <1>7
<1>11. u \in Tracks
  <2> HIDE DEF u, D
  <2> QED
    BY <1>10, TrackTyping
<1>12. /\ DOMAIN u = D /\ \A j \in D : u[j].learner <=> j \in b.learners \/ j \in b.next
       /\ \A j \in D : j \in DOMAIN b.trk /\ u[j].match = b.trk[j].match
  BY <1>7
<1>13. D = b.in \cup b.learners \cup b.next
  BY <1>b, <1>7
<1> HIDE DEF u, D
<1>14. /\ r \in Confs
       /\ r.in = b.in /\ r.out = {} /\ r.learners = b.learners \cup b.next /\ r.next = {}
       /\ r.trk = u /\ r.auto = FALSE
  BY <1>2, <1>b, <1>9, <1>11 DEF Conf, Confs
<1>15. Tracked(r)
  BY <1>b, <1>12, <1>13, <1>14 DEF Tracked, Voters
<1>16. WellFormed(r)
  BY <1>14, <1>15, WellFormedTracked
<1>k. Keeps(c, r)
  BY <1>2, <1>12, <1>14 DEF Keeps
<1>17. r # Refused
  BY <1>2, <1>14 DEF Refused, Empty
<1> QED
  BY <1>2, <1>5, <1>6, <1>14, <1>15, <1>16, <1>17, <1>k DEF CheckAndReturn

\* The voters in one set and not in the other.
Moved(A, B) == (A \ B) \cup (B \ A)

\* The voters that a change moves are finitely many.
LEMMA MovedFinite ==
  ASSUME NEW A \in SUBSET Ids, NEW B \in SUBSET Ids
  PROVE  /\ IsFiniteSet(A) /\ IsFiniteSet(B)
         /\ IsFiniteSet(Moved(A, B)) /\ Cardinality(Moved(A, B)) \in Nat
<1>1. IsFiniteSet(Ids) /\ Moved(A, B) \in SUBSET Ids
  BY IdsAssumption DEF Moved
<1>2. IsFiniteSet(A) /\ IsFiniteSet(B) /\ IsFiniteSet(Moved(A, B))
  BY <1>1, FS_Subset
<1> QED
  BY <1>2, FS_CardinalityType

\* A simple change: no configuration is joint, and one voter moves at most.
LEMMA SimpleResult ==
  ASSUME NEW c, Tracked(c), NEW ops \in Seq(Singles), NEW d, d = Simple(c, ops)
  PROVE  /\ d # Refused => /\ Tracked(d) /\ d.in # {} /\ d.out = {} /\ c.out = {} /\ ~d.auto
                           /\ Cardinality(Moved(c.in, d.in)) <= 1
                           /\ Alike(d, ApplyAll(c, ops)) /\ Keeps(c, d)
         /\ /\ ~Joint(c) /\ ApplyAll(c, ops) # Refused
            /\ Cardinality(Moved(c.in, ApplyAll(c, ops).in)) <= 1
            <=> d # Refused
<1>1. PICK b : b = CheckAndCopy(c)
  OBVIOUS
<1>2. /\ Tracked(b) /\ b.in = c.in /\ b.out = c.out /\ b.auto = FALSE
      /\ b.trk = c.trk /\ Alike(b, c)
  BY <1>1, CopyTracked DEF Alike
<1>3. PICK e : e = ApplyAll(b, ops)
  OBVIOUS
<1>4. d = IF Joint(b) \/ Cardinality(Moved(c.in, e.in)) > 1 THEN Refused ELSE CheckAndReturn(e)
  BY <1>1, <1>3 DEF Simple, Moved
<1>5. /\ e = Refused <=> ApplyAll(c, ops) = Refused
      /\ Alike(e, ApplyAll(c, ops))
  BY <1>2, <1>3, ApplyAllIn, ApplyAllAlike
<1>6. ASSUME e # Refused
      PROVE  /\ Tracked(e) /\ e.in # {} /\ e.out = c.out /\ e.auto = FALSE
             /\ Cardinality(Moved(c.in, e.in)) \in Nat /\ Keeps(c, e)
  <2>1. Tracked(e) /\ e.in # {} /\ e.out = c.out /\ e.auto = FALSE /\ Keeps(b, e)
    BY <1>2, <1>3, <1>6, ApplyAllTracked
  <2>2. c.in \in SUBSET Ids /\ e.in \in SUBSET Ids
    BY <2>1, ConfFields DEF Tracked
  <2> QED
    BY <1>2, <2>1, <2>2, MovedFinite DEF Keeps
<1>7. Joint(b) <=> Joint(c)
  BY <1>2 DEF Joint
<1>8. ASSUME e = Refused PROVE d = Refused
  BY <1>4, <1>8 DEF CheckAndReturn
<1>9. ASSUME e # Refused, ~Joint(c), Cardinality(Moved(c.in, e.in)) <= 1 PROVE d = e
  <2>1. WellFormed(e)
    BY <1>6, <1>9, WellFormedTracked
  <2> QED
    BY <1>4, <1>6, <1>7, <1>9, <2>1 DEF CheckAndReturn
<1>10. ASSUME d # Refused
       PROVE  e # Refused /\ ~Joint(c) /\ Cardinality(Moved(c.in, e.in)) <= 1
  <2>1. e # Refused
    BY <1>8, <1>10
  <2> QED
    BY <1>4, <1>6, <1>7, <1>10, <2>1
<1>11. ASSUME d # Refused
       PROVE  /\ Tracked(d) /\ d.in # {} /\ d.out = {} /\ c.out = {} /\ ~d.auto
              /\ Cardinality(Moved(c.in, d.in)) <= 1
              /\ Alike(d, ApplyAll(c, ops)) /\ Keeps(c, d)
  BY <1>5, <1>6, <1>9, <1>10, <1>11 DEF Joint
<1>12. ASSUME ~Joint(c), ApplyAll(c, ops) # Refused,
              Cardinality(Moved(c.in, ApplyAll(c, ops).in)) <= 1
       PROVE  d # Refused
  BY <1>5, <1>9, <1>12 DEF Alike
<1>13. ASSUME d # Refused
       PROVE  /\ ~Joint(c) /\ ApplyAll(c, ops) # Refused
              /\ Cardinality(Moved(c.in, ApplyAll(c, ops).in)) <= 1
  BY <1>5, <1>10, <1>13 DEF Alike
<1> QED
  BY <1>11, <1>12, <1>13

\* One single change moves one voter at most.
LEMMA OneMoves ==
  ASSUME NEW A \in SUBSET Ids, NEW o \in Singles
  PROVE  Cardinality(Moved(A, AppliedIn(A, o))) <= 1
<1>1. Moved(A, AppliedIn(A, o)) \in SUBSET {o.id}
  BY DEF Moved, AppliedIn
<1>2. IsFiniteSet({o.id}) /\ Cardinality({o.id}) = 1
  BY FS_Singleton
<1> QED
  BY <1>1, <1>2, FS_Subset

\* A simple change of one single change is refused for want of voters only.
LEMMA SimpleOne ==
  ASSUME NEW c, Tracked(c), ~Joint(c), NEW o \in Singles, AppliedIn(c.in, o) # {}
  PROVE  Simple(c, <<o>>) # Refused /\ Simple(c, <<o>>).in = AppliedIn(c.in, o)
<1>1. PICK ops : ops = <<o>>
  OBVIOUS
<1>2. ops \in Seq(Singles)
  BY <1>1
<1>3. PICK d : d = Simple(c, ops)
  OBVIOUS
<1>4. ApplyAll(c, ops) = ApplyOne(c, o)
  BY <1>1, ApplyAllOne
<1>5. ApplyAll(c, ops).in = AppliedIn(c.in, o)
  BY <1>4, ApplyOneTracked
<1>6. ApplyAll(c, ops) # Refused
  BY <1>5 DEF Refused, Empty
<1>7. c.in \in SUBSET Ids
  BY ConfFields DEF Tracked
<1>8. d # Refused
  BY <1>2, <1>3, <1>5, <1>6, <1>7, OneMoves, SimpleResult
<1> QED
  BY <1>1, <1>2, <1>3, <1>5, <1>8, SimpleResult DEF Alike

-----------------------------------------------------------------------------
(* The walk. *)

\* The nodes of the single changes of one kind among the first k of a list.
Names(op, s, k) == {s[j].id : j \in {x \in 1 .. k : s[x].op = op}}

\* A finite set is listed by its slice.
LEMMA SliceLists ==
  ASSUME NEW S, IsFiniteSet(S)
  PROVE  /\ Slice(S) \in [1 .. Cardinality(S) -> S]
         /\ \A x \in S : \E k \in 1 .. Cardinality(S) : Slice(S)[k] = x
<1>1. PICK n \in Nat : n = Cardinality(S)
  BY FS_CardinalityType
<1>2. PICK g : g \in Bijection(1 .. n, S)
  BY <1>1, FS_CardinalityType DEF ExistsBijection
<1>3. g \in [1 .. n -> S] /\ \A i, j \in DOMAIN g : g[i] = g[j] => i = j
  BY <1>2 DEF Bijection, Injection, IsInjective
<1>4. PICK f : f = Slice(S)
  OBVIOUS
<1>5. f \in [1 .. n -> S] /\ \A i, j \in DOMAIN f : f[i] = f[j] => i = j
  BY <1>1, <1>3, <1>4 DEF Slice
<1>6. f \in Injection(1 .. n, S)
  BY <1>5 DEF Injection, IsInjective
<1>7. Cardinality(1 .. n) = Cardinality(S)
  BY <1>1, FS_Interval
<1>8. f \in Surjection(1 .. n, S)
  BY <1>6, <1>7, FS_Injection
<1> QED
  BY <1>1, <1>4, <1>5, <1>8 DEF Surjection

\* The list of a single change for every member of a set.
LEMMA EachLists ==
  ASSUME NEW op \in {"voter", "learner", "remove"}, NEW S, S \in SUBSET Ids, NEW s, s = Each(op, S)
  PROVE  /\ s \in Seq(Singles)
         /\ \A k \in 1 .. Len(s) : s[k].op = op
         /\ \A o \in {"voter", "learner", "remove"} : Names(o, s, Len(s)) = IF o = op THEN S ELSE {}
         /\ Len(s) = Cardinality(S)
<1>0. IsFiniteSet(S) /\ Cardinality(S) \in Nat
  <2>1. IsFiniteSet(S)
    BY IdsAssumption, FS_Subset
  <2> QED
    BY <2>1, FS_CardinalityType
<1>1. PICK n, f : n = Cardinality(S) /\ f = Slice(S)
  OBVIOUS
<1>2. f \in [1 .. n -> S] /\ \A x \in S : \E k \in 1 .. n : f[k] = x
  BY <1>0, <1>1, SliceLists
<1>3. s = [k \in 1 .. n |-> Op(op, f[k])]
  BY <1>1, <1>2 DEF Each
<1>4. ASSUME NEW k \in 1 .. n
      PROVE  s[k].op = op /\ s[k].id = f[k] /\ s[k] \in Singles
  <2>1. s[k] = [op |-> op, id |-> f[k]] /\ f[k] \in Ids
    BY <1>2, <1>3 DEF Op
  <2> QED
    BY <2>1 DEF Singles
<1>5. s \in [1 .. n -> Singles]
  BY <1>3, <1>4
<1>6. s \in Seq(Singles) /\ Len(s) = n
  BY <1>0, <1>1, <1>5
<1>7. ASSUME NEW o \in {"voter", "learner", "remove"}
      PROVE  Names(o, s, Len(s)) = IF o = op THEN S ELSE {}
  <2>1. \A k \in 1 .. n : s[k].op = op /\ s[k].id = f[k]
    BY <1>4
  <2>2. CASE o = op
    <3>1. Names(o, s, Len(s)) = {s[k].id : k \in 1 .. n}
      BY <1>6, <2>1, <2>2 DEF Names
    <3>2. {s[k].id : k \in 1 .. n} = S
      BY <1>2, <2>1
    <3> QED
      BY <2>2, <3>1, <3>2
  <2>3. CASE o # op
    BY <1>6, <2>1, <2>3 DEF Names
  <2> QED
    BY <2>2, <2>3
<1> QED
  BY <1>1, <1>4, <1>6, <1>7

\* A configuration whose members are tracked is determined by its ConfState
\* and by what is matched.
LEMMA Determined ==
  ASSUME NEW c, Tracked(c), NEW d, Tracked(d), c.in = d.in, c.out = d.out,
         c.learners = d.learners, c.next = d.next, c.auto <=> d.auto,
         \A id \in DOMAIN c.trk : c.trk[id].match = d.trk[id].match
  PROVE  c = d
<1>1. c \in Confs /\ d \in Confs
  BY DEF Tracked
<1>2. c.auto = d.auto
  BY <1>1 DEF Confs
<1>3. /\ c.trk \in [DOMAIN c.trk -> Progress] /\ d.trk \in [DOMAIN d.trk -> Progress]
      /\ DOMAIN c.trk = DOMAIN d.trk
  BY <1>1, ConfFields DEF Tracked, Voters
<1>4. ASSUME NEW id \in DOMAIN c.trk PROVE c.trk[id] = d.trk[id]
  <2>1. c.trk[id] \in Progress /\ d.trk[id] \in Progress
    BY <1>3
  <2>2. c.trk[id].learner <=> d.trk[id].learner
    BY <1>3 DEF Tracked
  <2>3. c.trk[id].learner = d.trk[id].learner /\ c.trk[id].match = d.trk[id].match
    BY <2>1, <2>2 DEF Progress
  <2> QED
    BY <2>1, <2>3 DEF Progress
<1>5. c.trk = d.trk
  BY <1>3, <1>4
<1> QED
  BY <1>1, <1>2, <1>5 DEF Confs

\* Single changes of voters, learners and removals, the removals first, and no
\* node both a voter and a learner.
Orderly(s) ==
  /\ s \in Seq(Singles)
  /\ \A k \in 1 .. Len(s) : s[k].id # 0 /\ s[k].op \in {"voter", "learner", "remove"}
  /\ \A i, j \in 1 .. Len(s) : i < j /\ s[j].op = "remove" => s[i].op = "remove"
  /\ \A i, j \in 1 .. Len(s) : s[i].op = "voter" /\ s[j].op = "learner" => s[i].id # s[j].id

\* The members after every prefix of a list.
MembersLeft(f, c, s) ==
  \A k \in 0 .. Len(s) :
    /\ f[k].in = (c.in \ (Names("remove", s, k) \cup Names("learner", s, k)))
                   \cup Names("voter", s, k)
    /\ f[k].learners = Names("learner", s, k) \ c.out
    /\ f[k].next = Names("learner", s, k) \cap c.out

\* The members that an orderly list leaves.
LEMMA OrderlyMembers ==
  ASSUME NEW c, Tracked(c), c.learners = {}, c.next = {}, NEW s, Orderly(s),
         NEW f, IsRun(f, c, s)
  PROVE  MembersLeft(f, c, s)
<1> DEFINE P(k) ==
             /\ f[k].in = (c.in \ (Names("remove", s, k) \cup Names("learner", s, k)))
                            \cup Names("voter", s, k)
             /\ f[k].learners = Names("learner", s, k) \ c.out
             /\ f[k].next = Names("learner", s, k) \cap c.out
           T == {k \in 0 .. Len(s) : P(k)}
<1>0. s \in Seq(Singles) /\ Len(s) \in Nat
  BY DEF Orderly
<1>1. 0 \in T
  <2>1. \A op : Names(op, s, 0) = {}
    BY DEF Names
  <2> QED
    BY <1>0, <2>1 DEF IsRun
<1>2. ASSUME NEW k \in 1 .. Len(s), k - 1 \in T PROVE k \in T
  <2>0. /\ k - 1 \in 0 .. Len(s) /\ k \in 0 .. Len(s) /\ k \in Nat
        /\ s[k] \in Singles /\ s[k].id # 0 /\ s[k].op \in {"voter", "learner", "remove"}
    BY <1>0 DEF Orderly
  <2>1. PICK b, d, o : b = f[k - 1] /\ d = f[k] /\ o = s[k]
    OBVIOUS
  <2>2. Tracked(b) /\ b.out = c.out /\ d = ApplyOne(b, o) /\ o \in Singles
    BY <2>0, <2>1 DEF IsRun
  <2>3. d.in = AppliedIn(b.in, o)
    BY <2>2, ApplyOneTracked
  <2>4. /\ o.op \in {"voter", "remove"} => d.learners = b.learners \ {o.id} /\ d.next = b.next \ {o.id}
        /\ o.op = "learner" => /\ d.learners = b.learners \cup ({o.id} \ c.out)
                               /\ d.next = b.next \cup ({o.id} \cap c.out)
    BY <2>0, <2>1, <2>2, ApplyOneLearners
  <2>5. \A op : Names(op, s, k) = Names(op, s, k - 1) \cup IF o.op = op THEN {o.id} ELSE {}
    <3> SUFFICES ASSUME NEW op
                 PROVE  Names(op, s, k) = Names(op, s, k - 1) \cup IF o.op = op THEN {o.id} ELSE {}
      OBVIOUS
    <3>1. \A j : j \in 1 .. k <=> j \in 1 .. (k - 1) \/ j = k
      BY <1>0
    <3> QED
      BY <2>1, <3>1 DEF Names
  <2>6. P(k - 1)
    BY <1>2
  <2>7. CASE o.op = "voter"
    <3>1. o.id \notin Names("learner", s, k - 1)
      BY <1>0, <2>0, <2>1, <2>7 DEF Orderly, Names
    <3> QED
      BY <2>0, <2>1, <2>3, <2>4, <2>5, <2>6, <2>7, <3>1 DEF AppliedIn
  <2>8. CASE o.op = "learner"
    <3>1. o.id \notin Names("voter", s, k - 1)
      BY <1>0, <2>0, <2>1, <2>8 DEF Orderly, Names
    <3> QED
      BY <2>0, <2>1, <2>3, <2>4, <2>5, <2>6, <2>8, <3>1 DEF AppliedIn
  <2>9. CASE o.op = "remove"
    <3>1. Names("voter", s, k - 1) = {} /\ Names("learner", s, k - 1) = {}
      BY <1>0, <2>0, <2>1, <2>9 DEF Orderly, Names
    <3> QED
      BY <2>0, <2>1, <2>3, <2>4, <2>5, <2>6, <2>9, <3>1 DEF AppliedIn
  <2> QED
    BY <2>0, <2>1, <2>7, <2>8, <2>9
<1> HIDE DEF T
<1>3. \A k \in 0 .. Len(s) : k \in T
  BY <1>0, <1>1, <1>2, UpTo, Zenon
<1> QED
  BY <1>3 DEF T, MembersLeft


\* A chain of simple changes that starts with a voter and removes none is the
\* run of its single changes.
LEMMA OneByOneRun ==
  ASSUME NEW s, Orderly(s), Len(s) # 0, s[1].op = "voter"
  PROVE  \E f : IsRun(f, Empty, s) /\ OneByOne(s) = f[Len(s)]
<1>0. s \in Seq(Singles) /\ Len(s) \in Nat
  BY DEF Orderly
<1>e. Tracked(Empty) /\ Empty.in = {} /\ Empty.out = {} /\ Empty.learners = {} /\ Empty.next = {}
      /\ Empty.auto = FALSE
  <2>1. << >> \in [{} -> Progress]
    OBVIOUS
  <2>2. << >> \in Tracks
    BY <2>1, TrackTyping
  <2>3. Empty \in Confs
    BY <2>2 DEF Empty, Confs
  <2> QED
    BY <2>3 DEF Tracked, Empty, Voters
<1>1. PICK f : IsRun(f, Empty, s)
  BY <1>0, <1>e, ApplyAllRun
<1> DEFINE n == Len(s)
           F(x) == x = [k \in 0 .. Len(s) |-> IF k = 0 THEN Empty ELSE Simple(x[k - 1], <<s[k]>>)]
           h == CHOOSE x : F(x)
           g == [k \in 0 .. n |-> f[k]]
<1>2. ASSUME NEW k \in 1 .. n
      PROVE  f[k] = Simple(f[k - 1], <<s[k]>>)
  <2>0. k - 1 \in 0 .. n /\ k \in 0 .. n /\ s[k] \in Singles
    BY <1>0
  <2>1. PICK b, d, o : b = f[k - 1] /\ d = f[k] /\ o = s[k]
    OBVIOUS
  <2>2. /\ Tracked(b) /\ b.out = {} /\ b.auto = FALSE
        /\ Tracked(d) /\ d.out = {} /\ d.auto = FALSE
        /\ d = ApplyOne(b, o) /\ o \in Singles
    BY <1>1, <1>e, <2>0, <2>1 DEF IsRun
  <2>3. d.in # {}
    <3>1. d.in = (Empty.in \ (Names("remove", s, k) \cup Names("learner", s, k)))
                    \cup Names("voter", s, k)
      <4>1. MembersLeft(f, Empty, s)
        BY <1>1, <1>e, OrderlyMembers
      <4> QED
        BY <2>0, <2>1, <4>1 DEF MembersLeft
    <3>2. s[1].id \in Names("voter", s, k)
      BY <1>0 DEF Names
    <3> QED
      BY <3>1, <3>2
  <2>4. d.in = AppliedIn(b.in, o)
    BY <2>2, ApplyOneTracked
  <2>5. Simple(b, <<o>>) # Refused /\ Simple(b, <<o>>).in = AppliedIn(b.in, o)
    BY <2>2, <2>3, <2>4, SimpleOne DEF Joint
  <2>6. CheckAndCopy(b) = b
    <3>1. PICK x : x = CheckAndCopy(b)
      OBVIOUS
    <3>2. /\ Tracked(x)
          /\ x.in = b.in /\ x.out = b.out /\ x.learners = b.learners /\ x.next = b.next
          /\ x.auto = FALSE /\ x.trk = b.trk
      BY <2>2, <3>1, CopyTracked
    <3> QED
      BY <2>2, <3>1, <3>2, Determined
  <2>7. ApplyAll(b, <<o>>) = d
    BY <2>2, <2>3, <2>4, ApplyAllOne
  <2>8. Simple(b, <<o>>) = d
    <3>1. Simple(b, <<o>>) = IF Joint(b) \/ Cardinality(Moved(b.in, d.in)) > 1
                             THEN Refused ELSE CheckAndReturn(d)
      BY <2>6, <2>7 DEF Simple, Moved
    <3> QED
      BY <2>5, <3>1 DEF CheckAndReturn
  <2> QED
    BY <2>1, <2>8
<1>3. f[0] = Empty
  BY <1>1 DEF IsRun
<1>4. F(g)
  <2>1. \A k \in 1 .. n : k - 1 \in 0 .. n
    BY <1>0
  <2> QED
    BY <1>0, <1>2, <1>3, <2>1
<1> HIDE DEF F, g
<1>5. F(h)
  BY <1>4
<1> HIDE DEF h
<1>6. OneByOne(s) = h[Len(s)]
  BY DEF OneByOne, h, F
<1>7. h[0] = Empty /\ \A k \in 1 .. n : h[k] = Simple(h[k - 1], <<s[k]>>)
  BY <1>0, <1>5 DEF F
<1>8. \A k \in 0 .. n : h[k] = f[k]
  <2> DEFINE T == {k \in 0 .. n : h[k] = f[k]}
  <2>1. 0 \in T
    BY <1>0, <1>3, <1>7
  <2>2. ASSUME NEW k \in 1 .. n, k - 1 \in T PROVE k \in T
    <3>1. k \in 0 .. n /\ h[k - 1] = f[k - 1]
      BY <1>0, <2>2
    <3> QED
      BY <1>2, <1>7, <3>1
  <2> HIDE DEF T
  <2>3. n \in Nat
    BY <1>0
  <2>4. \A k \in 0 .. n : k \in T
    <3> HIDE DEF n
    <3> QED
      BY <2>1, <2>2, <2>3, UpTo, Zenon
  <2> QED
    BY <2>4 DEF T
<1>9. n \in 0 .. n
  BY <1>0
<1> QED
  BY <1>1, <1>6, <1>8, <1>9

\* Each member of a set becomes a voter, one after the other.
LEMMA VotersOneByOne ==
  ASSUME NEW S \in SUBSET Ids, S # {}, NEW d, d = OneByOne(Each("voter", S))
  PROVE  /\ Tracked(d)
         /\ d.in = S /\ d.out = {} /\ d.learners = {} /\ d.next = {} /\ d.auto = FALSE
         /\ Zero(d)
<1>1. PICK s : s = Each("voter", S)
  OBVIOUS
<1>2. /\ s \in Seq(Singles) /\ Len(s) = Cardinality(S)
      /\ \A k \in 1 .. Len(s) : s[k].op = "voter"
      /\ Names("voter", s, Len(s)) = S
      /\ Names("learner", s, Len(s)) = {} /\ Names("remove", s, Len(s)) = {}
  BY <1>1, EachLists
<1>3. Len(s) \in Nat /\ Len(s) # 0
  BY <1>2 DEF Names
<1>4. Orderly(s)
  <2>1. \A k \in 1 .. Len(s) : s[k].id \in S
    BY <1>2 DEF Names
  <2> QED
    BY <1>2, <2>1, IdsAssumption DEF Orderly
<1>5. s[1].op = "voter"
  BY <1>2, <1>3
<1>6. PICK f : IsRun(f, Empty, s) /\ d = f[Len(s)]
  BY <1>1, <1>3, <1>4, <1>5, OneByOneRun
<1>e. /\ Empty.in = {} /\ Empty.out = {} /\ Empty.learners = {} /\ Empty.next = {}
      /\ Empty.auto = FALSE
  BY DEF Empty
<1>7. Len(s) \in 0 .. Len(s) /\ 0 \in 0 .. Len(s)
  BY <1>3
<1>8. Tracked(d) /\ d.out = {} /\ d.auto = FALSE /\ Tracked(Empty) /\ Keeps(Empty, d)
  BY <1>6, <1>7, <1>e DEF IsRun
<1>z. Zero(d)
  BY <1>8 DEF Keeps, Zero, Empty
<1>9. MembersLeft(f, Empty, s)
  BY <1>4, <1>6, <1>8, <1>e, OrderlyMembers
<1> QED
  BY <1>2, <1>6, <1>7, <1>8, <1>9, <1>e, <1>z DEF MembersLeft

\* u is s followed by t, with the names of both.
Joined(u, s, t) ==
  /\ u \in Seq(Singles) /\ Len(u) = Len(s) + Len(t)
  /\ \A op : Names(op, u, Len(u)) = Names(op, s, Len(s)) \cup Names(op, t, Len(t))
  /\ \A k \in 1 .. Len(s) : u[k] = s[k]
  /\ \A k \in 1 .. Len(u) : k > Len(s) => k - Len(s) \in 1 .. Len(t) /\ u[k] = t[k - Len(s)]

\* The names in two lists of changes are the names in their concatenation.
LEMMA NamesConcat ==
  ASSUME NEW s, s \in Seq(Singles), NEW t, t \in Seq(Singles), NEW u, u = s \o t
  PROVE  Joined(u, s, t)
<1> SUFFICES ASSUME NEW op
             PROVE  /\ u \in Seq(Singles) /\ Len(u) = Len(s) + Len(t)
                    /\ Names(op, u, Len(u)) = Names(op, s, Len(s)) \cup Names(op, t, Len(t))
                    /\ \A k \in 1 .. Len(s) : u[k] = s[k]
                    /\ \A k \in 1 .. Len(u) : k > Len(s) =>
                         k - Len(s) \in 1 .. Len(t) /\ u[k] = t[k - Len(s)]
  BY DEF Joined
<1>1. /\ u \in Seq(Singles) /\ Len(u) = Len(s) + Len(t)
      /\ Len(s) \in Nat /\ Len(t) \in Nat
      /\ \A k \in 1 .. Len(s) : u[k] = s[k]
      /\ \A k \in 1 .. Len(u) : k > Len(s) => k - Len(s) \in 1 .. Len(t) /\ u[k] = t[k - Len(s)]
      /\ \A k \in 1 .. Len(t) : k + Len(s) \in 1 .. Len(u) /\ u[k + Len(s)] = t[k]
  OBVIOUS
<1>2. ASSUME NEW x \in Names(op, u, Len(u))
      PROVE  x \in Names(op, s, Len(s)) \cup Names(op, t, Len(t))
  <2>1. PICK k \in 1 .. Len(u) : u[k].op = op /\ x = u[k].id
    BY DEF Names
  <2>2. CASE k <= Len(s)
    <3>1. k \in 1 .. Len(s)
      BY <1>1, <2>2
    <3> QED
      BY <1>1, <2>1, <3>1 DEF Names
  <2>3. CASE k > Len(s)
    BY <1>1, <2>1, <2>3 DEF Names
  <2> QED
    BY <1>1, <2>2, <2>3
<1>3. ASSUME NEW x \in Names(op, s, Len(s)) PROVE x \in Names(op, u, Len(u))
  <2>1. PICK k \in 1 .. Len(s) : s[k].op = op /\ x = s[k].id
    BY DEF Names
  <2>2. k \in 1 .. Len(u) /\ u[k] = s[k]
    BY <1>1
  <2> QED
    BY <2>1, <2>2 DEF Names
<1>4. ASSUME NEW x \in Names(op, t, Len(t)) PROVE x \in Names(op, u, Len(u))
  <2>1. PICK k \in 1 .. Len(t) : t[k].op = op /\ x = t[k].id
    BY DEF Names
  <2> QED
    BY <1>1, <2>1 DEF Names
<1> QED
  BY <1>1, <1>2, <1>3, <1>4

\* The changes to the incoming voters, the learners and the staged learners
\* are orderly.
LEMMA ToIncomingOrderly ==
  ASSUME NEW cs, cs.in \in SUBSET Ids, cs.out \in SUBSET Ids, cs.learners \in SUBSET Ids,
         cs.next \in SUBSET Ids, cs.in \cap (cs.learners \cup cs.next) = {},
         cs.in # {},
         NEW u, u = ToIncoming(cs)
  PROVE  /\ Orderly(u) /\ Len(u) # 0
         /\ cs.out = {} => u[1].op = "voter"
         /\ Names("remove", u, Len(u)) = cs.out
         /\ Names("voter", u, Len(u)) = cs.in
         /\ Names("learner", u, Len(u)) = cs.learners \cup cs.next
<1>1. PICK a, b, c, d : /\ a = Each("remove", cs.out) /\ b = Each("voter", cs.in)
                        /\ c = Each("learner", cs.learners) /\ d = Each("learner", cs.next)
  OBVIOUS
<1>2. u = ((a \o b) \o c) \o d
  BY <1>1 DEF ToIncoming
<1>3. PICK s, t : s = a \o b /\ t = s \o c /\ u = t \o d
  BY <1>2
<1>a. /\ a \in Seq(Singles) /\ \A k \in 1 .. Len(a) : a[k].op = "remove"
      /\ \A o \in {"voter", "learner", "remove"} :
           Names(o, a, Len(a)) = IF o = "remove" THEN cs.out ELSE {}
  BY <1>1, EachLists
<1>b. /\ b \in Seq(Singles) /\ \A k \in 1 .. Len(b) : b[k].op = "voter"
      /\ \A o \in {"voter", "learner", "remove"} :
           Names(o, b, Len(b)) = IF o = "voter" THEN cs.in ELSE {}
  BY <1>1, EachLists
<1>c. /\ c \in Seq(Singles) /\ \A k \in 1 .. Len(c) : c[k].op = "learner"
      /\ \A o \in {"voter", "learner", "remove"} :
           Names(o, c, Len(c)) = IF o = "learner" THEN cs.learners ELSE {}
  BY <1>1, EachLists
<1>d. /\ d \in Seq(Singles) /\ \A k \in 1 .. Len(d) : d[k].op = "learner"
      /\ \A o \in {"voter", "learner", "remove"} :
           Names(o, d, Len(d)) = IF o = "learner" THEN cs.next ELSE {}
  BY <1>1, EachLists
<1>n. Len(a) \in Nat /\ Len(b) \in Nat /\ Len(c) \in Nat /\ Len(d) \in Nat
  BY <1>a, <1>b, <1>c, <1>d
<1>s. /\ s \in Seq(Singles) /\ Len(s) = Len(a) + Len(b)
      /\ \A o : Names(o, s, Len(s)) = Names(o, a, Len(a)) \cup Names(o, b, Len(b))
      /\ \A k \in 1 .. Len(a) : s[k] = a[k]
      /\ \A k \in 1 .. Len(s) : k > Len(a) => k - Len(a) \in 1 .. Len(b) /\ s[k] = b[k - Len(a)]
  <2>1. Joined(s, a, b)
    BY <1>3, <1>a, <1>b, NamesConcat, Zenon
  <2> QED
    BY <2>1 DEF Joined
<1>t. /\ t \in Seq(Singles) /\ Len(t) = Len(s) + Len(c)
      /\ \A o : Names(o, t, Len(t)) = Names(o, s, Len(s)) \cup Names(o, c, Len(c))
      /\ \A k \in 1 .. Len(s) : t[k] = s[k]
      /\ \A k \in 1 .. Len(t) : k > Len(s) => k - Len(s) \in 1 .. Len(c) /\ t[k] = c[k - Len(s)]
  <2>1. Joined(t, s, c)
    BY <1>3, <1>s, <1>c, NamesConcat, Zenon
  <2> QED
    BY <2>1 DEF Joined
<1>u. /\ u \in Seq(Singles) /\ Len(u) = Len(t) + Len(d)
      /\ \A o : Names(o, u, Len(u)) = Names(o, t, Len(t)) \cup Names(o, d, Len(d))
      /\ \A k \in 1 .. Len(t) : u[k] = t[k]
      /\ \A k \in 1 .. Len(u) : k > Len(t) => k - Len(t) \in 1 .. Len(d) /\ u[k] = d[k - Len(t)]
  <2>1. Joined(u, t, d)
    BY <1>3, <1>t, <1>d, NamesConcat, Zenon
  <2> QED
    BY <2>1 DEF Joined
<1>4. /\ Names("remove", u, Len(u)) = cs.out
      /\ Names("voter", u, Len(u)) = cs.in
      /\ Names("learner", u, Len(u)) = cs.learners \cup cs.next
  <2>1. \A o \in {"voter", "learner", "remove"} :
          Names(o, u, Len(u)) = ((Names(o, a, Len(a)) \cup Names(o, b, Len(b)))
                                  \cup Names(o, c, Len(c))) \cup Names(o, d, Len(d))
    <3> TAKE o \in {"voter", "learner", "remove"}
    <3>1. /\ Names(o, u, Len(u)) = Names(o, t, Len(t)) \cup Names(o, d, Len(d))
          /\ Names(o, t, Len(t)) = Names(o, s, Len(s)) \cup Names(o, c, Len(c))
          /\ Names(o, s, Len(s)) = Names(o, a, Len(a)) \cup Names(o, b, Len(b))
      BY <1>s, <1>t, <1>u
    <3> QED
      BY <3>1
  <2> QED
    BY <1>a, <1>b, <1>c, <1>d, <2>1
<1>5. \A k \in 1 .. Len(u) :
        u[k].op = IF k <= Len(a) THEN "remove" ELSE IF k <= Len(s) THEN "voter" ELSE "learner"
  <2> SUFFICES ASSUME NEW k \in 1 .. Len(u)
               PROVE  u[k].op = IF k <= Len(a) THEN "remove"
                                ELSE IF k <= Len(s) THEN "voter" ELSE "learner"
    OBVIOUS
  <2>1. CASE k <= Len(a)
    <3>1. k \in 1 .. Len(a) /\ k \in 1 .. Len(s) /\ k \in 1 .. Len(t)
      BY <1>n, <1>s, <1>t, <2>1
    <3>2. u[k] = a[k]
      BY <1>s, <1>t, <1>u, <3>1
    <3> QED
      BY <1>a, <2>1, <3>1, <3>2
  <2>2. CASE ~(k <= Len(a)) /\ k <= Len(s)
    <3>1. k > Len(a) /\ k \in 1 .. Len(s) /\ k \in 1 .. Len(t)
      BY <1>n, <1>s, <1>t, <2>2
    <3>2. u[k] = b[k - Len(a)] /\ k - Len(a) \in 1 .. Len(b)
      BY <1>s, <1>t, <1>u, <3>1
    <3> QED
      BY <1>b, <2>2, <3>2
  <2>3. CASE ~(k <= Len(a)) /\ ~(k <= Len(s)) /\ k <= Len(t)
    <3>1. k > Len(s) /\ k \in 1 .. Len(t)
      BY <1>n, <1>s, <1>t, <2>3
    <3>2. u[k] = c[k - Len(s)] /\ k - Len(s) \in 1 .. Len(c)
      BY <1>t, <1>u, <3>1
    <3> QED
      BY <1>c, <2>3, <3>2
  <2>4. CASE ~(k <= Len(a)) /\ ~(k <= Len(s)) /\ ~(k <= Len(t))
    <3>1. k > Len(t)
      BY <1>n, <1>s, <1>t, <2>4
    <3>2. u[k] = d[k - Len(t)] /\ k - Len(t) \in 1 .. Len(d)
      BY <1>u, <3>1
    <3> QED
      BY <1>d, <2>4, <3>2
  <2> QED
    BY <2>1, <2>2, <2>3, <2>4
<1>6. Orderly(u)
  <2>1. \A k \in 1 .. Len(u) : u[k].op \in {"voter", "learner", "remove"}
    BY <1>5
  <2>2. ASSUME NEW k \in 1 .. Len(u) PROVE u[k].id # 0
    <3>1. u[k].id \in Names(u[k].op, u, Len(u))
      BY DEF Names
    <3>2. u[k].id \in cs.out \cup cs.in \cup cs.learners \cup cs.next
      BY <1>4, <2>1, <3>1
    <3> QED
      BY <3>2, IdsAssumption
  <2>3. ASSUME NEW i \in 1 .. Len(u), NEW j \in 1 .. Len(u), i < j, u[j].op = "remove"
        PROVE  u[i].op = "remove"
    <3>1. j <= Len(a)
      BY <1>5, <2>3
    <3>2. i <= Len(a)
      BY <1>n, <2>3, <3>1
    <3> QED
      BY <1>5, <3>2
  <2>4. ASSUME NEW i \in 1 .. Len(u), NEW j \in 1 .. Len(u), u[i].op = "voter", u[j].op = "learner"
        PROVE  u[i].id # u[j].id
    <3>1. u[i].id \in Names("voter", u, Len(u)) /\ u[j].id \in Names("learner", u, Len(u))
      BY <2>4 DEF Names
    <3> QED
      BY <1>4, <3>1
  <2> QED
    BY <1>u, <2>1, <2>2, <2>3, <2>4 DEF Orderly
<1>7. Len(u) # 0
  BY <1>4 DEF Names
<1>8. ASSUME cs.out = {} PROVE u[1].op = "voter"
  <2>1. Len(a) = 0
    <3> SUFFICES ASSUME Len(a) # 0 PROVE FALSE
      OBVIOUS
    <3>1. 1 \in 1 .. Len(a)
      BY <1>n
    <3>2. a[1].id \in Names("remove", a, Len(a))
      BY <1>a, <3>1 DEF Names
    <3> QED
      BY <1>8, <1>a, <3>2
  <2>2. Len(b) # 0
    BY <1>b DEF Names
  <2> QED
    BY <1>5, <1>n, <1>s, <1>t, <1>u, <2>1, <2>2
<1> QED
  BY <1>4, <1>6, <1>7, <1>8

\* What a step does to the voters.
Related(c, d) ==
  \/ c.out = {} /\ d.out = c.in
  \/ c.in = d.in /\ d.out = {}
  \/ c.out = {} /\ d.out = {} /\ Cardinality(Moved(c.in, d.in)) <= 1

\* Every change that is not refused is one of the three.
LEMMA ChangedResult ==
  ASSUME NEW c, Tracked(c), c.in # {}, NEW cc, cc.changes \in Seq(Singles),
         NEW d, d = Changed(c, cc), d # Refused
  PROVE  /\ Tracked(d) /\ d.in # {} /\ Related(c, d) /\ Keeps(c, d)
         /\ d.out = {} => ~d.auto
<1>0. cc.changes \in Seq(Singles)
  OBVIOUS
<1>1. CASE WantsLeave(cc)
  <2>1. d = LeaveJoint(c)
    BY <1>1 DEF Changed
  <2> QED
    BY <2>1, LeaveResult DEF Related
<1>2. CASE ~WantsLeave(cc) /\ WantsJoint(cc)
  <2>1. d = EnterJoint(c, WantsAutoLeave(cc), cc.changes) /\ WantsAutoLeave(cc) \in BOOLEAN
    BY <1>2 DEF Changed, WantsAutoLeave
  <2> QED
    BY <1>0, <2>1, EnterResult DEF Related
<1>3. CASE ~WantsLeave(cc) /\ ~WantsJoint(cc)
  <2>1. d = Simple(c, cc.changes)
    BY <1>3 DEF Changed
  <2> QED
    BY <1>0, <2>1, SimpleResult DEF Related
<1> QED
  BY <1>1, <1>2, <1>3

\* Majorities of one set of voters meet.
LEMMA MajoritiesMeet ==
  ASSUME NEW A, IsFiniteSet(A), NEW P, NEW Q, Majority(A, P), Majority(A, Q)
  PROVE  P \cap Q # {}
<1>1. (A \ A) \cup (A \ A) = {}
  OBVIOUS
<1>2. Cardinality((A \ A) \cup (A \ A)) = 0
  BY <1>1, FS_EmptySet, Zenon
<1> QED
  BY <1>2, NeighbouringMajoritiesMeet

-----------------------------------------------------------------------------
(* The committed index. *)

Below(c, acked, v)  == {id \in c : acked[id] < v}
UpToV(c, acked, v)  == {id \in c : acked[id] <= v}
AtLeast(acked, i)   == {id \in Ids : acked[id] >= i}

\* v is the acknowledgement at position pos of the sorted ones.
AtPosition(v, c, acked, pos) ==
  /\ v \in {acked[id] : id \in c}
  /\ Cardinality(Below(c, acked, v)) <= pos
  /\ Cardinality(UpToV(c, acked, v)) > pos

\* A part of a finite set and the rest of it.
LEMMA PartSizes ==
  ASSUME NEW S, IsFiniteSet(S), NEW T \in SUBSET S
  PROVE  /\ IsFiniteSet(T) /\ IsFiniteSet(S \ T)
         /\ Cardinality(T) \in Nat /\ Cardinality(S) \in Nat /\ Cardinality(S \ T) \in Nat
         /\ Cardinality(T) <= Cardinality(S)
         /\ Cardinality(S \ T) = Cardinality(S) - Cardinality(T)
<1>1. IsFiniteSet(T) /\ Cardinality(T) <= Cardinality(S)
  BY FS_Subset
<1>2. /\ IsFiniteSet(S \ T)
      /\ Cardinality(S \ T) = Cardinality(S) - Cardinality(S \cap T)
  BY FS_Difference
<1>3. S \cap T = T
  OBVIOUS
<1>4. Cardinality(S \cap T) = Cardinality(T)
  BY <1>3, Zenon
<1>5. Cardinality(T) \in Nat /\ Cardinality(S) \in Nat /\ Cardinality(S \ T) \in Nat
  BY <1>1, <1>2, FS_CardinalityType
<1> QED
  BY <1>1, <1>2, <1>4, <1>5

\* Every position has an acknowledgement.
LEMMA PositionExists ==
  ASSUME NEW c, c \in SUBSET Ids, c # {}, NEW MaxMatch \in Nat, NEW acked \in [Ids -> 0 .. MaxMatch],
         NEW pos \in Nat, pos < Cardinality(c)
  PROVE  \E v : AtPosition(v, c, acked, pos)
<1>0. IsFiniteSet(c) /\ MaxMatch \in Nat /\ \A id \in c : acked[id] \in 0 .. MaxMatch
  <2>1. IsFiniteSet(c)
    BY IdsAssumption, FS_Subset
  <2> QED
    BY <2>1
<1> DEFINE T == {m \in Nat : Cardinality(UpToV(c, acked, m)) > pos}
<1>1. MaxMatch \in T
  <2>1. UpToV(c, acked, MaxMatch) = c
    BY <1>0 DEF UpToV
  <2>2. Cardinality(UpToV(c, acked, MaxMatch)) = Cardinality(c)
    BY <2>1, Zenon
  <2> QED
    BY <1>0, <2>2
<1>2. T \in SUBSET Nat /\ T # {}
  BY <1>1
<1> HIDE DEF T
<1>3. PICK m \in T : \A k \in T : m <= k
  BY <1>2, LeastElement
<1>4. m \in Nat /\ Cardinality(UpToV(c, acked, m)) > pos
  BY <1>3 DEF T
<1>5. Cardinality(Below(c, acked, m)) <= pos
  <2>1. CASE m = 0
    <3>1. Below(c, acked, m) = {}
      BY <1>0, <2>1 DEF Below
    <3>2. Cardinality(Below(c, acked, m)) = Cardinality({})
      BY <3>1, Zenon
    <3> QED
      BY <3>2, FS_EmptySet
  <2>2. CASE m # 0
    <3>1. m - 1 \in Nat /\ m - 1 \notin T
      BY <1>3, <1>4, <2>2 DEF T
    <3>2. Below(c, acked, m) = UpToV(c, acked, m - 1)
      BY <1>0, <1>4, <3>1 DEF Below, UpToV
    <3>3. Cardinality(Below(c, acked, m)) = Cardinality(UpToV(c, acked, m - 1))
      BY <3>2, Zenon
    <3>4. Below(c, acked, m) \in SUBSET c
      BY DEF Below
    <3>5. Cardinality(Below(c, acked, m)) \in Nat
      BY <1>0, <3>4, PartSizes
    <3> QED
      BY <3>1, <3>3, <3>5 DEF T
  <2> QED
    BY <2>1, <2>2
<1>6. m \in {acked[id] : id \in c}
  <2> SUFFICES ASSUME m \notin {acked[id] : id \in c} PROVE FALSE
    OBVIOUS
  <2>1. Below(c, acked, m) = UpToV(c, acked, m)
    BY <1>0, <1>4 DEF Below, UpToV
  <2>2. Cardinality(Below(c, acked, m)) = Cardinality(UpToV(c, acked, m))
    BY <2>1, Zenon
  <2>3. Below(c, acked, m) \in SUBSET c
    BY DEF Below
  <2>4. Cardinality(Below(c, acked, m)) \in Nat
    BY <1>0, <2>3, PartSizes
  <2> QED
    BY <1>4, <1>5, <2>2, <2>4
<1> QED
  BY <1>4, <1>5, <1>6 DEF AtPosition

\* A majority of voters has acknowledged exactly the indexes up to the one
\* that the sort finds.
LEMMA MajorityCommittedExact ==
  ASSUME NEW c, c \in SUBSET Ids, c # {}, NEW MaxMatch \in Nat, NEW acked \in [Ids -> 0 .. MaxMatch]
  PROVE  /\ MajorityCommitted(c, acked) \in 0 .. MaxMatch
         /\ \A i \in Nat : Majority(c, AtLeast(acked, i)) <=> i <= MajorityCommitted(c, acked)
<1>0. /\ IsFiniteSet(c) /\ MaxMatch \in Nat /\ \A id \in c : acked[id] \in 0 .. MaxMatch
      /\ Cardinality(c) \in Nat /\ Cardinality(c) # 0
  <2>1. IsFiniteSet(c)
    BY IdsAssumption, FS_Subset
  <2> QED
    BY <2>1, FS_CardinalityType, FS_EmptySet
<1> DEFINE pos == Cardinality(c) - (Cardinality(c) \div 2 + 1)
           v == CHOOSE x : AtPosition(x, c, acked, pos)
<1>1. pos \in Nat /\ pos < Cardinality(c) /\ 2 * (Cardinality(c) - pos) > Cardinality(c)
      /\ 2 * (Cardinality(c) - pos - 1) <= Cardinality(c)
  BY <1>0
<1> HIDE DEF pos
<1>2. AtPosition(v, c, acked, pos)
  BY <1>1, PositionExists
<1>3. MajorityCommitted(c, acked) = v
  BY DEF MajorityCommitted, AtPosition, Below, UpToV, pos
<1> HIDE DEF v
<1>4. v \in 0 .. MaxMatch
  BY <1>0, <1>2 DEF AtPosition
<1>5. /\ Below(c, acked, v) \in SUBSET c /\ UpToV(c, acked, v) \in SUBSET c
      /\ c \ Below(c, acked, v) \in SUBSET c
  BY DEF Below, UpToV
<1>6. /\ Cardinality(c \ Below(c, acked, v)) = Cardinality(c) - Cardinality(Below(c, acked, v))
      /\ Cardinality(c \ UpToV(c, acked, v)) = Cardinality(c) - Cardinality(UpToV(c, acked, v))
      /\ Cardinality(Below(c, acked, v)) \in Nat /\ Cardinality(UpToV(c, acked, v)) \in Nat
      /\ IsFiniteSet(c \ UpToV(c, acked, v))
  BY <1>0, <1>5, PartSizes
<1>7. ASSUME NEW i \in Nat
      PROVE  Majority(c, AtLeast(acked, i)) <=> i <= v
  <2> DEFINE R == c \cap AtLeast(acked, i)
  <2>0. R \in SUBSET c
    OBVIOUS
  <2>1. IsFiniteSet(R) /\ Cardinality(R) \in Nat
    BY <1>0, <2>0, PartSizes
  <2>2. CASE i <= v
    <3>1. c \ Below(c, acked, v) \in SUBSET R
      BY <1>0, <1>4, <2>2 DEF Below, AtLeast
    <3>2. Cardinality(c \ Below(c, acked, v)) <= Cardinality(R)
      BY <2>1, <3>1, PartSizes
    <3>3. Cardinality(Below(c, acked, v)) <= pos
      BY <1>2 DEF AtPosition
    <3> HIDE DEF R
    <3>4. 2 * Cardinality(R) > Cardinality(c)
      BY <1>0, <1>1, <1>6, <2>1, <3>2, <3>3
    <3> QED
      BY <2>2, <3>4 DEF Majority, R
  <2>3. CASE ~(i <= v)
    <3>1. R \in SUBSET (c \ UpToV(c, acked, v))
      BY <1>0, <1>4, <2>3 DEF UpToV, AtLeast
    <3>2. Cardinality(R) <= Cardinality(c \ UpToV(c, acked, v))
      BY <1>6, <3>1, PartSizes
    <3>3. Cardinality(UpToV(c, acked, v)) > pos
      BY <1>2 DEF AtPosition
    <3> HIDE DEF R
    <3>4. ~(2 * Cardinality(R) > Cardinality(c))
      BY <1>0, <1>1, <1>6, <2>1, <3>2, <3>3
    <3> QED
      BY <2>3, <3>4 DEF Majority, R
  <2> QED
    BY <2>2, <2>3
<1> QED
  BY <1>3, <1>4, <1>7

-----------------------------------------------------------------------------
(* Changes as a cluster makes them. *)

\* A change that fits is refused only when its single changes leave no voter.
LEMMA FitsApplies ==
  ASSUME NEW c, Tracked(c), c.in # {}, NEW cc, cc.changes \in Seq(Singles),
         cc.changes = << >> => cc.transition = "auto",
         Fits(c, cc), ApplyAll(c, cc.changes) # Refused
  PROVE  Changed(c, cc) # Refused
<1>0. cc.changes \in Seq(Singles) /\ Tracked(c) /\ c.in # {}
  OBVIOUS
<1>1. CASE cc.changes = << >>
  <2>1. WantsLeave(cc) /\ Joint(c)
    BY <1>1 DEF WantsLeave, Fits
  <2>2. Changed(c, cc) = LeaveJoint(c)
    BY <2>1 DEF Changed
  <2> QED
    BY <1>0, <2>1, <2>2, LeaveResult
<1>2. CASE cc.changes # << >> /\ WantsJoint(cc)
  <2>1. ~WantsLeave(cc) /\ ~Joint(c)
    BY <1>2 DEF WantsLeave, Fits
  <2>2. /\ Changed(c, cc) = EnterJoint(c, WantsAutoLeave(cc), cc.changes)
        /\ WantsAutoLeave(cc) \in BOOLEAN
    BY <1>2, <2>1 DEF Changed, WantsAutoLeave
  <2> QED
    BY <1>0, <2>1, <2>2, EnterResult
<1>3. CASE cc.changes # << >> /\ ~WantsJoint(cc)
  <2>1. ~WantsLeave(cc) /\ ~Joint(c)
    BY <1>3 DEF WantsLeave, Fits
  <2>2. Changed(c, cc) = Simple(c, cc.changes)
    BY <1>3, <2>1 DEF Changed
  <2>3. Len(cc.changes) = 1 /\ cc.changes[1] \in Singles
    <3>1. PICK s \in Seq(Singles) : s = cc.changes
      BY <1>0
    <3>2. Len(s) \in Nat /\ (Len(s) = 0 => s = << >>)
      OBVIOUS
    <3>3. s # << >> /\ ~(Len(s) > 1)
      BY <1>3, <3>1, Zenon DEF WantsJoint
    <3>4. Len(s) = 1
      <4>1. PICK n : n = Len(s)
        OBVIOUS
      <4>2. n \in Nat /\ n # 0 /\ ~(n > 1)
        BY <3>2, <3>3, <4>1, Zenon
      <4> QED
        BY <4>1, <4>2
    <3> QED
      BY <3>1, <3>4
  <2>4. PICK o \in Singles : cc.changes = <<o>>
    BY <1>0, <2>3
  <2>5. AppliedIn(c.in, o) # {}
    BY <1>0, <2>4, ApplyAllOne
  <2> QED
    BY <1>0, <2>1, <2>2, <2>4, <2>5, SimpleOne
<1> QED
  BY <1>1, <1>2, <1>3

\* A change does the same whatever is matched, and is refused or not.
LEMMA ChangedAlike ==
  ASSUME NEW c, Tracked(c), c.in # {}, NEW d, Tracked(d), Alike(c, d),
         NEW cc, cc.changes \in Seq(Singles)
  PROVE  /\ Changed(c, cc) = Refused <=> Changed(d, cc) = Refused
         /\ Alike(Changed(c, cc), Changed(d, cc))
         /\ Changed(c, cc) # Refused => Changed(c, cc).auto = Changed(d, cc).auto
<1>0. d.in # {} /\ (Joint(c) <=> Joint(d)) /\ c.in = d.in /\ c.next = d.next
      /\ c.learners = d.learners /\ c.out = d.out
  BY DEF Alike, Joint
<1>a. PICK ops \in Seq(Singles) : ops = cc.changes
  OBVIOUS
<1>b. /\ ApplyAll(c, ops) = Refused <=> ApplyAll(d, ops) = Refused
      /\ Alike(ApplyAll(c, ops), ApplyAll(d, ops))
  BY <1>0, ApplyAllIn, ApplyAllAlike
<1>c. PICK x, y : x = Changed(c, cc) /\ y = Changed(d, cc)
  OBVIOUS
<1>r. ASSUME x = Refused, y = Refused PROVE Alike(x, y)
  BY <1>r DEF Alike
<1>1. CASE WantsLeave(cc)
  <2>1. x = LeaveJoint(c) /\ y = LeaveJoint(d)
    BY <1>1, <1>c DEF Changed
  <2>2. /\ ~Joint(c) => x = Refused
        /\ Joint(c) => /\ x # Refused /\ Tracked(x) /\ x.in = c.in /\ x.out = {} /\ ~x.auto
                       /\ x.learners = c.learners \cup c.next /\ x.next = {}
    BY <2>1, LeaveResult
  <2>3. /\ ~Joint(d) => y = Refused
        /\ Joint(d) => /\ y # Refused /\ Tracked(y) /\ y.in = d.in /\ y.out = {} /\ ~y.auto
                       /\ y.learners = d.learners \cup d.next /\ y.next = {}
    BY <1>0, <2>1, LeaveResult
  <2>4. CASE ~Joint(c)
    BY <1>0, <1>c, <1>r, <2>2, <2>3, <2>4
  <2>5. CASE Joint(c)
    <3>1. x.auto \in BOOLEAN /\ y.auto \in BOOLEAN
      BY <1>0, <2>2, <2>3, <2>5 DEF Tracked, Confs
    <3> QED
      BY <1>0, <1>c, <2>2, <2>3, <2>5, <3>1 DEF Alike
  <2> QED
    BY <2>4, <2>5
<1>2. CASE ~WantsLeave(cc) /\ WantsJoint(cc)
  <2>0. PICK a \in BOOLEAN : a = WantsAutoLeave(cc)
    BY DEF WantsAutoLeave
  <2>1. x = EnterJoint(c, a, ops) /\ y = EnterJoint(d, a, ops)
    BY <1>2, <1>a, <1>c, <2>0 DEF Changed
  <2>2. /\ x # Refused => x.auto = a
        /\ ~Joint(c) /\ ApplyAll(c, ops) # Refused <=> x # Refused
        /\ ~Joint(c) => \E j : /\ Tracked(j) /\ j.in = c.in /\ j.out = c.in
                               /\ j.learners = c.learners /\ j.next = c.next
                               /\ ApplyAll(j, ops) # Refused =>
                                    x = [ApplyAll(j, ops) EXCEPT !.auto = a]
    BY <2>1, EnterResult
  <2>3. /\ y # Refused => y.auto = a
        /\ ~Joint(d) /\ ApplyAll(d, ops) # Refused <=> y # Refused
        /\ ~Joint(d) => \E j : /\ Tracked(j) /\ j.in = d.in /\ j.out = d.in
                               /\ j.learners = d.learners /\ j.next = d.next
                               /\ ApplyAll(j, ops) # Refused =>
                                    y = [ApplyAll(j, ops) EXCEPT !.auto = a]
    BY <1>0, <2>1, EnterResult
  <2>4. x = Refused <=> y = Refused
    BY <1>0, <1>b, <2>2, <2>3
  <2>5. ASSUME x # Refused PROVE Alike(x, y) /\ x.auto = y.auto
    <3>1. ~Joint(c) /\ ~Joint(d) /\ ApplyAll(c, ops) # Refused
      BY <1>0, <2>2, <2>5
    <3>2. PICK j : /\ Tracked(j) /\ j.in = c.in /\ j.out = c.in
                   /\ j.learners = c.learners /\ j.next = c.next
                   /\ ApplyAll(j, ops) # Refused => x = [ApplyAll(j, ops) EXCEPT !.auto = a]
      BY <2>2, <3>1
    <3>3. PICK k : /\ Tracked(k) /\ k.in = d.in /\ k.out = d.in
                   /\ k.learners = d.learners /\ k.next = d.next
                   /\ ApplyAll(k, ops) # Refused => y = [ApplyAll(k, ops) EXCEPT !.auto = a]
      BY <2>3, <3>1
    <3>4. Alike(j, k)
      BY <1>0, <3>2, <3>3 DEF Alike
    <3>5. Alike(ApplyAll(j, ops), ApplyAll(k, ops))
      BY <3>2, <3>3, <3>4, ApplyAllAlike
    <3>6. ApplyAll(j, ops) # Refused /\ ApplyAll(k, ops) # Refused
      BY <1>0, <1>b, <3>1, <3>2, <3>3, ApplyAllIn
    <3>7. Tracked(ApplyAll(j, ops)) /\ Tracked(ApplyAll(k, ops))
      BY <3>2, <3>3, <3>6, ApplyAllTracked
    <3>8. Alike(x, ApplyAll(j, ops))
      <4>1. x = [ApplyAll(j, ops) EXCEPT !.auto = a]
        BY <3>2, <3>6
      <4> QED
        BY <3>7, <4>1, AutoTracked DEF Alike
    <3>9. Alike(y, ApplyAll(k, ops))
      <4>1. y = [ApplyAll(k, ops) EXCEPT !.auto = a]
        BY <3>3, <3>6
      <4> QED
        BY <3>7, <4>1, AutoTracked DEF Alike
    <3> QED
      BY <2>2, <2>3, <2>4, <2>5, <3>5, <3>8, <3>9 DEF Alike
  <2> QED
    BY <1>c, <1>r, <2>4, <2>5
<1>3. CASE ~WantsLeave(cc) /\ ~WantsJoint(cc)
  <2>1. x = Simple(c, ops) /\ y = Simple(d, ops)
    BY <1>3, <1>a, <1>c DEF Changed
  <2>2. /\ x # Refused => Tracked(x) /\ ~x.auto /\ Alike(x, ApplyAll(c, ops))
        /\ /\ ~Joint(c) /\ ApplyAll(c, ops) # Refused
           /\ Cardinality(Moved(c.in, ApplyAll(c, ops).in)) <= 1
           <=> x # Refused
    BY <2>1, SimpleResult
  <2>3. /\ y # Refused => Tracked(y) /\ ~y.auto /\ Alike(y, ApplyAll(d, ops))
        /\ /\ ~Joint(d) /\ ApplyAll(d, ops) # Refused
           /\ Cardinality(Moved(d.in, ApplyAll(d, ops).in)) <= 1
           <=> y # Refused
    BY <2>1, SimpleResult
  <2>4. x = Refused <=> y = Refused
    <3>1. ApplyAll(c, ops).in = ApplyAll(d, ops).in
      BY <1>b DEF Alike
    <3> QED
      BY <1>0, <1>b, <2>2, <2>3, <3>1
  <2>5. ASSUME x # Refused PROVE Alike(x, y) /\ x.auto = y.auto
    <3>1. x.auto \in BOOLEAN /\ y.auto \in BOOLEAN
      BY <2>2, <2>3, <2>4, <2>5 DEF Tracked, Confs
    <3> QED
      BY <1>b, <2>2, <2>3, <2>4, <2>5, <3>1 DEF Alike
  <2> QED
    BY <1>c, <1>r, <2>4, <2>5
<1> QED
  BY <1>1, <1>2, <1>3

\* Quorums of a configuration and of the one after a change meet.
LEMMA NeighboursMeet ==
  ASSUME NEW c, Tracked(c), c.in # {}, NEW d, Tracked(d), d.in # {},
         Alike(c, d) \/ Related(c, d),
         NEW P, IsQuorum(c.in, c.out, P), NEW Q, IsQuorum(d.in, d.out, Q)
  PROVE  P \cap Q # {}
<1>1. /\ c.in \in SUBSET Ids /\ c.out \in SUBSET Ids
      /\ d.in \in SUBSET Ids /\ d.out \in SUBSET Ids
  BY ConfFields DEF Tracked
<1>2. /\ IsFiniteSet(c.in) /\ IsFiniteSet(c.out)
      /\ IsFiniteSet(d.in) /\ IsFiniteSet(d.out)
  BY <1>1, IdsAssumption, FS_Subset
<1>3. /\ Majority(c.in, P) /\ Majority(d.in, Q)
      /\ d.out # {} => Majority(d.out, Q)
  BY <1>2, QuorumIsJointMajority
<1>4. CASE c.in = d.in
  BY <1>2, <1>3, <1>4, MajoritiesMeet
<1>5. CASE d.out = c.in
  BY <1>2, <1>3, <1>5, MajoritiesMeet
<1>6. CASE Cardinality(Moved(c.in, d.in)) <= 1
  BY <1>2, <1>3, <1>6, NeighbouringMajoritiesMeet DEF Moved
<1> QED
  BY <1>4, <1>5, <1>6 DEF Alike, Related

\* A won vote is a quorum of those who said yes.
LEMMA WonIsQuorum ==
  ASSUME NEW in, NEW out, NEW yes, NEW no, VoteResult(in, out, yes, no) = "won",
         IsFiniteSet(in), IsFiniteSet(out)
  PROVE  IsQuorum(in, out, yes)
<1>1. MajorityVote(in, yes, no) = "won" /\ MajorityVote(out, yes, no) = "won"
  <2>1. PICK a, b : a = MajorityVote(in, yes, no) /\ b = MajorityVote(out, yes, no)
    OBVIOUS
  <2>2. "won" = IF a = b THEN a ELSE IF "lost" \in {a, b} THEN "lost" ELSE "pending"
    BY <2>1 DEF VoteResult
  <2> QED
    BY <2>1, <2>2
<1>2. ASSUME NEW c, MajorityVote(c, yes, no) = "won", IsFiniteSet(c)
      PROVE  MajorityVote(c, yes, {}) = "won"
  <2>1. c = {} \/ Cardinality(c \cap yes) >= Cardinality(c) \div 2 + 1
    <3> DEFINE q == Cardinality(c) \div 2 + 1
               v == Cardinality(c \cap yes)
               m == Cardinality(c \ (yes \cup no))
    <3>1. "won" = CASE c = {} \/ v >= q -> "won"
                    [] c # {} /\ v < q /\ v + m >= q -> "pending"
                    [] OTHER -> "lost"
      BY <1>2 DEF MajorityVote
    <3> HIDE DEF q, v, m
    <3>2. c = {} \/ v >= q
      BY <3>1
    <3> QED
      BY <3>2 DEF q, v
  <2>c. Cardinality(c) \in Nat /\ Cardinality(c \cap yes) \in Nat
    BY <1>2, FS_CardinalityType, FS_Intersection
  <2>2. c = {} \/ Majority(c, yes)
    BY <2>1, <2>c DEF Majority
  <2> QED
    BY <1>2, <2>2, WonByMajority
<1>3. MajorityVote(in, yes, {}) = "won" /\ MajorityVote(out, yes, {}) = "won"
  BY <1>1, <1>2
<1> QED
  BY <1>3 DEF IsQuorum, VoteResult

\* A quorum has acknowledged the committed index.
LEMMA QuorumAcked ==
  ASSUME NEW c, Tracked(c), c.in # {}, NEW N \in Nat, NEW acked \in [Ids -> 0 .. N],
         NEW i, i = CommittedIndex(c.in, c.out, acked)
  PROVE  /\ i \in Nat /\ IsQuorum(c.in, c.out, AtLeast(acked, i))
         /\ N <= MaxUint64 /\ i < N => ~IsQuorum(c.in, c.out, AtLeast(acked, i + 1))
<1>1. c.in \in SUBSET Ids /\ c.out \in SUBSET Ids /\ MaxUint64 \in Nat
  BY ConfFields, MaxUint64Assumption DEF Tracked
<1>2. IsFiniteSet(c.in) /\ IsFiniteSet(c.out)
  BY <1>1, IdsAssumption, FS_Subset
<1> DEFINE v == MajorityCommitted(c.in, acked)
           w == MajorityCommitted(c.out, acked)
<1>3. /\ v \in 0 .. N
      /\ \A k \in Nat : Majority(c.in, AtLeast(acked, k)) <=> k <= v
  BY <1>1, MajorityCommittedExact
<1>4. /\ c.out = {} => w = MaxUint64
      /\ c.out # {} => /\ w \in 0 .. N
                       /\ \A k \in Nat : Majority(c.out, AtLeast(acked, k)) <=> k <= w
  BY <1>1, MajorityCommittedExact DEF MajorityCommitted
<1>5. i = IF v < w THEN v ELSE w
  BY DEF CommittedIndex
<1> HIDE DEF v, w
<1>6. \A k \in Nat : IsQuorum(c.in, c.out, AtLeast(acked, k)) <=>
                        k <= v /\ (c.out = {} \/ k <= w)
  BY <1>1, <1>2, <1>3, <1>4, QuorumIsJointMajority
<1>7. i \in Nat /\ i + 1 \in Nat /\ i <= v /\ i <= w /\ w \in Nat /\ v \in Nat
  BY <1>1, <1>3, <1>4, <1>5
<1>8. N <= MaxUint64 /\ i < N => ~(i + 1 <= v /\ (c.out = {} \/ i + 1 <= w))
  BY <1>1, <1>3, <1>4, <1>5, <1>7
<1> QED
  BY <1>6, <1>7, <1>8

\* Restore rebuilds a configuration from its ConfState, with nothing matched, in
\* whatever order the members of each set come.
LEMMA RestoreTracked ==
  ASSUME NEW conf, Tracked(conf), conf.in # {}, conf.out = {} => ~conf.auto,
         NEW r, r = Restore(ConfState(conf))
  PROVE  Tracked(r) /\ Alike(r, conf) /\ r.auto = conf.auto /\ Zero(r)
<1>0. /\ Tracked(conf) /\ conf.in # {} /\ (conf.out = {} => ~conf.auto)
      /\ conf.in \in SUBSET Ids /\ conf.out \in SUBSET Ids /\ conf.learners \in SUBSET Ids
      /\ conf.next \in SUBSET Ids /\ conf.auto \in BOOLEAN
      /\ conf.next \subseteq conf.out \ conf.in
      /\ conf.learners \cap (conf.in \cup conf.out) = {}
  BY ConfFields DEF Tracked, Voters
<1>1. PICK cs : cs = ConfState(conf)
  OBVIOUS
<1>2. /\ cs.in = conf.in /\ cs.out = conf.out /\ cs.learners = conf.learners
      /\ cs.next = conf.next /\ cs.auto = conf.auto
  BY <1>1 DEF ConfState
<1>3. PICK u : u = ToIncoming(cs)
  OBVIOUS
<1>4. /\ Orderly(u) /\ Len(u) # 0 /\ u \in Seq(Singles)
      /\ cs.out = {} => u[1].op = "voter"
      /\ Names("remove", u, Len(u)) = cs.out
      /\ Names("voter", u, Len(u)) = cs.in
      /\ Names("learner", u, Len(u)) = cs.learners \cup cs.next
  <2>1. /\ cs.in \in SUBSET Ids /\ cs.out \in SUBSET Ids /\ cs.learners \in SUBSET Ids
        /\ cs.next \in SUBSET Ids /\ cs.in \cap (cs.learners \cup cs.next) = {}
        /\ cs.in # {}
    BY <1>0, <1>2
  <2> QED
    BY <1>3, <2>1, ToIncomingOrderly DEF Orderly
<1>5. Len(u) \in 0 .. Len(u)
  BY <1>4
<1>6. CASE conf.out = {}
  <2>1. Restore(cs) = OneByOne(u)
    BY <1>2, <1>3, <1>6 DEF Restore
  <2>2. PICK f : IsRun(f, Empty, u) /\ OneByOne(u) = f[Len(u)]
    BY <1>2, <1>4, <1>6, OneByOneRun
  <2>e. /\ Empty.in = {} /\ Empty.out = {} /\ Empty.learners = {} /\ Empty.next = {}
        /\ Empty.auto = FALSE
    BY DEF Empty
  <2>3. PICK d : d = f[Len(u)]
    OBVIOUS
  <2>4. Tracked(d) /\ d.out = {} /\ d.auto = FALSE /\ Keeps(Empty, d)
    BY <1>5, <2>2, <2>3, <2>e DEF IsRun
  <2>5. Tracked(Empty)
    BY <1>5, <2>2 DEF IsRun
  <2>6. MembersLeft(f, Empty, u)
    BY <1>4, <2>2, <2>5, <2>e, OrderlyMembers
  <2>7. d.in = conf.in /\ d.learners = conf.learners /\ d.next = {}
    BY <1>0, <1>2, <1>4, <1>5, <1>6, <2>3, <2>6, <2>e DEF MembersLeft
  <2>8. Zero(d)
    BY <2>4 DEF Keeps, Zero, Empty
  <2>9. r = d
    BY <1>1, <2>1, <2>2, <2>3
  <2>10. d.auto = conf.auto
    BY <1>0, <1>6, <2>4
  <2> QED
    BY <1>6, <2>4, <2>7, <2>8, <2>9, <2>10, <1>0 DEF Alike
<1>7. CASE conf.out # {}
  <2>1. PICK c : c = OneByOne(Each("voter", cs.out))
    OBVIOUS
  <2>2. r = EnterJoint(c, cs.auto, u)
    BY <1>1, <1>2, <1>3, <1>7, <2>1 DEF Restore, ToOutgoing
  <2>4. /\ Tracked(c) /\ c.in = conf.out /\ c.out = {} /\ c.learners = {} /\ c.next = {}
        /\ c.auto = FALSE /\ Zero(c)
    BY <1>0, <1>2, <1>7, <2>1, VotersOneByOne
  <2>5. PICK j : /\ Tracked(j) /\ j.in = c.in /\ j.out = c.in
                 /\ j.learners = c.learners /\ j.next = c.next /\ j.trk = c.trk
                 /\ ApplyAll(j, u) # Refused => r = [ApplyAll(j, u) EXCEPT !.auto = cs.auto]
    <3>1. c.in # {} /\ ~Joint(c) /\ cs.auto \in BOOLEAN /\ u \in Seq(Singles)
      BY <1>0, <1>2, <1>4, <1>7, <2>4 DEF Joint
    <3>2. PICK ops \in Seq(Singles), a \in BOOLEAN : ops = u /\ a = cs.auto
      BY <3>1
    <3>3. r = EnterJoint(c, a, ops)
      BY <2>2, <3>2
    <3>4. \E j : /\ Tracked(j) /\ j.in = c.in /\ j.out = c.in
                 /\ j.learners = c.learners /\ j.next = c.next /\ j.trk = c.trk
                 /\ ApplyAll(j, ops) # Refused => r = [ApplyAll(j, ops) EXCEPT !.auto = a]
      BY <2>4, <3>1, <3>3, EnterResult
    <3> QED
      BY <3>2, <3>4
  <2>6. PICK f : /\ IsRun(f, j, u)
                 /\ ApplyAll(j, u) = IF f[Len(u)].in = {} THEN Refused ELSE f[Len(u)]
    <3>1. PICK ops \in Seq(Singles) : ops = u
      BY <1>4
    <3>2. \E f : /\ IsRun(f, j, ops)
                 /\ ApplyAll(j, ops) = IF f[Len(ops)].in = {} THEN Refused ELSE f[Len(ops)]
      BY <2>5, ApplyAllRun
    <3> QED
      BY <3>1, <3>2
  <2>7. MembersLeft(f, j, u)
    BY <1>4, <2>4, <2>5, <2>6, OrderlyMembers
  <2>8. PICK d : d = f[Len(u)]
    OBVIOUS
  <2>9. Tracked(d) /\ d.out = conf.out /\ Keeps(j, d)
    BY <1>5, <2>4, <2>5, <2>6, <2>8 DEF IsRun
  <2>10. /\ d.in = (j.in \ (cs.out \cup (cs.learners \cup cs.next))) \cup cs.in
         /\ d.learners = (cs.learners \cup cs.next) \ j.out
         /\ d.next = (cs.learners \cup cs.next) \cap j.out
    BY <1>4, <1>5, <2>7, <2>8 DEF MembersLeft
  <2>11. d.in = conf.in /\ d.learners = conf.learners /\ d.next = conf.next
    BY <1>0, <1>2, <2>4, <2>5, <2>10
  <2>12. ApplyAll(j, u) = d /\ d # Refused
    BY <1>0, <2>6, <2>8, <2>11 DEF Refused, Empty
  <2>13. r = [d EXCEPT !.auto = cs.auto]
    BY <2>5, <2>12
  <2>14. /\ Tracked(r) /\ r.in = d.in /\ r.out = d.out /\ r.learners = d.learners
         /\ r.next = d.next /\ r.auto = conf.auto /\ r.trk = d.trk
    BY <1>0, <1>2, <2>9, <2>13, AutoTracked
  <2>15. Zero(r)
    BY <2>4, <2>5, <2>9, <2>14 DEF Keeps, Zero
  <2> QED
    BY <2>9, <2>11, <2>14, <2>15 DEF Alike
<1> QED
  BY <1>6, <1>7

=============================================================================
