----------------------------- MODULE RaftProofs -----------------------------
(***************************************************************************)
(* Proofs about Raft with synchronous storage, for any set of nodes, any   *)
(* setup, and any schedule: what the harness's safety check asserts.       *)
(*                                                                         *)
(* The state forgets what the argument needs: which logs led which terms,  *)
(* who voted on what grounds, what was acknowledged, and who agreed to a   *)
(* commitment.  A history h and each node's view of its own votes and      *)
(* acknowledgements, in memory (M) and on disk (D), remember it; the       *)
(* invariant says that there is such a history.                            *)
(***************************************************************************)
EXTENDS Raft, ConfChangeProofs, SequenceTheorems

-----------------------------------------------------------------------------
(* Logs. *)

Entries == [term : Nat, cc : ConfChanges \cup {Normal}]
Logs    == Seq(Entries)

\* The same entries up to k.
Same(X, Y, k) == \A i \in 1 .. k : X[i] = Y[i]

LastAt(X, k) == [term |-> TermAt(X, k), index |-> k]

\* X[a + 1 .. b] holds one configuration change at most.
OneConf(X, a, b) ==
  \A p, q \in a + 1 .. b : IsConf(X[p]) /\ IsConf(X[q]) => p = q

\* The configurations along a log, none of them refused.
Good(c) == Tracked(c) /\ c.in # {} /\ (c.out = {} => ~c.auto)

Bootstrapped == OneByOne(Each("voter", Boot))

IsWalk(f, X, a) ==
  /\ f[0] = Bootstrapped
  /\ \A k \in 1 .. a : f[k] = IF IsConf(X[k]) THEN Changed(f[k - 1], X[k].cc) ELSE f[k - 1]
  /\ \A k \in 0 .. a : Good(f[k])

\* c is the configuration after X[1 .. a], whatever is matched.
ConfOk(X, a, c) ==
  /\ Good(c)
  /\ \E f : IsWalk(f, X, a) /\ Alike(f[a], c) /\ f[a].auto = c.auto

ReadIds == UNION {Setups[name].reads : name \in DOMAIN Setups}

NodeType ==
  [term : Nat \ {0}, vote : Ids \cup {None}, state : {"follower", "pre", "candidate", "leader"},
   lead : Ids \cup {None}, log : Logs, commit : Nat, applied : Nat, conf : Confs,
   yes : SUBSET Ids, no : SUBSET Ids, pending : Nat, transferee : Ids \cup {None},
   waiting : Seq(ReadIds), queue : Seq([id : ReadIds, index : Nat]), confirmed : Nat,
   acks : [Ids -> Nat]]

ConfStates == [in : SUBSET Ids, out : SUBSET Ids, learners : SUBSET Ids, next : SUBSET Ids,
               auto : BOOLEAN]
DiskType ==
  [term : Nat \ {0}, vote : Ids \cup {None}, log : Logs, commit : Nat, applied : Nat, cs : ConfStates]

Lasts == [term : Nat, index : Nat]
Msgs ==
  [type : {"Vote", "PreVote"}, term : Nat, from : Ids, to : SUBSET Ids, last : Lasts]
  \cup [type : {"VoteResp", "PreVoteResp"}, term : Nat, from : Ids, to : SUBSET Ids,
        reject : BOOLEAN]
  \cup [type : {"AppResp"}, term : Nat, from : Ids, to : SUBSET Ids, index : Nat]
  \cup [type : {"Log"}, term : Nat, from : Ids, to : SUBSET Ids, log : Logs, commit : Nat]
  \cup [type : {"Beat"}, term : Nat, from : Ids, to : SUBSET Ids, commit : Nat, ctx : Nat]
  \cup [type : {"BeatResp"}, term : Nat, from : Ids, to : SUBSET Ids, ctx : Nat]
  \cup [type : {"TimeoutNow"}, term : Nat, from : Ids, to : SUBSET Ids]

-----------------------------------------------------------------------------
(* The history: the terms won; for each of them who won it, the log it     *)
(* started from (its first base entries), the configuration it was elected *)
(* in and its voters; the leader's log; and the commitments, each with the *)
(* configuration it was counted in and the nodes that had acknowledged it. *)

Elections == [who : Ids, base : Nat, app : Nat, conf : Confs, q : SUBSET Ids]
Certs     == [term : Nat, index : Nat, app : Nat, conf : Confs, q : SUBSET Ids]
Histories == [won : SUBSET Nat, el : [Nat -> Elections], log : [Nat -> Logs], certs : SUBSET Certs]

\* A vote: upto is the latest term whose leader may have written to the log that
\* it was given on.
Votes == [term : Nat, for : Ids, log : Logs, last : Lasts, upto : Nat]
Acks  == [term : Nat, index : Nat]
Views == [votes : SUBSET Votes, acks : SUBSET Acks]

\* Every entry is the leader's of its term, with everything before it.
Src(h, X) ==
  \A j \in 1 .. Len(X) :
    LET t == X[j].term IN t \in h.won /\ j <= Len(h.log[t]) /\ Same(X, h.log[t], j)

Has(h, X, t, k) == k <= Len(X) /\ Same(X, h.log[t], k)

\* The leader of term T began without the first k entries of the leader of t.
Lost(h, T, t, k) == h.el[T].base < k \/ ~Same(h.log[T], h.log[t], k)

\* X has the first k entries of the leader of t, but for those that a leader
\* after it, of a term up to u, began without.
KeptIn(h, X, t, k, u) ==
  \A j \in 1 .. k :
    \/ Has(h, X, t, j)
    \/ \E T \in h.won : t < T /\ T <= u /\ Lost(h, T, t, j)

UpToDate(X, last) ==
  \/ last.term > LastTerm(X)
  \/ last.term = LastTerm(X) /\ last.index >= Len(X)

\* X[1 .. k] was committed by term t, and every change of the configuration in
\* it by nodes that had applied all those before it.
Committed(h, t, X, k) ==
  /\ k <= Len(X)
  /\ k > 0 => \E c \in h.certs : c.term <= t /\ k <= c.index /\ Same(X, h.log[c.term], k)
  /\ \A p \in 1 .. k : IsConf(X[p]) =>
       \E c \in h.certs : /\ c.term <= t /\ p <= c.index /\ Same(X, h.log[c.term], p)
                          /\ c.app < p /\ OneConf(X, c.app, p)

HasVoted(v, t, n) == \E r \in v.votes : r.term = t /\ r.for = n
HasAcked(v, t, k) == \E a \in v.acks : a.term = t /\ a.index >= k

\* who campaigns for term t with the first b entries of X, in the configuration
\* conf after the first app of them, and the nodes of q vote for it, on logs that
\* leaders up to term w may have written to.
Campaigned(h, D, who, t, X, b, app, conf, q, w) ==
  /\ b <= Len(X) /\ Src(h, X)
  /\ \A j \in 1 .. b : X[j].term < t
  /\ app <= b /\ ConfOk(X, app, conf) /\ OneConf(X, app, b)
  /\ Committed(h, t - 1, X, app)
  /\ IsQuorum(conf.in, conf.out, q)
  /\ \A v \in q : \E r \in D[v].votes :
       r.term = t /\ r.for = who /\ r.last = LastAt(X, b) /\ r.upto <= w

ElectionOk(h, D, t) ==
  LET e == h.el[t] X == h.log[t] IN
  /\ t > BaseTerm
  /\ e.base < Len(X)
  /\ \A j \in e.base + 1 .. Len(X) : X[j].term = t
  /\ Campaigned(h, D, e.who, t, X, e.base, e.app, e.conf, e.q, t - 1)

CertOk(h, D, c) ==
  LET X == h.log[c.term] IN
  /\ c.term \in h.won
  /\ c.index \in h.el[c.term].base + 1 .. Len(X)
  /\ c.app <= c.index /\ ConfOk(X, c.app, c.conf) /\ OneConf(X, c.app, c.index)
  /\ Committed(h, c.term, X, c.app)
  /\ IsQuorum(c.conf.in, c.conf.out, c.q)
  /\ \A v \in c.q : HasAcked(D[v], c.term, c.index)

VoteOk(h, r) ==
  /\ Src(h, r.log) /\ LastTerm(r.log) < r.term /\ UpToDate(r.log, r.last)
  /\ r.upto < r.term \/ (r.upto = r.term /\ r.term \in h.won)

\* A node's votes and acknowledgements: one vote to a term, and what was
\* acknowledged before a vote was in the log that was voted for.
RecordsOk(h, v) ==
  /\ v \in Views
  /\ \A r \in v.votes : VoteOk(h, r)
  /\ \A r, q \in v.votes : r.term = q.term => r = q
  /\ \A a \in v.acks :
       /\ a.term \in h.won /\ a.index <= Len(h.log[a.term])
       /\ \A r \in v.votes : r.term > a.term => KeptIn(h, r.log, a.term, a.index, r.upto)

\* What a node has of them, in memory or on disk.
ViewOk(h, s, v) ==
  /\ RecordsOk(h, v)
  /\ Src(h, s.log) /\ \A j \in 1 .. Len(s.log) : s.log[j].term <= s.term
  /\ \A r \in v.votes : r.term <= s.term /\ (r.term = s.term => r.for = s.vote)
  /\ s.vote # None => \E r \in v.votes : r.term = s.term
  /\ \A a \in v.acks : a.term <= s.term /\ KeptIn(h, s.log, a.term, a.index, s.term)
  /\ Committed(h, s.term, s.log, s.commit)
  /\ OneConf(s.log, s.commit, Len(s.log))

HistOk(h, D) ==
  /\ h \in Histories
  /\ \A t \in h.won : ElectionOk(h, D, t)
  /\ \A c \in h.certs : CertOk(h, D, c)

CandidateOk(h, M, D, n, s, d) ==
  /\ s.vote = n
  /\ \A j \in 1 .. Len(s.log) : s.log[j].term < s.term
  /\ Committed(h, s.term - 1, s.log, s.commit)
  /\ d.term = s.term => d.log = s.log
  /\ s.term \in h.won => h.el[s.term].who # n
  /\ \A v \in s.yes : HasVoted(D[v], s.term, n)
  /\ \A v \in Ids : \A r \in M[v].votes :
       r.term = s.term /\ r.for = n => r.last = LastAt(s.log, Len(s.log))

LeaderOk(h, D, n, s) ==
  /\ s.term \in h.won /\ h.el[s.term].who = n /\ h.log[s.term] = s.log
  /\ \A p \in 1 .. Len(s.log) : IsConf(s.log[p]) => p <= s.pending
  /\ OneConf(s.log, s.applied, Len(s.log))
  /\ \A id \in DOMAIN s.conf.trk :
       s.conf.trk[id].match = 0 \/ HasAcked(D[id], s.term, s.conf.trk[id].match)

NodeOk(h, M, D, n, s, d) ==
  /\ d.term <= s.term
  /\ D[n].votes \subseteq M[n].votes /\ D[n].acks \subseteq M[n].acks
  /\ s.applied <= s.commit /\ d.applied <= d.commit
  /\ s.conf = Refused \/ ConfOk(s.log, s.applied, s.conf)
  /\ d.cs = ConfState(Refused) \/ \E c : ConfOk(d.log, d.applied, c) /\ d.cs = ConfState(c)
  /\ s.state \in {"pre", "candidate"} => ~HasUnappliedConfChanges(s)
  /\ s.state = "candidate" => CandidateOk(h, M, D, n, s, d)
  /\ s.state = "leader" => LeaderOk(h, D, n, s)
  /\ \A t \in h.won : h.el[t].who = n => t <= d.term
  /\ \A v \in Ids \ {n} : \A r \in M[v].votes : r.for = n => r.term <= d.term

\* A message of a node whose state is s and whose view is v.
MsgOk(h, D, s, v, m) ==
  /\ m.type = "Vote" => m.term <= s.term /\ m.last.term < m.term
  /\ m.type = "VoteResp" /\ ~m.reject => \A id \in m.to : HasVoted(v, m.term, id)
  /\ m.type = "AppResp" => m.index = 0 \/ HasAcked(v, m.term, m.index)
  /\ m.type = "Log" =>
       /\ m.term \in h.won
       /\ Len(m.log) <= Len(h.log[m.term]) /\ Same(m.log, h.log[m.term], Len(m.log))
       /\ Committed(h, m.term, m.log, MinOf(m.commit, Len(m.log)))
       /\ OneConf(m.log, MinOf(m.commit, Len(m.log)), Len(m.log))
  /\ m.type = "Beat" =>
       /\ m.term \in h.won
       /\ \A id \in m.to : m.commit = 0 \/ HasAcked(D[id], m.term, m.commit)
       /\ Committed(h, m.term, h.log[m.term], m.commit)

\* A request for a vote shows the candidate's log.
AsksFor(n, s, msgs) ==
  s.state = "candidate" =>
    \A m \in msgs : m.type = "Vote" /\ m.from = n /\ m.term = s.term =>
                      m.last = LastAt(s.log, Len(s.log))

\* Node n with its disk d, the messages w it holds back, and those sent.
ActorOk(h, M, D, n, s, d, w, sent) ==
  /\ s \in NodeType /\ d \in DiskType /\ w \in SUBSET Msgs
  /\ ViewOk(h, s, M[n]) /\ ViewOk(h, d, D[n])
  /\ NodeOk(h, M, D, n, s, d)
  /\ \A m \in w : m.from = n /\ MsgOk(h, D, s, M[n], m)
  /\ AsksFor(n, s, w \cup sent)

GhostsOk(h, M, D) == HistOk(h, D) /\ M \in [Ids -> Views] /\ D \in [Ids -> Views]

\* The cluster agrees with a history and the nodes' views.
Agrees(h, M, D) ==
  /\ GhostsOk(h, M, D)
  /\ \A n \in Ids : ActorOk(h, M, D, n, node[n], disk[n], held[n], net)
  /\ \A m \in net : m \in Msgs /\ MsgOk(h, D, disk[m.from], D[m.from], m)

\* So does the cluster in which node n has got to s, d and w, and sent is sent.
AgreesAt(h, M, D, n, s, d, w, sent) ==
  /\ GhostsOk(h, M, D)
  /\ ActorOk(h, M, D, n, s, d, w, sent)
  /\ \A l \in Ids \ {n} : ActorOk(h, M, D, l, node[l], disk[l], held[l], sent)
  /\ \A m \in sent : m \in Msgs /\ MsgOk(h, D, IF m.from = n THEN d ELSE disk[m.from], D[m.from], m)
-----------------------------------------------------------------------------
(* Configurations along a log. *)

\* A nonempty bounded set of natural numbers has a greatest element.
LEMMA GreatestElement ==
  ASSUME NEW n \in Nat, NEW T \in SUBSET (0 .. n), T # {}
  PROVE  \E m \in T : \A k \in T : k <= m
<1> DEFINE R == {n - k : k \in T}
<1>1. R \in SUBSET Nat /\ R # {}
  <2>1. \A k \in T : n - k \in Nat
    OBVIOUS
  <2>2. PICK k \in T : TRUE
    OBVIOUS
  <2>3. n - k \in R
    OBVIOUS
  <2> QED
    BY <2>1, <2>3
<1> HIDE DEF R
<1>2. PICK m \in R : \A k \in R : m <= k
  BY <1>1, LeastElement
<1>3. PICK k \in T : m = n - k
  BY DEF R
<1>4. ASSUME NEW j \in T PROVE j <= k
  <2>1. n - j \in R
    BY DEF R
  <2>2. n - k <= n - j
    BY <1>2, <1>3, <2>1
  <2> QED
    BY <2>2
<1> QED
  BY <1>3, <1>4

\* The walk along a log is determined by the log.
LEMMA WalkUnique ==
  ASSUME NEW f, NEW g, NEW X, NEW Y, NEW a \in Nat, NEW b \in Nat, a <= b,
         IsWalk(f, X, a), IsWalk(g, Y, b), Same(X, Y, a)
  PROVE  \A k \in 0 .. a : f[k] = g[k]
<1> DEFINE T == {k \in 0 .. a : f[k] = g[k]}
<1>1. 0 \in T
  BY DEF IsWalk
<1>2. ASSUME NEW k \in 1 .. a, k - 1 \in T PROVE k \in T
  <2>1. k \in 1 .. b /\ X[k] = Y[k] /\ f[k - 1] = g[k - 1] /\ k \in 0 .. a
    BY <1>2 DEF Same
  <2> QED
    BY <2>1 DEF IsWalk
<1> HIDE DEF T
<1>3. \A k \in 0 .. a : k \in T
  BY <1>1, <1>2, UpTo, Zenon
<1> QED
  BY <1>3 DEF T

\* Where no change is on the way the walk stays.
LEMMA WalkStays ==
  ASSUME NEW f, NEW X, NEW a \in Nat, NEW i \in Nat, NEW j \in Nat, i <= j, j <= a,
         IsWalk(f, X, a), \A p \in i + 1 .. j : ~IsConf(X[p])
  PROVE  f[j] = f[i]
<1> DEFINE T == {k \in 0 .. j - i : f[i + k] = f[i]}
<1>1. 0 \in T
  OBVIOUS
<1>2. ASSUME NEW k \in 1 .. j - i, k - 1 \in T PROVE k \in T
  <2>1. i + k \in 1 .. a /\ i + k \in i + 1 .. j /\ i + (k - 1) = (i + k) - 1
    OBVIOUS
  <2>2. f[i + k] = f[(i + k) - 1]
    BY <2>1 DEF IsWalk
  <2>3. f[i + (k - 1)] = f[i]
    BY <1>2
  <2> QED
    BY <2>1, <2>2, <2>3
<1> HIDE DEF T
<1>3. j - i \in Nat
  OBVIOUS
<1>4. \A k \in 0 .. j - i : k \in T
  BY <1>1, <1>2, <1>3, UpTo, Zenon
<1>5. j - i \in T /\ i + (j - i) = j
  BY <1>3, <1>4
<1> QED
  BY <1>5 DEF T

\* Changes of the log are configuration changes.
LEMMA ChangeTyping ==
  ASSUME NEW X \in Logs, NEW p \in 1 .. Len(X), IsConf(X[p])
  PROVE  X[p].cc \in ConfChanges /\ X[p].cc.changes \in Seq(Singles)
<1>1. X[p] \in Entries
  BY DEF Logs
<1> QED
  BY <1>1 DEF Entries, IsConf, ConfChanges

\* The configuration depends on the log up to where it was applied.
LEMMA ConfOkSame ==
  ASSUME NEW X, NEW Y, NEW a \in Nat, Same(X, Y, a), NEW c, ConfOk(X, a, c)
  PROVE  ConfOk(Y, a, c)
<1>1. PICK f : IsWalk(f, X, a) /\ Alike(f[a], c) /\ f[a].auto = c.auto
  BY DEF ConfOk
<1>2. \A k \in 1 .. a : X[k] = Y[k]
  BY DEF Same
<1>3. IsWalk(f, Y, a)
  BY <1>1, <1>2 DEF IsWalk
<1> QED
  BY <1>1, <1>3 DEF ConfOk

\* Quorums of two configurations with one change between them meet.
LEMMA Adjacent ==
  ASSUME NEW X \in Logs, NEW a \in Nat, NEW b \in Nat, a <= b, b <= Len(X), OneConf(X, a, b),
         NEW c, ConfOk(X, a, c), NEW d, ConfOk(X, b, d),
         NEW P, IsQuorum(c.in, c.out, P), NEW Q, IsQuorum(d.in, d.out, Q)
  PROVE  P \cap Q # {}
<1>1. PICK f : IsWalk(f, X, a) /\ Alike(f[a], c)
  BY DEF ConfOk
<1>2. PICK g : IsWalk(g, X, b) /\ Alike(g[b], d)
  BY DEF ConfOk
<1>3. f[a] = g[a]
  <2>1. Same(X, X, a)
    BY DEF Same
  <2>2. \A k \in 0 .. a : f[k] = g[k]
    BY <1>1, <1>2, <2>1, WalkUnique
  <2> QED
    BY <2>2
<1>4. Alike(g[a], g[b]) \/ Related(g[a], g[b])
  <2>1. CASE \A p \in a + 1 .. b : ~IsConf(X[p])
    <3>1. g[b] = g[a]
      BY <1>2, <2>1, WalkStays
    <3> QED
      BY <3>1 DEF Alike
  <2>2. ASSUME NEW p \in a + 1 .. b, IsConf(X[p]) PROVE Related(g[a], g[b])
    <3>0. p \in Nat /\ p - 1 \in Nat /\ a <= p - 1 /\ p - 1 <= b /\ p <= b /\ p \in 1 .. b
          /\ p - 1 \in 0 .. b /\ p \in 1 .. Len(X)
      OBVIOUS
    <3>1. \A q \in a + 1 .. p - 1 : ~IsConf(X[q])
      BY <2>2 DEF OneConf
    <3>2. \A q \in p + 1 .. b : ~IsConf(X[q])
      BY <2>2 DEF OneConf
    <3>3. g[p - 1] = g[a]
      BY <1>2, <3>0, <3>1, WalkStays
    <3>4. g[b] = g[p]
      BY <1>2, <3>0, <3>2, WalkStays
    <3>5. g[p] = Changed(g[p - 1], X[p].cc) /\ Good(g[p]) /\ Good(g[p - 1])
      BY <1>2, <2>2, <3>0 DEF IsWalk
    <3>6. X[p].cc.changes \in Seq(Singles)
      BY <2>2, <3>0, ChangeTyping
    <3>7. g[p] # Refused
      BY <3>5 DEF Good, Refused, Empty
    <3>8. Related(g[p - 1], g[p])
      BY <3>5, <3>6, <3>7, ChangedResult DEF Good
    <3> QED
      BY <3>3, <3>4, <3>8
  <2> QED
    BY <2>1, <2>2
<1>5. Good(g[a]) /\ Good(g[b])
  BY <1>2 DEF IsWalk
<1>6. IsQuorum(g[a].in, g[a].out, P) /\ IsQuorum(g[b].in, g[b].out, Q)
  BY <1>1, <1>2, <1>3 DEF Alike
<1> QED
  BY <1>4, <1>5, <1>6, NeighboursMeet DEF Good
-----------------------------------------------------------------------------
(* Logs of a history. *)

\* Logs and their entries.
LEMMA LogFacts ==
  ASSUME NEW X \in Logs
  PROVE  /\ Len(X) \in Nat /\ DOMAIN X = 1 .. Len(X)
         /\ \A j \in 1 .. Len(X) : X[j] \in Entries /\ X[j].term \in Nat
         /\ LastTerm(X) \in Nat
         /\ \A k \in 0 .. Len(X) : TermAt(X, k) \in Nat
<1>1. Len(X) \in Nat /\ DOMAIN X = 1 .. Len(X) /\ \A j \in 1 .. Len(X) : X[j] \in Entries
  BY DEF Logs
<1>2. \A j \in 1 .. Len(X) : X[j].term \in Nat
  BY <1>1 DEF Entries
<1>3. \A k \in 0 .. Len(X) : TermAt(X, k) \in Nat
  BY <1>1, <1>2 DEF TermAt, BaseTerm
<1>4. Len(X) \in 0 .. Len(X)
  BY <1>1
<1> QED
  BY <1>1, <1>2, <1>3, <1>4 DEF LastTerm

\* The terms won and their leaders.
LEMMA ElectionFacts ==
  ASSUME NEW h, NEW D, HistOk(h, D), NEW t \in h.won
  PROVE  /\ t \in Nat /\ t > 1 /\ h.log[t] \in Logs /\ Src(h, h.log[t])
         /\ h.el[t] \in Elections /\ h.el[t].base \in Nat /\ h.el[t].who \in Ids
         /\ h.el[t].base < Len(h.log[t]) /\ Len(h.log[t]) \in Nat
         /\ \A j \in 1 .. Len(h.log[t]) :
              /\ h.log[t][j].term <= t /\ h.log[t][j].term \in Nat
              /\ h.log[t][j].term = t <=> j > h.el[t].base
<1>1. h.won \subseteq Nat /\ h.el \in [Nat -> Elections] /\ h.log \in [Nat -> Logs]
  BY DEF HistOk, Histories
<1>2. t \in Nat /\ h.log[t] \in Logs /\ h.el[t] \in Elections
  BY <1>1
<1>3. h.el[t].base \in Nat /\ h.el[t].who \in Ids
  BY <1>2 DEF Elections
<1>4. /\ t > 1 /\ h.el[t].base < Len(h.log[t]) /\ Src(h, h.log[t])
      /\ \A j \in h.el[t].base + 1 .. Len(h.log[t]) : h.log[t][j].term = t
      /\ \A j \in 1 .. h.el[t].base : h.log[t][j].term < t
  BY DEF HistOk, ElectionOk, Campaigned, BaseTerm
<1>5. /\ Len(h.log[t]) \in Nat
      /\ \A j \in 1 .. Len(h.log[t]) : h.log[t][j].term \in Nat
  BY <1>2, LogFacts
<1>6. ASSUME NEW j \in 1 .. Len(h.log[t])
      PROVE  /\ h.log[t][j].term <= t
             /\ h.log[t][j].term = t <=> j > h.el[t].base
  <2>1. CASE j \in h.el[t].base + 1 .. Len(h.log[t])
    BY <1>2, <1>3, <1>4, <2>1
  <2>2. CASE j \in 1 .. h.el[t].base
    <3>1. h.log[t][j].term < t /\ h.log[t][j].term \in Nat /\ ~(j > h.el[t].base)
      BY <1>3, <1>4, <1>5, <2>2
    <3> QED
      BY <1>2, <3>1
  <2> QED
    BY <1>3, <1>5, <2>1, <2>2
<1> QED
  BY <1>2, <1>3, <1>4, <1>5, <1>6

\* The commitments.
LEMMA CertFacts ==
  ASSUME NEW h, NEW D, HistOk(h, D), NEW c \in h.certs
  PROVE  /\ c.term \in h.won /\ c.term \in Nat /\ c.index \in Nat /\ c.app \in Nat
         /\ h.el[c.term].base < c.index /\ c.index <= Len(h.log[c.term])
         /\ c.app <= c.index /\ c.q \in SUBSET Ids
<1>1. c \in Certs /\ CertOk(h, D, c)
  BY DEF HistOk, Histories
<1>2. c.term \in h.won /\ c.index \in h.el[c.term].base + 1 .. Len(h.log[c.term])
      /\ c.app <= c.index
  BY <1>1 DEF CertOk
<1>3. c.term \in Nat /\ c.index \in Nat /\ c.app \in Nat /\ c.q \in SUBSET Ids
  BY <1>1 DEF Certs
<1>4. h.el[c.term].base \in Nat /\ Len(h.log[c.term]) \in Nat
  BY <1>2, ElectionFacts
<1> QED
  BY <1>2, <1>3, <1>4

\* The terms of a log's entries do not decrease, and are all above the base.
LEMMA TermsSorted ==
  ASSUME NEW h, NEW D, HistOk(h, D), NEW X \in Logs, Src(h, X)
  PROVE  /\ \A j \in 1 .. Len(X) : X[j].term \in h.won /\ X[j].term > 1 /\ j > h.el[X[j].term].base
         /\ \A i, j \in 1 .. Len(X) : i <= j => X[i].term <= X[j].term
         /\ \A i \in 1 .. Len(X) : X[i].term <= LastTerm(X)
         /\ LastTerm(X) >= 1
         /\ LastTerm(X) > 1 => Len(X) > 0
<1>1. ASSUME NEW j \in 1 .. Len(X)
      PROVE  /\ X[j].term \in h.won /\ X[j].term > 1 /\ j > h.el[X[j].term].base
             /\ \A i \in 1 .. j : X[i].term <= X[j].term
  <2>1. PICK t : t = X[j].term
    OBVIOUS
  <2>2. t \in h.won /\ j <= Len(h.log[t]) /\ Same(X, h.log[t], j)
    BY <2>1 DEF Src
  <2>3. \A i \in 1 .. j : X[i] = h.log[t][i]
    BY <2>2 DEF Same
  <2>4. /\ t \in Nat /\ t > 1 /\ Len(h.log[t]) \in Nat
        /\ \A i \in 1 .. Len(h.log[t]) : h.log[t][i].term <= t /\ (h.log[t][i].term = t <=> i > h.el[t].base)
    BY <2>2, ElectionFacts
  <2>5. j \in Nat /\ j >= 1 /\ j \in 1 .. j /\ j \in 1 .. Len(h.log[t])
    BY <2>2, <2>4, LogFacts
  <2>6. X[j] = h.log[t][j]
    BY <2>3, <2>5
  <2>7. j > h.el[t].base
    BY <2>1, <2>4, <2>5, <2>6
  <2>8. ASSUME NEW i \in 1 .. j PROVE X[i].term <= t
    <3>1. i \in 1 .. Len(h.log[t])
      BY <2>5, <2>4
    <3> QED
      BY <2>3, <2>4, <3>1
  <2> QED
    BY <2>1, <2>2, <2>4, <2>7, <2>8
<1>2. Len(X) \in Nat
  BY LogFacts
<1>3. \A i, j \in 1 .. Len(X) : i <= j => i \in 1 .. j
  BY <1>2
<1>4. CASE Len(X) = 0
  <2>1. LastTerm(X) = 1
    BY <1>4 DEF LastTerm, TermAt, BaseTerm
  <2> QED
    BY <1>1, <1>3, <1>4, <2>1
<1>5. CASE Len(X) > 0
  <2>1. LastTerm(X) = X[Len(X)].term /\ Len(X) \in 1 .. Len(X)
    BY <1>2, <1>5 DEF LastTerm, TermAt
  <2>2. \A i \in 1 .. Len(X) : i \in 1 .. Len(X) /\ i <= Len(X)
    BY <1>2
  <2>3. \A i \in 1 .. Len(X) : X[i].term <= LastTerm(X)
    BY <1>1, <1>3, <2>1, <2>2
  <2>4. LastTerm(X) > 1 /\ LastTerm(X) \in Nat
    BY <1>1, <2>1, LogFacts
  <2> QED
    BY <1>1, <1>3, <1>5, <2>3, <2>4
<1> QED
  BY <1>2, <1>4, <1>5

\* Log matching: two logs with the same term at an index agree up to it.
LEMMA LogMatching ==
  ASSUME NEW h, NEW X, Src(h, X), NEW Y, Src(h, Y),
         NEW j, j \in 1 .. Len(X), j \in 1 .. Len(Y), X[j].term = Y[j].term
  PROVE  Same(X, Y, j)
BY DEF Src, Same

\* A log that no leader after t may have written to has what the leader of t has
\* acknowledged.
LEMMA KeptHas ==
  ASSUME NEW h, h.won \subseteq Nat, NEW X \in Logs, NEW t \in Nat, NEW k \in Nat, NEW u \in Nat,
         KeptIn(h, X, t, k, u), u <= t
  PROVE  Has(h, X, t, k)
<1>1. CASE k = 0
  BY <1>1, LogFacts DEF Has, Same
<1>2. CASE k > 0
  BY <1>2 DEF KeptIn
<1> QED
  BY <1>1, <1>2

\* What was kept by one term is by a later one.
LEMMA KeptLater ==
  ASSUME NEW h, h.won \subseteq Nat, NEW X, NEW t, NEW k, NEW u \in Nat, NEW w \in Nat,
         KeptIn(h, X, t, k, u), \A T \in h.won : T <= u => T <= w
  PROVE  KeptIn(h, X, t, k, w)
BY DEF KeptIn

\* A history extended: the elections stay, the leaders' logs grow at their ends,
\* and no commitment is taken back.
Ext(h, g) ==
  /\ g \in Histories /\ h.won \subseteq g.won /\ h.certs \subseteq g.certs
  /\ \A t \in h.won : /\ g.el[t] = h.el[t]
                      /\ Len(h.log[t]) <= Len(g.log[t])
                      /\ Same(h.log[t], g.log[t], Len(h.log[t]))

\* A prefix of what is the same is the same.
LEMMA SameUpTo ==
  ASSUME NEW X, NEW Y, NEW k \in Nat, NEW j \in Nat, j <= k, Same(X, Y, k)
  PROVE  Same(X, Y, j) /\ Same(Y, X, j)
BY DEF Same

\* Sameness is transitive.
LEMMA SameTrans ==
  ASSUME NEW X, NEW Y, NEW Z, NEW k, Same(X, Y, k), Same(Y, Z, k)
  PROVE  Same(X, Z, k)
BY DEF Same

\* What has to do with changes only depends on the entries.
LEMMA OneConfSame ==
  ASSUME NEW X, NEW Y, NEW a \in Nat, NEW b \in Nat, Same(X, Y, b), OneConf(X, a, b)
  PROVE  OneConf(Y, a, b)
<1>1. \A p \in a + 1 .. b : p \in 1 .. b
  OBVIOUS
<1> QED
  BY <1>1 DEF OneConf, Same

\* One change at most in a range is one at most in a part of it.
LEMMA OneConfWithin ==
  ASSUME NEW X, NEW a \in Nat, NEW b \in Nat, NEW i \in Nat, NEW j \in Nat, a <= i, j <= b,
         OneConf(X, a, b)
  PROVE  OneConf(X, i, j)
<1>1. \A p \in i + 1 .. j : p \in a + 1 .. b
  OBVIOUS
<1> QED
  BY <1>1 DEF OneConf

\* What was committed was committed up to any index before it, and by any
\* later term.
LEMMA CommittedUpTo ==
  ASSUME NEW h, NEW D, HistOk(h, D), NEW t \in Nat, NEW u \in Nat, t <= u, NEW X, NEW k \in Nat,
         NEW j \in Nat, j <= k, Committed(h, t, X, k), Len(X) \in Nat
  PROVE  Committed(h, u, X, j)
<1>1. j <= Len(X)
  BY DEF Committed
<1>2. ASSUME j > 0
      PROVE  \E c \in h.certs : c.term <= u /\ j <= c.index /\ Same(X, h.log[c.term], j)
  <2>1. PICK c \in h.certs : c.term <= t /\ k <= c.index /\ Same(X, h.log[c.term], k)
    BY <1>2 DEF Committed
  <2>2. c.term \in Nat /\ c.index \in Nat
    BY CertFacts
  <2>3. Same(X, h.log[c.term], j)
    BY <2>1, SameUpTo
  <2>4. c.term <= u /\ j <= c.index
    BY <2>1, <2>2
  <2> QED
    BY <2>3, <2>4
<1>3. ASSUME NEW p \in 1 .. j, IsConf(X[p])
      PROVE  \E c \in h.certs : /\ c.term <= u /\ p <= c.index /\ Same(X, h.log[c.term], p)
                                /\ c.app < p /\ OneConf(X, c.app, p)
  <2>0. p \in 1 .. k
    OBVIOUS
  <2>1. PICK c \in h.certs : /\ c.term <= t /\ p <= c.index /\ Same(X, h.log[c.term], p)
                             /\ c.app < p /\ OneConf(X, c.app, p)
    BY <1>3, <2>0 DEF Committed
  <2>2. c.term \in Nat
    BY CertFacts
  <2>3. c.term <= u
    BY <2>1, <2>2
  <2> QED
    BY <2>1, <2>3
<1> QED
  BY <1>1, <1>2, <1>3 DEF Committed

\* What was committed is so in every log that agrees.
LEMMA CommittedSame ==
  ASSUME NEW h, NEW D, HistOk(h, D), NEW t, NEW X, NEW k \in Nat, Committed(h, t, X, k),
         NEW Y, Same(X, Y, k), k <= Len(Y)
  PROVE  Committed(h, t, Y, k)
<1>1. ASSUME k > 0
      PROVE  \E c \in h.certs : c.term <= t /\ k <= c.index /\ Same(Y, h.log[c.term], k)
  <2>1. PICK c \in h.certs : c.term <= t /\ k <= c.index /\ Same(X, h.log[c.term], k)
    BY <1>1 DEF Committed
  <2>2. Same(Y, h.log[c.term], k)
    BY <2>1 DEF Same
  <2> QED
    BY <2>1, <2>2
<1>2. ASSUME NEW p \in 1 .. k, IsConf(Y[p])
      PROVE  \E c \in h.certs : /\ c.term <= t /\ p <= c.index /\ Same(Y, h.log[c.term], p)
                                /\ c.app < p /\ OneConf(Y, c.app, p)
  <2>0. IsConf(X[p])
    BY <1>2 DEF Same
  <2>1. PICK c \in h.certs : /\ c.term <= t /\ p <= c.index /\ Same(X, h.log[c.term], p)
                             /\ c.app < p /\ OneConf(X, c.app, p)
    BY <1>2, <2>0 DEF Committed
  <2>2. Same(X, Y, p) /\ Same(Y, X, p) /\ p \in Nat
    BY SameUpTo
  <2>3. c.app \in Nat
    BY CertFacts
  <2>4. OneConf(Y, c.app, p) /\ Same(Y, h.log[c.term], p)
    BY <2>1, <2>2, <2>3, OneConfSame, SameTrans
  <2> QED
    BY <2>1, <2>4
<1> QED
  BY <1>1, <1>2 DEF Committed

\* Sources, what is kept and what was committed stay as the history grows.
LEMMA ExtKeeps ==
  ASSUME NEW h, NEW D, HistOk(h, D), NEW g, Ext(h, g)
  PROVE  /\ \A X \in Logs : Src(h, X) => Src(g, X)
         /\ \A t \in h.won : \A k \in 0 .. Len(h.log[t]) :
              /\ k <= Len(g.log[t]) /\ Same(h.log[t], g.log[t], k)
              /\ \A X : Has(h, X, t, k) => Has(g, X, t, k)
              /\ \A X, u : KeptIn(h, X, t, k, u) => KeptIn(g, X, t, k, u)
         /\ \A t, X, k : Committed(h, t, X, k) /\ k \in Nat => Committed(g, t, X, k)
<1>1. ASSUME NEW t \in h.won, NEW k \in 0 .. Len(h.log[t])
      PROVE  k <= Len(g.log[t]) /\ Same(h.log[t], g.log[t], k) /\ t \in g.won
  <2>0. t \in g.won /\ Len(h.log[t]) <= Len(g.log[t]) /\ Same(h.log[t], g.log[t], Len(h.log[t]))
    BY DEF Ext
  <2>1. Len(h.log[t]) \in Nat
    BY ElectionFacts
  <2>2. Same(h.log[t], g.log[t], k)
    BY <2>0, <2>1, SameUpTo
  <2>3. Len(g.log[t]) \in Nat
    <3>1. t \in Nat /\ g.log \in [Nat -> Logs]
      BY ElectionFacts DEF Ext, Histories
    <3> QED
      BY <3>1, LogFacts
  <2> QED
    BY <2>0, <2>1, <2>2, <2>3
<1>2. ASSUME NEW X \in Logs, Src(h, X) PROVE Src(g, X)
  <2> SUFFICES ASSUME NEW j \in 1 .. Len(X)
               PROVE  /\ X[j].term \in g.won /\ j <= Len(g.log[X[j].term])
                      /\ Same(X, g.log[X[j].term], j)
    BY DEF Src
  <2>1. PICK t : t = X[j].term
    OBVIOUS
  <2>2. t \in h.won /\ j <= Len(h.log[t]) /\ Same(X, h.log[t], j)
    BY <1>2, <2>1 DEF Src
  <2>3. Len(h.log[t]) \in Nat /\ Len(X) \in Nat
    BY <2>2, ElectionFacts, LogFacts
  <2>4. j \in 0 .. Len(h.log[t])
    BY <2>2, <2>3
  <2> QED
    BY <1>1, <2>1, <2>2, <2>4, SameTrans
<1>3. ASSUME NEW t \in h.won, NEW k \in 0 .. Len(h.log[t]), NEW X, Has(h, X, t, k)
      PROVE  Has(g, X, t, k)
  BY <1>1, <1>3, SameTrans DEF Has
<1>4. ASSUME NEW t \in h.won, NEW k \in 0 .. Len(h.log[t]), NEW X, NEW u, KeptIn(h, X, t, k, u)
      PROVE  KeptIn(g, X, t, k, u)
  <2> SUFFICES ASSUME NEW j \in 1 .. k, ~Has(g, X, t, j)
               PROVE  \E T \in g.won : t < T /\ T <= u /\ Lost(g, T, t, j)
    BY DEF KeptIn
  <2>1. j \in 0 .. Len(h.log[t]) /\ j \in Nat
    BY ElectionFacts
  <2>2. PICK T \in h.won : t < T /\ T <= u /\ Lost(h, T, t, j)
    BY <1>3, <1>4, <2>1 DEF KeptIn
  <2>3. T \in g.won /\ g.el[T] = h.el[T]
    BY DEF Ext
  <2>4. h.el[T].base \in Nat /\ h.el[T].base < Len(h.log[T]) /\ Len(h.log[T]) \in Nat
    BY ElectionFacts
  <2>5. ASSUME h.el[T].base >= j PROVE ~Same(g.log[T], g.log[t], j)
    <3>1. ~Same(h.log[T], h.log[t], j)
      BY <2>1, <2>2, <2>4, <2>5 DEF Lost
    <3>2. j \in 0 .. Len(h.log[T])
      BY <2>1, <2>4, <2>5
    <3>3. Same(h.log[T], g.log[T], j) /\ Same(h.log[t], g.log[t], j)
      BY <1>1, <2>1, <3>2
    <3> QED
      BY <3>1, <3>3 DEF Same
  <2>6. Lost(g, T, t, j)
    BY <2>1, <2>3, <2>4, <2>5 DEF Lost
  <2> QED
    BY <2>2, <2>3, <2>6
<1>5. ASSUME NEW t, NEW X, NEW k \in Nat, Committed(h, t, X, k)
      PROVE  Committed(g, t, X, k)
  <2>1. ASSUME NEW c \in h.certs, NEW p \in Nat, p <= c.index, Same(X, h.log[c.term], p)
        PROVE  c \in g.certs /\ Same(X, g.log[c.term], p)
    <3>1. /\ c.term \in h.won /\ c.index \in Nat /\ c.index <= Len(h.log[c.term])
          /\ Len(h.log[c.term]) \in Nat
      BY CertFacts, ElectionFacts
    <3>2. p \in 0 .. Len(h.log[c.term])
      BY <2>1, <3>1
    <3>3. Same(h.log[c.term], g.log[c.term], p)
      BY <1>1, <3>1, <3>2
    <3>4. c \in g.certs
      BY DEF Ext
    <3> QED
      BY <2>1, <3>3, <3>4, SameTrans
  <2>2. k > 0 => \E c \in g.certs : c.term <= t /\ k <= c.index /\ Same(X, g.log[c.term], k)
    BY <1>5, <2>1 DEF Committed
  <2>3. ASSUME NEW p \in 1 .. k, IsConf(X[p])
        PROVE  \E c \in g.certs : /\ c.term <= t /\ p <= c.index /\ Same(X, g.log[c.term], p)
                                  /\ c.app < p /\ OneConf(X, c.app, p)
    <3>1. PICK c \in h.certs : /\ c.term <= t /\ p <= c.index /\ Same(X, h.log[c.term], p)
                               /\ c.app < p /\ OneConf(X, c.app, p)
      BY <1>5, <2>3 DEF Committed
    <3>2. p \in Nat
      OBVIOUS
    <3>3. c \in g.certs /\ Same(X, g.log[c.term], p)
      BY <2>1, <3>1, <3>2
    <3> QED
      BY <3>1, <3>3
  <2> QED
    BY <1>5, <2>2, <2>3 DEF Committed
<1> QED
  BY <1>1, <1>2, <1>3, <1>4, <1>5
-----------------------------------------------------------------------------
(* Leader completeness. *)

\* X[1 .. b] has all that was committed before term t.
Complete(h, t, X, b) ==
  \A c \in h.certs : c.term < t => c.index <= b /\ Same(X, h.log[c.term], c.index)

LeaderComplete(h, t) == Complete(h, t, h.log[t], h.el[t].base)

\* A voter that had acknowledged a commitment has voted only for a log that has
\* it, when all leaders in between had it.
LEMMA VoterKeeps ==
  ASSUME NEW h, NEW D, HistOk(h, D), NEW t \in Nat, NEW w \in Nat,
         \A u \in h.won : u < t \/ u <= w => LeaderComplete(h, u),
         NEW X \in Logs, Src(h, X), NEW b \in 0 .. Len(X), \A j \in 1 .. b : X[j].term < t,
         NEW c \in h.certs, c.term < t,
         NEW r \in Votes, VoteOk(h, r), r.last = LastAt(X, b),
         NEW k \in Nat, c.index <= k, KeptIn(h, r.log, c.term, k, r.upto), r.upto <= w
  PROVE  c.index <= b /\ Same(X, h.log[c.term], c.index)
<1>1. PICK T, i, L : T = c.term /\ i = c.index /\ L = r.log
  OBVIOUS
<1>2. /\ T \in h.won /\ T \in Nat /\ T > 1 /\ i \in Nat /\ h.el[T].base < i
      /\ i <= Len(h.log[T]) /\ Len(h.log[T]) \in Nat /\ h.el[T].base \in Nat
  BY <1>1, CertFacts, ElectionFacts
<1>3. L \in Logs /\ Src(h, L) /\ UpToDate(L, r.last) /\ KeptIn(h, L, T, k, r.upto)
      /\ r.upto \in Nat
  BY <1>1 DEF Votes, VoteOk
<1>4. r.last.term = TermAt(X, b) /\ r.last.index = b
  BY DEF LastAt
<1>5. LastTerm(L) \in Nat /\ Len(L) \in Nat /\ TermAt(X, b) \in Nat /\ Len(X) \in Nat
  BY <1>3, LogFacts
<1>6. CASE TermAt(X, b) > T
  <2>1. b # 0 /\ TermAt(X, b) = X[b].term
    BY <1>2, <1>6 DEF TermAt, BaseTerm
  <2>2. PICK u : u = X[b].term
    OBVIOUS
  <2>3. b \in 1 .. Len(X) /\ b \in 1 .. b /\ b \in Nat
    BY <1>5, <2>1
  <2>4. u \in h.won /\ Same(X, h.log[u], b) /\ u < t /\ b <= Len(h.log[u])
    BY <2>2, <2>3 DEF Src
  <2>5. b > h.el[u].base /\ h.el[u].base \in Nat
    BY <2>2, <2>3, <2>4, TermsSorted, ElectionFacts
  <2>6. i <= h.el[u].base /\ Same(h.log[u], h.log[T], i)
    BY <1>1, <1>6, <2>1, <2>2, <2>4 DEF LeaderComplete, Complete
  <2>7. i <= b /\ Same(X, h.log[u], i)
    BY <1>2, <2>3, <2>4, <2>5, <2>6, SameUpTo
  <2> QED
    BY <1>1, <2>6, <2>7, SameTrans
<1>7. CASE TermAt(X, b) <= T
  <2>1. LastTerm(L) <= T
    BY <1>2, <1>3, <1>4, <1>5, <1>7 DEF UpToDate
  <2>2. Has(h, L, T, i)
    <3>1. i \in 1 .. k
      BY <1>1, <1>2
    <3>2. ASSUME NEW u \in h.won, T < u, u <= r.upto PROVE ~Lost(h, u, T, i)
      <4>1. u \in Nat /\ h.el[u].base \in Nat
        BY ElectionFacts
      <4>2. i <= h.el[u].base /\ Same(h.log[u], h.log[T], i)
        BY <1>1, <1>2, <1>3, <3>2, <4>1 DEF LeaderComplete, Complete
      <4> QED
        BY <1>2, <4>1, <4>2 DEF Lost
    <3> QED
      BY <1>3, <3>1, <3>2 DEF KeptIn
  <2>3. i <= Len(L) /\ Same(L, h.log[T], i) /\ i \in 1 .. Len(L) /\ i \in 1 .. i
        /\ i \in 1 .. Len(h.log[T])
    BY <1>1, <1>2, <1>5, <2>2 DEF Has
  <2>4. L[i].term = T
    <3>1. h.log[T][i].term = T
      BY <1>2, <2>3, ElectionFacts
    <3> QED
      BY <2>3, <3>1 DEF Same
  <2>5. LastTerm(L) = T
    BY <1>3, <1>5, <1>2, <2>1, <2>3, <2>4, TermsSorted
  <2>6. TermAt(X, b) = T /\ b >= Len(L)
    BY <1>3, <1>4, <1>5, <1>7, <1>2, <2>5 DEF UpToDate
  <2>7. b # 0 /\ X[b].term = T
    BY <1>2, <2>6 DEF TermAt, BaseTerm
  <2>8. b \in 1 .. Len(X) /\ b \in Nat
    BY <1>5, <2>7
  <2>9. Same(X, h.log[T], b)
    BY <2>7, <2>8 DEF Src
  <2> QED
    BY <1>1, <1>2, <1>5, <2>3, <2>6, <2>8, <2>9, SameUpTo
<1> QED
  BY <1>2, <1>5, <1>6, <1>7

\* A voter in common: the same for a cert and a campaign.
LEMMA SharedVoter ==
  ASSUME NEW h, NEW D, HistOk(h, D), \A v \in Ids : RecordsOk(h, D[v]),
         NEW t \in Nat, NEW w \in Nat, \A u \in h.won : u < t \/ u <= w => LeaderComplete(h, u),
         NEW X \in Logs, NEW b \in Nat, NEW who, NEW app, NEW conf, NEW q \in SUBSET Ids,
         Campaigned(h, D, who, t, X, b, app, conf, q, w),
         NEW c \in h.certs, c.term < t, c.q \cap q # {}
  PROVE  c.index <= b /\ Same(X, h.log[c.term], c.index)
<1>1. PICK v \in Ids : v \in c.q /\ v \in q
  OBVIOUS
<1>2. PICK r \in D[v].votes : r.term = t /\ r.for = who /\ r.last = LastAt(X, b) /\ r.upto <= w
  BY <1>1 DEF Campaigned
<1>3. RecordsOk(h, D[v]) /\ D[v] \in Views
  BY DEF RecordsOk
<1>4. r \in Votes /\ VoteOk(h, r)
  BY <1>2, <1>3 DEF RecordsOk, Views
<1>5. PICK a \in D[v].acks : a.term = c.term /\ a.index >= c.index
  BY <1>1 DEF HistOk, CertOk, HasAcked
<1>6. a.index \in Nat /\ c.index \in Nat
  BY <1>3, <1>5, CertFacts DEF Views, Acks
<1>7. c.term \in Nat
  BY CertFacts
<1>8. KeptIn(h, r.log, c.term, a.index, r.upto)
  BY <1>2, <1>3, <1>5, <1>7 DEF RecordsOk
<1>9. b \in 0 .. Len(X) /\ Src(h, X) /\ \A j \in 1 .. b : X[j].term < t
  BY LogFacts DEF Campaigned
<1> QED
  BY <1>2, <1>4, <1>5, <1>6, <1>8, <1>9, VoterKeeps

\* Of the commitments before term t there is a last one.
LEMMA LatestCert ==
  ASSUME NEW h, NEW D, HistOk(h, D), NEW t \in Nat, NEW x \in h.certs, x.term < t
  PROVE  \E c \in h.certs :
           /\ c.term < t
           /\ \A y \in h.certs : y.term < t =>
                y.term < c.term \/ (y.term = c.term /\ y.index <= c.index)
<1> DEFINE T == {y.term : y \in {z \in h.certs : z.term < t}}
<1>1. \A y \in h.certs : y.term \in Nat /\ y.index \in Nat
  BY CertFacts
<1>2. T \in SUBSET (0 .. t) /\ x.term \in T
  BY <1>1
<1> HIDE DEF T
<1>3. PICK m \in T : \A k \in T : k <= m
  BY <1>2, GreatestElement
<1>4. PICK z \in h.certs : z.term = m /\ m < t
  BY <1>3 DEF T
<1> DEFINE I == {y.index : y \in {w \in h.certs : w.term = m}}
<1>5. PICK n \in Nat : n = Len(h.log[m])
  BY <1>4, CertFacts, ElectionFacts
<1>6. ASSUME NEW y \in h.certs, y.term = m PROVE y.index \in 0 .. n
  BY <1>1, <1>5, <1>6, CertFacts
<1>7. I \in SUBSET (0 .. n) /\ z.index \in I
  BY <1>4, <1>6
<1> HIDE DEF I
<1>8. PICK i \in I : \A k \in I : k <= i
  BY <1>7, GreatestElement
<1>9. PICK c \in h.certs : c.term = m /\ c.index = i
  BY <1>8 DEF I
<1>10. ASSUME NEW y \in h.certs, y.term < t
       PROVE  y.term < c.term \/ (y.term = c.term /\ y.index <= c.index)
  <2>1. y.term \in T
    BY <1>10 DEF T
  <2>2. y.term <= m
    BY <1>3, <2>1
  <2>3. y.term = m => y.index \in I
    BY DEF I
  <2> QED
    BY <1>1, <1>8, <1>9, <2>2, <2>3
<1> QED
  BY <1>4, <1>9, <1>10

\* What was committed by a term before t is in the log of the last commitment.
LEMMA InLatest ==
  ASSUME NEW h, NEW D, HistOk(h, D), NEW t \in Nat, \A u \in h.won : u < t => LeaderComplete(h, u),
         NEW c \in h.certs, c.term < t,
         NEW y \in h.certs, y.term < c.term \/ (y.term = c.term /\ y.index <= c.index)
  PROVE  y.index <= c.index /\ Same(h.log[c.term], h.log[y.term], y.index)
<1>1. /\ c.term \in h.won /\ y.index \in Nat /\ c.index \in Nat /\ h.el[c.term].base < c.index
      /\ h.el[c.term].base \in Nat
  BY CertFacts, ElectionFacts
<1>2. CASE y.term < c.term
  <2>1. y.index <= h.el[c.term].base /\ Same(h.log[c.term], h.log[y.term], y.index)
    BY <1>1, <1>2 DEF LeaderComplete, Complete
  <2> QED
    BY <1>1, <2>1
<1>3. CASE y.term = c.term /\ y.index <= c.index
  BY <1>3 DEF Same
<1> QED
  BY <1>2, <1>3

\* The first two changes in a range that has two.
LEMMA FirstTwo ==
  ASSUME NEW X, NEW a \in Nat, NEW b \in Nat, ~OneConf(X, a, b)
  PROVE  \E p, r \in a + 1 .. b : /\ p < r /\ IsConf(X[p]) /\ IsConf(X[r])
                                  /\ OneConf(X, a, r - 1)
<1> DEFINE T == {r \in a + 1 .. b : \E p \in a + 1 .. b : p < r /\ IsConf(X[p]) /\ IsConf(X[r])}
<1>1. T \in SUBSET Nat
  OBVIOUS
<1>2. T # {}
  <2>1. PICK p, r \in a + 1 .. b : IsConf(X[p]) /\ IsConf(X[r]) /\ p # r
    BY DEF OneConf
  <2>2. p \in T \/ r \in T
    BY <2>1
  <2> QED
    BY <2>2
<1> HIDE DEF T
<1>3. PICK r \in T : \A k \in T : r <= k
  BY <1>1, <1>2, LeastElement
<1>4. r \in a + 1 .. b /\ \E p \in a + 1 .. b : p < r /\ IsConf(X[p]) /\ IsConf(X[r])
  BY DEF T
<1>5. ASSUME NEW i \in a + 1 .. r - 1, NEW j \in a + 1 .. r - 1, IsConf(X[i]), IsConf(X[j])
      PROVE  i = j
  <2>1. i \in a + 1 .. b /\ j \in a + 1 .. b
    BY <1>4
  <2>2. i < j => j \in T
    BY <1>5, <2>1 DEF T
  <2>3. j < i => i \in T
    BY <1>5, <2>1 DEF T
  <2> QED
    BY <1>3, <1>4, <2>2, <2>3
<1> QED
  BY <1>4, <1>5 DEF OneConf

\* A campaign's log has all that was committed before its term, when all leaders
\* before it had.
LEMMA CampaignComplete ==
  ASSUME NEW h, NEW D, HistOk(h, D), \A v \in Ids : RecordsOk(h, D[v]),
         NEW t \in Nat, NEW w \in Nat, \A u \in h.won : u < t \/ u <= w => LeaderComplete(h, u),
         NEW X \in Logs, NEW b \in Nat, NEW who, NEW app \in Nat, NEW conf, NEW q \in SUBSET Ids,
         Campaigned(h, D, who, t, X, b, app, conf, q, w)
  PROVE  Complete(h, t, X, b)
<1> SUFFICES ASSUME NEW x \in h.certs, x.term < t
             PROVE  x.index <= b /\ Same(X, h.log[x.term], x.index)
  BY DEF Complete
<1>1. PICK c \in h.certs :
           /\ c.term < t
           /\ \A y \in h.certs : y.term < t =>
                y.term < c.term \/ (y.term = c.term /\ y.index <= c.index)
  BY LatestCert
<1>2. \A y \in h.certs : y.term < t =>
         y.index <= c.index /\ Same(h.log[c.term], h.log[y.term], y.index)
  BY <1>1, InLatest
<1>3. PICK Y : Y = h.log[c.term]
  OBVIOUS
<1>4. /\ c.term \in h.won /\ c.term \in Nat /\ c.index \in Nat /\ c.app \in Nat
      /\ c.index <= Len(Y) /\ c.app <= c.index /\ c.q \in SUBSET Ids
      /\ Y \in Logs /\ Len(Y) \in Nat
  BY <1>3, CertFacts, ElectionFacts
<1>5. /\ ConfOk(Y, c.app, c.conf) /\ OneConf(Y, c.app, c.index)
      /\ Committed(h, c.term, Y, c.app) /\ IsQuorum(c.conf.in, c.conf.out, c.q)
  BY <1>3 DEF HistOk, CertOk
<1>6. /\ b <= Len(X) /\ app <= b /\ ConfOk(X, app, conf) /\ OneConf(X, app, b)
      /\ Committed(h, t - 1, X, app) /\ IsQuorum(conf.in, conf.out, q)
  BY DEF Campaigned
<1>7. app <= c.index /\ Same(X, Y, app)
  <2>1. CASE app = 0
    BY <1>4, <2>1 DEF Same
  <2>2. CASE app > 0
    <3>1. PICK y \in h.certs : y.term <= t - 1 /\ app <= y.index /\ Same(X, h.log[y.term], app)
      BY <1>6, <2>2 DEF Committed
    <3>2. y.term \in Nat /\ y.index \in Nat
      BY CertFacts
    <3>3. y.index <= c.index /\ Same(Y, h.log[y.term], y.index)
      BY <1>2, <1>3, <3>1, <3>2
    <3>4. Same(h.log[y.term], Y, app)
      BY <3>1, <3>2, <3>3, SameUpTo
    <3> QED
      BY <1>4, <3>1, <3>2, <3>3, <3>4, SameTrans
  <2> QED
    BY <2>1, <2>2
<1>8. ConfOk(Y, app, conf)
  BY <1>6, <1>7, ConfOkSame
<1>9. c.q \cap q # {}
  <2>1. CASE c.app <= app
    <3>1. OneConf(Y, c.app, app) /\ app <= Len(Y)
      BY <1>4, <1>5, <1>7, OneConfWithin
    <3> QED
      BY <1>4, <1>5, <1>6, <1>8, <2>1, <3>1, Adjacent
  <2>2. CASE app < c.app /\ OneConf(Y, app, c.app)
    <3>1. app <= c.app /\ c.app <= Len(Y)
      BY <1>4, <2>2
    <3>2. q \cap c.q # {}
      BY <1>4, <1>5, <1>6, <1>8, <2>2, <3>1, Adjacent
    <3> QED
      BY <3>2
  <2>3. CASE app < c.app /\ ~OneConf(Y, app, c.app)
    <3>1. PICK p, r \in app + 1 .. c.app : /\ p < r /\ IsConf(Y[p]) /\ IsConf(Y[r])
                                           /\ OneConf(Y, app, r - 1)
      BY <1>4, <2>3, FirstTwo
    <3>2. r \in 1 .. c.app /\ r \in Nat /\ p \in Nat /\ r - 1 \in Nat /\ r <= Len(Y)
      BY <1>4
    <3>3. PICK y \in h.certs : /\ y.term <= c.term /\ r <= y.index /\ Same(Y, h.log[y.term], r)
                               /\ y.app < r /\ OneConf(Y, y.app, r)
      BY <1>5, <3>1, <3>2 DEF Committed
    <3>4. /\ y.term \in Nat /\ y.index \in Nat /\ y.app \in Nat /\ y.term < t
          /\ y.q \in SUBSET Ids /\ h.log[y.term] \in Logs
      BY <1>1, <1>4, <3>3, CertFacts, ElectionFacts
    <3>5. p <= y.app
      <4>1. ~(p \in y.app + 1 .. r /\ r \in y.app + 1 .. r)
        BY <3>1, <3>2, <3>3 DEF OneConf
      <4> QED
        BY <3>1, <3>2, <3>3, <3>4, <4>1
    <3>6. /\ ConfOk(h.log[y.term], y.app, y.conf) /\ IsQuorum(y.conf.in, y.conf.out, y.q)
      BY DEF HistOk, CertOk
    <3>7. ConfOk(Y, y.app, y.conf)
      <4>1. Same(h.log[y.term], Y, y.app)
        BY <3>2, <3>3, <3>4, SameUpTo
      <4> QED
        BY <3>4, <3>6, <4>1, ConfOkSame
    <3>8. app <= y.app /\ y.app <= r - 1 /\ y.app <= Len(Y) /\ app <= app /\ p >= app + 1
      BY <3>2, <3>3, <3>4, <3>5
    <3>9. OneConf(Y, app, y.app)
      BY <3>1, <3>2, <3>4, <3>8, OneConfWithin
    <3>10. q \cap y.q # {}
      BY <1>4, <1>6, <1>8, <3>4, <3>6, <3>7, <3>8, <3>9, Adjacent
    <3>11. y.index <= b /\ Same(X, h.log[y.term], y.index)
      BY <3>4, <3>10, SharedVoter
    <3>12. Same(X, h.log[y.term], r) /\ Same(h.log[y.term], Y, r)
      BY <3>2, <3>3, <3>4, <3>11, SameUpTo
    <3>13. X[p] = Y[p] /\ X[r] = Y[r] /\ p \in app + 1 .. b /\ r \in app + 1 .. b
      <4>1. Same(X, Y, r)
        BY <3>12, SameTrans
      <4>2. p \in 1 .. r /\ r \in 1 .. r
        BY <3>1, <3>2
      <4>3. r <= b
        BY <3>2, <3>3, <3>4, <3>11
      <4> QED
        BY <3>1, <3>2, <4>1, <4>2, <4>3 DEF Same
    <3> QED
      BY <1>6, <3>1, <3>2, <3>13 DEF OneConf
  <2> QED
    BY <1>4, <2>1, <2>2, <2>3
<1>10. c.index <= b /\ Same(X, Y, c.index)
  BY <1>1, <1>3, <1>9, SharedVoter
<1>11. x.index \in Nat
  BY CertFacts
<1>12. x.index <= c.index /\ Same(Y, h.log[x.term], x.index)
  BY <1>2, <1>3
<1>13. x.index <= b /\ Same(X, Y, x.index)
  BY <1>4, <1>10, <1>11, <1>12, SameUpTo
<1> QED
  BY <1>12, <1>13, SameTrans

\* Every leader started with all that had been committed before its term.
LEMMA LeadersComplete ==
  ASSUME NEW h, NEW D, HistOk(h, D), \A v \in Ids : RecordsOk(h, D[v])
  PROVE  \A t \in h.won : LeaderComplete(h, t)
<1> DEFINE B == {t \in h.won : ~LeaderComplete(h, t)}
<1> SUFFICES ASSUME B # {} PROVE FALSE
  OBVIOUS
<1>1. B \in SUBSET Nat
  BY DEF HistOk, Histories
<1> HIDE DEF B
<1>2. PICK t \in B : \A k \in B : t <= k
  BY <1>1, LeastElement
<1>3. t \in h.won /\ t \in Nat /\ ~LeaderComplete(h, t)
  BY <1>1 DEF B
<1>4. ASSUME NEW u \in h.won, u < t PROVE LeaderComplete(h, u)
  <2>1. u \in Nat
    BY ElectionFacts
  <2>2. u \notin B
    BY <1>2, <1>3, <1>4, <2>1
  <2> QED
    BY <2>2 DEF B
<1>5. PICK e : e = h.el[t]
  OBVIOUS
<1>6. e \in Elections /\ h.log[t] \in Logs
  BY <1>3, <1>5, ElectionFacts
<1>7. e.base \in Nat /\ e.app \in Nat /\ e.q \in SUBSET Ids
  BY <1>6 DEF Elections
<1>8. Campaigned(h, D, e.who, t, h.log[t], e.base, e.app, e.conf, e.q, t - 1)
  BY <1>3, <1>5 DEF HistOk, ElectionOk
<1>9. Complete(h, t, h.log[t], e.base)
  <2>1. t - 1 \in Nat /\ \A u \in h.won : u < t \/ u <= t - 1 => LeaderComplete(h, u)
    BY <1>3, <1>4, ElectionFacts
  <2> QED
    BY <1>3, <1>6, <1>7, <1>8, <2>1, CampaignComplete
<1> QED
  BY <1>3, <1>5, <1>9 DEF LeaderComplete

\* Who campaigns with success for a term that was won has won it.
LEMMA OneWinner ==
  ASSUME NEW h, NEW D, HistOk(h, D), \A v \in Ids : RecordsOk(h, D[v]),
         NEW t \in h.won,
         NEW X \in Logs, NEW b \in Nat, NEW who, NEW app \in Nat, NEW conf, NEW q \in SUBSET Ids,
         Campaigned(h, D, who, t, X, b, app, conf, q, t)
  PROVE  h.el[t].who = who
<1>1. PICK e, Y : e = h.el[t] /\ Y = h.log[t]
  OBVIOUS
<1>2. e \in Elections /\ Y \in Logs /\ t \in Nat /\ e.base < Len(Y) /\ Len(Y) \in Nat
      /\ Len(X) \in Nat
  BY <1>1, ElectionFacts, LogFacts
<1>3. e.base \in Nat /\ e.app \in Nat /\ e.q \in SUBSET Ids
  BY <1>2 DEF Elections
<1>4. Campaigned(h, D, e.who, t, Y, e.base, e.app, e.conf, e.q, t - 1)
  BY <1>1 DEF HistOk, ElectionOk
<1>5. t - 1 \in Nat /\ \A u \in h.won : LeaderComplete(h, u)
  BY LeadersComplete, ElectionFacts
<1>6. Complete(h, t, X, b)
  BY <1>2, <1>5, CampaignComplete
<1>7. Complete(h, t, Y, e.base)
  BY <1>2, <1>3, <1>4, <1>5, CampaignComplete
<1>8. ASSUME NEW P, NEW Q, NEW i \in Nat, NEW k \in Nat, Committed(h, t - 1, P, k), Complete(h, t, Q, i)
      PROVE  k <= i /\ Same(P, Q, k)
  <2>1. CASE k = 0
    BY <2>1 DEF Same
  <2>2. CASE k > 0
    <3>1. PICK c \in h.certs : c.term <= t - 1 /\ k <= c.index /\ Same(P, h.log[c.term], k)
      BY <1>8, <2>2 DEF Committed
    <3>2. c.term \in Nat /\ c.index \in Nat /\ c.term < t
      BY <1>2, <3>1, CertFacts
    <3>3. c.index <= i /\ Same(Q, h.log[c.term], c.index)
      BY <1>8, <3>2 DEF Complete
    <3>4. Same(h.log[c.term], Q, k)
      BY <3>1, <3>2, <3>3, SameUpTo
    <3> QED
      BY <3>1, <3>2, <3>3, <3>4, SameTrans
  <2> QED
    BY <2>1, <2>2
<1>9. /\ app <= b /\ b <= Len(X) /\ ConfOk(X, app, conf) /\ OneConf(X, app, b)
      /\ Committed(h, t - 1, X, app) /\ IsQuorum(conf.in, conf.out, q)
  BY DEF Campaigned
<1>10. /\ e.app <= e.base /\ ConfOk(Y, e.app, e.conf) /\ OneConf(Y, e.app, e.base)
       /\ Committed(h, t - 1, Y, e.app) /\ IsQuorum(e.conf.in, e.conf.out, e.q)
  BY <1>4 DEF Campaigned
<1>11. app <= e.base /\ Same(X, Y, app)
  BY <1>3, <1>7, <1>8, <1>9
<1>12. e.app <= b /\ Same(Y, X, e.app)
  BY <1>3, <1>6, <1>8, <1>10
<1>13. q \cap e.q # {}
  <2>1. CASE app <= e.app
    <3>1. ConfOk(X, e.app, e.conf)
      BY <1>3, <1>10, <1>12, ConfOkSame
    <3>2. OneConf(X, app, e.app) /\ e.app <= Len(X)
      BY <1>2, <1>3, <1>9, <1>12, OneConfWithin
    <3> QED
      BY <1>3, <1>9, <1>10, <2>1, <3>1, <3>2, Adjacent
  <2>2. CASE e.app <= app
    <3>1. ConfOk(Y, app, conf)
      BY <1>9, <1>11, ConfOkSame
    <3>2. OneConf(Y, e.app, app) /\ app <= Len(Y)
      BY <1>2, <1>3, <1>10, <1>11, OneConfWithin
    <3>3. e.q \cap q # {}
      BY <1>2, <1>3, <1>9, <1>10, <2>2, <3>1, <3>2, Adjacent
    <3> QED
      BY <3>3
  <2> QED
    BY <1>3, <2>1, <2>2
<1>14. PICK v \in Ids : v \in q /\ v \in e.q
  BY <1>13
<1>15. PICK r \in D[v].votes : r.term = t /\ r.for = who
  BY <1>14 DEF Campaigned
<1>16. PICK z \in D[v].votes : z.term = t /\ z.for = e.who
  BY <1>4, <1>14 DEF Campaigned
<1>17. r = z
  BY <1>15, <1>16 DEF RecordsOk
<1> QED
  BY <1>1, <1>15, <1>16, <1>17

\* What was committed by a term is in the log of every leader of that term or a
\* later one.
LEMMA CommittedInLeader ==
  ASSUME NEW h, NEW D, HistOk(h, D), \A v \in Ids : RecordsOk(h, D[v]),
         NEW t \in Nat, NEW X, NEW k \in Nat, Committed(h, t, X, k), NEW u \in h.won, t <= u
  PROVE  k <= Len(h.log[u]) /\ Same(X, h.log[u], k)
<1>0. Len(h.log[u]) \in Nat /\ h.el[u].base \in Nat /\ h.el[u].base < Len(h.log[u]) /\ u \in Nat
  BY ElectionFacts
<1>1. CASE k = 0
  BY <1>0, <1>1 DEF Same
<1>2. CASE k > 0
  <2>1. PICK c \in h.certs : c.term <= t /\ k <= c.index /\ Same(X, h.log[c.term], k)
    BY <1>2 DEF Committed
  <2>2. c.term \in Nat /\ c.index \in Nat /\ c.index <= Len(h.log[c.term])
    BY CertFacts
  <2>3. CASE c.term = u
    BY <1>0, <2>1, <2>2, <2>3
  <2>4. CASE c.term < u
    <3>1. c.index <= h.el[u].base /\ Same(h.log[u], h.log[c.term], c.index)
      BY <2>4, LeadersComplete DEF LeaderComplete, Complete
    <3>2. Same(h.log[c.term], h.log[u], k)
      BY <2>1, <2>2, <3>1, SameUpTo
    <3> QED
      BY <1>0, <2>1, <2>2, <3>1, <3>2, SameTrans
  <2> QED
    BY <1>0, <2>1, <2>2, <2>3, <2>4
<1> QED
  BY <1>1, <1>2

\* Whatever two terms committed agrees.
LEMMA CommittedAgree ==
  ASSUME NEW h, NEW D, HistOk(h, D), \A v \in Ids : RecordsOk(h, D[v]),
         NEW t \in Nat, NEW X, NEW k \in Nat, Committed(h, t, X, k),
         NEW u \in Nat, NEW Y, NEW j \in Nat, Committed(h, u, Y, j), k <= j
  PROVE  Same(X, Y, k)
<1>1. CASE k = 0
  BY <1>1 DEF Same
<1>2. CASE k > 0
  <2>1. PICK c \in h.certs : c.term <= t /\ k <= c.index /\ Same(X, h.log[c.term], k)
    BY <1>2 DEF Committed
  <2>2. PICK y \in h.certs : y.term <= u /\ j <= y.index /\ Same(Y, h.log[y.term], j)
    BY <1>2 DEF Committed
  <2>3. /\ c.term \in Nat /\ c.index \in Nat /\ c.term \in h.won
        /\ y.term \in Nat /\ y.index \in Nat /\ y.term \in h.won
    BY CertFacts
  <2>4. Same(h.log[y.term], Y, k) /\ k <= y.index
    BY <2>2, <2>3, SameUpTo
  <2>5. CASE c.term = y.term
    BY <2>1, <2>4, <2>5, SameTrans
  <2>6. CASE c.term < y.term
    <3>1. Same(h.log[y.term], h.log[c.term], c.index)
      BY <2>3, <2>6, LeadersComplete DEF LeaderComplete, Complete
    <3>2. Same(h.log[c.term], h.log[y.term], k)
      BY <2>1, <2>3, <3>1, SameUpTo
    <3> QED
      BY <2>1, <2>4, <3>2, SameTrans
  <2>7. CASE y.term < c.term
    <3>1. Same(h.log[c.term], h.log[y.term], y.index)
      BY <2>3, <2>7, LeadersComplete DEF LeaderComplete, Complete
    <3>2. Same(h.log[c.term], h.log[y.term], k)
      BY <2>3, <2>4, <3>1, SameUpTo
    <3> QED
      BY <2>1, <2>4, <3>2, SameTrans
  <2> QED
    BY <2>3, <2>5, <2>6, <2>7
<1> QED
  BY <1>1, <1>2
-----------------------------------------------------------------------------
(* What stays as the history and the views grow. *)

\* What is remembered of votes and acknowledgements only grows.
Knows(v, w) == v.votes \subseteq w.votes /\ v.acks \subseteq w.acks
Grows(D, E) == \A v \in Ids : Knows(D[v], E[v])

\* Acknowledgements are of indexes the leader has.
LEMMA AckFacts ==
  ASSUME NEW h, NEW D, HistOk(h, D), NEW v, RecordsOk(h, v), NEW a \in v.acks
  PROVE  /\ a.term \in h.won /\ a.term \in Nat /\ a.index \in Nat
         /\ a.index \in 0 .. Len(h.log[a.term]) /\ Len(h.log[a.term]) \in Nat
<1>1. a \in Acks /\ a.term \in h.won /\ a.index <= Len(h.log[a.term])
  BY DEF RecordsOk, Views
<1>2. Len(h.log[a.term]) \in Nat
  BY <1>1, ElectionFacts
<1> QED
  BY <1>1, <1>2 DEF Acks

\* Records stay sound.
LEMMA RecordsExt ==
  ASSUME NEW h, NEW D, HistOk(h, D), NEW g, Ext(h, g), NEW v, RecordsOk(h, v)
  PROVE  RecordsOk(g, v)
<1>1. v \in Views /\ \A r, q \in v.votes : r.term = q.term => r = q
  BY DEF RecordsOk
<1>2. ASSUME NEW r \in v.votes PROVE VoteOk(g, r)
  <2>1. r.log \in Logs /\ VoteOk(h, r)
    BY <1>1 DEF RecordsOk, Views, Votes
  <2> QED
    BY <2>1, ExtKeeps DEF VoteOk, Ext
<1>3. ASSUME NEW a \in v.acks
      PROVE  /\ a.term \in g.won /\ a.index <= Len(g.log[a.term])
             /\ \A r \in v.votes : r.term > a.term => KeptIn(g, r.log, a.term, a.index, r.upto)
  <2>1. a.term \in h.won /\ a.index \in 0 .. Len(h.log[a.term])
    BY AckFacts
  <2>2. \A r \in v.votes : r.term > a.term => KeptIn(h, r.log, a.term, a.index, r.upto)
    BY DEF RecordsOk
  <2>3. a.term \in g.won
    BY <2>1 DEF Ext
  <2> QED
    BY <2>1, <2>2, <2>3, ExtKeeps
<1> QED
  BY <1>1, <1>2, <1>3 DEF RecordsOk

\* So does what a node has.
LEMMA ViewExt ==
  ASSUME NEW h, NEW D, HistOk(h, D), NEW g, Ext(h, g), NEW v, NEW s, ViewOk(h, s, v),
         s.log \in Logs, s.commit \in Nat
  PROVE  ViewOk(g, s, v)
<1>1. RecordsOk(h, v)
  BY DEF ViewOk
<1>2. RecordsOk(g, v)
  BY <1>1, RecordsExt
<1>3. Src(g, s.log) /\ Committed(g, s.term, s.log, s.commit)
  BY ExtKeeps DEF ViewOk
<1>4. ASSUME NEW a \in v.acks PROVE a.term <= s.term /\ KeptIn(g, s.log, a.term, a.index, s.term)
  <2>1. a.term \in h.won /\ a.index \in 0 .. Len(h.log[a.term])
    BY <1>1, AckFacts
  <2>2. a.term <= s.term /\ KeptIn(h, s.log, a.term, a.index, s.term)
    BY DEF ViewOk
  <2> QED
    BY <2>1, <2>2, ExtKeeps
<1> QED
  BY <1>2, <1>3, <1>4 DEF ViewOk

\* The fields of messages.
LEMMA MsgFacts ==
  ASSUME NEW m \in Msgs
  PROVE  /\ m.term \in Nat /\ m.from \in Ids /\ m.to \in SUBSET Ids
         /\ m.type \in {"Vote", "PreVote"} => m.last \in Lasts
         /\ m.type \in {"VoteResp", "PreVoteResp"} => m.reject \in BOOLEAN
         /\ m.type = "AppResp" => m.index \in Nat
         /\ m.type = "Log" => m.log \in Logs /\ m.commit \in Nat
         /\ m.type = "Beat" => m.commit \in Nat /\ m.ctx \in Nat
         /\ m.type = "BeatResp" => m.ctx \in Nat
BY DEF Msgs

\* And a message.
LEMMA MsgExt ==
  ASSUME NEW h, NEW D, HistOk(h, D), NEW g, Ext(h, g), NEW E, Grows(D, E),
         NEW s, NEW z, s.term \in Nat, z.term \in Nat, s.term <= z.term,
         NEW v, NEW w, Knows(v, w), NEW m \in Msgs, MsgOk(h, D, s, v, m)
  PROVE  MsgOk(g, E, z, w, m)
<1>1. m.type = "Vote" => m.term <= z.term /\ m.last.term < m.term
  <2>1. m.term \in Nat
    BY MsgFacts
  <2> QED
    BY <2>1 DEF MsgOk
<1>2. m.type = "VoteResp" /\ ~m.reject => \A id \in m.to : HasVoted(w, m.term, id)
  BY DEF MsgOk, HasVoted, Knows
<1>3. m.type = "AppResp" => m.index = 0 \/ HasAcked(w, m.term, m.index)
  BY DEF MsgOk, HasAcked, Knows
<1>4. ASSUME m.type = "Log"
      PROVE  /\ m.term \in g.won
             /\ Len(m.log) <= Len(g.log[m.term]) /\ Same(m.log, g.log[m.term], Len(m.log))
             /\ Committed(g, m.term, m.log, MinOf(m.commit, Len(m.log)))
             /\ OneConf(m.log, MinOf(m.commit, Len(m.log)), Len(m.log))
  <2> DEFINE k == MinOf(m.commit, Len(m.log))
  <2>1. m.log \in Logs /\ k \in Nat /\ Len(m.log) \in Nat
    BY <1>4, MsgFacts, LogFacts DEF MinOf
  <2>2. /\ m.term \in h.won
        /\ Len(m.log) <= Len(h.log[m.term]) /\ Same(m.log, h.log[m.term], Len(m.log))
        /\ Committed(h, m.term, m.log, k)
        /\ OneConf(m.log, k, Len(m.log))
    BY <1>4 DEF MsgOk
  <2>3. Len(h.log[m.term]) \in Nat
    BY <2>2, ElectionFacts
  <2>4. Len(m.log) \in 0 .. Len(h.log[m.term])
    BY <2>1, <2>2, <2>3
  <2>5. Len(m.log) <= Len(g.log[m.term]) /\ Same(h.log[m.term], g.log[m.term], Len(m.log))
        /\ Committed(g, m.term, m.log, k)
    BY <2>1, <2>2, <2>4, ExtKeeps
  <2>6. m.term \in g.won /\ g.el[m.term] = h.el[m.term]
    BY <2>2 DEF Ext
  <2> QED
    BY <2>2, <2>5, <2>6, SameTrans
<1>5. ASSUME m.type = "Beat"
      PROVE  /\ m.term \in g.won
             /\ \A id \in m.to : m.commit = 0 \/ HasAcked(E[id], m.term, m.commit)
             /\ Committed(g, m.term, g.log[m.term], m.commit)
  <2>1. m.commit \in Nat /\ m.to \in SUBSET Ids
    BY <1>5, MsgFacts
  <2>2. /\ m.term \in h.won
        /\ \A id \in m.to : m.commit = 0 \/ HasAcked(D[id], m.term, m.commit)
        /\ Committed(h, m.term, h.log[m.term], m.commit)
    BY <1>5 DEF MsgOk
  <2>3. Len(h.log[m.term]) \in Nat
    BY <2>2, ElectionFacts
  <2>4. m.commit \in 0 .. Len(h.log[m.term])
    BY <2>1, <2>2, <2>3 DEF Committed
  <2>5. /\ m.commit <= Len(g.log[m.term]) /\ Same(h.log[m.term], g.log[m.term], m.commit)
        /\ Committed(g, m.term, h.log[m.term], m.commit)
    BY <2>1, <2>2, <2>4, ExtKeeps
  <2>6. m.term \in g.won
    BY <2>2 DEF Ext
  <2>7. \A id \in m.to : HasAcked(D[id], m.term, m.commit) => HasAcked(E[id], m.term, m.commit)
    BY <2>1 DEF Grows, Knows, HasAcked
  <2>8. Committed(g, m.term, g.log[m.term], m.commit)
    <3>1. Committed(h, m.term, g.log[m.term], m.commit)
      BY <2>1, <2>2, <2>5, CommittedSame
    <3> QED
      BY <2>1, <3>1, ExtKeeps
  <2> QED
    BY <2>2, <2>6, <2>7, <2>8
<1> QED
  BY <1>1, <1>2, <1>3, <1>4, <1>5 DEF MsgOk

\* The elections and commitments of a history that grows at the ends of its logs.
LEMMA HistExt ==
  ASSUME NEW h, NEW D, HistOk(h, D), NEW g, Ext(h, g), NEW E, Grows(D, E),
         \A t \in h.won :
           /\ Src(g, g.log[t])
           /\ \A j \in Len(h.log[t]) + 1 .. Len(g.log[t]) : g.log[t][j].term = t
  PROVE  /\ \A t \in h.won : ElectionOk(g, E, t)
         /\ \A c \in h.certs : CertOk(g, E, c)
<1>0. ASSUME NEW t \in h.won
      PROVE  /\ g.el[t] = h.el[t] /\ t \in g.won
             /\ t \in Nat /\ h.log[t] \in Logs /\ g.log[t] \in Logs
             /\ Len(h.log[t]) \in Nat /\ Len(g.log[t]) \in Nat
             /\ Len(h.log[t]) <= Len(g.log[t]) /\ Same(h.log[t], g.log[t], Len(h.log[t]))
  <2>1. t \in Nat /\ g.log \in [Nat -> Logs] /\ h.log[t] \in Logs /\ Len(h.log[t]) \in Nat
    BY ElectionFacts DEF Ext, Histories
  <2>2. g.log[t] \in Logs
    BY <2>1
  <2> QED
    BY <2>1, <2>2, LogFacts DEF Ext
<1>1. ASSUME NEW t \in h.won PROVE ElectionOk(g, E, t)
  <2>1. PICK e, X, Y : e = h.el[t] /\ X = h.log[t] /\ Y = g.log[t]
    OBVIOUS
  <2>2. /\ g.el[t] = e /\ X \in Logs /\ Y \in Logs /\ Len(X) \in Nat /\ Len(Y) \in Nat /\ t \in Nat
        /\ Len(X) <= Len(Y) /\ Same(X, Y, Len(X))
    BY <1>0, <2>1
  <2>3. /\ t > BaseTerm /\ e.base < Len(X)
        /\ \A j \in e.base + 1 .. Len(X) : X[j].term = t
        /\ Campaigned(h, D, e.who, t, X, e.base, e.app, e.conf, e.q, t - 1)
    BY <2>1 DEF HistOk, ElectionOk
  <2>4. e.base \in Nat /\ e.app \in Nat /\ e.q \in SUBSET Ids
    BY <2>1, ElectionFacts DEF Elections
  <2>5. /\ \A j \in 1 .. e.base : X[j].term < t
        /\ e.app <= e.base /\ ConfOk(X, e.app, e.conf) /\ OneConf(X, e.app, e.base)
        /\ Committed(h, t - 1, X, e.app)
        /\ IsQuorum(e.conf.in, e.conf.out, e.q)
        /\ \A v \in e.q : \E r \in D[v].votes :
             r.term = t /\ r.for = e.who /\ r.last = LastAt(X, e.base) /\ r.upto <= t - 1
    BY <2>3 DEF Campaigned
  <2>6. \A j \in 1 .. Len(X) : X[j] = Y[j]
    BY <2>2 DEF Same
  <2>7. Same(X, Y, e.base) /\ Same(X, Y, e.app)
    BY <2>2, <2>3, <2>4, <2>5, SameUpTo
  <2>8. e.base < Len(Y) /\ e.base <= Len(Y) /\ e.app <= Len(Y)
    BY <2>2, <2>3, <2>4, <2>5
  <2>9. ASSUME NEW j \in e.base + 1 .. Len(Y) PROVE Y[j].term = t
    <3>1. CASE j <= Len(X)
      BY <2>2, <2>3, <2>4, <2>6, <3>1
    <3>2. CASE j > Len(X)
      <4>1. j \in Len(X) + 1 .. Len(Y)
        BY <2>2, <2>4, <3>2
      <4> QED
        BY <2>1, <4>1
    <3> QED
      BY <2>2, <2>4, <3>1, <3>2
  <2>10. ASSUME NEW j \in 1 .. e.base PROVE Y[j].term < t
    BY <2>5, <2>7 DEF Same
  <2>11. ConfOk(Y, e.app, e.conf) /\ OneConf(Y, e.app, e.base)
    BY <2>4, <2>5, <2>7, ConfOkSame, OneConfSame
  <2>12. Committed(g, t - 1, Y, e.app)
    <3>1. Committed(h, t - 1, Y, e.app)
      BY <2>4, <2>5, <2>7, <2>8, CommittedSame
    <3> QED
      BY <2>4, <3>1, ExtKeeps
  <2>13. LastAt(Y, e.base) = LastAt(X, e.base)
    <3>1. TermAt(X, e.base) = TermAt(Y, e.base)
      BY <2>4, <2>7 DEF TermAt, Same
    <3> QED
      BY <3>1 DEF LastAt
  <2>14. \A v \in e.q : \E r \in E[v].votes :
           r.term = t /\ r.for = e.who /\ r.last = LastAt(Y, e.base) /\ r.upto <= t - 1
    BY <2>4, <2>5, <2>13 DEF Grows, Knows
  <2>15. Src(g, Y)
    BY <2>1
  <2>16. Campaigned(g, E, e.who, t, Y, e.base, e.app, e.conf, e.q, t - 1)
    BY <2>5, <2>8, <2>10, <2>11, <2>12, <2>14, <2>15 DEF Campaigned
  <2> QED
    BY <2>1, <2>2, <2>3, <2>8, <2>9, <2>16 DEF ElectionOk
<1>2. ASSUME NEW c \in h.certs PROVE CertOk(g, E, c)
  <2>1. PICK t, X, Y : t = c.term /\ X = h.log[t] /\ Y = g.log[t]
    OBVIOUS
  <2>2. CertOk(h, D, c)
    BY DEF HistOk
  <2>3. /\ t \in h.won /\ c.index \in Nat /\ c.app \in Nat /\ c.app <= c.index
        /\ c.index <= Len(X) /\ h.el[t].base \in Nat /\ h.el[t].base < c.index
        /\ c.q \in SUBSET Ids
    BY <2>1, CertFacts, ElectionFacts
  <2>4. /\ g.el[t] = h.el[t] /\ t \in g.won /\ X \in Logs /\ Y \in Logs /\ Len(X) \in Nat
        /\ Len(Y) \in Nat /\ Len(X) <= Len(Y) /\ Same(X, Y, Len(X))
    BY <1>0, <2>1, <2>3
  <2>5. /\ ConfOk(X, c.app, c.conf) /\ OneConf(X, c.app, c.index)
        /\ Committed(h, t, X, c.app)
        /\ IsQuorum(c.conf.in, c.conf.out, c.q)
        /\ \A v \in c.q : HasAcked(D[v], t, c.index)
    BY <2>1, <2>2 DEF CertOk
  <2>6. Same(X, Y, c.index) /\ Same(X, Y, c.app)
    BY <2>3, <2>4, SameUpTo
  <2>7. c.index \in g.el[t].base + 1 .. Len(Y) /\ c.app <= Len(Y)
    BY <2>3, <2>4
  <2>8. ConfOk(Y, c.app, c.conf) /\ OneConf(Y, c.app, c.index)
    BY <2>3, <2>5, <2>6, ConfOkSame, OneConfSame
  <2>9. Committed(g, t, Y, c.app)
    <3>1. Committed(h, t, Y, c.app)
      BY <2>3, <2>5, <2>6, <2>7, CommittedSame
    <3> QED
      BY <2>3, <3>1, ExtKeeps
  <2>10. \A v \in c.q : HasAcked(E[v], t, c.index)
    BY <2>3, <2>5 DEF Grows, Knows, HasAcked
  <2> QED
    BY <2>1, <2>3, <2>4, <2>5, <2>7, <2>8, <2>9, <2>10 DEF CertOk
<1> QED
  BY <1>1, <1>2

\* The history and node n's views grow: what is won, or appended to a leader's
\* log, is its own, and its new votes go to candidates for what they have shown.
Moves(h, M, D, n, g, N, E) ==
  /\ Ext(h, g) /\ Grows(D, E)
  /\ \A l \in Ids \ {n} : N[l] = M[l] /\ E[l] = D[l]
  /\ \A t \in g.won : t \notin h.won => g.el[t].who = n
  /\ \A t \in h.won : h.el[t].who # n => g.log[t] = h.log[t]
  /\ \A r \in N[n].votes :
       \/ r \in M[n].votes \/ r.for = n
       \/ /\ r.term <= disk[r.for].term
          /\ node[r.for].state = "candidate" /\ r.term = node[r.for].term =>
               r.last = LastAt(node[r.for].log, Len(node[r.for].log))

\* Then another node is as it was.
LEMMA OthersKeep ==
  ASSUME NEW h, NEW D, NEW M, HistOk(h, D), NEW g, NEW N, NEW E, NEW n \in Ids,
         Moves(h, M, D, n, g, N, E), NEW l \in Ids \ {n}, NEW sent, NEW sent2,
         \A m \in sent2 : m \in sent \/ m.from = n,
         NEW s, NEW d, NEW w, s = node[l], d = disk[l],
         ActorOk(h, M, D, l, s, d, w, sent)
  PROVE  ActorOk(g, N, E, l, s, d, w, sent2)
<1>0. /\ Ext(h, g) /\ Grows(D, E) /\ N[l] = M[l] /\ E[l] = D[l] /\ l # n
  BY DEF Moves
<1>1. /\ s \in NodeType /\ d \in DiskType /\ w \in SUBSET Msgs
      /\ ViewOk(h, s, M[l]) /\ ViewOk(h, d, D[l])
      /\ NodeOk(h, M, D, l, s, d)
      /\ \A m \in w : m.from = l /\ MsgOk(h, D, s, M[l], m)
      /\ AsksFor(l, s, w \cup sent)
  BY DEF ActorOk
<1>2. s.term \in Nat /\ s.log \in Logs /\ s.commit \in Nat /\ d.log \in Logs /\ d.commit \in Nat
  BY <1>1 DEF NodeType, DiskType
<1>3. ViewOk(g, s, N[l]) /\ ViewOk(g, d, E[l])
  BY <1>0, <1>1, <1>2, ViewExt
<1>4. ASSUME NEW m \in w PROVE m.from = l /\ MsgOk(g, E, s, N[l], m)
  <2>1. m \in Msgs /\ Knows(M[l], N[l]) /\ s.term <= s.term
    BY <1>0, <1>1, <1>2 DEF Knows
  <2> QED
    BY <1>0, <1>1, <1>2, <2>1, MsgExt
<1>5. AsksFor(l, s, w \cup sent2)
  BY <1>0, <1>1 DEF AsksFor
<1>6. NodeOk(g, N, E, l, s, d)
  <2>1. /\ d.term <= s.term
        /\ E[l].votes \subseteq N[l].votes /\ E[l].acks \subseteq N[l].acks
        /\ s.applied <= s.commit /\ d.applied <= d.commit
        /\ s.conf = Refused \/ ConfOk(s.log, s.applied, s.conf)
        /\ d.cs = ConfState(Refused) \/ \E c : ConfOk(d.log, d.applied, c) /\ d.cs = ConfState(c)
        /\ s.state \in {"pre", "candidate"} => ~HasUnappliedConfChanges(s)
    BY <1>0, <1>1 DEF NodeOk
  <2>2. ASSUME s.state = "candidate" PROVE CandidateOk(g, N, E, l, s, d)
    <3>1. CandidateOk(h, M, D, l, s, d)
      BY <1>1, <2>2 DEF NodeOk
    <3>2. s.term \in g.won => g.el[s.term].who # l
      BY <1>0, <3>1 DEF CandidateOk, Moves, Ext
    <3>3. \A v \in s.yes : HasVoted(E[v], s.term, l)
      <4>1. s.yes \in SUBSET Ids
        BY <1>1 DEF NodeType
      <4> QED
        BY <1>0, <3>1, <4>1 DEF CandidateOk, Grows, Knows, HasVoted
    <3>4. ASSUME NEW v \in Ids, NEW r \in N[v].votes, r.term = s.term, r.for = l
          PROVE  r.last = LastAt(s.log, Len(s.log))
      <4>1. CASE v # n
        <5>1. r \in M[v].votes
          BY <4>1 DEF Moves
        <5> QED
          BY <3>1, <3>4, <5>1 DEF CandidateOk
      <4>2. CASE v = n /\ r \in M[n].votes
        BY <3>1, <3>4, <4>2 DEF CandidateOk
      <4>3. CASE v = n /\ r \notin M[n].votes
        BY <1>0, <2>2, <3>4, <4>3 DEF Moves
      <4> QED
        BY <4>1, <4>2, <4>3
    <3>5. Committed(g, s.term - 1, s.log, s.commit)
      BY <1>0, <1>2, <3>1, ExtKeeps DEF CandidateOk
    <3> QED
      BY <3>1, <3>2, <3>3, <3>4, <3>5 DEF CandidateOk
  <2>3. ASSUME s.state = "leader" PROVE LeaderOk(g, E, l, s)
    <3>1. LeaderOk(h, D, l, s)
      BY <1>1, <2>3 DEF NodeOk
    <3>2. s.term \in g.won /\ g.el[s.term].who = l /\ g.log[s.term] = s.log
      BY <1>0, <3>1 DEF LeaderOk, Moves, Ext
    <3>3. \A id \in DOMAIN s.conf.trk :
            s.conf.trk[id].match = 0 \/ HasAcked(E[id], s.term, s.conf.trk[id].match)
      <4>1. s.conf \in Confs
        BY <1>1 DEF NodeType
      <4>2. DOMAIN s.conf.trk \subseteq Ids
        BY <4>1, ConfFields
      <4> QED
        BY <1>0, <3>1, <4>2 DEF LeaderOk, Grows, Knows, HasAcked
    <3> QED
      BY <3>1, <3>2, <3>3 DEF LeaderOk
  <2>4. \A t \in g.won : g.el[t].who = l => t <= d.term
    BY <1>0, <1>1 DEF NodeOk, Moves, Ext
  <2>5. ASSUME NEW v \in Ids \ {l}, NEW r \in N[v].votes, r.for = l PROVE r.term <= d.term
    <3>1. CASE r \in M[v].votes
      BY <1>1, <2>5, <3>1 DEF NodeOk
    <3>2. CASE r \notin M[v].votes
      <4>1. v = n
        BY <3>2 DEF Moves
      <4> QED
        BY <1>0, <2>5, <3>2, <4>1 DEF Moves
    <3> QED
      BY <3>1, <3>2
  <2> QED
    BY <2>1, <2>2, <2>3, <2>4, <2>5 DEF NodeOk
<1> QED
  BY <1>1, <1>3, <1>4, <1>5, <1>6 DEF ActorOk

\* A step of node n: it is enough to look at it, and at the messages it sends.
LEMMA StepKeeps ==
  ASSUME NEW h, NEW M, NEW D, NEW n \in Ids, NEW s, NEW d, NEW w, NEW sent,
         AgreesAt(h, M, D, n, s, d, w, sent),
         NEW g, NEW N, NEW E, Moves(h, M, D, n, g, N, E), GhostsOk(g, N, E),
         NEW s2, NEW d2, NEW w2, NEW sent2,
         ActorOk(g, N, E, n, s2, d2, w2, sent2), d.term <= d2.term,
         \A m \in sent2 : m \in sent \/ (m.from = n /\ m \in Msgs /\ MsgOk(g, E, d2, E[n], m))
  PROVE  AgreesAt(g, N, E, n, s2, d2, w2, sent2)
<1>1. /\ HistOk(h, D) /\ ActorOk(h, M, D, n, s, d, w, sent)
      /\ \A l \in Ids \ {n} : ActorOk(h, M, D, l, node[l], disk[l], held[l], sent)
      /\ \A m \in sent : m \in Msgs
                         /\ MsgOk(h, D, IF m.from = n THEN d ELSE disk[m.from], D[m.from], m)
  BY DEF AgreesAt, GhostsOk
<1>2. ASSUME NEW l \in Ids \ {n} PROVE ActorOk(g, N, E, l, node[l], disk[l], held[l], sent2)
  BY <1>1, OthersKeep
<1>3. ASSUME NEW m \in sent2
      PROVE  m \in Msgs /\ MsgOk(g, E, IF m.from = n THEN d2 ELSE disk[m.from], E[m.from], m)
  <2>1. CASE m \in sent
    <3>1. m \in Msgs /\ m.from \in Ids
      BY <1>1, <2>1, MsgFacts
    <3>2. PICK z : z = IF m.from = n THEN d ELSE disk[m.from]
      OBVIOUS
    <3>3. PICK z2 : z2 = IF m.from = n THEN d2 ELSE disk[m.from]
      OBVIOUS
    <3>4. z.term \in Nat /\ z2.term \in Nat /\ z.term <= z2.term
      <4>1. d \in DiskType /\ d2 \in DiskType
        BY <1>1 DEF ActorOk
      <4>2. m.from # n => disk[m.from] \in DiskType
        BY <1>1, <3>1 DEF ActorOk
      <4> QED
        BY <3>2, <3>3, <4>1, <4>2 DEF DiskType
    <3>5. Ext(h, g) /\ Grows(D, E) /\ Knows(D[m.from], E[m.from])
      BY <3>1 DEF Moves, Grows
    <3>6. MsgOk(h, D, z, D[m.from], m)
      BY <1>1, <2>1, <3>2
    <3>7. MsgOk(g, E, z2, E[m.from], m)
      BY <1>1, <3>1, <3>4, <3>5, <3>6, MsgExt
    <3> QED
      BY <3>1, <3>3, <3>7
  <2>2. CASE m.from = n /\ m \in Msgs /\ MsgOk(g, E, d2, E[n], m)
    BY <2>2
  <2> QED
    BY <2>1, <2>2
<1> QED
  BY <1>2, <1>3 DEF AgreesAt
-----------------------------------------------------------------------------
(* Small steps of a node. *)

\* The parts of a node and its place.
LEMMA AtFacts ==
  ASSUME NEW h, NEW M, NEW D, NEW n \in Ids, NEW s, NEW d, NEW w, NEW sent,
         AgreesAt(h, M, D, n, s, d, w, sent)
  PROVE  /\ HistOk(h, D) /\ M \in [Ids -> Views] /\ D \in [Ids -> Views] /\ GhostsOk(h, M, D)
         /\ ActorOk(h, M, D, n, s, d, w, sent)
         /\ s \in NodeType /\ d \in DiskType /\ w \in SUBSET Msgs
         /\ ViewOk(h, s, M[n]) /\ ViewOk(h, d, D[n])
         /\ NodeOk(h, M, D, n, s, d)
         /\ \A m \in w : m.from = n /\ MsgOk(h, D, s, M[n], m)
         /\ AsksFor(n, s, w \cup sent)
         /\ \A v \in Ids : RecordsOk(h, D[v]) /\ RecordsOk(h, M[v]) /\ D[v].votes \subseteq M[v].votes
         /\ \A m \in sent : /\ m \in Msgs
                            /\ m.from = n => MsgOk(h, D, d, D[n], m)
                            /\ m.from # n => MsgOk(h, D, disk[m.from], D[m.from], m)
<1>1. \A v \in Ids \ {n} : ActorOk(h, M, D, v, node[v], disk[v], held[v], sent)
  BY DEF AgreesAt
<1>2. \A v \in Ids \ {n} : RecordsOk(h, D[v]) /\ RecordsOk(h, M[v]) /\ D[v].votes \subseteq M[v].votes
  BY <1>1 DEF ActorOk, ViewOk, NodeOk
<1>3. ActorOk(h, M, D, n, s, d, w, sent)
  BY DEF AgreesAt
<1>4. RecordsOk(h, D[n]) /\ RecordsOk(h, M[n]) /\ D[n].votes \subseteq M[n].votes
  BY <1>3 DEF ActorOk, ViewOk, NodeOk
<1>5. ASSUME NEW m \in sent
      PROVE  /\ m \in Msgs
             /\ m.from = n => MsgOk(h, D, d, D[n], m)
             /\ m.from # n => MsgOk(h, D, disk[m.from], D[m.from], m)
  BY DEF AgreesAt
<1> QED
  BY <1>2, <1>3, <1>4, <1>5 DEF AgreesAt, ActorOk, GhostsOk

\* Nothing moves by itself.
LEMMA MovesNot ==
  ASSUME NEW h, NEW M, NEW D, NEW n, h \in Histories
  PROVE  Moves(h, M, D, n, h, M, D)
<1>1. ASSUME NEW t \in h.won PROVE Len(h.log[t]) <= Len(h.log[t])
  <2>1. h.log[t] \in Logs
    BY DEF Histories
  <2> QED
    BY <2>1, LogFacts
<1>2. Ext(h, h)
  BY <1>1 DEF Ext, Same
<1> QED
  BY <1>2 DEF Moves, Grows, Knows

\* A step within a node.
LEMMA LocalStep ==
  ASSUME NEW h, NEW M, NEW D, NEW n \in Ids, NEW s, NEW d, NEW w, NEW sent,
         AgreesAt(h, M, D, n, s, d, w, sent), NEW z, NEW w2,
         ActorOk(h, M, D, n, z, d, w2, sent)
  PROVE  AgreesAt(h, M, D, n, z, d, w2, sent)
BY DEF AgreesAt

\* More messages are held back.
LEMMA HoldMore ==
  ASSUME NEW h, NEW M, NEW D, NEW n \in Ids, NEW s, NEW d, NEW w, NEW sent,
         AgreesAt(h, M, D, n, s, d, w, sent), NEW ms,
         \A m \in ms : m \in Msgs /\ m.from = n /\ MsgOk(h, D, s, M[n], m),
         AsksFor(n, s, ms)
  PROVE  AgreesAt(h, M, D, n, s, d, w \cup ms, sent)
<1>1. /\ s \in NodeType /\ d \in DiskType /\ w \in SUBSET Msgs
      /\ ViewOk(h, s, M[n]) /\ ViewOk(h, d, D[n])
      /\ NodeOk(h, M, D, n, s, d)
      /\ \A m \in w : m.from = n /\ MsgOk(h, D, s, M[n], m)
      /\ AsksFor(n, s, w \cup sent)
  BY AtFacts
<1>2. AsksFor(n, s, (w \cup ms) \cup sent)
  BY <1>1 DEF AsksFor
<1>3. w \cup ms \in SUBSET Msgs /\ \A m \in w \cup ms : m.from = n /\ MsgOk(h, D, s, M[n], m)
  BY <1>1
<1>4. ActorOk(h, M, D, n, s, d, w \cup ms, sent)
  BY <1>1, <1>2, <1>3 DEF ActorOk
<1> QED
  BY <1>4, LocalStep

\* Messages that promise nothing.
Idle(m) ==
  \/ m.type \in {"PreVote", "PreVoteResp", "BeatResp", "TimeoutNow"}
  \/ m.type = "VoteResp" /\ m.reject
  \/ m.type = "AppResp" /\ m.index = 0

\* They may always be held.
LEMMA HoldIdle ==
  ASSUME NEW h, NEW M, NEW D, NEW n \in Ids, NEW s, NEW d, NEW w, NEW sent,
         AgreesAt(h, M, D, n, s, d, w, sent), NEW ms,
         \A m \in ms : m \in Msgs /\ m.from = n /\ Idle(m)
  PROVE  AgreesAt(h, M, D, n, s, d, w \cup ms, sent)
<1>1. \A m \in ms : MsgOk(h, D, s, M[n], m)
  BY DEF Idle, MsgOk
<1>2. AsksFor(n, s, ms)
  BY DEF AsksFor, Idle
<1> QED
  BY <1>1, <1>2, HoldMore

\* The node changes nothing that the others could notice: it may give up a
\* candidacy or the lead, ask for pre-votes, and forget what is matched.
Calm(s, z) ==
  /\ z \in NodeType
  /\ z.term = s.term /\ z.vote = s.vote /\ z.log = s.log
  /\ z.commit = s.commit /\ z.applied = s.applied
  /\ z.conf = s.conf \/ (Alike(s.conf, z.conf) /\ z.conf.auto = s.conf.auto /\ Tracked(z.conf))
  /\ \/ z.state = "follower"
     \/ z.state = "pre" /\ ~HasUnappliedConfChanges(z)
     \/ z.state = s.state /\ z.yes \subseteq s.yes /\ z.pending = s.pending /\ z.conf = s.conf

\* The configuration, whatever is matched.
LEMMA ConfOkAlike ==
  ASSUME NEW X, NEW a, NEW c, ConfOk(X, a, c), NEW d, Alike(c, d), d.auto = c.auto, Tracked(d)
  PROVE  ConfOk(X, a, d)
<1>1. PICK f : IsWalk(f, X, a) /\ Alike(f[a], c) /\ f[a].auto = c.auto
  BY DEF ConfOk
<1>2. Alike(f[a], d) /\ Good(d)
  BY <1>1 DEF Alike, ConfOk, Good
<1> QED
  BY <1>1, <1>2 DEF ConfOk

\* Calm steps keep the agreement.
LEMMA CalmStep ==
  ASSUME NEW h, NEW M, NEW D, NEW n \in Ids, NEW s, NEW d, NEW w, NEW sent,
         AgreesAt(h, M, D, n, s, d, w, sent), NEW z, Calm(s, z), s.conf # Refused
  PROVE  AgreesAt(h, M, D, n, z, d, w, sent)
<1>1. /\ s \in NodeType /\ d \in DiskType /\ w \in SUBSET Msgs
      /\ ViewOk(h, s, M[n]) /\ ViewOk(h, d, D[n])
      /\ NodeOk(h, M, D, n, s, d)
      /\ \A m \in w : m.from = n /\ MsgOk(h, D, s, M[n], m)
      /\ AsksFor(n, s, w \cup sent)
  BY AtFacts
<1>2. /\ z \in NodeType /\ z.term = s.term /\ z.vote = s.vote /\ z.log = s.log
      /\ z.commit = s.commit /\ z.applied = s.applied
  BY DEF Calm
<1>3. ViewOk(h, z, M[n])
  BY <1>1, <1>2 DEF ViewOk
<1>4. \A m \in w : m.from = n /\ MsgOk(h, D, z, M[n], m)
  BY <1>1, <1>2 DEF MsgOk
<1>5. AsksFor(n, z, w \cup sent)
  BY <1>1, <1>2 DEF AsksFor, Calm
<1>6. ConfOk(z.log, z.applied, z.conf)
  <2>1. ConfOk(s.log, s.applied, s.conf)
    BY <1>1 DEF NodeOk
  <2> QED
    BY <1>2, <2>1, ConfOkAlike DEF Calm
<1>7. z.state \in {"pre", "candidate"} => ~HasUnappliedConfChanges(z)
  <2>1. HasUnappliedConfChanges(z) <=> HasUnappliedConfChanges(s)
    BY <1>2 DEF HasUnappliedConfChanges
  <2> QED
    BY <1>1, <2>1 DEF Calm, NodeOk
<1>8. ASSUME z.state = "candidate" PROVE CandidateOk(h, M, D, n, z, d)
  <2>1. CandidateOk(h, M, D, n, s, d) /\ z.yes \subseteq s.yes
    BY <1>1, <1>8 DEF Calm, NodeOk
  <2> QED
    BY <1>2, <2>1 DEF CandidateOk
<1>9. ASSUME z.state = "leader" PROVE LeaderOk(h, D, n, z)
  <2>1. LeaderOk(h, D, n, s) /\ z.pending = s.pending /\ z.conf = s.conf
    BY <1>1, <1>9 DEF Calm, NodeOk
  <2> QED
    BY <1>2, <2>1 DEF LeaderOk
<1>10. NodeOk(h, M, D, n, z, d)
  BY <1>1, <1>2, <1>6, <1>7, <1>8, <1>9 DEF NodeOk
<1>11. ActorOk(h, M, D, n, z, d, w, sent)
  BY <1>1, <1>2, <1>3, <1>4, <1>5, <1>10 DEF ActorOk
<1> QED
  BY <1>11, LocalStep

\* A configuration with nothing matched.
Zeroed(c) == [c EXCEPT !.trk = [id \in DOMAIN c.trk |-> [c.trk[id] EXCEPT !.match = 0]]]

\* It is the same but for that.
LEMMA ZeroedConf ==
  ASSUME NEW c, Tracked(c)
  PROVE  /\ Tracked(Zeroed(c)) /\ Alike(c, Zeroed(c)) /\ Zeroed(c).auto = c.auto
         /\ Zeroed(c).trk = [id \in DOMAIN c.trk |-> [c.trk[id] EXCEPT !.match = 0]]
         /\ DOMAIN Zeroed(c).trk = DOMAIN c.trk
         /\ \A id \in DOMAIN c.trk : Zeroed(c).trk[id].match = 0
<1>1. c \in Confs
  BY DEF Tracked
<1>2. /\ c.in \in SUBSET Ids /\ c.out \in SUBSET Ids
      /\ c.learners \in SUBSET Ids /\ c.next \in SUBSET Ids
      /\ c.auto \in BOOLEAN
      /\ DOMAIN c.trk \subseteq Ids
      /\ \A id \in DOMAIN c.trk : c.trk[id] \in Progress
  BY <1>1, ConfFields
<1>3. PICK k : k = [id \in DOMAIN c.trk |-> [c.trk[id] EXCEPT !.match = 0]]
  OBVIOUS
<1>4. \A id \in DOMAIN c.trk : /\ [c.trk[id] EXCEPT !.match = 0] \in Progress
                               /\ [c.trk[id] EXCEPT !.match = 0].match = 0
                               /\ [c.trk[id] EXCEPT !.match = 0].learner = c.trk[id].learner
  BY <1>2 DEF Progress
<1>5. k \in [DOMAIN c.trk -> Progress] /\ DOMAIN k = DOMAIN c.trk
      /\ \A id \in DOMAIN c.trk : k[id].match = 0 /\ k[id].learner = c.trk[id].learner
  BY <1>3, <1>4
<1>6. k \in Tracks
  BY <1>2, <1>5, TrackTyping
<1>7. PICK z : z = Zeroed(c)
  OBVIOUS
<1>8. z = [c EXCEPT !.trk = k]
  BY <1>3, <1>7 DEF Zeroed
<1>9. z \in Confs /\ z.in = c.in /\ z.out = c.out /\ z.learners = c.learners /\ z.next = c.next
      /\ z.auto = c.auto /\ z.trk = k
  BY <1>1, <1>6, <1>8 DEF Confs
<1>10. Tracked(z)
  BY <1>5, <1>9 DEF Tracked, Voters
<1> QED
  BY <1>3, <1>5, <1>7, <1>9, <1>10 DEF Alike

\* The fields of a node's state.
Fields(z) ==
  [term |-> z.term, vote |-> z.vote, state |-> z.state, lead |-> z.lead, log |-> z.log,
   commit |-> z.commit, applied |-> z.applied, conf |-> z.conf, yes |-> z.yes,
   no |-> z.no, pending |-> z.pending, transferee |-> z.transferee,
   waiting |-> z.waiting, queue |-> z.queue, confirmed |-> z.confirmed, acks |-> z.acks]

\* A state with fields of their types is one.
LEMMA NodeTyping ==
  ASSUME NEW z, z = Fields(z), z.term \in Nat \ {0}, z.vote \in Ids \cup {None},
         z.state \in {"follower", "pre", "candidate", "leader"}, z.lead \in Ids \cup {None},
         z.log \in Logs, z.commit \in Nat, z.applied \in Nat, z.conf \in Confs,
         z.yes \in SUBSET Ids, z.no \in SUBSET Ids, z.pending \in Nat,
         z.transferee \in Ids \cup {None}, z.waiting \in Seq(ReadIds),
         z.queue \in Seq([id : ReadIds, index : Nat]), z.confirmed \in Nat, z.acks \in [Ids -> Nat]
  PROVE  z \in NodeType
BY DEF Fields, NodeType

\* reset, field by field.
LEMMA ResetFields ==
  ASSUME NEW s \in NodeType, Tracked(s.conf), NEW t \in Nat \ {0}, NEW z, z = Reset(s, t)
  PROVE  /\ z \in NodeType /\ z.term = t /\ z.log = s.log /\ z.commit = s.commit
         /\ z.applied = s.applied /\ z.conf = Zeroed(s.conf)
         /\ z.vote = IF t = s.term THEN s.vote ELSE None
         /\ z.state = s.state /\ z.yes = {} /\ z.no = {} /\ z.pending = 0
<1>1. z.conf = Zeroed(s.conf)
  BY DEF Reset, Zeroed, NodeType
<1>2. Zeroed(s.conf) \in Confs
  BY ZeroedConf DEF Tracked
<1>3. /\ z.term = t /\ z.log = s.log /\ z.commit = s.commit
      /\ z.applied = s.applied
      /\ z.vote = IF t = s.term THEN s.vote ELSE None
      /\ z.state = s.state /\ z.yes = {} /\ z.no = {} /\ z.pending = 0
      /\ z.lead = None /\ z.transferee = None /\ z.waiting = s.waiting
      /\ z.queue = << >> /\ z.confirmed = 0 /\ z.acks = [id \in Ids |-> 0]
  BY DEF Reset, NodeType
<1>4. z = Fields(z)
  BY DEF Reset, NodeType, Fields
<1>5. z.acks \in [Ids -> Nat] /\ z.queue \in Seq([id : ReadIds, index : Nat])
  BY <1>3
<1>6. s.vote \in Ids \cup {None} /\ s.log \in Logs /\ s.commit \in Nat /\ s.applied \in Nat
      /\ s.waiting \in Seq(ReadIds) /\ s.state \in {"follower", "pre", "candidate", "leader"}
  BY DEF NodeType
<1>7. z.vote \in Ids \cup {None} /\ z.lead \in Ids \cup {None} /\ z.transferee \in Ids \cup {None}
      /\ z.term \in Nat \ {0}
  BY <1>3, <1>6
<1>a. z.state \in {"follower", "pre", "candidate", "leader"} /\ z.log \in Logs
      /\ z.commit \in Nat /\ z.applied \in Nat /\ z.waiting \in Seq(ReadIds)
  BY <1>3, <1>6
<1>b. z.yes \in SUBSET Ids /\ z.no \in SUBSET Ids /\ z.pending \in Nat /\ z.confirmed \in Nat
  BY <1>3
<1>c. z.conf \in Confs
  BY <1>1, <1>2
<1>8. z \in NodeType
  BY <1>4, <1>5, <1>7, <1>a, <1>b, <1>c, NodeTyping
<1> QED
  BY <1>1, <1>3, <1>8

\* becomeFollower.
LEMMA FollowerFields ==
  ASSUME NEW s \in NodeType, Tracked(s.conf), NEW t \in Nat \ {0}, NEW lead \in Ids \cup {None},
         NEW z, z = BecomeFollower(s, t, lead)
  PROVE  /\ z \in NodeType /\ z.term = t /\ z.log = s.log /\ z.commit = s.commit
         /\ z.applied = s.applied /\ z.conf = Zeroed(s.conf)
         /\ z.vote = IF t = s.term THEN s.vote ELSE None
         /\ z.state = "follower"
<1>1. PICK r : r = Reset(s, t)
  OBVIOUS
<1>2. /\ r \in NodeType /\ r.term = t /\ r.log = s.log /\ r.commit = s.commit
      /\ r.applied = s.applied /\ r.conf = Zeroed(s.conf)
      /\ r.vote = IF t = s.term THEN s.vote ELSE None
  BY <1>1, ResetFields
<1>3. z = [r EXCEPT !.state = "follower", !.lead = lead]
  BY <1>1 DEF BecomeFollower
<1>4. z.term = r.term /\ z.log = r.log /\ z.commit = r.commit /\ z.applied = r.applied
      /\ z.conf = r.conf /\ z.vote = r.vote /\ z.state = "follower"
  BY <1>2, <1>3 DEF NodeType
<1>5. z \in NodeType
  BY <1>2, <1>3 DEF NodeType
<1> QED
  BY <1>2, <1>4, <1>5

\* becomeCandidate.
LEMMA CandidateFields ==
  ASSUME NEW s \in NodeType, Tracked(s.conf), NEW n \in Ids, NEW z, z = BecomeCandidate(s, n)
  PROVE  /\ z \in NodeType /\ z.term = s.term + 1 /\ z.log = s.log /\ z.commit = s.commit
         /\ z.applied = s.applied /\ z.conf = Zeroed(s.conf)
         /\ z.vote = n /\ z.state = "candidate" /\ z.yes = {} /\ z.no = {}
<1>0. s.term + 1 \in Nat \ {0}
  BY DEF NodeType
<1>1. PICK r : r = Reset(s, s.term + 1)
  OBVIOUS
<1>2. /\ r \in NodeType /\ r.term = s.term + 1 /\ r.log = s.log /\ r.commit = s.commit
      /\ r.applied = s.applied /\ r.conf = Zeroed(s.conf) /\ r.yes = {} /\ r.no = {}
  BY <1>0, <1>1, ResetFields
<1>3. z = [r EXCEPT !.state = "candidate", !.vote = n]
  BY <1>1 DEF BecomeCandidate
<1>4. z.term = r.term /\ z.log = r.log /\ z.commit = r.commit /\ z.applied = r.applied
      /\ z.conf = r.conf /\ z.vote = n /\ z.state = "candidate" /\ z.yes = r.yes /\ z.no = r.no
  BY <1>2, <1>3 DEF NodeType
<1>5. z \in NodeType
  BY <1>2, <1>3 DEF NodeType
<1> QED
  BY <1>2, <1>4, <1>5

\* A node with a configuration that is not refused.
LEMMA NodeConf ==
  ASSUME NEW h, NEW M, NEW D, NEW n \in Ids, NEW s, NEW d, NEW w, NEW sent,
         AgreesAt(h, M, D, n, s, d, w, sent), s.conf # Refused
  PROVE  /\ ConfOk(s.log, s.applied, s.conf) /\ Tracked(s.conf) /\ s.conf.in # {}
         /\ s.conf \in Confs /\ DOMAIN s.conf.trk \subseteq Ids
         /\ s.conf.in \in SUBSET Ids /\ s.conf.out \in SUBSET Ids
         /\ s.conf.trk \in [DOMAIN s.conf.trk -> Progress]
<1>1. ConfOk(s.log, s.applied, s.conf)
  BY AtFacts DEF NodeOk
<1>2. Tracked(s.conf) /\ s.conf.in # {} /\ s.conf \in Confs
  BY <1>1 DEF ConfOk, Good, Tracked
<1> QED
  BY <1>1, <1>2, ConfFields

\* Giving up a role within the term, or in a term that was never seen.
LEMMA FollowerStep ==
  ASSUME NEW h, NEW M, NEW D, NEW n \in Ids, NEW s, NEW d, NEW w, NEW sent,
         AgreesAt(h, M, D, n, s, d, w, sent), s.conf # Refused,
         NEW t \in Nat, t >= s.term, NEW lead \in Ids \cup {None}, NEW z, z = BecomeFollower(s, t, lead)
  PROVE  /\ AgreesAt(h, M, D, n, z, d, w, sent) /\ z.conf # Refused
         /\ z.term = t /\ z.log = s.log /\ z.commit = s.commit /\ z.state = "follower"
<1>1. /\ s \in NodeType /\ d \in DiskType /\ w \in SUBSET Msgs
      /\ ViewOk(h, s, M[n]) /\ ViewOk(h, d, D[n])
      /\ NodeOk(h, M, D, n, s, d)
      /\ \A m \in w : m.from = n /\ MsgOk(h, D, s, M[n], m)
      /\ HistOk(h, D)
  BY AtFacts
<1>2. Tracked(s.conf) /\ ConfOk(s.log, s.applied, s.conf)
  BY NodeConf
<1>3. s.term \in Nat \ {0} /\ t \in Nat \ {0} /\ d.term \in Nat /\ s.log \in Logs /\ s.commit \in Nat
      /\ Len(s.log) \in Nat
  BY <1>1, LogFacts DEF NodeType, DiskType
<1>4. /\ z \in NodeType /\ z.term = t /\ z.log = s.log /\ z.commit = s.commit
      /\ z.applied = s.applied /\ z.conf = Zeroed(s.conf)
      /\ z.vote = IF t = s.term THEN s.vote ELSE None
      /\ z.state = "follower"
  BY <1>1, <1>2, <1>3, FollowerFields
<1>5. Alike(s.conf, z.conf) /\ z.conf.auto = s.conf.auto /\ Tracked(z.conf)
  <2>1. /\ Tracked(Zeroed(s.conf)) /\ Alike(s.conf, Zeroed(s.conf))
        /\ Zeroed(s.conf).auto = s.conf.auto
    BY <1>2, ZeroedConf
  <2> QED
    BY <1>4, <2>1
<1>6. ConfOk(z.log, z.applied, z.conf) /\ z.conf # Refused
  <2>1. ConfOk(z.log, z.applied, z.conf)
    BY <1>2, <1>4, <1>5, ConfOkAlike
  <2> QED
    BY <2>1 DEF ConfOk, Good, Refused, Empty
<1>7. CASE t = s.term
  <2>1. Calm(s, z)
    BY <1>4, <1>5, <1>7 DEF Calm
  <2> QED
    BY <1>4, <1>6, <2>1, CalmStep
<1>8. CASE t > s.term
  <2>1. ViewOk(h, z, M[n])
    <3>1. RecordsOk(h, M[n]) /\ M[n] \in Views
      BY <1>1 DEF ViewOk, RecordsOk
    <3>2. \A j \in 1 .. Len(z.log) : z.log[j].term <= z.term
      BY <1>1, <1>3, <1>4, LogFacts DEF ViewOk
    <3>3. \A r \in M[n].votes : r.term < z.term
      <4>1. \A r \in M[n].votes : r.term \in Nat /\ r.term <= s.term
        BY <1>1, <3>1 DEF ViewOk, Views, Votes
      <4> QED
        BY <1>3, <1>4, <1>8, <4>1
    <3>4. \A a \in M[n].acks : a.term <= z.term /\ KeptIn(h, z.log, a.term, a.index, z.term)
      <4>1. \A a \in M[n].acks : a.term \in Nat /\ a.term <= s.term /\ KeptIn(h, s.log, a.term, a.index, s.term)
        BY <1>1, <3>1 DEF ViewOk, Views, Acks
      <4>2. h.won \subseteq Nat
        BY <1>1 DEF HistOk, Histories
      <4>3. ASSUME NEW a \in M[n].acks PROVE KeptIn(h, z.log, a.term, a.index, z.term)
        <5>1. z.term \in Nat /\ \A T \in h.won : T <= s.term => T <= z.term
          BY <1>3, <1>4, <1>8, <4>2
        <5> QED
          BY <1>3, <1>4, <4>1, <4>2, <5>1, KeptLater
      <4> QED
        BY <1>3, <1>4, <1>8, <4>1, <4>3
    <3>5. Committed(h, z.term, z.log, z.commit)
      <4>1. Committed(h, s.term, s.log, s.commit) /\ s.commit <= s.commit
        BY <1>1, <1>3 DEF ViewOk
      <4> QED
        BY <1>1, <1>3, <1>4, <4>1, CommittedUpTo
    <3>6. \A r \in M[n].votes : r.term <= z.term /\ (r.term = z.term => r.for = z.vote)
      <4>1. \A r \in M[n].votes : r.term \in Nat
        BY <3>1 DEF Views, Votes
      <4> QED
        BY <1>4, <3>3, <4>1
    <3>7. z.vote = None
      BY <1>3, <1>4, <1>8
    <3>8. Src(h, z.log) /\ OneConf(z.log, z.commit, Len(z.log))
      BY <1>1, <1>4 DEF ViewOk
    <3> QED
      BY <3>1, <3>2, <3>4, <3>5, <3>6, <3>7, <3>8 DEF ViewOk
  <2>2. NodeOk(h, M, D, n, z, d)
    <3>1. d.term <= z.term /\ z.state \notin {"pre", "candidate", "leader"}
      BY <1>1, <1>3, <1>4, <1>8 DEF NodeOk
    <3> QED
      BY <1>1, <1>4, <1>6, <3>1 DEF NodeOk
  <2>3. \A m \in w : m.from = n /\ MsgOk(h, D, z, M[n], m)
    <3>1. \A m \in w : m.term \in Nat
      BY <1>1, MsgFacts
    <3> QED
      BY <1>1, <1>3, <1>4, <1>8, <3>1 DEF MsgOk
  <2>4. AsksFor(n, z, w \cup sent)
    BY <1>4 DEF AsksFor
  <2>5. ActorOk(h, M, D, n, z, d, w, sent)
    BY <1>1, <1>4, <2>1, <2>2, <2>3, <2>4 DEF ActorOk
  <2> QED
    BY <1>4, <1>6, <2>5, LocalStep
<1> QED
  BY <1>3, <1>7, <1>8

\* A step within a node that it remembers.
LEMMA MemoryStep ==
  ASSUME NEW h, NEW M, NEW D, NEW n \in Ids, NEW s, NEW d, NEW w, NEW sent,
         AgreesAt(h, M, D, n, s, d, w, sent), NEW z, NEW w2, NEW N, NEW v \in Views,
         N = [M EXCEPT ![n] = v],
         \A r \in v.votes :
           \/ r \in M[n].votes \/ r.for = n
           \/ /\ r.term <= disk[r.for].term
              /\ node[r.for].state = "candidate" /\ r.term = node[r.for].term =>
                   r.last = LastAt(node[r.for].log, Len(node[r.for].log)),
         ActorOk(h, N, D, n, z, d, w2, sent)
  PROVE  AgreesAt(h, N, D, n, z, d, w2, sent)
<1>1. HistOk(h, D) /\ M \in [Ids -> Views] /\ D \in [Ids -> Views] /\ d \in DiskType
  BY AtFacts
<1>2. N \in [Ids -> Views] /\ N[n] = v /\ \A l \in Ids \ {n} : N[l] = M[l]
  BY <1>1
<1>3. Moves(h, M, D, n, h, M, D)
  BY <1>1, MovesNot DEF HistOk
<1>4. Moves(h, M, D, n, h, N, D)
  BY <1>2, <1>3 DEF Moves
<1>5. GhostsOk(h, N, D)
  BY <1>1, <1>2 DEF GhostsOk
<1>6. d.term <= d.term
  BY <1>1 DEF DiskType
<1> QED
  BY <1>4, <1>5, <1>6, StepKeeps

\* The latest term up to t that has had a leader by now, or may have had.
Led(h, t) == IF t \in h.won THEN t ELSE t - 1

\* A node that votes.
LEMMA NewVote ==
  ASSUME NEW h, NEW D, HistOk(h, D), NEW v, NEW s, ViewOk(h, s, v), s.log \in Logs, s.term \in Nat,
         s.commit \in Nat,
         NEW z, z.log = s.log, z.commit = s.commit, z.term \in Nat, s.term <= z.term,
         NEW r \in Votes, VoteOk(h, r), r.term = z.term, r.for = z.vote, r.log = s.log,
         r.upto = Led(h, z.term),
         \A q \in v.votes : q.term < z.term,
         NEW u, u = [v EXCEPT !.votes = @ \cup {r}]
  PROVE  /\ ViewOk(h, z, u) /\ Knows(v, u) /\ u \in Views
         /\ u.votes = v.votes \cup {r} /\ u.acks = v.acks
<1>1. RecordsOk(h, v) /\ v \in Views
  BY DEF ViewOk, RecordsOk
<1>2. u.votes = v.votes \cup {r} /\ u.acks = v.acks /\ u \in Views
  BY <1>1 DEF Views
<1>3. \A a \in v.acks : a.term \in Nat /\ a.term <= s.term /\ KeptIn(h, s.log, a.term, a.index, s.term)
  BY <1>1 DEF ViewOk, Views, Acks
<1>4. \A q \in v.votes : q.term \in Nat
  BY <1>1 DEF Views, Votes
<1>5. \A q \in u.votes : VoteOk(h, q)
  BY <1>1, <1>2 DEF RecordsOk
<1>6. \A p, q \in u.votes : p.term = q.term => p = q
  <2>1. \A p, q \in v.votes : p.term = q.term => p = q
    BY <1>1 DEF RecordsOk
  <2>2. \A q \in v.votes : q.term # r.term
    BY <1>4
  <2> QED
    BY <1>2, <2>1, <2>2
<1>7. \A a \in u.acks : /\ a.term \in h.won /\ a.index <= Len(h.log[a.term])
                        /\ \A q \in u.votes : q.term > a.term => KeptIn(h, q.log, a.term, a.index, q.upto)
  <2>1. h.won \subseteq Nat /\ r.upto \in Nat
    BY DEF HistOk, Histories, Votes
  <2>2. \A T \in h.won : T <= s.term => T <= r.upto
    BY <2>1 DEF Led
  <2>3. \A a \in v.acks : KeptIn(h, r.log, a.term, a.index, r.upto)
    BY <1>3, <2>1, <2>2, KeptLater
  <2> QED
    BY <1>1, <1>2, <2>3 DEF RecordsOk
<1>8. RecordsOk(h, u)
  BY <1>2, <1>5, <1>6, <1>7 DEF RecordsOk
<1>9. \A q \in u.votes : q.term <= z.term /\ (q.term = z.term => q.for = z.vote)
  BY <1>2, <1>4
<1>10. \A a \in u.acks : a.term <= z.term /\ KeptIn(h, z.log, a.term, a.index, z.term)
  <2>1. h.won \subseteq Nat
    BY DEF HistOk, Histories
  <2>2. \A T \in h.won : T <= s.term => T <= z.term
    BY <2>1
  <2>3. \A a \in v.acks : KeptIn(h, z.log, a.term, a.index, z.term)
    BY <1>3, <2>1, <2>2, KeptLater
  <2> QED
    BY <1>2, <1>3, <2>3
<1>11. \A j \in 1 .. Len(z.log) : z.log[j].term <= z.term
  BY LogFacts DEF ViewOk
<1>12. Committed(h, z.term, z.log, z.commit)
  <2>1. Committed(h, s.term, s.log, s.commit) /\ s.commit <= s.commit /\ Len(s.log) \in Nat
    BY LogFacts DEF ViewOk
  <2> QED
    BY <2>1, CommittedUpTo
<1>13. \E q \in u.votes : q.term = z.term
  BY <1>2
<1>14. Src(h, z.log) /\ OneConf(z.log, z.commit, Len(z.log))
  BY DEF ViewOk
<1>15. ViewOk(h, z, u)
  BY <1>8, <1>9, <1>10, <1>11, <1>12, <1>13, <1>14 DEF ViewOk
<1> QED
  BY <1>2, <1>15 DEF Knows

\* What a node may vote on: its log's last entry.
LEMMA LastBelow ==
  ASSUME NEW h, NEW v, NEW s \in NodeType, ViewOk(h, s, v)
  PROVE  /\ LastTerm(s.log) \in Nat /\ LastTerm(s.log) <= s.term
         /\ LastAt(s.log, Len(s.log)) \in Lasts /\ Len(s.log) \in Nat /\ s.log \in Logs
         /\ LastAt(s.log, Len(s.log)).term = LastTerm(s.log)
         /\ LastAt(s.log, Len(s.log)).index = Len(s.log)
         /\ UpToDate(s.log, LastAt(s.log, Len(s.log)))
<1>1. s.log \in Logs /\ s.term \in Nat \ {0}
  BY DEF NodeType
<1>2. LastTerm(s.log) \in Nat /\ Len(s.log) \in Nat
  BY <1>1, LogFacts
<1>3. LastTerm(s.log) <= s.term
  BY <1>1, <1>2 DEF ViewOk, LastTerm, TermAt, BaseTerm
<1>4. LastAt(s.log, Len(s.log)) = [term |-> LastTerm(s.log), index |-> Len(s.log)]
  BY DEF LastAt, LastTerm
<1> QED
  BY <1>1, <1>2, <1>3, <1>4 DEF Lasts, UpToDate

\* becomeCandidate: the node votes for itself.
LEMMA CandidateStep ==
  ASSUME NEW h, NEW M, NEW D, NEW n \in Ids, NEW s, NEW d, NEW w, NEW sent,
         AgreesAt(h, M, D, n, s, d, w, sent), s.conf # Refused, ~HasUnappliedConfChanges(s),
         NEW z, z = BecomeCandidate(s, n)
  PROVE  /\ z.conf # Refused /\ z.term = s.term + 1 /\ z.log = s.log /\ z.state = "candidate"
         /\ z.commit = s.commit /\ z \in NodeType
         /\ \E N : AgreesAt(h, N, D, n, z, d, w, sent) /\ HasVoted(N[n], z.term, n)
<1>1. /\ s \in NodeType /\ d \in DiskType /\ w \in SUBSET Msgs
      /\ ViewOk(h, s, M[n]) /\ ViewOk(h, d, D[n])
      /\ NodeOk(h, M, D, n, s, d)
      /\ \A m \in w : m.from = n /\ MsgOk(h, D, s, M[n], m)
      /\ HistOk(h, D) /\ M \in [Ids -> Views]
      /\ \A m \in sent : m.from = n => MsgOk(h, D, d, D[n], m)
  BY AtFacts
<1>2. Tracked(s.conf) /\ ConfOk(s.log, s.applied, s.conf)
  BY NodeConf
<1>3. /\ z \in NodeType /\ z.term = s.term + 1 /\ z.log = s.log /\ z.commit = s.commit
      /\ z.applied = s.applied /\ z.conf = Zeroed(s.conf)
      /\ z.vote = n /\ z.state = "candidate" /\ z.yes = {} /\ z.no = {}
  BY <1>1, <1>2, CandidateFields
<1>4. ConfOk(z.log, z.applied, z.conf) /\ z.conf # Refused
  <2>1. /\ Tracked(Zeroed(s.conf)) /\ Alike(s.conf, Zeroed(s.conf))
        /\ Zeroed(s.conf).auto = s.conf.auto
    BY <1>2, ZeroedConf
  <2>2. ConfOk(z.log, z.applied, z.conf)
    BY <1>2, <1>3, <2>1, ConfOkAlike
  <2> QED
    BY <2>2 DEF ConfOk, Good, Refused, Empty
<1>5. s.term \in Nat /\ d.term \in Nat /\ d.term <= s.term /\ s.commit \in Nat
  BY <1>1 DEF NodeType, DiskType, NodeOk
<1>6. PICK r : r = [term |-> z.term, for |-> n, log |-> s.log, last |-> LastAt(s.log, Len(s.log)),
                    upto |-> Led(h, z.term)]
  OBVIOUS
<1>7. /\ r \in Votes /\ r.term = z.term /\ r.for = n /\ r.log = s.log /\ s.log \in Logs
      /\ r.last = LastAt(s.log, Len(s.log)) /\ r.upto = Led(h, z.term)
      /\ VoteOk(h, r)
  <2>1. /\ LastTerm(s.log) \in Nat /\ LastTerm(s.log) <= s.term
        /\ LastAt(s.log, Len(s.log)) \in Lasts /\ s.log \in Logs
        /\ UpToDate(s.log, LastAt(s.log, Len(s.log)))
    BY <1>1, LastBelow
  <2>2. /\ r.term = z.term /\ r.for = n /\ r.log = s.log /\ r.last = LastAt(s.log, Len(s.log))
        /\ r.upto = Led(h, z.term)
    BY <1>6
  <2>3. r \in Votes /\ (r.upto < r.term \/ (r.upto = r.term /\ r.term \in h.won))
    <3>1. Led(h, z.term) \in Nat
      BY <1>3, <1>5 DEF Led
    <3>2. r \in Votes
      BY <1>3, <1>5, <1>6, <2>1, <3>1 DEF Votes
    <3> QED
      BY <1>3, <1>5, <2>2, <3>2 DEF Led
  <2>4. LastTerm(s.log) < z.term
    BY <1>3, <1>5, <2>1
  <2> QED
    BY <1>1, <2>1, <2>2, <2>3, <2>4 DEF VoteOk, ViewOk
<1>8. \A q \in M[n].votes : q.term \in Nat /\ q.term <= s.term /\ q.term < z.term
  <2>1. \A q \in M[n].votes : q.term \in Nat /\ q.term <= s.term
    BY <1>1 DEF ViewOk, Views, Votes
  <2> QED
    BY <1>3, <1>5, <2>1
<1>9. PICK u : u = [M[n] EXCEPT !.votes = @ \cup {r}]
  OBVIOUS
<1>10. /\ ViewOk(h, z, u) /\ Knows(M[n], u) /\ u \in Views
       /\ u.votes = M[n].votes \cup {r} /\ u.acks = M[n].acks
  <2>1. z.term \in Nat /\ s.term <= z.term
    BY <1>3, <1>5
  <2> QED
    BY <1>1, <1>3, <1>5, <1>7, <1>8, <1>9, <2>1, NewVote
<1>11. PICK N : N = [M EXCEPT ![n] = u]
  OBVIOUS
<1>12. N[n] = u /\ \A v \in Ids \ {n} : N[v] = M[v]
  BY <1>1, <1>11
<1>13. CandidateOk(h, N, D, n, z, d)
  <2>1. \A j \in 1 .. Len(z.log) : z.log[j].term < z.term
    BY <1>1, <1>3, <1>5, <1>7, LogFacts DEF ViewOk
  <2>2. d.term # z.term
    BY <1>3, <1>5
  <2>3. z.term \in h.won => h.el[z.term].who # n
    BY <1>1, <1>3, <1>5 DEF NodeOk
  <2>4. ASSUME NEW v \in Ids, NEW q \in N[v].votes, q.term = z.term, q.for = n
        PROVE  q.last = LastAt(z.log, Len(z.log))
    <3>1. CASE v = n
      BY <1>3, <1>7, <1>8, <1>10, <1>12, <2>4, <3>1
    <3>2. CASE v # n
      <4>1. q \in M[v].votes
        BY <1>12, <3>2
      <4>2. q.term <= d.term
        BY <1>1, <2>4, <3>2, <4>1 DEF NodeOk
      <4> QED
        BY <1>3, <1>5, <2>4, <4>2
    <3> QED
      BY <3>1, <3>2
  <2>5. Committed(h, z.term - 1, z.log, z.commit)
    <3>1. z.term - 1 = s.term
      BY <1>3, <1>5
    <3> QED
      BY <1>1, <1>3, <3>1 DEF ViewOk
  <2> QED
    BY <1>3, <2>1, <2>2, <2>3, <2>4, <2>5 DEF CandidateOk
<1>14. NodeOk(h, N, D, n, z, d)
  <2>1. d.term <= z.term /\ D[n].votes \subseteq N[n].votes /\ D[n].acks \subseteq N[n].acks
    BY <1>1, <1>3, <1>5, <1>10, <1>12 DEF NodeOk, Knows
  <2>2. ~HasUnappliedConfChanges(z)
    BY <1>3 DEF HasUnappliedConfChanges
  <2>3. \A v \in Ids \ {n} : \A q \in N[v].votes : q.for = n => q.term <= d.term
    BY <1>1, <1>12 DEF NodeOk
  <2> QED
    BY <1>1, <1>3, <1>4, <1>13, <2>1, <2>2, <2>3 DEF NodeOk
<1>15. \A m \in w : m.from = n /\ MsgOk(h, D, z, N[n], m)
  <2>1. ASSUME NEW m \in w PROVE MsgOk(h, D, z, u, m)
    <3>1. Ext(h, h) /\ Grows(D, D)
      BY <1>1, MovesNot DEF HistOk, Moves
    <3>2. m \in Msgs /\ z.term \in Nat /\ s.term <= z.term
      BY <1>1, <1>3, <1>5
    <3> QED
      BY <1>1, <1>5, <1>10, <3>1, <3>2, MsgExt
  <2> QED
    BY <1>1, <1>12, <2>1
<1>16. AsksFor(n, z, w \cup sent)
  <2>1. ASSUME NEW m \in w \cup sent, m.type = "Vote", m.from = n, m.term = z.term PROVE FALSE
    <3>1. m \in w => m.term <= s.term
      BY <1>1, <2>1 DEF MsgOk
    <3>2. m \in sent => m.term <= d.term
      BY <1>1, <2>1 DEF MsgOk
    <3> QED
      BY <1>3, <1>5, <2>1, <3>1, <3>2
  <2> QED
    BY <2>1 DEF AsksFor
<1>17. ActorOk(h, N, D, n, z, d, w, sent)
  BY <1>1, <1>3, <1>10, <1>12, <1>14, <1>15, <1>16 DEF ActorOk
<1>18. AgreesAt(h, N, D, n, z, d, w, sent)
  <2>1. \A q \in u.votes : q \in M[n].votes \/ q.for = n
    BY <1>7, <1>10
  <2> QED
    BY <1>10, <1>11, <1>17, <2>1, MemoryStep
<1>19. HasVoted(N[n], z.term, n)
  BY <1>7, <1>10, <1>12 DEF HasVoted
<1> QED
  BY <1>3, <1>4, <1>18, <1>19

\* The messages sent.
LEMMA SentFacts ==
  ASSUME NEW h, NEW M, NEW D, NEW n \in Ids, NEW s, NEW d, NEW w, NEW sent,
         AgreesAt(h, M, D, n, s, d, w, sent), NEW m \in sent
  PROVE  /\ m \in Msgs
         /\ m.from = n => MsgOk(h, D, d, D[n], m)
         /\ m.from # n => MsgOk(h, D, disk[m.from], D[m.from], m)
BY DEF AgreesAt

\* The state with another vote, or another node's vote counted.
Voted(s, id)   == [s EXCEPT !.vote = id]
Counted(s, id) == [s EXCEPT !.yes = @ \cup {id}]

\* A vote for another candidate, or once more for the same.
LEMMA VoteStep ==
  ASSUME NEW h, NEW M, NEW D, NEW n \in Ids, NEW s, NEW d, NEW w, NEW sent,
         AgreesAt(h, M, D, n, s, d, w, sent), s.conf # Refused,
         NEW m \in sent, m.type = "Vote", m.term = s.term, s.vote \in {m.from, None},
         UpToDate(s.log, m.last), NEW z, z = Voted(s, m.from)
  PROVE  /\ z.conf = s.conf /\ z.term = s.term /\ z.log = s.log /\ z.commit = s.commit
         /\ \E N : AgreesAt(h, N, D, n, z, d, w, sent) /\ HasVoted(N[n], s.term, m.from)
<1>1. /\ s \in NodeType /\ d \in DiskType /\ w \in SUBSET Msgs
      /\ ViewOk(h, s, M[n]) /\ ViewOk(h, d, D[n])
      /\ NodeOk(h, M, D, n, s, d)
      /\ \A x \in w : x.from = n /\ MsgOk(h, D, s, M[n], x)
      /\ HistOk(h, D) /\ M \in [Ids -> Views]
      /\ AsksFor(n, s, w \cup sent)
  BY AtFacts
<1>2. /\ m \in Msgs
      /\ m.from = n => MsgOk(h, D, d, D[n], m)
      /\ m.from # n => MsgOk(h, D, disk[m.from], D[m.from], m)
  BY SentFacts
<1>3. m.from \in Ids /\ m.last \in Lasts /\ m.from # None
  BY <1>2, MsgFacts, IdsAssumption DEF None
<1>4. m.last.term < m.term
  BY <1>2 DEF MsgOk
<1>5. /\ z \in NodeType /\ z.term = s.term /\ z.log = s.log /\ z.commit = s.commit
      /\ z.applied = s.applied /\ z.conf = s.conf /\ z.vote = m.from /\ z.state = s.state
      /\ z.yes = s.yes /\ z.pending = s.pending
  BY <1>1, <1>3 DEF NodeType, Voted
<1>6. CASE s.vote = m.from
  <2>1. Calm(s, z)
    BY <1>5, <1>6 DEF Calm
  <2>2. AgreesAt(h, M, D, n, z, d, w, sent)
    BY <2>1, CalmStep
  <2>3. HasVoted(M[n], s.term, m.from)
    BY <1>1, <1>3, <1>6 DEF ViewOk, HasVoted
  <2> QED
    BY <1>5, <2>2, <2>3
<1>7. CASE s.vote = None
  <2>0. s.state # "candidate"
    BY <1>1, <1>7, IdsAssumption DEF NodeOk, CandidateOk, None
  <2>1. PICK r : r = [term |-> s.term, for |-> m.from, log |-> s.log, last |-> m.last,
                      upto |-> Led(h, z.term)]
    OBVIOUS
  <2>2. /\ LastTerm(s.log) \in Nat /\ s.log \in Logs /\ Len(s.log) \in Nat /\ s.term \in Nat
        /\ s.commit \in Nat /\ m.last.term \in Nat /\ s.term > 0
    <3>1. s.log \in Logs /\ s.term \in Nat /\ s.commit \in Nat /\ s.term > 0
      BY ONLY <1>1 DEF NodeType
    <3>2. m.last.term \in Nat
      BY ONLY <1>3 DEF Lasts
    <3> QED
      BY <1>1, <3>1, <3>2, LastBelow
  <2>3. LastTerm(s.log) < s.term
    BY <1>4, <2>2 DEF UpToDate
  <2>4. /\ r \in Votes /\ r.term = z.term /\ r.for = z.vote /\ r.log = s.log /\ r.last = m.last
        /\ r.term = s.term /\ r.for = m.from /\ r.upto = Led(h, z.term)
    <3>1. Led(h, z.term) \in Nat
      BY <1>5, <2>2 DEF Led
    <3> QED
      BY <1>3, <1>5, <2>1, <2>2, <3>1 DEF Votes
  <2>5. VoteOk(h, r)
    <3>1. CASE r.term \in h.won
      BY <1>1, <2>3, <2>4, <3>1 DEF VoteOk, ViewOk, Led
    <3>2. CASE r.term \notin h.won
      <4>1. r.upto = r.term - 1 /\ r.term \in Nat
        BY ONLY <2>2, <2>4, <3>2 DEF Led
      <4>2. r.upto < r.term
        BY ONLY <4>1
      <4> QED
        BY <1>1, <2>3, <2>4, <4>2 DEF VoteOk, ViewOk
    <3> QED
      BY <3>1, <3>2
  <2>6. \A q \in M[n].votes : q.term < z.term
    <3>1. \A q \in M[n].votes : q.term \in Nat /\ q.term <= s.term /\ q.for \in Ids
                                /\ (q.term = s.term => q.for = s.vote)
      BY <1>1 DEF ViewOk, Views, Votes
    <3>2. None \notin Ids
      BY IdsAssumption DEF None
    <3> QED
      BY <1>5, <1>7, <2>2, <3>1, <3>2
  <2>7. PICK u : u = [M[n] EXCEPT !.votes = @ \cup {r}]
    OBVIOUS
  <2>8. /\ ViewOk(h, z, u) /\ Knows(M[n], u) /\ u \in Views
        /\ u.votes = M[n].votes \cup {r} /\ u.acks = M[n].acks
    <3>1. z.term \in Nat /\ s.term <= z.term
      BY <1>5, <2>2
    <3> QED
      BY <1>1, <1>5, <2>2, <2>4, <2>5, <2>6, <2>7, <3>1, NewVote
  <2>9. PICK N : N = [M EXCEPT ![n] = u]
    OBVIOUS
  <2>10. N[n] = u /\ \A v \in Ids \ {n} : N[v] = M[v]
    BY <1>1, <2>9
  <2>11. NodeOk(h, N, D, n, z, d)
    <3>1. d.term <= z.term /\ D[n].votes \subseteq N[n].votes /\ D[n].acks \subseteq N[n].acks
      BY <1>1, <1>5, <2>8, <2>10 DEF NodeOk, Knows
    <3>2. HasUnappliedConfChanges(z) <=> HasUnappliedConfChanges(s)
      BY <1>5 DEF HasUnappliedConfChanges
    <3>3. \A v \in Ids \ {n} : \A q \in N[v].votes : q.for = n => q.term <= d.term
      BY <1>1, <2>10 DEF NodeOk
    <3>4. z.state = "leader" => LeaderOk(h, D, n, z)
      <4>1. z.state = "leader" => LeaderOk(h, D, n, s)
        BY <1>1, <1>5 DEF NodeOk
      <4> QED
        BY <1>5, <4>1 DEF LeaderOk
    <3> QED
      BY <1>1, <1>5, <2>0, <3>1, <3>2, <3>3, <3>4 DEF NodeOk
  <2>12. \A x \in w : x.from = n /\ MsgOk(h, D, z, N[n], x)
    <3>1. ASSUME NEW x \in w PROVE MsgOk(h, D, z, u, x)
      <4>1. Ext(h, h) /\ Grows(D, D)
        BY <1>1, MovesNot DEF HistOk, Moves
      <4>2. x \in Msgs /\ z.term \in Nat /\ s.term <= z.term
        BY <1>1, <1>5, <2>2
      <4> QED
        BY <1>1, <2>2, <2>8, <4>1, <4>2, MsgExt
    <3> QED
      BY <1>1, <2>10, <3>1
  <2>13. AsksFor(n, z, w \cup sent)
    BY <1>5, <2>0 DEF AsksFor
  <2>14. ActorOk(h, N, D, n, z, d, w, sent)
    BY <1>1, <1>5, <2>8, <2>10, <2>11, <2>12, <2>13 DEF ActorOk
  <2>15. ASSUME NEW q \in u.votes
         PROVE  \/ q \in M[n].votes \/ q.for = n
                \/ /\ q.term <= disk[q.for].term
                   /\ node[q.for].state = "candidate" /\ q.term = node[q.for].term =>
                        q.last = LastAt(node[q.for].log, Len(node[q.for].log))
    <3> SUFFICES ASSUME q = r, m.from # n
                 PROVE  /\ s.term <= disk[m.from].term
                        /\ node[m.from].state = "candidate" /\ s.term = node[m.from].term =>
                             m.last = LastAt(node[m.from].log, Len(node[m.from].log))
      BY <2>4, <2>8
    <3>1. m.term <= disk[m.from].term
      BY <1>2 DEF MsgOk
    <3>2. AsksFor(m.from, node[m.from], held[m.from] \cup sent)
      BY <1>3 DEF AgreesAt, ActorOk
    <3> QED
      BY <3>1, <3>2 DEF AsksFor
  <2>16. AgreesAt(h, N, D, n, z, d, w, sent)
    BY <2>8, <2>9, <2>14, <2>15, MemoryStep
  <2>17. HasVoted(N[n], s.term, m.from)
    BY <2>4, <2>8, <2>10 DEF HasVoted
  <2> QED
    BY <1>5, <2>16, <2>17
<1> QED
  BY <1>6, <1>7

\* A vote counted.
LEMMA YesStep ==
  ASSUME NEW h, NEW M, NEW D, NEW n \in Ids, NEW s, NEW d, NEW w, NEW sent,
         AgreesAt(h, M, D, n, s, d, w, sent), s.state = "candidate",
         NEW v \in Ids, HasVoted(D[v], s.term, n), NEW z, z = Counted(s, v)
  PROVE  AgreesAt(h, M, D, n, z, d, w, sent)
<1>1. /\ s \in NodeType /\ d \in DiskType /\ w \in SUBSET Msgs
      /\ ViewOk(h, s, M[n]) /\ ViewOk(h, d, D[n])
      /\ NodeOk(h, M, D, n, s, d)
      /\ \A x \in w : x.from = n /\ MsgOk(h, D, s, M[n], x)
      /\ AsksFor(n, s, w \cup sent)
  BY AtFacts
<1>2. /\ z \in NodeType /\ z.term = s.term /\ z.log = s.log /\ z.commit = s.commit
      /\ z.applied = s.applied /\ z.conf = s.conf /\ z.vote = s.vote /\ z.state = s.state
      /\ z.yes = s.yes \cup {v} /\ z.pending = s.pending
  BY <1>1 DEF NodeType, Counted
<1>3. CandidateOk(h, M, D, n, z, d)
  <2>1. CandidateOk(h, M, D, n, s, d)
    BY <1>1 DEF NodeOk
  <2> QED
    BY <1>2, <2>1 DEF CandidateOk
<1>4. NodeOk(h, M, D, n, z, d)
  <2>1. HasUnappliedConfChanges(z) <=> HasUnappliedConfChanges(s)
    BY <1>2 DEF HasUnappliedConfChanges
  <2> QED
    BY <1>1, <1>2, <1>3, <2>1 DEF NodeOk
<1>5. ViewOk(h, z, M[n])
  BY <1>1, <1>2 DEF ViewOk
<1>6. \A m \in w : m.from = n /\ MsgOk(h, D, z, M[n], m)
  BY <1>1, <1>2 DEF MsgOk
<1>7. AsksFor(n, z, w \cup sent)
  BY <1>1, <1>2 DEF AsksFor
<1>8. ActorOk(h, M, D, n, z, d, w, sent)
  BY <1>1, <1>2, <1>4, <1>5, <1>6, <1>7 DEF ActorOk
<1> QED
  BY <1>8, LocalStep

\* A view with an acknowledgement more.
Acked(v, t, k) == [v EXCEPT !.acks = @ \cup {[term |-> t, index |-> k]}]

Acks1(M, n, t, k) == [M EXCEPT ![n] = Acked(M[n], t, k)]

\* A node may acknowledge what it has of the leader's log.
LEMMA NewAck ==
  ASSUME NEW h, NEW v, NEW s, ViewOk(h, s, v), s.term \in Nat, s.term \in h.won,
         NEW k \in Nat, k <= Len(h.log[s.term]), Has(h, s.log, s.term, k),
         NEW u, u = Acked(v, s.term, k)
  PROVE  /\ ViewOk(h, s, u) /\ Knows(v, u) /\ u \in Views
         /\ u.votes = v.votes /\ u.acks = v.acks \cup {[term |-> s.term, index |-> k]}
         /\ HasAcked(u, s.term, k)
<1>1. RecordsOk(h, v) /\ v \in Views
  BY DEF ViewOk, RecordsOk
<1>2. PICK a : a = [term |-> s.term, index |-> k]
  OBVIOUS
<1>3. a.term = s.term /\ a.index = k /\ a \in Acks
  BY <1>2 DEF Acks
<1>4. u.votes = v.votes /\ u.acks = v.acks \cup {a} /\ u \in Views
  BY <1>1, <1>2, <1>3 DEF Views, Acked
<1>5. \A r \in v.votes : r.term \in Nat /\ r.term <= s.term
  BY <1>1 DEF ViewOk, Views, Votes
<1>6. \A b \in u.acks : /\ b.term \in h.won /\ b.index <= Len(h.log[b.term])
                        /\ \A r \in u.votes : r.term > b.term => KeptIn(h, r.log, b.term, b.index, r.upto)
  BY <1>1, <1>3, <1>4, <1>5 DEF RecordsOk
<1>7. RecordsOk(h, u)
  BY <1>1, <1>4, <1>6 DEF RecordsOk
<1>8. \A b \in u.acks : b.term <= s.term /\ KeptIn(h, s.log, b.term, b.index, s.term)
  <2>1. KeptIn(h, s.log, s.term, k, s.term)
    BY DEF KeptIn, Has, Same
  <2> QED
    BY <1>3, <1>4, <2>1 DEF ViewOk
<1>9. ViewOk(h, s, u)
  BY <1>4, <1>7, <1>8 DEF ViewOk
<1>10. HasAcked(u, s.term, k)
  BY <1>3, <1>4 DEF HasAcked
<1> QED
  BY <1>2, <1>4, <1>9, <1>10 DEF Knows

\* An acknowledgement remembered.
LEMMA AckStep ==
  ASSUME NEW h, NEW M, NEW D, NEW n \in Ids, NEW s, NEW d, NEW w, NEW sent,
         AgreesAt(h, M, D, n, s, d, w, sent), s.term \in h.won,
         NEW k \in Nat, k <= Len(h.log[s.term]), Has(h, s.log, s.term, k),
         NEW N, N = Acks1(M, n, s.term, k)
  PROVE  AgreesAt(h, N, D, n, s, d, w, sent) /\ HasAcked(N[n], s.term, k)
<1>1. /\ s \in NodeType /\ d \in DiskType /\ w \in SUBSET Msgs
      /\ ViewOk(h, s, M[n]) /\ ViewOk(h, d, D[n])
      /\ NodeOk(h, M, D, n, s, d)
      /\ \A x \in w : x.from = n /\ MsgOk(h, D, s, M[n], x)
      /\ HistOk(h, D) /\ M \in [Ids -> Views]
      /\ AsksFor(n, s, w \cup sent)
  BY AtFacts
<1>2. s.term \in Nat
  BY <1>1 DEF NodeType
<1>3. PICK u : u = Acked(M[n], s.term, k)
  OBVIOUS
<1>4. /\ ViewOk(h, s, u) /\ Knows(M[n], u) /\ u \in Views
      /\ u.votes = M[n].votes /\ HasAcked(u, s.term, k)
  <2>1. PICK v : v = M[n]
    OBVIOUS
  <2>2. /\ ViewOk(h, s, v) /\ s.term \in Nat /\ s.term \in h.won /\ k \in Nat
        /\ k <= Len(h.log[s.term]) /\ Has(h, s.log, s.term, k) /\ u = Acked(v, s.term, k)
    BY <1>1, <1>2, <1>3, <2>1
  <2>3. /\ ViewOk(h, s, u) /\ Knows(v, u) /\ u \in Views
        /\ u.votes = v.votes /\ HasAcked(u, s.term, k)
    BY ONLY <2>2, NewAck
  <2> QED
    BY <2>1, <2>3
<1>5. N[n] = u /\ \A v \in Ids \ {n} : N[v] = M[v]
  BY <1>1, <1>3 DEF Acks1
<1>6. NodeOk(h, N, D, n, s, d)
  <2>1. D[n].votes \subseteq N[n].votes /\ D[n].acks \subseteq N[n].acks
    BY <1>1, <1>4, <1>5 DEF NodeOk, Knows
  <2>2. \A v \in Ids : N[v].votes = M[v].votes
    BY <1>4, <1>5
  <2>3. s.state = "candidate" => CandidateOk(h, N, D, n, s, d)
    BY <1>1, <2>2 DEF NodeOk, CandidateOk
  <2> QED
    BY <1>1, <2>1, <2>2, <2>3 DEF NodeOk
<1>7. \A x \in w : x.from = n /\ MsgOk(h, D, s, N[n], x)
  <2>1. ASSUME NEW x \in w PROVE MsgOk(h, D, s, u, x)
    <3>1. Ext(h, h) /\ Grows(D, D)
      BY <1>1, MovesNot DEF HistOk, Moves
    <3>2. x \in Msgs /\ s.term <= s.term
      BY <1>1, <1>2
    <3> QED
      BY <1>1, <1>2, <1>4, <3>1, <3>2, MsgExt
  <2> QED
    BY <1>1, <1>5, <2>1
<1>8. ActorOk(h, N, D, n, s, d, w, sent)
  BY <1>1, <1>4, <1>5, <1>6, <1>7 DEF ActorOk
<1>9. AgreesAt(h, N, D, n, s, d, w, sent)
  <2>1. \A q \in u.votes : q \in M[n].votes \/ q.for = n
    BY <1>4
  <2>2. N = [M EXCEPT ![n] = u]
    BY <1>3 DEF Acks1
  <2> QED
    BY <1>4, <1>8, <2>1, <2>2, MemoryStep
<1> QED
  BY <1>4, <1>5, <1>9

\* What a node may acknowledge: what it has of the log of its term's leader.
MayAck(h, s, k) ==
  s.term \in h.won /\ k \in Nat /\ k <= Len(h.log[s.term]) /\ Has(h, s.log, s.term, k)

\* It then has done so.
LEMMA AckedStep ==
  ASSUME NEW h, NEW M, NEW D, NEW n \in Ids, NEW s, NEW d, NEW w, NEW sent,
         AgreesAt(h, M, D, n, s, d, w, sent), NEW k, MayAck(h, s, k)
  PROVE  \E N : AgreesAt(h, N, D, n, s, d, w, sent) /\ HasAcked(N[n], s.term, k)
<1>1. PICK t, j : t = s.term /\ j = k
  OBVIOUS
<1>2. PICK N : N = Acks1(M, n, t, j)
  OBVIOUS
<1>3. AgreesAt(h, N, D, n, s, d, w, sent) /\ HasAcked(N[n], s.term, j)
  BY <1>1, <1>2, AckStep DEF MayAck
<1> QED
  BY <1>1, <1>3

\* A log with an entry more.
Longer(X, e) == Append(X, e)

\* What it has.
LEMMA Appended ==
  ASSUME NEW X \in Logs, NEW e \in Entries, NEW Y, Y = Longer(X, e)
  PROVE  /\ Y \in Logs /\ Len(Y) = Len(X) + 1 /\ Len(X) \in Nat
         /\ Y[Len(X) + 1] = e /\ \A j \in 1 .. Len(X) : Y[j] = X[j]
         /\ Same(X, Y, Len(X))
<1>1. Y \in Logs /\ Len(Y) = Len(X) + 1 /\ Len(X) \in Nat
      /\ Y[Len(X) + 1] = e /\ \A j \in 1 .. Len(X) : Y[j] = X[j]
  BY DEF Logs, Longer
<1> QED
  BY <1>1 DEF Same

\* The history in which the leader of t has the log Y.
Written(h, t, Y) == [h EXCEPT !.log[t] = Y]

\* The history of a leader that appends.
LEMMA AppendHist ==
  ASSUME NEW h, NEW D, HistOk(h, D), NEW t \in h.won, NEW e \in Entries, e.term = t,
         NEW Y, Y = Longer(h.log[t], e), NEW g, g = Written(h, t, Y)
  PROVE  /\ Ext(h, g) /\ HistOk(g, D)
         /\ g.won = h.won /\ g.el = h.el /\ g.certs = h.certs
         /\ g.log[t] = Y /\ \A u \in Nat \ {t} : g.log[u] = h.log[u]
         /\ Src(g, Y)
<1>1. /\ t \in Nat /\ t > 1 /\ h.log[t] \in Logs /\ Src(h, h.log[t])
      /\ Len(h.log[t]) \in Nat
  BY ElectionFacts
<1>2. /\ Y \in Logs /\ Len(Y) = Len(h.log[t]) + 1
      /\ Y[Len(h.log[t]) + 1] = e /\ Same(h.log[t], Y, Len(h.log[t]))
  <2>1. PICK X : X = h.log[t]
    OBVIOUS
  <2>2. X \in Logs /\ Y = Longer(X, e)
    BY <1>1, <2>1
  <2>3. Y \in Logs /\ Len(Y) = Len(X) + 1 /\ Y[Len(X) + 1] = e /\ Same(X, Y, Len(X))
    BY <2>2, Appended
  <2> QED
    BY <2>1, <2>3
<1>3. h \in Histories
  BY DEF HistOk
<1>4. /\ g \in Histories /\ g.won = h.won /\ g.el = h.el /\ g.certs = h.certs
      /\ g.log[t] = Y /\ \A u \in Nat \ {t} : g.log[u] = h.log[u]
  BY <1>1, <1>2, <1>3 DEF Histories, Written
<1>5. Ext(h, g)
  <2> SUFFICES ASSUME NEW u \in h.won
               PROVE  /\ Len(h.log[u]) <= Len(g.log[u])
                      /\ Same(h.log[u], g.log[u], Len(h.log[u]))
    BY <1>4 DEF Ext
  <2>1. u \in Nat /\ Len(h.log[u]) \in Nat
    BY ElectionFacts
  <2>2. CASE u = t
    BY <1>1, <1>2, <1>4, <2>2
  <2>3. CASE u # t
    BY <1>4, <2>1, <2>3 DEF Same
  <2> QED
    BY <2>2, <2>3
<1>6. Src(g, Y)
  <2> SUFFICES ASSUME NEW j \in 1 .. Len(Y)
               PROVE  /\ Y[j].term \in g.won /\ j <= Len(g.log[Y[j].term])
                      /\ Same(Y, g.log[Y[j].term], j)
    BY DEF Src
  <2>1. CASE j = Len(Y)
    <3>1. Y[j].term = t
      BY <1>1, <1>2, <2>1
    <3>2. j <= Len(Y)
      BY <1>1, <1>2, <2>1
    <3> QED
      BY <1>4, <3>1, <3>2 DEF Same
  <2>2. CASE j # Len(Y)
    <3>1. j \in 1 .. Len(h.log[t])
      BY <1>1, <1>2, <2>2
    <3>2. Src(g, h.log[t])
      BY <1>1, <1>5, ExtKeeps
    <3>3. Same(Y, h.log[t], j) /\ Y[j] = h.log[t][j]
      BY <1>2, <3>1 DEF Same
    <3> QED
      BY <3>1, <3>2, <3>3, SameTrans DEF Src
  <2> QED
    BY <2>1, <2>2
<1>7. ASSUME NEW u \in h.won
      PROVE  /\ Src(g, g.log[u])
             /\ \A j \in Len(h.log[u]) + 1 .. Len(g.log[u]) : g.log[u][j].term = u
  <2>1. CASE u = t
    <3>1. \A j \in Len(h.log[t]) + 1 .. Len(Y) : j = Len(h.log[t]) + 1
      BY <1>1, <1>2
    <3> QED
      BY <1>2, <1>4, <1>6, <2>1, <3>1
  <2>2. CASE u # t
    <3>1. g.log[u] = h.log[u] /\ h.log[u] \in Logs /\ Src(h, h.log[u]) /\ Len(h.log[u]) \in Nat
      BY <1>4, <2>2, ElectionFacts
    <3>2. Src(g, h.log[u])
      BY <1>5, <3>1, ExtKeeps
    <3> QED
      BY <3>1, <3>2
  <2> QED
    BY <2>1, <2>2
<1>8. Grows(D, D)
  BY DEF Grows, Knows
<1>9. HistOk(g, D)
  BY <1>4, <1>5, <1>7, <1>8, HistExt DEF HistOk
<1> QED
  BY <1>4, <1>5, <1>6, <1>9

\* A log that grows at its end keeps what it has.
LEMMA KeptAppended ==
  ASSUME NEW h, NEW X, NEW Y, Len(X) \in Nat, Len(Y) \in Nat, Len(X) <= Len(Y), Same(X, Y, Len(X)),
         NEW t \in Nat, NEW k \in Nat, NEW u, KeptIn(h, X, t, k, u)
  PROVE  KeptIn(h, Y, t, k, u)
<1>1. ASSUME NEW j \in 1 .. k, Has(h, X, t, j) PROVE Has(h, Y, t, j)
  <2>1. j <= Len(X) /\ Same(X, h.log[t], j)
    BY <1>1 DEF Has
  <2>2. Same(Y, X, j)
    BY <2>1, SameUpTo
  <2> QED
    BY <2>1, <2>2, SameTrans DEF Has
<1> QED
  BY <1>1 DEF KeptIn

\* A node's view when an entry of its term is appended to its log.
LEMMA AppendView ==
  ASSUME NEW h, NEW D, HistOk(h, D), NEW v, NEW s \in NodeType, ViewOk(h, s, v),
         NEW e \in Entries, e.term = s.term, NEW Y, Y = Longer(s.log, e), Src(h, Y),
         OneConf(Y, s.commit, Len(Y)),
         NEW z, z.log = Y, z.term = s.term, z.vote = s.vote, z.commit = s.commit
  PROVE  ViewOk(h, z, v)
<1>1. s.log \in Logs /\ s.term \in Nat \ {0} /\ s.commit \in Nat
  BY DEF NodeType
<1>2. PICK X : X = s.log
  OBVIOUS
<1>3. /\ Y \in Logs /\ Len(Y) = Len(X) + 1 /\ Len(X) \in Nat /\ X \in Logs
      /\ Y[Len(X) + 1] = e /\ \A j \in 1 .. Len(X) : Y[j] = X[j]
      /\ Same(X, Y, Len(X))
  <2>1. X \in Logs /\ Y = Longer(X, e)
    BY <1>1, <1>2
  <2>2. /\ Y \in Logs /\ Len(Y) = Len(X) + 1 /\ Len(X) \in Nat
        /\ Y[Len(X) + 1] = e /\ Same(X, Y, Len(X))
    BY <2>1, Appended
  <2> QED
    BY <2>1, <2>2 DEF Same
<1>4. RecordsOk(h, v)
  BY DEF ViewOk
<1>7. \A j \in 1 .. Len(Y) : Y[j].term <= s.term
  <2>1. \A j \in 1 .. Len(X) : X[j].term <= s.term
    BY <1>2 DEF ViewOk
  <2>2. \A j \in 1 .. Len(Y) : j \in 1 .. Len(X) \/ j = Len(X) + 1
    BY <1>3
  <2> QED
    BY <1>1, <1>3, <2>1, <2>2
<1>8. ASSUME NEW a \in v.acks PROVE a.term <= s.term /\ KeptIn(h, Y, a.term, a.index, s.term)
  <2>1. a.term \in Nat /\ a.index \in Nat
    BY <1>4, AckFacts
  <2>2. a.term <= s.term /\ KeptIn(h, X, a.term, a.index, s.term)
    BY <1>2 DEF ViewOk
  <2>3. Len(Y) \in Nat /\ Len(X) <= Len(Y)
    BY <1>3
  <2> QED
    BY <1>3, <2>1, <2>2, <2>3, KeptAppended
<1>9. Committed(h, s.term, Y, s.commit)
  <2>1. Committed(h, s.term, X, s.commit) /\ s.commit <= Len(X)
    BY <1>2 DEF ViewOk, Committed
  <2>2. Same(X, Y, s.commit) /\ s.commit <= Len(Y)
    BY <1>1, <1>3, <2>1, SameUpTo
  <2> QED
    BY <1>1, <2>1, <2>2, CommittedSame
<1> QED
  BY <1>4, <1>7, <1>8, <1>9 DEF ViewOk

\* The leader's state with an entry more; a change is pending.
Grown(s, cc) ==
  [s EXCEPT !.log = Longer(s.log, Entry(s.term, cc)),
            !.pending = IF cc = Normal THEN s.pending ELSE Len(s.log) + 1]

\* The leader appends an entry; a change only when the last one is applied.
LEMMA AppendStep ==
  ASSUME NEW h, NEW M, NEW D, NEW n \in Ids, NEW s, NEW d, NEW w, NEW sent,
         AgreesAt(h, M, D, n, s, d, w, sent), s.state = "leader", s.conf # Refused,
         NEW cc \in ConfChanges \cup {Normal},
         cc # Normal => s.pending <= s.applied,
         NEW z, z = Grown(s, cc)
  PROVE  /\ z \in NodeType /\ z.conf = s.conf /\ z.term = s.term /\ z.state = "leader"
         /\ z.commit = s.commit /\ z.log = Longer(s.log, Entry(s.term, cc))
         /\ \E g, N : AgreesAt(g, N, D, n, z, d, w, sent) /\ HasAcked(N[n], z.term, Len(z.log))
<1>1. /\ s \in NodeType /\ d \in DiskType /\ w \in SUBSET Msgs
      /\ ViewOk(h, s, M[n]) /\ ViewOk(h, d, D[n])
      /\ NodeOk(h, M, D, n, s, d)
      /\ \A x \in w : x.from = n /\ MsgOk(h, D, s, M[n], x)
      /\ HistOk(h, D) /\ M \in [Ids -> Views] /\ D \in [Ids -> Views]
  BY AtFacts
<1>2. LeaderOk(h, D, n, s)
  BY <1>1 DEF NodeOk
<1>3. /\ s.term \in h.won /\ h.el[s.term].who = n /\ h.log[s.term] = s.log
      /\ \A p \in 1 .. Len(s.log) : IsConf(s.log[p]) => p <= s.pending
      /\ OneConf(s.log, s.applied, Len(s.log))
  BY <1>2 DEF LeaderOk
<1>4. /\ s.term \in Nat /\ s.log \in Logs /\ s.pending \in Nat /\ s.applied \in Nat /\ s.commit \in Nat
      /\ s.applied <= s.commit /\ Len(s.log) \in Nat /\ s.commit <= Len(s.log)
      /\ d.log \in Logs /\ d.commit \in Nat /\ d.term \in Nat
  <2>1. s.term \in Nat /\ s.log \in Logs /\ s.pending \in Nat /\ s.applied \in Nat /\ s.commit \in Nat
        /\ d.log \in Logs /\ d.commit \in Nat /\ d.term \in Nat
    BY <1>1 DEF NodeType, DiskType
  <2> QED
    BY <1>1, <2>1, LogFacts DEF NodeOk, ViewOk, Committed
<1>5. PICK e : e = Entry(s.term, cc)
  OBVIOUS
<1>6. e \in Entries /\ e.term = s.term /\ e.cc = cc /\ (IsConf(e) <=> cc # Normal)
  BY <1>4, <1>5 DEF Entry, Entries, IsConf
<1>7. PICK X, Y : X = s.log /\ Y = Longer(X, e)
  OBVIOUS
<1>8. /\ Y \in Logs /\ Len(Y) = Len(X) + 1 /\ Len(X) \in Nat /\ X \in Logs
      /\ Y[Len(X) + 1] = e /\ \A j \in 1 .. Len(X) : Y[j] = X[j]
      /\ Same(X, Y, Len(X))
  <2>1. X \in Logs /\ Y = Longer(X, e) /\ e \in Entries
    BY <1>4, <1>6, <1>7
  <2>2. /\ Y \in Logs /\ Len(Y) = Len(X) + 1 /\ Len(X) \in Nat
        /\ Y[Len(X) + 1] = e /\ Same(X, Y, Len(X))
    BY <2>1, Appended
  <2> QED
    BY <2>1, <2>2 DEF Same
<1>9. /\ z \in NodeType /\ z.conf = s.conf /\ z.term = s.term /\ z.state = "leader"
      /\ z.commit = s.commit /\ z.log = Y /\ z.applied = s.applied /\ z.vote = s.vote
      /\ z.pending = IF cc = Normal THEN s.pending ELSE Len(X) + 1
  <2>1. PICK p : p = IF cc = Normal THEN s.pending ELSE Len(s.log) + 1
    OBVIOUS
  <2>2. p \in Nat /\ z = [s EXCEPT !.log = Y, !.pending = p]
    BY <1>4, <1>5, <1>7, <2>1 DEF Grown
  <2> QED
    BY <1>1, <1>7, <1>8, <2>1, <2>2 DEF NodeType
<1>10. PICK g : g = Written(h, s.term, Y)
  OBVIOUS
<1>11. /\ Ext(h, g) /\ HistOk(g, D)
       /\ g.won = h.won /\ g.el = h.el /\ g.certs = h.certs
       /\ g.log[s.term] = Y /\ \A u \in Nat \ {s.term} : g.log[u] = h.log[u]
       /\ Src(g, Y)
  <2>1. PICK t : t = s.term
    OBVIOUS
  <2>2. /\ t \in h.won /\ e.term = t /\ e \in Entries /\ HistOk(h, D)
        /\ Y = Longer(h.log[t], e) /\ g = Written(h, t, Y)
    BY <1>1, <1>3, <1>6, <1>7, <1>10, <2>1
  <2>3. /\ Ext(h, g) /\ HistOk(g, D)
        /\ g.won = h.won /\ g.el = h.el /\ g.certs = h.certs
        /\ g.log[t] = Y /\ Src(g, Y)
    BY <2>2, AppendHist
  <2>4. \A u \in Nat \ {t} : g.log[u] = h.log[u]
    BY <2>2, AppendHist
  <2> QED
    BY <2>1, <2>3, <2>4
<1>12. /\ \A a \in Nat : s.applied <= a => OneConf(Y, a, Len(Y))
       /\ \A p \in 1 .. Len(Y) : IsConf(Y[p]) => p <= z.pending
  <2>1. \A p \in 1 .. Len(Y) : p \in 1 .. Len(X) \/ p = Len(X) + 1
    BY <1>8
  <2>2. ASSUME NEW p \in 1 .. Len(Y), IsConf(Y[p]) PROVE p <= z.pending
    <3>1. CASE p \in 1 .. Len(X)
      <4>1. p <= s.pending /\ p <= Len(X) + 1
        BY <1>3, <1>7, <1>8, <2>2, <3>1
      <4> QED
        BY <1>9, <4>1
    <3>2. CASE p = Len(X) + 1
      <4>1. cc # Normal
        BY <1>6, <1>8, <2>2, <3>2
      <4> QED
        BY <1>8, <1>9, <3>2, <4>1
    <3> QED
      BY <2>1, <3>1, <3>2
  <2>3. ASSUME NEW a \in Nat, s.applied <= a PROVE OneConf(Y, a, Len(Y))
    <3> SUFFICES ASSUME NEW p \in a + 1 .. Len(Y), NEW q \in a + 1 .. Len(Y), IsConf(Y[p]), IsConf(Y[q])
                 PROVE  p = q
      BY DEF OneConf
    <3>1. p \in 1 .. Len(Y) /\ q \in 1 .. Len(Y)
      BY <1>8
    <3>2. CASE cc = Normal
      <4>1. p # Len(X) + 1 /\ q # Len(X) + 1
        BY <1>6, <1>8, <3>2
      <4>2. p \in 1 .. Len(X) /\ q \in 1 .. Len(X) /\ p \in s.applied + 1 .. Len(X)
            /\ q \in s.applied + 1 .. Len(X)
        BY <1>4, <1>8, <2>1, <2>3, <3>1, <4>1
      <4>3. X[p] = Y[p] /\ X[q] = Y[q]
        BY <1>8, <4>2
      <4> QED
        BY <1>3, <1>7, <4>2, <4>3 DEF OneConf
    <3>3. CASE cc # Normal
      <4>1. ASSUME NEW r \in a + 1 .. Len(Y), IsConf(Y[r]) PROVE r = Len(X) + 1
        <5>1. CASE r \in 1 .. Len(X)
          <6>1. r <= s.pending
            BY <1>3, <1>7, <1>8, <4>1, <5>1
          <6> QED
            BY <1>4, <2>3, <3>3, <6>1
        <5>2. r \in 1 .. Len(Y)
          BY <1>8
        <5> QED
          BY <2>1, <5>1, <5>2
      <4> QED
        BY <4>1
    <3> QED
      BY <3>2, <3>3
  <2> QED
    BY <2>2, <2>3
<1>13. ViewOk(g, z, M[n])
  <2>1. ViewOk(g, s, M[n])
    BY <1>1, <1>4, <1>11, ViewExt
  <2>2. OneConf(Y, s.commit, Len(Y)) /\ Y = Longer(s.log, e)
    BY <1>4, <1>7, <1>12
  <2> QED
    BY <1>1, <1>6, <1>9, <1>11, <2>1, <2>2, AppendView
<1>14. ViewOk(g, d, D[n])
  BY <1>1, <1>4, <1>11, ViewExt
<1>15. NodeOk(g, M, D, n, z, d)
  <2>1. ConfOk(z.log, z.applied, z.conf)
    <3>1. ConfOk(X, s.applied, s.conf)
      BY <1>1, <1>7 DEF NodeOk
    <3>2. Same(X, Y, s.applied)
      BY <1>4, <1>7, <1>8, SameUpTo
    <3> QED
      BY <1>4, <1>9, <3>1, <3>2, ConfOkSame
  <2>2. LeaderOk(g, D, n, z)
    BY <1>2, <1>3, <1>4, <1>9, <1>11, <1>12 DEF LeaderOk
  <2> QED
    BY <1>1, <1>9, <1>11, <2>1, <2>2 DEF NodeOk
<1>16. \A x \in w : x.from = n /\ MsgOk(g, D, z, M[n], x)
  <2>1. ASSUME NEW x \in w PROVE MsgOk(g, D, z, M[n], x)
    <3>1. Grows(D, D) /\ Knows(M[n], M[n])
      BY DEF Grows, Knows
    <3>2. x \in Msgs /\ z.term \in Nat /\ s.term <= z.term
      BY <1>1, <1>4, <1>9
    <3> QED
      BY <1>1, <1>4, <1>11, <3>1, <3>2, MsgExt
  <2> QED
    BY <1>1, <2>1
<1>17. AsksFor(n, z, w \cup sent)
  BY <1>9 DEF AsksFor
<1>18. ActorOk(g, M, D, n, z, d, w, sent)
  BY <1>1, <1>9, <1>13, <1>14, <1>15, <1>16, <1>17 DEF ActorOk
<1>19. AgreesAt(g, M, D, n, z, d, w, sent)
  <2>1. Moves(h, M, D, n, g, M, D)
    <3>1. Grows(D, D)
      BY DEF Grows, Knows
    <3>2. \A t \in h.won : h.el[t].who # n => g.log[t] = h.log[t]
      <4>1. h.won \subseteq Nat
        BY <1>1 DEF HistOk, Histories
      <4> QED
        BY <1>3, <1>11, <4>1
    <3> QED
      BY <1>11, <3>1, <3>2 DEF Moves
  <2>2. GhostsOk(g, M, D) /\ d.term <= d.term
    BY <1>1, <1>4, <1>11 DEF GhostsOk
  <2> QED
    BY <1>18, <2>1, <2>2, StepKeeps
<1>20. \E N : AgreesAt(g, N, D, n, z, d, w, sent) /\ HasAcked(N[n], z.term, Len(Y))
  <2>1. PICK k : k = Len(Y) /\ k \in Nat
    BY <1>8
  <2>2. z.term \in g.won /\ k <= Len(g.log[z.term]) /\ Has(g, z.log, z.term, k)
    BY <1>3, <1>8, <1>9, <1>11, <2>1 DEF Has, Same
  <2>3. MayAck(g, z, k)
    BY <2>1, <2>2 DEF MayAck
  <2> QED
    BY <1>19, <2>1, <2>3, AckedStep
<1> QED
  BY <1>5, <1>7, <1>9, <1>20

\* A configuration with another match index.
Matched(c, id, k) == [c EXCEPT !.trk[id].match = k]

\* It is the same but for that.
LEMMA MatchedConf ==
  ASSUME NEW c, Tracked(c), NEW id, NEW k \in Nat, NEW z, z = Matched(c, id, k)
  PROVE  /\ Tracked(z) /\ Alike(c, z) /\ z.auto = c.auto
         /\ DOMAIN z.trk = DOMAIN c.trk
         /\ \A j \in DOMAIN c.trk : z.trk[j].match = IF j = id THEN k ELSE c.trk[j].match
<1>1. c \in Confs
  BY DEF Tracked
<1>2. /\ c.in \in SUBSET Ids /\ c.out \in SUBSET Ids
      /\ c.learners \in SUBSET Ids /\ c.next \in SUBSET Ids
      /\ c.auto \in BOOLEAN
      /\ DOMAIN c.trk \subseteq Ids
      /\ \A j \in DOMAIN c.trk : c.trk[j] \in Progress
      /\ c.trk \in [DOMAIN c.trk -> Progress]
  BY <1>1, ConfFields
<1>3. PICK f : f = [c.trk EXCEPT ![id].match = k]
  OBVIOUS
<1>4. z = [c EXCEPT !.trk = f]
  BY <1>3 DEF Matched
<1>5. DOMAIN f = DOMAIN c.trk /\ f \in [DOMAIN c.trk -> Progress]
  BY <1>2, <1>3 DEF Progress
<1>6. ASSUME NEW j \in DOMAIN c.trk
      PROVE  /\ f[j].match = IF j = id THEN k ELSE c.trk[j].match
             /\ f[j].learner = c.trk[j].learner
  BY <1>2, <1>3 DEF Progress
<1>7. f \in Tracks
  BY <1>2, <1>5, TrackTyping
<1>8. z \in Confs /\ z.in = c.in /\ z.out = c.out /\ z.learners = c.learners /\ z.next = c.next
      /\ z.auto = c.auto /\ z.trk = f
  BY <1>1, <1>4, <1>7 DEF Confs
<1>9. Tracked(z)
  BY <1>5, <1>6, <1>8 DEF Tracked, Voters
<1> QED
  BY <1>5, <1>6, <1>8, <1>9 DEF Alike

\* The history in which who has won term t.
Won(h, t, e, Y) ==
  [h EXCEPT !.won = @ \cup {t}, !.el[t] = e, !.log[t] = Y]

\* The history when a term is won for the first time.
LEMMA WonHist ==
  ASSUME NEW h, NEW D, HistOk(h, D), NEW E, Grows(D, E),
         NEW t \in Nat, t > 1, t \notin h.won, NEW X \in Logs, Src(h, X),
         NEW x \in Entries, x.term = t, NEW Y, Y = Longer(X, x),
         NEW e \in Elections, e.base = Len(X),
         NEW g, g = Won(h, t, e, Y)
  PROVE  /\ Ext(h, g) /\ g \in Histories
         /\ g.won = h.won \cup {t} /\ g.el[t] = e /\ g.log[t] = Y /\ g.certs = h.certs
         /\ \A u \in Nat \ {t} : g.el[u] = h.el[u] /\ g.log[u] = h.log[u]
         /\ Src(g, Y)
         /\ \A u \in h.won : ElectionOk(g, E, u)
         /\ \A c \in g.certs : CertOk(g, E, c)
<1>1. /\ Y \in Logs /\ Len(Y) = Len(X) + 1 /\ Len(X) \in Nat
      /\ Y[Len(X) + 1] = x /\ Same(X, Y, Len(X))
  BY Appended
<1>2. h \in Histories
  BY DEF HistOk
<1>3. /\ g \in Histories /\ g.won = h.won \cup {t} /\ g.el[t] = e /\ g.log[t] = Y /\ g.certs = h.certs
      /\ \A u \in Nat \ {t} : g.el[u] = h.el[u] /\ g.log[u] = h.log[u]
  BY <1>1, <1>2 DEF Histories, Won
<1>4. \A u \in h.won : u \in Nat /\ u # t /\ Len(h.log[u]) \in Nat /\ Src(h, h.log[u]) /\ h.log[u] \in Logs
  BY ElectionFacts
<1>5. Ext(h, g)
  BY <1>3, <1>4 DEF Ext, Same
<1>6. Src(g, Y)
  <2> SUFFICES ASSUME NEW j \in 1 .. Len(Y)
               PROVE  /\ Y[j].term \in g.won /\ j <= Len(g.log[Y[j].term])
                      /\ Same(Y, g.log[Y[j].term], j)
    BY DEF Src
  <2>1. CASE j = Len(Y)
    <3>1. Y[j].term = t
      BY <1>1, <2>1
    <3>2. j <= Len(Y)
      BY <1>1, <2>1
    <3> QED
      BY <1>3, <3>1, <3>2 DEF Same
  <2>2. CASE j # Len(Y)
    <3>1. j \in 1 .. Len(X)
      BY <1>1, <2>2
    <3>2. Src(g, X)
      BY <1>5, ExtKeeps
    <3>3. Same(Y, X, j) /\ Y[j] = X[j]
      BY <1>1, <3>1 DEF Same
    <3> QED
      BY <3>1, <3>2, <3>3, SameTrans DEF Src
  <2> QED
    BY <2>1, <2>2
<1>7. ASSUME NEW u \in h.won
      PROVE  /\ Src(g, g.log[u])
             /\ \A j \in Len(h.log[u]) + 1 .. Len(g.log[u]) : g.log[u][j].term = u
  <2>1. g.log[u] = h.log[u] /\ h.log[u] \in Logs /\ Src(h, h.log[u]) /\ Len(h.log[u]) \in Nat
    BY <1>3, <1>4
  <2>2. Src(g, h.log[u])
    BY <1>5, <2>1, ExtKeeps
  <2> QED
    BY <2>1, <2>2
<1>8. (\A u \in h.won : ElectionOk(g, E, u)) /\ (\A c \in h.certs : CertOk(g, E, c))
  BY <1>5, <1>7, HistExt
<1> QED
  BY <1>3, <1>5, <1>6, <1>8

\* becomeLeader and the empty entry of the new term.
LEMMA LeaderFields ==
  ASSUME NEW s \in NodeType, Tracked(s.conf), NEW n \in Ids, NEW z, z = BecomeLeader(s, n).s
  PROVE  /\ z \in NodeType /\ z.term = s.term /\ z.log = Longer(s.log, Entry(s.term, Normal))
         /\ z.commit = s.commit /\ z.applied = s.applied /\ z.vote = s.vote
         /\ z.state = "leader" /\ z.pending = Len(s.log)
         /\ z.conf = Matched(Zeroed(s.conf), n, Len(s.log))
<1>1. PICK r : r = Reset(s, s.term)
  OBVIOUS
<1>2. s.term \in Nat \ {0} /\ s.log \in Logs
  BY DEF NodeType
<1>3. /\ r \in NodeType /\ r.term = s.term /\ r.log = s.log /\ r.commit = s.commit
      /\ r.applied = s.applied /\ r.conf = Zeroed(s.conf) /\ r.vote = s.vote
  BY <1>1, <1>2, ResetFields
<1>4. PICK c : c = Matched(Zeroed(s.conf), n, Len(s.log))
  OBVIOUS
<1>5. c \in Confs
  <2>1. Tracked(Zeroed(s.conf)) /\ Len(s.log) \in Nat
    BY <1>2, ZeroedConf, LogFacts
  <2> QED
    BY <1>4, <2>1, MatchedConf DEF Tracked
<1>6. PICK q : q = [r EXCEPT !.state = "leader", !.lead = n, !.conf = c, !.pending = Len(s.log)]
  OBVIOUS
<1>7. /\ q \in NodeType /\ q.term = s.term /\ q.log = s.log /\ q.commit = s.commit
      /\ q.applied = s.applied /\ q.conf = c /\ q.vote = s.vote /\ q.state = "leader"
      /\ q.pending = Len(s.log)
  <2>1. Len(s.log) \in Nat
    BY <1>2, LogFacts
  <2> QED
    BY <1>3, <1>5, <1>6, <2>1 DEF NodeType
<1>8. q = [r EXCEPT !.state = "leader", !.lead = n, !.conf.trk[n].match = Len(s.log), !.pending = Len(s.log)]
  BY <1>3, <1>4, <1>6 DEF Matched, NodeType
<1>9. z = [q EXCEPT !.log = Longer(s.log, Entry(s.term, Normal))]
  BY <1>1, <1>7, <1>8 DEF BecomeLeader, AppendEntry, Result, Longer
<1>10. Longer(s.log, Entry(s.term, Normal)) \in Logs
  <2>1. Entry(s.term, Normal) \in Entries
    BY <1>2 DEF Entry, Entries
  <2> QED
    BY <1>2, <2>1, Appended
<1> QED
  BY <1>4, <1>7, <1>9, <1>10 DEF NodeType

\* A candidate with the votes of a quorum has campaigned for its term, and
\* nobody has won it.
LEMMA WonCampaign ==
  ASSUME NEW h, NEW M, NEW D, NEW n \in Ids, NEW s, NEW d, NEW w, NEW sent,
         AgreesAt(h, M, D, n, s, d, w, sent), s.state = "candidate", s.conf # Refused,
         VoteResult(s.conf.in, s.conf.out, s.yes, s.no) = "won"
  PROVE  /\ Campaigned(h, D, n, s.term, s.log, Len(s.log), s.applied, s.conf, s.yes, s.term - 1)
         /\ s.term \notin h.won /\ s.term > 1 /\ d.term = s.term /\ d.log = s.log
         /\ OneConf(s.log, s.applied, Len(s.log))
<1>1. /\ s \in NodeType /\ d \in DiskType
      /\ ViewOk(h, s, M[n]) /\ ViewOk(h, d, D[n])
      /\ NodeOk(h, M, D, n, s, d)
      /\ HistOk(h, D)
  BY AtFacts
<1>2. \A v \in Ids : RecordsOk(h, D[v]) /\ D[v].votes \subseteq M[v].votes
  BY AtFacts
<1>3. CandidateOk(h, M, D, n, s, d) /\ ~HasUnappliedConfChanges(s)
  BY <1>1 DEF NodeOk
<1>4. /\ s.term \in Nat \ {0} /\ s.log \in Logs /\ s.applied \in Nat /\ s.commit \in Nat
      /\ s.yes \in SUBSET Ids /\ d.term \in Nat /\ d.term <= s.term
      /\ s.applied <= s.commit /\ Len(s.log) \in Nat /\ s.commit <= Len(s.log)
  <2>1. /\ s.term \in Nat \ {0} /\ s.log \in Logs /\ s.applied \in Nat /\ s.commit \in Nat
        /\ s.yes \in SUBSET Ids /\ d.term \in Nat
    BY <1>1 DEF NodeType, DiskType
  <2> QED
    BY <1>1, <2>1, LogFacts DEF NodeOk, ViewOk, Committed
<1>5. /\ ConfOk(s.log, s.applied, s.conf) /\ Tracked(s.conf) /\ s.conf.in # {}
      /\ s.conf.in \in SUBSET Ids /\ s.conf.out \in SUBSET Ids
  BY NodeConf
<1>6. IsQuorum(s.conf.in, s.conf.out, s.yes)
  <2>1. IsFiniteSet(s.conf.in) /\ IsFiniteSet(s.conf.out)
    BY <1>5, IdsAssumption, FS_Subset
  <2> QED
    BY <2>1, WonIsQuorum
<1>7. OneConf(s.log, s.applied, Len(s.log))
  <2> SUFFICES ASSUME NEW p \in s.applied + 1 .. Len(s.log), NEW q \in s.applied + 1 .. Len(s.log),
                      IsConf(s.log[p]), IsConf(s.log[q])
               PROVE  p = q
    BY DEF OneConf
  <2>1. p \notin s.applied + 1 .. s.commit /\ q \notin s.applied + 1 .. s.commit
    BY <1>3 DEF HasUnappliedConfChanges
  <2>2. p \in s.commit + 1 .. Len(s.log) /\ q \in s.commit + 1 .. Len(s.log)
    BY <1>4, <2>1
  <2>3. OneConf(s.log, s.commit, Len(s.log))
    BY <1>1 DEF ViewOk
  <2> QED
    BY <2>2, <2>3 DEF OneConf
<1>8. Committed(h, s.term - 1, s.log, s.applied)
  <2>1. s.term - 1 \in Nat /\ s.term - 1 <= s.term - 1
    BY <1>4
  <2>2. Committed(h, s.term - 1, s.log, s.commit)
    BY <1>3 DEF CandidateOk
  <2> QED
    BY <1>1, <1>4, <2>1, <2>2, CommittedUpTo
<1>9. ASSUME NEW v \in s.yes
      PROVE  \E r \in D[v].votes : /\ r.term = s.term /\ r.for = n /\ r.last = LastAt(s.log, Len(s.log))
                                   /\ r.upto <= s.term /\ (s.term \notin h.won => r.upto <= s.term - 1)
  <2>1. PICK r \in D[v].votes : r.term = s.term /\ r.for = n
    BY <1>3 DEF CandidateOk, HasVoted
  <2>2. v \in Ids /\ r \in M[v].votes
    BY <1>2, <1>4
  <2>3. r.last = LastAt(s.log, Len(s.log))
    BY <1>3, <2>1, <2>2 DEF CandidateOk
  <2>4. r.upto \in Nat /\ VoteOk(h, r)
    BY <1>2, <2>1, <2>2 DEF RecordsOk, Views, Votes
  <2> QED
    BY <1>4, <2>1, <2>3, <2>4 DEF VoteOk
<1>10. ASSUME NEW u, u = s.term \/ (s.term \notin h.won /\ u = s.term - 1)
       PROVE  Campaigned(h, D, n, s.term, s.log, Len(s.log), s.applied, s.conf, s.yes, u)
  <2>1. \A j \in 1 .. Len(s.log) : s.log[j].term < s.term
    BY <1>3 DEF CandidateOk
  <2>2. Src(h, s.log) /\ s.applied <= Len(s.log) /\ Len(s.log) <= Len(s.log)
    BY <1>1, <1>4 DEF ViewOk
  <2> QED
    BY <1>5, <1>6, <1>7, <1>8, <1>9, <1>10, <2>1, <2>2 DEF Campaigned
<1>11. s.term \notin h.won
  <2>1. SUFFICES ASSUME s.term \in h.won PROVE FALSE
    OBVIOUS
  <2>2. h.el[s.term].who = n
    BY <1>1, <1>2, <1>4, <1>10, <2>1, OneWinner
  <2> QED
    BY <1>3, <2>1, <2>2 DEF CandidateOk
<1>12. PICK v \in s.yes : TRUE
  <2>1. s.yes \cap s.yes # {}
    BY <1>5, <1>6, NeighboursMeet DEF Alike
  <2> QED
    BY <2>1
<1>13. PICK r \in D[v].votes : r.term = s.term /\ r.for = n
  BY <1>9
<1>14. d.term = s.term
  <2>1. CASE v = n
    BY <1>1, <1>4, <1>13, <2>1 DEF ViewOk
  <2>2. CASE v # n
    <3>1. v \in Ids \ {n} /\ r \in M[v].votes
      BY <1>2, <1>4, <2>2
    <3>2. r.term <= d.term
      BY <1>1, <1>13, <3>1 DEF NodeOk
    <3> QED
      BY <1>4, <1>13, <3>2
  <2> QED
    BY <2>1, <2>2
<1>15. d.log = s.log
  BY <1>3, <1>14 DEF CandidateOk
<1>16. s.term > 1
  <2>1. RecordsOk(h, D[v])
    BY <1>2, <1>4
  <2>2. VoteOk(h, r) /\ r.log \in Logs
    BY <2>1 DEF RecordsOk, Views, Votes
  <2>3. LastTerm(r.log) >= 1 /\ LastTerm(r.log) \in Nat
    BY <1>1, <2>2, TermsSorted, LogFacts DEF VoteOk
  <2> QED
    BY <1>4, <1>13, <2>2, <2>3 DEF VoteOk
<1> QED
  BY <1>7, <1>10, <1>11, <1>14, <1>15, <1>16

\* An empty entry changes no configuration.
LEMMA NormalAppended ==
  ASSUME NEW X \in Logs, NEW e \in Entries, ~IsConf(e), NEW Y, Y = Longer(X, e)
  PROVE  /\ \A p \in 1 .. Len(Y) : IsConf(Y[p]) => p <= Len(X)
         /\ \A a \in Nat : OneConf(X, a, Len(X)) => OneConf(Y, a, Len(Y))
<1>1. /\ Len(Y) = Len(X) + 1 /\ Len(X) \in Nat /\ Y[Len(X) + 1] = e
      /\ \A j \in 1 .. Len(X) : Y[j] = X[j]
  BY Appended
<1>2. ASSUME NEW p \in 1 .. Len(Y), IsConf(Y[p]) PROVE p <= Len(X)
  <2>1. p # Len(X) + 1
    BY <1>1, <1>2
  <2> QED
    BY <1>1, <2>1
<1>3. ASSUME NEW a \in Nat, OneConf(X, a, Len(X)) PROVE OneConf(Y, a, Len(Y))
  <2> SUFFICES ASSUME NEW p \in a + 1 .. Len(Y), NEW q \in a + 1 .. Len(Y), IsConf(Y[p]), IsConf(Y[q])
               PROVE  p = q
    BY DEF OneConf
  <2>1. p \in 1 .. Len(Y) /\ q \in 1 .. Len(Y)
    BY <1>1
  <2>2. p <= Len(X) /\ q <= Len(X)
    BY <1>2, <2>1
  <2>3. p \in a + 1 .. Len(X) /\ q \in a + 1 .. Len(X) /\ Y[p] = X[p] /\ Y[q] = X[q]
    BY <1>1, <2>2
  <2> QED
    BY <1>3, <2>3 DEF OneConf
<1> QED
  BY <1>2, <1>3

\* The record of an election.
ElectionOf(n, s) ==
  [who |-> n, base |-> Len(s.log), app |-> s.applied, conf |-> s.conf, q |-> s.yes]

\* A candidate that has won, and the log it starts with.
Elects(s) ==
  /\ s.state = "candidate" /\ s.conf # Refused
  /\ VoteResult(s.conf.in, s.conf.out, s.yes, s.no) = "won"

StartsWith(s, Y) == Y = Longer(s.log, Entry(s.term, Normal))

\* The history g is h and the election of n for term t.
NewReign(h, g, E, n, t, Y) ==
  /\ Ext(h, g) /\ HistOk(g, E)
  /\ g.won = h.won \cup {t} /\ g.el[t].who = n /\ g.log[t] = Y
  /\ Src(g, Y)
  /\ \A q \in Nat \ {t} : g.el[q] = h.el[q] /\ g.log[q] = h.log[q]

\* There is one.
LEMMA ElectedHist ==
  ASSUME NEW h, NEW M, NEW D, NEW n \in Ids, NEW s, NEW d, NEW w, NEW sent,
         AgreesAt(h, M, D, n, s, d, w, sent), Elects(s), NEW E, Grows(D, E),
         NEW Y, StartsWith(s, Y)
  PROVE  \E g : NewReign(h, g, E, n, s.term, Y)
<1> PICK t, X : t = s.term /\ X = s.log
  OBVIOUS
<1> PICK x : x = Entry(t, Normal)
  OBVIOUS
<1> x \in Entries /\ x.term = t
  <2>1. s \in NodeType
    BY AtFacts
  <2> QED
    BY <2>1 DEF NodeType, Entry, Entries
<1> Y = Longer(X, x)
  BY DEF StartsWith
<1> PICK e : e = ElectionOf(n, s)
  OBVIOUS
<1> PICK g : g = Won(h, t, e, Y)
  OBVIOUS
<1> s.state = "candidate" /\ s.conf # Refused
    /\ VoteResult(s.conf.in, s.conf.out, s.yes, s.no) = "won"
  BY DEF Elects
<1>1. /\ s \in NodeType /\ ViewOk(h, s, M[n]) /\ HistOk(h, D) /\ NodeOk(h, M, D, n, s, d)
  BY AtFacts
<1>2. PICK k : k = Len(X)
  OBVIOUS
<1>3. /\ t \in Nat /\ X \in Logs /\ s.applied \in Nat /\ s.conf \in Confs /\ s.yes \in SUBSET Ids
      /\ k \in Nat /\ s.commit \in Nat
  <2>1. s.term \in Nat /\ s.log \in Logs /\ s.applied \in Nat /\ s.conf \in Confs
        /\ s.yes \in SUBSET Ids /\ s.commit \in Nat
    BY <1>1 DEF NodeType
  <2> QED
    BY <1>2, <2>1, LogFacts
<1>4. /\ e \in Elections /\ e.who = n /\ e.base = k /\ e.app = s.applied /\ e.conf = s.conf
      /\ e.q = s.yes
  BY <1>2, <1>3 DEF ElectionOf, Elections
<1>5. /\ Campaigned(h, D, n, t, X, k, s.applied, s.conf, s.yes, t - 1)
      /\ t \notin h.won /\ t > 1
  BY <1>2, WonCampaign
<1>6. /\ Ext(h, g) /\ g \in Histories
      /\ g.won = h.won \cup {t} /\ g.el[t] = e /\ g.log[t] = Y /\ g.certs = h.certs
      /\ Src(g, Y)
      /\ \A u \in h.won : ElectionOk(g, E, u)
      /\ \A c \in g.certs : CertOk(g, E, c)
      /\ \A u \in Nat \ {t} : g.el[u] = h.el[u] /\ g.log[u] = h.log[u]
  <2>1. /\ t \in Nat /\ t > 1 /\ t \notin h.won /\ X \in Logs /\ Src(h, X) /\ x.term = t
        /\ x \in Entries
        /\ Y = Longer(X, x) /\ e \in Elections /\ e.base = Len(X) /\ g = Won(h, t, e, Y)
        /\ HistOk(h, D) /\ Grows(D, E)
    BY <1>1, <1>2, <1>3, <1>4, <1>5 DEF ViewOk
  <2>2. /\ Ext(h, g) /\ g \in Histories
        /\ g.won = h.won \cup {t} /\ g.el[t] = e /\ g.log[t] = Y /\ g.certs = h.certs
        /\ Src(g, Y)
        /\ \A u \in h.won : ElectionOk(g, E, u)
        /\ \A c \in g.certs : CertOk(g, E, c)
    BY ONLY <2>1, WonHist
  <2>3. \A u \in Nat \ {t} : g.el[u] = h.el[u] /\ g.log[u] = h.log[u]
    BY ONLY <2>1, WonHist
  <2> QED
    BY <2>2, <2>3
<1>7. /\ Y \in Logs /\ Len(Y) = k + 1 /\ Y[k + 1] = x /\ Same(X, Y, k)
      /\ \A j \in 1 .. k : Y[j] = X[j]
  <2>1. X \in Logs /\ x \in Entries /\ Y = Longer(X, x)
    BY <1>2, <1>3
  <2>2. Y \in Logs /\ Len(Y) = Len(X) + 1 /\ Y[Len(X) + 1] = x /\ Same(X, Y, Len(X))
    BY ONLY <2>1, Appended
  <2> QED
    BY <1>2, <2>2 DEF Same
<1>8. Campaigned(g, E, n, t, Y, k, s.applied, s.conf, s.yes, t - 1)
  <2>1. /\ k <= Len(X) /\ (\A j \in 1 .. k : X[j].term < t)
        /\ s.applied <= k /\ ConfOk(X, s.applied, s.conf) /\ OneConf(X, s.applied, k)
        /\ Committed(h, t - 1, X, s.applied)
        /\ IsQuorum(s.conf.in, s.conf.out, s.yes)
    BY <1>5 DEF Campaigned
  <2>2. \A v \in s.yes : \E r \in E[v].votes :
          r.term = t /\ r.for = n /\ r.last = LastAt(X, k) /\ r.upto <= t - 1
    <3>1. \A v \in s.yes : \E r \in D[v].votes :
            r.term = t /\ r.for = n /\ r.last = LastAt(X, k) /\ r.upto <= t - 1
      BY <1>5 DEF Campaigned
    <3>2. \A v \in s.yes : D[v].votes \subseteq E[v].votes
      BY <1>3 DEF Grows, Knows
    <3> QED
      BY <3>1, <3>2
  <2>3. LastAt(Y, k) = LastAt(X, k)
    BY <1>3, <1>7 DEF LastAt, TermAt
  <2>4. Same(X, Y, s.applied)
    BY <1>3, <1>7, <2>1, SameUpTo
  <2>5. ConfOk(Y, s.applied, s.conf)
    BY <1>3, <2>1, <2>4, ConfOkSame
  <2>6. OneConf(Y, s.applied, k)
    BY <1>3, <1>7, <2>1, OneConfSame
  <2>7. Committed(g, t - 1, Y, s.applied)
    <3>1. Committed(g, t - 1, X, s.applied)
      BY <1>1, <1>3, <1>6, <2>1, ExtKeeps
    <3>3. s.applied <= Len(Y)
      BY <1>3, <1>7, <2>1
    <3>4. /\ s.applied > 0 => \E c \in g.certs : /\ c.term <= t - 1 /\ s.applied <= c.index
                                                /\ Same(Y, g.log[c.term], s.applied)
      <4>1. Same(Y, X, s.applied)
        BY <2>4 DEF Same
      <4> QED
        BY <3>1, <4>1, SameTrans DEF Committed
    <3>5. ASSUME NEW p \in 1 .. s.applied, IsConf(Y[p])
          PROVE \E c \in g.certs : /\ c.term <= t - 1 /\ p <= c.index /\ Same(Y, g.log[c.term], p)
                                   /\ c.app < p /\ OneConf(Y, c.app, p)
      <4>1. IsConf(X[p]) /\ p \in Nat
        BY <1>3, <2>4, <3>5 DEF Same
      <4>2. PICK c \in g.certs : /\ c.term <= t - 1 /\ p <= c.index /\ Same(X, g.log[c.term], p)
                                 /\ c.app < p /\ OneConf(X, c.app, p)
        BY <3>1, <4>1 DEF Committed
      <4>3. Same(X, Y, p) /\ Same(Y, X, p)
        BY <1>3, <2>4, <4>1 DEF Same
      <4>4. c.app \in Nat
        BY <1>6 DEF Histories, Certs
      <4> QED
        BY <4>1, <4>2, <4>3, <4>4, SameTrans, OneConfSame
    <3> QED
      BY <3>3, <3>4, <3>5 DEF Committed
  <2> QED
    BY <1>3, <1>6, <1>7, <2>1, <2>2, <2>3, <2>5, <2>6, <2>7 DEF Campaigned
<1>9. ElectionOk(g, E, t)
  <2>1. \A j \in k + 1 .. Len(Y) : Y[j].term = t
    BY <1>2, <1>3, <1>7
  <2>2. k < Len(Y)
    BY <1>3, <1>7
  <2> QED
    BY <1>4, <1>5, <1>6, <1>8, <2>1, <2>2 DEF ElectionOk, BaseTerm
<1>10. HistOk(g, E)
  BY <1>6, <1>9 DEF HistOk
<1>11. NewReign(h, g, E, n, t, Y)
  BY <1>4, <1>6, <1>10 DEF NewReign
<1> QED
  BY <1>11

\* becomeLeader.
LEMMA ElectedStep ==
  ASSUME NEW h, NEW M, NEW D, NEW n \in Ids, NEW s, NEW d, NEW w, NEW sent,
         AgreesAt(h, M, D, n, s, d, w, sent), s.state = "candidate", s.conf # Refused,
         VoteResult(s.conf.in, s.conf.out, s.yes, s.no) = "won",
         NEW z, z = BecomeLeader(s, n).s
  PROVE  /\ z \in NodeType /\ z.conf # Refused /\ z.term = s.term /\ z.state = "leader"
         /\ z.commit = s.commit /\ z.log = Longer(s.log, Entry(s.term, Normal))
         /\ \E g, N, E : AgreesAt(g, N, E, n, z, d, w, sent) /\ HasAcked(N[n], z.term, Len(z.log))
<1>1. /\ s \in NodeType /\ d \in DiskType /\ w \in SUBSET Msgs
      /\ ViewOk(h, s, M[n]) /\ ViewOk(h, d, D[n])
      /\ NodeOk(h, M, D, n, s, d)
      /\ \A x \in w : x.from = n /\ MsgOk(h, D, s, M[n], x)
      /\ HistOk(h, D) /\ M \in [Ids -> Views] /\ D \in [Ids -> Views]
  BY AtFacts
<1>2. PICK t, X, k : t = s.term /\ X = s.log /\ k = Len(X)
  OBVIOUS
<1>3. /\ t \in Nat /\ X \in Logs /\ s.applied \in Nat /\ s.commit \in Nat /\ k \in Nat
      /\ s.applied <= s.commit /\ s.commit <= k
      /\ d.log \in Logs /\ d.commit \in Nat /\ d.term \in Nat
  <2>1. s.term \in Nat /\ s.log \in Logs /\ s.applied \in Nat /\ s.commit \in Nat
        /\ d.log \in Logs /\ d.commit \in Nat /\ d.term \in Nat
    BY <1>1 DEF NodeType, DiskType
  <2> QED
    BY <1>1, <1>2, <2>1, LogFacts DEF NodeOk, ViewOk, Committed
<1>4. ConfOk(X, s.applied, s.conf) /\ Tracked(s.conf)
  BY <1>2, NodeConf
<1>5. PICK x : x = Entry(t, Normal)
  OBVIOUS
<1>6. x \in Entries /\ x.term = t /\ ~IsConf(x)
  BY <1>3, <1>5 DEF Entry, Entries, IsConf
<1>7. PICK Y : Y = Longer(X, x)
  OBVIOUS
<1>8. /\ Y \in Logs /\ Len(Y) = k + 1 /\ Same(X, Y, k)
  <2>1. Y \in Logs /\ Len(Y) = Len(X) + 1 /\ Same(X, Y, Len(X))
    BY <1>3, <1>6, <1>7, Appended
  <2> QED
    BY <1>2, <2>1
<1>9. /\ z \in NodeType /\ z.term = t /\ z.log = Y
      /\ z.commit = s.commit /\ z.applied = s.applied /\ z.vote = s.vote
      /\ z.state = "leader" /\ z.pending = k
      /\ z.conf = Matched(Zeroed(s.conf), n, k)
  BY <1>1, <1>2, <1>4, <1>5, <1>7, LeaderFields
<1>10. /\ OneConf(X, s.applied, k) /\ t > 1 /\ d.term = t /\ d.log = X /\ t \notin h.won
  BY <1>2, WonCampaign
<1>11. /\ \A p \in 1 .. Len(Y) : IsConf(Y[p]) => p <= k
       /\ OneConf(Y, s.applied, Len(Y)) /\ OneConf(Y, s.commit, Len(Y))
  <2>1. OneConf(X, s.commit, k)
    BY <1>3, <1>10, OneConfWithin
  <2>2. /\ \A p \in 1 .. Len(Y) : IsConf(Y[p]) => p <= Len(X)
        /\ \A a \in Nat : OneConf(X, a, Len(X)) => OneConf(Y, a, Len(Y))
    BY <1>3, <1>6, <1>7, NormalAppended
  <2> QED
    BY <1>2, <1>3, <1>10, <2>1, <2>2
<1>12. /\ Tracked(z.conf) /\ Alike(s.conf, z.conf) /\ z.conf.auto = s.conf.auto
       /\ \A j \in DOMAIN z.conf.trk : z.conf.trk[j].match = IF j = n THEN k ELSE 0
  <2>1. PICK c : c = Zeroed(s.conf)
    OBVIOUS
  <2>2. /\ Tracked(c) /\ Alike(s.conf, c) /\ c.auto = s.conf.auto
        /\ DOMAIN c.trk = DOMAIN s.conf.trk
        /\ \A id \in DOMAIN s.conf.trk : c.trk[id].match = 0
    BY <1>4, <2>1, ZeroedConf
  <2>3. PICK f : f = z.conf
    OBVIOUS
  <2>4. Tracked(c) /\ k \in Nat /\ f = Matched(c, n, k)
    BY <1>3, <1>9, <2>1, <2>2, <2>3
  <2>5. /\ Tracked(f) /\ Alike(c, f) /\ f.auto = c.auto /\ DOMAIN f.trk = DOMAIN c.trk
        /\ \A j \in DOMAIN c.trk : f.trk[j].match = IF j = n THEN k ELSE c.trk[j].match
    BY ONLY <2>4, MatchedConf
  <2> QED
    BY <2>2, <2>3, <2>5 DEF Alike
<1>13. ConfOk(Y, s.applied, z.conf) /\ z.conf # Refused
  <2>1. ConfOk(X, s.applied, z.conf)
    BY <1>4, <1>12, ConfOkAlike
  <2>2. Same(X, Y, s.applied)
    BY <1>3, <1>8, SameUpTo
  <2>3. ConfOk(Y, s.applied, z.conf)
    BY <1>3, <2>1, <2>2, ConfOkSame
  <2> QED
    BY <2>3 DEF ConfOk, Good, Refused, Empty
<1>14. PICK N, E : N = Acks1(M, n, t, k) /\ E = Acks1(D, n, t, k)
  OBVIOUS
<1>15. PICK u, v, mn, dn : u = Acked(mn, t, k) /\ v = Acked(dn, t, k) /\ mn = M[n] /\ dn = D[n]
  OBVIOUS
<1>16. /\ N[n] = u /\ (\A l \in Ids \ {n} : N[l] = M[l]) /\ N = [M EXCEPT ![n] = u]
       /\ E[n] = v /\ (\A l \in Ids \ {n} : E[l] = D[l]) /\ E = [D EXCEPT ![n] = v]
  BY <1>1, <1>14, <1>15 DEF Acks1
<1>17. mn \in Views /\ dn \in Views /\ mn.votes = M[n].votes /\ dn.votes = D[n].votes
  BY <1>1, <1>15
<1>18. /\ u.votes = mn.votes /\ u.acks = mn.acks \cup {[term |-> t, index |-> k]}
       /\ v.votes = dn.votes /\ v.acks = dn.acks \cup {[term |-> t, index |-> k]}
  BY <1>15, <1>17 DEF Acked, Views
<1>19. Grows(D, E)
  BY <1>15, <1>16, <1>18 DEF Grows, Knows
<1>20. PICK g : NewReign(h, g, E, n, s.term, Y)
  <2>1. Elects(s)
    BY DEF Elects
  <2>2. StartsWith(s, Y)
    BY <1>2, <1>5, <1>7 DEF StartsWith
  <2> QED
    BY <1>19, <2>1, <2>2, ElectedHist
<1>21. /\ Ext(h, g) /\ HistOk(g, E)
       /\ g.won = h.won \cup {t} /\ g.el[t].who = n /\ g.log[t] = Y
       /\ Src(g, Y)
       /\ \A q \in Nat \ {t} : g.el[q] = h.el[q] /\ g.log[q] = h.log[q]
  BY <1>2, <1>20 DEF NewReign
<1>22. ViewOk(g, z, u) /\ u \in Views
  <2>1. ViewOk(g, s, mn)
    BY <1>1, <1>2, <1>3, <1>15, <1>21, ViewExt
  <2>2. ViewOk(g, z, mn)
    <3>1. x.term = s.term /\ Y = Longer(s.log, x)
      BY <1>2, <1>6, <1>7
    <3> QED
      BY <1>1, <1>2, <1>6, <1>9, <1>11, <1>21, <2>1, <3>1, AppendView
  <2>3. /\ z.term = t /\ t \in Nat /\ t \in g.won /\ k \in Nat /\ k <= Len(g.log[t])
        /\ Has(g, z.log, t, k)
    <3>1. Same(Y, Y, k)
      BY DEF Same
    <3> QED
      BY <1>3, <1>8, <1>9, <1>21, <3>1 DEF Has
  <2>4. /\ ViewOk(g, z, mn) /\ z.term \in Nat /\ z.term \in g.won /\ k \in Nat
        /\ k <= Len(g.log[z.term]) /\ Has(g, z.log, z.term, k) /\ u = Acked(mn, z.term, k)
    BY <1>15, <2>2, <2>3
  <2> QED
    BY ONLY <2>4, NewAck
<1>23. ViewOk(g, d, v) /\ v \in Views /\ HasAcked(v, t, k)
  <2>1. ViewOk(g, d, dn)
    BY <1>1, <1>3, <1>15, <1>21, ViewExt
  <2>2. Has(g, d.log, t, k) /\ k <= Len(g.log[t])
    BY <1>2, <1>3, <1>8, <1>10, <1>21 DEF Has
  <2>4. /\ ViewOk(g, d, dn) /\ d.term \in Nat /\ d.term \in g.won /\ k \in Nat
        /\ k <= Len(g.log[d.term]) /\ Has(g, d.log, d.term, k) /\ v = Acked(dn, d.term, k)
    BY <1>3, <1>10, <1>15, <1>21, <2>1, <2>2
  <2>5. ViewOk(g, d, v) /\ v \in Views /\ HasAcked(v, d.term, k)
    BY ONLY <2>4, NewAck
  <2> QED
    BY <1>10, <2>5
<1>24. GhostsOk(g, N, E)
  BY <1>1, <1>16, <1>21, <1>22, <1>23 DEF GhostsOk
<1>25. Moves(h, M, D, n, g, N, E)
  <2>1. \A q \in g.won : q \notin h.won => g.el[q].who = n
    BY <1>21
  <2>2. \A q \in h.won : h.el[q].who # n => g.log[q] = h.log[q]
    <3>1. h.won \subseteq Nat
      BY <1>1 DEF HistOk, Histories
    <3> QED
      BY <1>10, <1>21, <3>1
  <2>3. N[n].votes = M[n].votes
    BY <1>16, <1>17, <1>18
  <2> QED
    BY <1>16, <1>19, <1>21, <2>1, <2>2, <2>3 DEF Moves
<1>26. LeaderOk(g, E, n, z)
  <2>1. \A id \in DOMAIN z.conf.trk :
          z.conf.trk[id].match = 0 \/ HasAcked(E[id], t, z.conf.trk[id].match)
    BY <1>12, <1>16, <1>23
  <2> QED
    BY <1>9, <1>11, <1>21, <2>1 DEF LeaderOk
<1>27. NodeOk(g, N, E, n, z, d)
  <2>1. E[n].votes \subseteq N[n].votes /\ E[n].acks \subseteq N[n].acks
    BY <1>1, <1>15, <1>16, <1>18 DEF NodeOk
  <2>2. \A q \in g.won : g.el[q].who = n => q <= d.term
    <3>1. \A q \in h.won : h.el[q].who = n => q <= d.term
      BY <1>1 DEF NodeOk
    <3>2. h.won \subseteq Nat
      BY <1>1 DEF HistOk, Histories
    <3> QED
      BY <1>3, <1>10, <1>21, <3>1, <3>2
  <2>3. \A l \in Ids \ {n} : \A r \in N[l].votes : r.for = n => r.term <= d.term
    BY <1>1, <1>16 DEF NodeOk
  <2>4. d.term <= z.term
    BY <1>3, <1>9, <1>10
  <2> QED
    BY <1>1, <1>9, <1>13, <1>26, <2>1, <2>2, <2>3, <2>4 DEF NodeOk
<1>28. \A m \in w : m.from = n /\ MsgOk(g, E, z, N[n], m)
  <2>1. ASSUME NEW m \in w PROVE MsgOk(g, E, z, N[n], m)
    <3>1. Knows(M[n], N[n])
      BY <1>15, <1>16, <1>18 DEF Knows
    <3>2. m \in Msgs /\ z.term \in Nat /\ s.term \in Nat /\ s.term <= z.term
      BY <1>1, <1>2, <1>3, <1>9
    <3> QED
      BY <1>1, <1>19, <1>21, <3>1, <3>2, MsgExt
  <2> QED
    BY <1>1, <2>1
<1>29. ActorOk(g, N, E, n, z, d, w, sent)
  <2>1. AsksFor(n, z, w \cup sent)
    BY <1>9 DEF AsksFor
  <2> QED
    BY <1>1, <1>9, <1>16, <1>22, <1>23, <1>27, <1>28, <2>1 DEF ActorOk
<1>30. AgreesAt(g, N, E, n, z, d, w, sent)
  <2>1. d.term <= d.term
    BY <1>3
  <2> QED
    BY <1>24, <1>25, <1>29, <2>1, StepKeeps
<1>31. PICK j : j = Len(Y)
  OBVIOUS
<1>32. MayAck(g, z, j)
  <2>1. Same(Y, Y, j)
    BY DEF Same
  <2> QED
    BY <1>3, <1>8, <1>9, <1>21, <1>31, <2>1 DEF MayAck, Has
<1>33. PICK P : AgreesAt(g, P, E, n, z, d, w, sent) /\ HasAcked(P[n], z.term, j)
  BY <1>30, <1>32, AckedStep
<1> QED
  BY <1>2, <1>5, <1>7, <1>9, <1>13, <1>31, <1>33

\* The leader's state with another match index, or commit index.
MatchedAt(s, id, k) == [s EXCEPT !.conf = Matched(s.conf, id, k)]
CommittedAt(s, i)   == [s EXCEPT !.commit = i]

\* The leader records what a node has acknowledged.
LEMMA MatchStep ==
  ASSUME NEW h, NEW M, NEW D, NEW n \in Ids, NEW s, NEW d, NEW w, NEW sent,
         AgreesAt(h, M, D, n, s, d, w, sent), s.state = "leader", s.conf # Refused,
         NEW id, NEW k \in Nat, k = 0 \/ HasAcked(D[id], s.term, k),
         NEW z, z = MatchedAt(s, id, k)
  PROVE  AgreesAt(h, M, D, n, z, d, w, sent) /\ z.conf # Refused
<1>1. /\ s \in NodeType /\ d \in DiskType /\ w \in SUBSET Msgs
      /\ ViewOk(h, s, M[n]) /\ ViewOk(h, d, D[n])
      /\ NodeOk(h, M, D, n, s, d)
      /\ \A m \in w : m.from = n /\ MsgOk(h, D, s, M[n], m)
      /\ AsksFor(n, s, w \cup sent)
  BY AtFacts
<1>2. ConfOk(s.log, s.applied, s.conf) /\ Tracked(s.conf)
  BY NodeConf
<1>3. PICK c, f : c = s.conf /\ f = Matched(c, id, k)
  OBVIOUS
<1>4. /\ Tracked(f) /\ Alike(c, f) /\ f.auto = c.auto /\ DOMAIN f.trk = DOMAIN c.trk
      /\ \A j \in DOMAIN c.trk : f.trk[j].match = IF j = id THEN k ELSE c.trk[j].match
  <2>1. Tracked(c) /\ k \in Nat /\ f = Matched(c, id, k)
    BY <1>2, <1>3
  <2> QED
    BY ONLY <2>1, MatchedConf
<1>5. /\ z \in NodeType /\ z.term = s.term /\ z.log = s.log /\ z.commit = s.commit
      /\ z.applied = s.applied /\ z.conf = f /\ z.vote = s.vote /\ z.state = s.state
      /\ z.yes = s.yes /\ z.pending = s.pending
  <2>1. z = [s EXCEPT !.conf = f] /\ f \in Confs
    BY <1>3, <1>4 DEF MatchedAt, Tracked
  <2> QED
    BY <1>1, <2>1 DEF NodeType
<1>6. ConfOk(z.log, z.applied, z.conf) /\ z.conf # Refused
  <2>1. ConfOk(z.log, z.applied, z.conf)
    BY <1>2, <1>3, <1>4, <1>5, ConfOkAlike
  <2> QED
    BY <2>1 DEF ConfOk, Good, Refused, Empty
<1>7. LeaderOk(h, D, n, z)
  <2>1. LeaderOk(h, D, n, s)
    BY <1>1 DEF NodeOk
  <2>2. \A j \in DOMAIN z.conf.trk :
          z.conf.trk[j].match = 0 \/ HasAcked(D[j], z.term, z.conf.trk[j].match)
    BY <1>3, <1>4, <1>5, <2>1 DEF LeaderOk
  <2> QED
    BY <1>5, <2>1, <2>2 DEF LeaderOk
<1>8. NodeOk(h, M, D, n, z, d)
  BY <1>1, <1>5, <1>6, <1>7 DEF NodeOk
<1>9. ViewOk(h, z, M[n])
  BY <1>1, <1>5 DEF ViewOk
<1>10. \A m \in w : m.from = n /\ MsgOk(h, D, z, M[n], m)
  BY <1>1, <1>5 DEF MsgOk
<1>11. AsksFor(n, z, w \cup sent)
  BY <1>1, <1>5 DEF AsksFor
<1>12. ActorOk(h, M, D, n, z, d, w, sent)
  BY <1>1, <1>5, <1>8, <1>9, <1>10, <1>11 DEF ActorOk
<1> QED
  BY <1>6, <1>12, LocalStep

\* A history with a commitment more.
Certified(h, c) == [h EXCEPT !.certs = @ \cup {c}]

CertOf(s, i) ==
  [term |-> s.term, index |-> i, app |-> s.applied, conf |-> s.conf, q |-> AtLeast(Matches(s), i)]

\* It is one when the commitment is sound.
LEMMA CertHist ==
  ASSUME NEW h, NEW D, HistOk(h, D), NEW c \in Certs, NEW g, g = Certified(h, c), CertOk(h, D, c)
  PROVE  /\ Ext(h, g) /\ HistOk(g, D) /\ g.won = h.won /\ g.el = h.el /\ g.log = h.log
         /\ c \in g.certs
<1>1. h \in Histories
  BY DEF HistOk
<1>2. /\ g \in Histories /\ g.won = h.won /\ g.el = h.el /\ g.log = h.log
      /\ g.certs = h.certs \cup {c}
  BY <1>1 DEF Histories, Certified
<1>3. Ext(h, g)
  <2>1. \A t \in h.won : Len(h.log[t]) \in Nat
    BY ElectionFacts
  <2> QED
    BY <1>2, <2>1 DEF Ext, Same
<1>4. \A t \in h.won : h.log[t] \in Logs /\ Src(h, h.log[t]) /\ Len(h.log[t]) \in Nat
  BY ElectionFacts
<1>5. \A t \in h.won : /\ Src(g, g.log[t])
                       /\ \A j \in Len(h.log[t]) + 1 .. Len(g.log[t]) : g.log[t][j].term = t
  <2>1. \A t \in h.won : Src(g, h.log[t])
    BY <1>3, <1>4, ExtKeeps
  <2> QED
    BY <1>2, <1>4, <2>1
<1>6. Grows(D, D)
  BY DEF Grows, Knows
<1>7. (\A t \in h.won : ElectionOk(g, D, t)) /\ \A x \in h.certs : CertOk(g, D, x)
  BY <1>3, <1>5, <1>6, HistExt
<1>8. CertOk(g, D, c)
  <2>1. Committed(h, c.term, h.log[c.term], c.app) /\ c.app \in Nat
    BY DEF CertOk, Certs
  <2>2. Committed(g, c.term, h.log[c.term], c.app)
    BY <1>3, <2>1, ExtKeeps
  <2> QED
    BY <1>2, <2>2 DEF CertOk
<1> QED
  BY <1>2, <1>3, <1>7, <1>8 DEF HistOk

\* What a leader counts was acknowledged, and is in its log.
LEMMA CountedAcks ==
  ASSUME NEW h, NEW M, NEW D, NEW n \in Ids, NEW s, NEW d, NEW w, NEW sent,
         AgreesAt(h, M, D, n, s, d, w, sent), s.state = "leader", s.conf # Refused
  PROVE  /\ Matches(s) \in [Ids -> 0 .. Len(s.log)]
         /\ \A i \in Nat \ {0} : \A v \in AtLeast(Matches(s), i) : v \in Ids /\ HasAcked(D[v], s.term, i)
<1>1. s \in NodeType /\ NodeOk(h, M, D, n, s, d) /\ HistOk(h, D)
  BY AtFacts
<1>2. \A v \in Ids : RecordsOk(h, D[v])
  BY AtFacts
<1>3. LeaderOk(h, D, n, s)
  BY <1>1 DEF NodeOk
<1>4. DOMAIN s.conf.trk \subseteq Ids /\ s.conf.trk \in [DOMAIN s.conf.trk -> Progress]
  BY NodeConf
<1>5. s.log \in Logs /\ Len(s.log) \in Nat
  BY <1>1, LogFacts DEF NodeType
<1>6. ASSUME NEW id \in DOMAIN s.conf.trk
      PROVE  /\ s.conf.trk[id].match \in 0 .. Len(s.log)
             /\ s.conf.trk[id].match = 0 \/ HasAcked(D[id], s.term, s.conf.trk[id].match)
  <2>1. s.conf.trk[id].match \in Nat
    BY <1>4 DEF Progress
  <2>2. s.conf.trk[id].match = 0 \/ HasAcked(D[id], s.term, s.conf.trk[id].match)
    BY <1>3 DEF LeaderOk
  <2>3. CASE s.conf.trk[id].match = 0
    BY <1>5, <2>2, <2>3
  <2>4. CASE HasAcked(D[id], s.term, s.conf.trk[id].match)
    <3>1. PICK a \in D[id].acks : a.term = s.term /\ a.index >= s.conf.trk[id].match
      BY <2>4 DEF HasAcked
    <3>2. RecordsOk(h, D[id])
      BY <1>2, <1>4
    <3>3. a.index \in Nat /\ a.index <= Len(h.log[a.term])
      BY <1>1, <3>2, AckFacts
    <3>4. h.log[s.term] = s.log
      BY <1>3 DEF LeaderOk
    <3> QED
      BY <1>5, <2>1, <2>2, <3>1, <3>3, <3>4
  <2> QED
    BY <2>2, <2>3, <2>4
<1>7. Matches(s) \in [Ids -> 0 .. Len(s.log)]
  BY <1>5, <1>6 DEF Matches
<1>8. ASSUME NEW i \in Nat \ {0}, NEW v \in AtLeast(Matches(s), i)
      PROVE  v \in Ids /\ HasAcked(D[v], s.term, i)
  <2>1. v \in Ids /\ Matches(s)[v] >= i
    BY DEF AtLeast
  <2>2. Matches(s)[v] = IF v \in DOMAIN s.conf.trk THEN s.conf.trk[v].match ELSE 0
    BY <2>1 DEF Matches
  <2>3. v \in DOMAIN s.conf.trk /\ s.conf.trk[v].match >= i
    BY <2>1, <2>2
  <2>4. s.conf.trk[v].match \in Nat /\ HasAcked(D[v], s.term, s.conf.trk[v].match)
    BY <1>5, <1>6, <2>3
  <2>5. PICK a \in D[v].acks : a.term = s.term /\ a.index >= s.conf.trk[v].match
    BY <2>4 DEF HasAcked
  <2>6. RecordsOk(h, D[v])
    BY <1>2, <2>1
  <2>7. a.index \in Nat
    BY <1>1, <2>6, AckFacts
  <2>8. a.index >= i
    BY <2>3, <2>4, <2>5, <2>7
  <2> QED
    BY <2>1, <2>5, <2>8 DEF HasAcked
<1> QED
  BY <1>7, <1>8

\* The leader may commit what a quorum has acknowledged in its own term.
MayCommit(s, i) ==
  /\ i = CommittedIndex(s.conf.in, s.conf.out, Matches(s))
  /\ i > s.commit /\ i <= Len(s.log) /\ TermAt(s.log, i) = s.term

\* That commitment is sound.
LEMMA CommitCert ==
  ASSUME NEW h, NEW M, NEW D, NEW n \in Ids, NEW s, NEW d, NEW w, NEW sent,
         AgreesAt(h, M, D, n, s, d, w, sent), s.state = "leader", s.conf # Refused,
         NEW i, MayCommit(s, i)
  PROVE  i \in Nat /\ \E c \in Certs : /\ CertOk(h, D, c)
                                      /\ c.term = s.term /\ c.index = i /\ c.app = s.applied
<1> PICK c : c = CertOf(s, i)
  OBVIOUS
<1>1. /\ s \in NodeType /\ ViewOk(h, s, M[n])
      /\ NodeOk(h, M, D, n, s, d) /\ HistOk(h, D)
  BY AtFacts
<1>2. LeaderOk(h, D, n, s)
  BY <1>1 DEF NodeOk
<1>3. /\ Matches(s) \in [Ids -> 0 .. Len(s.log)]
      /\ \A j \in Nat \ {0} : \A v \in AtLeast(Matches(s), j) : v \in Ids /\ HasAcked(D[v], s.term, j)
  BY CountedAcks
<1>4. /\ s.term \in Nat /\ s.log \in Logs /\ s.applied \in Nat /\ s.commit \in Nat /\ s.conf \in Confs
      /\ s.applied <= s.commit /\ Len(s.log) \in Nat
  <2>1. /\ s.term \in Nat /\ s.log \in Logs /\ s.applied \in Nat /\ s.commit \in Nat /\ s.conf \in Confs
    BY <1>1 DEF NodeType
  <2> QED
    BY <1>1, <2>1, LogFacts DEF NodeOk
<1>5. ConfOk(s.log, s.applied, s.conf) /\ Tracked(s.conf) /\ s.conf.in # {}
  BY NodeConf
<1>6. i \in Nat /\ IsQuorum(s.conf.in, s.conf.out, AtLeast(Matches(s), i))
  <2>1. PICK N, acked, cf : N = Len(s.log) /\ acked = Matches(s) /\ cf = s.conf
    OBVIOUS
  <2>2. N \in Nat /\ acked \in [Ids -> 0 .. N] /\ Tracked(cf) /\ cf.in # {}
        /\ i = CommittedIndex(cf.in, cf.out, acked)
    BY <1>3, <1>4, <1>5, <2>1 DEF MayCommit
  <2>3. i \in Nat /\ IsQuorum(cf.in, cf.out, AtLeast(acked, i))
    BY ONLY <2>2, QuorumAcked
  <2> QED
    BY <2>1, <2>3
<1>7. i > s.commit /\ i <= Len(s.log) /\ s.log[i].term = s.term /\ i # 0
  BY <1>4, <1>6 DEF MayCommit, TermAt
<1>8. AtLeast(Matches(s), i) \in SUBSET Ids
  BY DEF AtLeast
<1>9. /\ c \in Certs /\ c.term = s.term /\ c.index = i /\ c.app = s.applied /\ c.conf = s.conf
      /\ c.q = AtLeast(Matches(s), i)
  BY <1>4, <1>6, <1>8 DEF CertOf, Certs
<1>10. s.term \in h.won /\ h.log[s.term] = s.log /\ OneConf(s.log, s.applied, Len(s.log))
  BY <1>2 DEF LeaderOk
<1>11. i \in h.el[s.term].base + 1 .. Len(s.log)
  <2>1. h.el[s.term].base \in Nat
    BY <1>1, <1>10, ElectionFacts
  <2>2. s.log[i].term = s.term <=> i > h.el[s.term].base
    <3>1. i \in 1 .. Len(h.log[s.term])
      BY <1>4, <1>6, <1>7, <1>10
    <3>2. h.log[s.term][i].term = s.term <=> i > h.el[s.term].base
      BY <1>1, <1>10, <3>1, ElectionFacts
    <3> QED
      BY <1>10, <3>2
  <2> QED
    BY <1>4, <1>6, <1>7, <2>1, <2>2
<1>12. OneConf(s.log, s.applied, i) /\ s.applied <= i
  BY <1>4, <1>6, <1>7, <1>10, OneConfWithin
<1>13. Committed(h, s.term, s.log, s.applied)
  <2>1. Committed(h, s.term, s.log, s.commit) /\ s.term <= s.term
    BY <1>1, <1>4 DEF ViewOk
  <2> QED
    BY <1>1, <1>4, <2>1, CommittedUpTo
<1>14. \A v \in c.q : HasAcked(D[v], s.term, i)
  BY <1>3, <1>6, <1>7, <1>9
<1>15. CertOk(h, D, c)
  BY <1>5, <1>6, <1>9, <1>10, <1>11, <1>12, <1>13, <1>14 DEF CertOk
<1> QED
  BY <1>6, <1>9, <1>15

\* The leader commits.
LEMMA CommitStep ==
  ASSUME NEW h, NEW M, NEW D, NEW n \in Ids, NEW s, NEW d, NEW w, NEW sent,
         AgreesAt(h, M, D, n, s, d, w, sent), s.state = "leader", s.conf # Refused,
         NEW i, MayCommit(s, i), NEW z, z = CommittedAt(s, i)
  PROVE  \E g : AgreesAt(g, M, D, n, z, d, w, sent)
<1>1. /\ s \in NodeType /\ d \in DiskType /\ w \in SUBSET Msgs
      /\ ViewOk(h, s, M[n]) /\ ViewOk(h, d, D[n])
      /\ NodeOk(h, M, D, n, s, d) /\ HistOk(h, D) /\ M \in [Ids -> Views] /\ D \in [Ids -> Views]
      /\ \A m \in w : m.from = n /\ MsgOk(h, D, s, M[n], m)
      /\ AsksFor(n, s, w \cup sent)
  BY AtFacts
<1>2. LeaderOk(h, D, n, s)
  BY <1>1 DEF NodeOk
<1>3. i \in Nat
  BY CommitCert
<1>4. PICK c \in Certs : /\ i \in Nat /\ CertOk(h, D, c)
                        /\ c.term = s.term /\ c.index = i /\ c.app = s.applied
  BY <1>3, CommitCert
<1>5. PICK g : g = Certified(h, c)
  OBVIOUS
<1>6. /\ Ext(h, g) /\ HistOk(g, D) /\ g.won = h.won /\ g.el = h.el /\ g.log = h.log
      /\ c \in g.certs
  BY <1>1, <1>4, <1>5, CertHist
<1>7. /\ s.term \in Nat /\ s.log \in Logs /\ s.applied \in Nat /\ s.commit \in Nat
      /\ s.applied <= s.commit /\ Len(s.log) \in Nat /\ d.log \in Logs /\ d.commit \in Nat
      /\ d.term \in Nat
  <2>1. /\ s.term \in Nat /\ s.log \in Logs /\ s.applied \in Nat /\ s.commit \in Nat
        /\ d.log \in Logs /\ d.commit \in Nat /\ d.term \in Nat
    BY <1>1 DEF NodeType, DiskType
  <2> QED
    BY <1>1, <2>1, LogFacts DEF NodeOk
<1>8. i > s.commit /\ i <= Len(s.log)
  BY DEF MayCommit
<1>9. /\ z \in NodeType /\ z.term = s.term /\ z.log = s.log /\ z.commit = i
      /\ z.applied = s.applied /\ z.conf = s.conf /\ z.vote = s.vote /\ z.state = s.state
      /\ z.pending = s.pending
  BY <1>1, <1>4 DEF NodeType, CommittedAt
<1>10. h.log[s.term] = s.log /\ OneConf(s.log, s.applied, Len(s.log))
  BY <1>2 DEF LeaderOk
<1>11. ViewOk(g, s, M[n]) /\ ViewOk(g, d, D[n])
  BY <1>1, <1>6, <1>7, ViewExt
<1>12. Committed(g, s.term, s.log, i)
  <2>1. /\ c.term <= s.term /\ i <= c.index /\ Same(s.log, g.log[c.term], i)
    BY <1>4, <1>6, <1>7, <1>10 DEF Same
  <2>2. ASSUME NEW p \in 1 .. i, IsConf(s.log[p])
        PROVE  \E x \in g.certs : /\ x.term <= s.term /\ p <= x.index /\ Same(s.log, g.log[x.term], p)
                                  /\ x.app < p /\ OneConf(s.log, x.app, p)
    <3>1. CASE p <= s.commit
      <4>1. Committed(g, s.term, s.log, s.commit) /\ p \in 1 .. s.commit
        BY <1>4, <1>7, <1>11, <3>1 DEF ViewOk
      <4> QED
        BY <2>2, <4>1 DEF Committed
    <3>2. CASE p > s.commit
      <4>1. p \in Nat /\ p <= i /\ s.applied < p
        BY <1>4, <1>7, <3>2
      <4>2. Same(s.log, g.log[c.term], p)
        BY <1>4, <2>1, <4>1, SameUpTo
      <4>3. OneConf(s.log, s.applied, p)
        BY <1>4, <1>7, <1>8, <1>10, <4>1, OneConfWithin
      <4> QED
        BY <1>4, <1>6, <2>1, <4>1, <4>2, <4>3
    <3> QED
      BY <1>4, <1>7, <3>1, <3>2
  <2> QED
    BY <1>6, <1>8, <2>1, <2>2 DEF Committed
<1>13. ViewOk(g, z, M[n])
  <2>1. OneConf(s.log, i, Len(s.log))
    BY <1>4, <1>7, <1>8, <1>10, OneConfWithin
  <2> QED
    BY <1>9, <1>11, <1>12, <2>1 DEF ViewOk
<1>14. LeaderOk(g, D, n, z)
  BY <1>2, <1>6, <1>9 DEF LeaderOk
<1>15. NodeOk(g, M, D, n, z, d)
  <2>1. z.applied <= z.commit
    BY <1>4, <1>7, <1>8, <1>9
  <2> QED
    BY <1>1, <1>6, <1>9, <1>14, <2>1 DEF NodeOk
<1>16. \A m \in w : m.from = n /\ MsgOk(g, D, z, M[n], m)
  <2>1. ASSUME NEW m \in w PROVE MsgOk(g, D, z, M[n], m)
    <3>1. Knows(M[n], M[n]) /\ Grows(D, D)
      BY DEF Knows, Grows
    <3>2. m \in Msgs /\ z.term \in Nat /\ s.term <= z.term
      BY <1>1, <1>7, <1>9
    <3> QED
      BY <1>1, <1>6, <1>7, <3>1, <3>2, MsgExt
  <2> QED
    BY <1>1, <2>1
<1>17. ActorOk(g, M, D, n, z, d, w, sent)
  <2>1. AsksFor(n, z, w \cup sent)
    BY <1>9 DEF AsksFor
  <2> QED
    BY <1>1, <1>9, <1>11, <1>13, <1>15, <1>16, <2>1 DEF ActorOk
<1>18. AgreesAt(g, M, D, n, z, d, w, sent)
  <2>1. Moves(h, M, D, n, g, M, D)
    BY <1>6 DEF Moves, Grows, Knows
  <2>2. GhostsOk(g, M, D) /\ d.term <= d.term
    BY <1>1, <1>6, <1>7 DEF GhostsOk
  <2> QED
    BY <1>17, <2>1, <2>2, StepKeeps
<1> QED
  BY <1>18

\* L is the log of the leader of t up to some index, of which it had committed c
\* entries.
Offer(h, t, L, c) ==
  /\ t \in h.won /\ L \in Logs /\ c \in Nat
  /\ Len(L) <= Len(h.log[t]) /\ Same(L, h.log[t], Len(L))
  /\ Committed(h, t, L, c) /\ OneConf(L, c, Len(L))

\* A log that starts a leader's log has a source.
LEMMA OfferFacts ==
  ASSUME NEW h, NEW D, HistOk(h, D), NEW t, NEW L, NEW c, Offer(h, t, L, c)
  PROVE  /\ t \in Nat /\ L \in Logs /\ Len(L) \in Nat /\ c \in Nat /\ c <= Len(L)
         /\ Src(h, L)
         /\ \A j \in 1 .. Len(L) : L[j].term \in Nat /\ L[j].term <= t
<1>1. /\ t \in h.won /\ L \in Logs /\ c \in Nat
      /\ Len(L) <= Len(h.log[t]) /\ Same(L, h.log[t], Len(L)) /\ c <= Len(L)
  BY DEF Offer, Committed
<1>2. /\ t \in Nat /\ h.log[t] \in Logs /\ Src(h, h.log[t]) /\ h.el[t].base \in Nat
      /\ Len(h.log[t]) \in Nat
  BY <1>1, ElectionFacts
<1>3. \A j \in 1 .. Len(h.log[t]) : h.log[t][j].term <= t /\ h.log[t][j].term \in Nat
  BY <1>1, ElectionFacts
<1>4. Len(L) \in Nat
  BY <1>1, LogFacts
<1>5. \A j \in 1 .. Len(L) : L[j] = h.log[t][j] /\ j \in 1 .. Len(h.log[t])
  BY <1>1, <1>2, <1>4 DEF Same
<1>6. Src(h, L)
  <2> SUFFICES ASSUME NEW j \in 1 .. Len(L)
               PROVE  /\ L[j].term \in h.won /\ j <= Len(h.log[L[j].term])
                      /\ Same(L, h.log[L[j].term], j)
    BY DEF Src
  <2>1. L[j] = h.log[t][j] /\ j \in 1 .. Len(h.log[t])
    BY <1>5
  <2>2. /\ h.log[t][j].term \in h.won /\ j <= Len(h.log[h.log[t][j].term])
        /\ Same(h.log[t], h.log[h.log[t][j].term], j)
    BY <1>2, <2>1 DEF Src
  <2>3. Same(L, h.log[t], j)
    BY <1>1, <1>4, SameUpTo
  <2> QED
    BY <2>1, <2>2, <2>3, SameTrans
<1> QED
  BY <1>1, <1>2, <1>3, <1>4, <1>5, <1>6

\* A follower's log after it was offered L: its own when that has all of L, and
\* L otherwise.
Holds(X, L) == Len(L) <= Len(X) /\ Same(X, L, Len(L))

Adopts(s, L, Y) ==
  /\ s.commit <= Len(L) /\ Same(s.log, L, s.commit)
  /\ \/ Y = s.log /\ Holds(s.log, L)
     \/ Y = L /\ ~Holds(s.log, L)

Taken(s, Y, c) == [s EXCEPT !.log = Y, !.commit = MaxOf(s.commit, c)]

\* What a follower has of the log it was offered.
LEMMA AdoptView ==
  ASSUME NEW h, NEW D, HistOk(h, D), NEW s \in NodeType, NEW v, ViewOk(h, s, v),
         NEW L, NEW c, Offer(h, s.term, L, c), NEW Y, Adopts(s, L, Y),
         NEW z, z.term = s.term, z.vote = s.vote, z.log = Y, z.commit = MaxOf(s.commit, c)
  PROVE  /\ ViewOk(h, z, v) /\ Y \in Logs /\ Same(s.log, Y, s.commit)
         /\ MayAck(h, z, Len(L)) /\ z.commit \in Nat /\ s.commit <= z.commit
<1>1. s.term \in Nat /\ s.log \in Logs /\ s.commit \in Nat
  BY DEF NodeType
<1>2. PICK t, X : t = s.term /\ X = s.log
  OBVIOUS
<1>3. /\ t \in Nat /\ L \in Logs /\ Len(L) \in Nat /\ c \in Nat /\ c <= Len(L)
      /\ Src(h, L)
      /\ \A j \in 1 .. Len(L) : L[j].term \in Nat /\ L[j].term <= t
  BY <1>2, OfferFacts
<1>4. /\ t \in h.won /\ Len(L) <= Len(h.log[t]) /\ Same(L, h.log[t], Len(L))
      /\ Committed(h, t, L, c) /\ OneConf(L, c, Len(L))
  BY <1>2 DEF Offer
<1>5. /\ RecordsOk(h, v) /\ Src(h, X) /\ (\A j \in 1 .. Len(X) : X[j].term <= t)
      /\ (\A a \in v.acks : a.term <= t /\ KeptIn(h, X, a.term, a.index, t))
      /\ Committed(h, t, X, s.commit) /\ OneConf(X, s.commit, Len(X))
  BY <1>2 DEF ViewOk
<1>6. Len(X) \in Nat /\ s.commit <= Len(X)
  BY <1>1, <1>2, <1>5, LogFacts DEF Committed
<1>7. s.commit <= Len(L) /\ Same(X, L, s.commit)
  BY <1>2 DEF Adopts
<1>8. /\ Same(X, Y, s.commit) /\ Len(L) <= Len(Y) /\ Same(L, Y, Len(L)) /\ Y \in Logs
      /\ Src(h, Y) /\ \A j \in 1 .. Len(Y) : Y[j].term <= t
  <2>1. CASE Y = X /\ Holds(X, L)
    BY <1>1, <1>2, <1>5, <2>1 DEF Holds, Same
  <2>2. CASE Y = L
    BY <1>3, <1>7, <2>2 DEF Same
  <2> QED
    BY <1>2, <2>1, <2>2 DEF Adopts
<1>9. z.commit \in Nat /\ s.commit <= z.commit /\ c <= z.commit /\ z.commit \in {s.commit, c}
  BY <1>1, <1>3 DEF MaxOf
<1>10. Len(Y) \in Nat
  BY <1>8, LogFacts
<1>11. Committed(h, t, Y, z.commit)
  <2>1. CASE z.commit = s.commit
    <3>1. s.commit <= Len(Y)
      BY <1>1, <1>3, <1>7, <1>8, <1>10
    <3> QED
      BY <1>1, <1>5, <1>8, <2>1, <3>1, CommittedSame
  <2>2. CASE z.commit = c
    <3>1. c <= Len(Y) /\ Same(L, Y, c)
      BY <1>3, <1>8, <1>10, SameUpTo
    <3> QED
      BY <1>3, <1>4, <2>2, <3>1, CommittedSame
  <2> QED
    BY <1>9, <2>1, <2>2
<1>12. OneConf(Y, z.commit, Len(Y))
  <2>1. CASE Y = X
    BY <1>1, <1>5, <1>9, <1>10, <2>1, OneConfWithin
  <2>2. CASE Y = L
    BY <1>3, <1>4, <1>9, <1>10, <2>2, OneConfWithin
  <2> QED
    BY <1>2, <2>1, <2>2 DEF Adopts
<1>13. ASSUME NEW a \in v.acks PROVE KeptIn(h, Y, a.term, a.index, t)
  <2>1. a.term <= t /\ KeptIn(h, X, a.term, a.index, t)
    BY <1>5
  <2>2. a.term \in Nat /\ a.index \in Nat
    BY <1>5, AckFacts
  <2>3. CASE Y = X
    BY <2>1, <2>3
  <2>4. CASE Y = L /\ ~Holds(X, L)
    <3> SUFFICES ASSUME NEW j \in 1 .. a.index, Has(h, X, a.term, j), ~Has(h, L, a.term, j)
                 PROVE  a.term < t /\ Lost(h, t, a.term, j)
      BY <1>3, <1>4, <2>1, <2>4 DEF KeptIn
    <3>1. j <= Len(X) /\ Same(X, h.log[a.term], j) /\ j \in Nat
      BY <2>2 DEF Has
    <3>2. ~Same(h.log[t], h.log[a.term], j)
      <4> SUFFICES ASSUME Same(h.log[t], h.log[a.term], j) PROVE FALSE
        OBVIOUS
      <4>1. CASE j <= Len(L)
        <5>1. Same(L, h.log[t], j)
          BY <1>3, <1>4, <3>1, <4>1, SameUpTo
        <5> QED
          BY <4>1, <5>1, SameTrans DEF Has
      <4>2. CASE j > Len(L)
        <5>1. Len(L) <= Len(X) /\ Same(X, h.log[a.term], Len(L)) /\ Same(h.log[t], h.log[a.term], Len(L))
          BY <1>3, <1>6, <3>1, <4>2, SameUpTo
        <5>2. Same(X, L, Len(L))
          BY <1>4, <5>1 DEF Same
        <5> QED
          BY <2>4, <5>1, <5>2 DEF Holds
      <4> QED
        BY <1>3, <3>1, <4>1, <4>2
    <3>3. a.term # t
      BY <3>2 DEF Same
    <3> QED
      BY <1>3, <2>1, <2>2, <3>2, <3>3 DEF Lost
  <2> QED
    BY <1>2, <2>3, <2>4 DEF Adopts
<1>14. ViewOk(h, z, v)
  <2>1. /\ \A r \in v.votes : r.term <= z.term /\ (r.term = z.term => r.for = z.vote)
        /\ z.vote # None => \E r \in v.votes : r.term = z.term
    BY DEF ViewOk
  <2> QED
    BY <1>2, <1>5, <1>8, <1>11, <1>12, <1>13, <2>1 DEF ViewOk
<1>15. MayAck(h, z, Len(L))
  <2>1. Same(Y, h.log[t], Len(L))
    BY <1>4, <1>8 DEF Same
  <2> QED
    BY <1>2, <1>3, <1>4, <1>8, <2>1 DEF MayAck, Has
<1> QED
  BY <1>2, <1>8, <1>9, <1>14, <1>15

\* The follower takes it.
LEMMA TakeStep ==
  ASSUME NEW h, NEW M, NEW D, NEW n \in Ids, NEW s, NEW d, NEW w, NEW sent,
         AgreesAt(h, M, D, n, s, d, w, sent), s.state = "follower", s.conf # Refused,
         NEW L, NEW c, Offer(h, s.term, L, c), NEW Y, Adopts(s, L, Y), NEW z, z = Taken(s, Y, c)
  PROVE  /\ AgreesAt(h, M, D, n, z, d, w, sent) /\ MayAck(h, z, Len(L))
         /\ z.conf # Refused /\ s.commit <= z.commit /\ Same(s.log, z.log, s.commit)
         /\ z.term = s.term
<1>1. /\ s \in NodeType /\ d \in DiskType /\ w \in SUBSET Msgs
      /\ ViewOk(h, s, M[n]) /\ ViewOk(h, d, D[n])
      /\ NodeOk(h, M, D, n, s, d) /\ HistOk(h, D)
      /\ \A m \in w : m.from = n /\ MsgOk(h, D, s, M[n], m)
      /\ AsksFor(n, s, w \cup sent)
  BY AtFacts
<1>2. PICK y : y = [term |-> s.term, vote |-> s.vote, log |-> Y, commit |-> MaxOf(s.commit, c)]
  OBVIOUS
<1>3. y.term = s.term /\ y.vote = s.vote /\ y.log = Y /\ y.commit = MaxOf(s.commit, c)
  BY <1>2
<1>4. /\ ViewOk(h, y, M[n]) /\ Y \in Logs /\ Same(s.log, Y, s.commit)
      /\ MayAck(h, y, Len(L)) /\ y.commit \in Nat /\ s.commit <= y.commit
  BY <1>1, <1>3, AdoptView
<1>5. /\ z \in NodeType /\ z.term = s.term /\ z.log = Y /\ z.commit = y.commit
      /\ z.applied = s.applied /\ z.conf = s.conf /\ z.vote = s.vote /\ z.state = s.state
  <2>1. PICK k : k = MaxOf(s.commit, c)
    OBVIOUS
  <2>2. z = [s EXCEPT !.log = Y, !.commit = k] /\ k \in Nat
    BY <1>3, <1>4, <2>1 DEF Taken
  <2> QED
    BY <1>1, <1>3, <1>4, <2>1, <2>2 DEF NodeType
<1>6. ViewOk(h, z, M[n])
  BY <1>3, <1>4, <1>5 DEF ViewOk
<1>7. MayAck(h, z, Len(L))
  BY <1>3, <1>4, <1>5 DEF MayAck
<1>8. ConfOk(z.log, z.applied, z.conf)
  <2>1. s.applied \in Nat /\ s.commit \in Nat /\ s.applied <= s.commit
    BY <1>1 DEF NodeType, NodeOk
  <2>2. Same(s.log, Y, s.applied)
    BY <1>4, <2>1, SameUpTo
  <2>3. ConfOk(s.log, s.applied, s.conf)
    BY NodeConf
  <2> QED
    BY <1>5, <2>1, <2>2, <2>3, ConfOkSame
<1>9. NodeOk(h, M, D, n, z, d)
  <2>1. z.applied <= z.commit
    <3>1. s.applied \in Nat /\ s.commit \in Nat /\ s.applied <= s.commit
      BY <1>1 DEF NodeType, NodeOk
    <3> QED
      BY <1>4, <1>5, <3>1
  <2> QED
    BY <1>1, <1>5, <1>8, <2>1 DEF NodeOk
<1>10. \A m \in w : m.from = n /\ MsgOk(h, D, z, M[n], m)
  BY <1>1, <1>5 DEF MsgOk
<1>11. AsksFor(n, z, w \cup sent)
  BY <1>5 DEF AsksFor
<1>12. ActorOk(h, M, D, n, z, d, w, sent)
  BY <1>1, <1>5, <1>6, <1>9, <1>10, <1>11 DEF ActorOk
<1> QED
  BY <1>4, <1>5, <1>7, <1>12, LocalStep

\* A follower commits what the leader says it has and is committed.
LEMMA BeatStep ==
  ASSUME NEW h, NEW M, NEW D, NEW n \in Ids, NEW s, NEW d, NEW w, NEW sent,
         AgreesAt(h, M, D, n, s, d, w, sent), s.state = "follower", s.conf # Refused,
         NEW c \in Nat, s.term \in h.won, c = 0 \/ HasAcked(D[n], s.term, c),
         Committed(h, s.term, h.log[s.term], c), NEW k, k = MaxOf(s.commit, c),
         NEW z, z = CommittedAt(s, k)
  PROVE  /\ AgreesAt(h, M, D, n, z, d, w, sent)
         /\ z.conf # Refused /\ s.commit <= z.commit /\ z.log = s.log /\ z.term = s.term
<1>1. /\ s \in NodeType /\ d \in DiskType /\ w \in SUBSET Msgs
      /\ ViewOk(h, s, M[n]) /\ ViewOk(h, d, D[n])
      /\ NodeOk(h, M, D, n, s, d) /\ HistOk(h, D)
      /\ \A m \in w : m.from = n /\ MsgOk(h, D, s, M[n], m)
      /\ AsksFor(n, s, w \cup sent)
  BY AtFacts
<1>2. /\ s.term \in Nat /\ s.log \in Logs /\ s.applied \in Nat /\ s.commit \in Nat
      /\ s.applied <= s.commit
  BY <1>1 DEF NodeType, NodeOk
<1>3. k \in Nat /\ s.commit <= k /\ k \in {s.commit, c}
  BY <1>2 DEF MaxOf
<1>4. Len(s.log) \in Nat /\ LastTerm(s.log) \in Nat
  BY <1>2, LogFacts
<1>5. /\ z \in NodeType /\ z.term = s.term /\ z.log = s.log /\ z.commit = k
      /\ z.applied = s.applied /\ z.conf = s.conf /\ z.vote = s.vote /\ z.state = s.state
  BY <1>1, <1>3 DEF NodeType, CommittedAt
<1>6. c <= Len(s.log) /\ Same(s.log, h.log[s.term], c)
  <2>1. CASE c = 0
    BY <1>4, <2>1 DEF Same
  <2>2. CASE HasAcked(D[n], s.term, c)
    <3>1. PICK a \in D[n].acks : a.term = s.term /\ a.index >= c
      BY <2>2 DEF HasAcked
    <3>2. a \in M[n].acks
      BY <1>1, <3>1 DEF NodeOk
    <3>3. KeptIn(h, s.log, a.term, a.index, s.term) /\ RecordsOk(h, M[n])
      BY <1>1, <3>2 DEF ViewOk
    <3>4. a.index \in Nat
      BY <1>1, <3>2, <3>3, AckFacts
    <3>5. h.won \subseteq Nat
      BY <1>1 DEF HistOk, Histories
    <3>6. Has(h, s.log, s.term, a.index)
      BY <1>2, <3>1, <3>3, <3>4, <3>5, KeptHas
    <3>7. a.index <= Len(s.log) /\ Same(s.log, h.log[s.term], a.index) /\ c <= a.index
      BY <3>1, <3>4, <3>6 DEF Has
    <3> QED
      BY <1>4, <3>4, <3>7, SameUpTo
  <2> QED
    BY <2>1, <2>2
<1>7. Committed(h, s.term, s.log, k)
  <2>1. Committed(h, s.term, s.log, s.commit)
    BY <1>1 DEF ViewOk
  <2>2. Committed(h, s.term, s.log, c)
    <3>1. Same(h.log[s.term], s.log, c)
      BY <1>6 DEF Same
    <3> QED
      BY <1>1, <1>6, <3>1, CommittedSame
  <2> QED
    BY <1>3, <2>1, <2>2
<1>8. OneConf(s.log, k, Len(s.log))
  <2>1. OneConf(s.log, s.commit, Len(s.log))
    BY <1>1 DEF ViewOk
  <2> QED
    BY <1>2, <1>3, <1>4, <2>1, OneConfWithin
<1>9. ViewOk(h, z, M[n])
  BY <1>1, <1>5, <1>7, <1>8 DEF ViewOk
<1>10. NodeOk(h, M, D, n, z, d)
  <2>1. z.applied <= z.commit
    BY <1>2, <1>3, <1>5
  <2> QED
    BY <1>1, <1>5, <2>1 DEF NodeOk
<1>11. \A m \in w : m.from = n /\ MsgOk(h, D, z, M[n], m)
  BY <1>1, <1>5 DEF MsgOk
<1>12. AsksFor(n, z, w \cup sent)
  BY <1>5 DEF AsksFor
<1>13. ActorOk(h, M, D, n, z, d, w, sent)
  BY <1>1, <1>5, <1>9, <1>10, <1>11, <1>12 DEF ActorOk
<1> QED
  BY <1>3, <1>5, <1>13, LocalStep

-----------------------------------------------------------------------------
(* Messages a node may hold back. *)

\* A leader's log, and its heartbeats.
LEMMA LeaderMsgs ==
  ASSUME NEW h, NEW M, NEW D, NEW n \in Ids, NEW s, NEW d, NEW w, NEW sent,
         AgreesAt(h, M, D, n, s, d, w, sent), s.state = "leader", s.conf # Refused
  PROVE  /\ LogMsg(s, n) \in Msgs /\ MsgOk(h, D, s, M[n], LogMsg(s, n))
         /\ LogMsg(s, n).from = n /\ LogMsg(s, n).type = "Log"
         /\ \A m \in BcastHeartbeat(s, n) :
              m \in Msgs /\ m.from = n /\ m.type = "Beat" /\ MsgOk(h, D, s, M[n], m)
<1>1. /\ s \in NodeType /\ ViewOk(h, s, M[n]) /\ NodeOk(h, M, D, n, s, d) /\ HistOk(h, D)
  BY AtFacts
<1>2. LeaderOk(h, D, n, s)
  BY <1>1 DEF NodeOk
<1>3. s.term \in h.won /\ h.log[s.term] = s.log
  BY <1>2 DEF LeaderOk
<1>4. s.term \in Nat /\ s.log \in Logs /\ s.commit \in Nat /\ s.confirmed \in Nat
      /\ s.queue \in Seq([id : ReadIds, index : Nat])
  BY <1>1 DEF NodeType
<1>5. DOMAIN s.conf.trk \subseteq Ids /\ s.conf.trk \in [DOMAIN s.conf.trk -> Progress]
  BY NodeConf
<1>6. Len(s.log) \in Nat
  BY <1>4, LogFacts
<1>8. Committed(h, s.term, s.log, s.commit) /\ OneConf(s.log, s.commit, Len(s.log))
  BY <1>1 DEF ViewOk
<1>9. PICK x : x = LogMsg(s, n)
  OBVIOUS
<1>10. /\ x.type = "Log" /\ x.term = s.term /\ x.from = n /\ x.log = s.log /\ x.commit = s.commit
       /\ x \in Msgs
  <2>1. DOMAIN s.conf.trk \ {n} \in SUBSET Ids
    BY <1>5
  <2> QED
    BY <1>4, <1>9, <2>1 DEF LogMsg, Msgs
<1>11. MsgOk(h, D, s, M[n], x)
  <2>1. Same(s.log, s.log, Len(s.log)) /\ Len(s.log) <= Len(s.log)
    BY <1>6 DEF Same
  <2>2. MinOf(s.commit, Len(s.log)) = s.commit
    BY <1>4, <1>6, <1>8 DEF MinOf, Committed
  <2> QED
    BY <1>3, <1>8, <1>10, <2>1, <2>2 DEF MsgOk
<1>12. HeartbeatCtx(s) \in Nat
  BY <1>4 DEF HeartbeatCtx
<1>13. ASSUME NEW m \in BcastHeartbeat(s, n)
       PROVE  m \in Msgs /\ m.from = n /\ m.type = "Beat" /\ MsgOk(h, D, s, M[n], m)
  <2>1. PICK id \in DOMAIN s.conf.trk \ {n} : m = BeatMsg(s, n, id)
    BY DEF BcastHeartbeat
  <2>2. PICK k : k = MinOf(s.conf.trk[id].match, s.commit)
    OBVIOUS
  <2>3. s.conf.trk[id].match \in Nat /\ id \in Ids
    BY <1>5 DEF Progress
  <2>4. k \in Nat /\ k <= s.commit /\ k <= s.conf.trk[id].match
    BY <1>4, <2>2, <2>3 DEF MinOf
  <2>5. /\ m.type = "Beat" /\ m.term = s.term /\ m.from = n /\ m.to = {id} /\ m.commit = k
        /\ m \in Msgs
    BY <1>4, <1>12, <2>1, <2>2, <2>3, <2>4 DEF BeatMsg, Msgs
  <2>6. k = 0 \/ HasAcked(D[id], s.term, k)
    <3>1. s.conf.trk[id].match = 0 \/ HasAcked(D[id], s.term, s.conf.trk[id].match)
      BY <1>2, <2>1 DEF LeaderOk
    <3>2. CASE s.conf.trk[id].match = 0
      BY <2>4, <3>2
    <3>3. CASE HasAcked(D[id], s.term, s.conf.trk[id].match)
      <4>1. PICK a \in D[id].acks : a.term = s.term /\ a.index >= s.conf.trk[id].match
        BY <3>3 DEF HasAcked
      <4>2. RecordsOk(h, D[id])
        BY <2>3, AtFacts
      <4>3. a.index \in Nat
        BY <1>1, <4>2, AckFacts
      <4>4. a.index >= k
        BY <2>3, <2>4, <4>1, <4>3
      <4> QED
        BY <4>1, <4>4 DEF HasAcked
    <3> QED
      BY <3>1, <3>2, <3>3
  <2>7. Committed(h, s.term, h.log[s.term], k)
    <3>1. s.term <= s.term
      BY <1>4
    <3> QED
      BY <1>1, <1>3, <1>4, <1>6, <1>8, <2>4, <3>1, CommittedUpTo
  <2> QED
    BY <1>3, <2>5, <2>6, <2>7 DEF MsgOk
<1> QED
  BY <1>9, <1>10, <1>11, <1>13

\* What is sent is what was held, to those who are not cut off.
LEMMA RoutedFacts ==
  ASSUME NEW m \in Msgs, NEW x, x = Routed(m)
  PROVE  /\ x \in Msgs /\ x.from = m.from /\ x.type = m.type /\ x.term = m.term
         /\ x.type = "Vote" => x.last = m.last
         /\ \A h, D, s, v : MsgOk(h, D, s, v, m) => MsgOk(h, D, s, v, x)
<1>1. PICK T : T = {id \in m.to : <<m.from, id>> \notin Blocked}
  OBVIOUS
<1>2. x = [m EXCEPT !.to = T] /\ T \subseteq m.to
  BY <1>1 DEF Routed
<1>3. m.to \in SUBSET Ids
  BY MsgFacts
<1>4. T \in SUBSET Ids
  BY <1>2, <1>3
<1>5. x \in Msgs
  BY <1>2, <1>4 DEF Msgs
<1>6. /\ x.from = m.from /\ x.type = m.type /\ x.term = m.term /\ x.to = T
      /\ x.type \in {"Vote", "PreVote"} => x.last = m.last
      /\ x.type = "VoteResp" => x.reject = m.reject
      /\ x.type = "AppResp" => x.index = m.index
      /\ x.type = "Log" => x.log = m.log /\ x.commit = m.commit
      /\ x.type = "Beat" => x.commit = m.commit
  BY <1>2, <1>4 DEF Msgs
<1>7. ASSUME NEW h, NEW D, NEW s, NEW v, MsgOk(h, D, s, v, m) PROVE MsgOk(h, D, s, v, x)
  <2>1. x.type = "Vote" => x.term <= s.term /\ x.last.term < x.term
    BY <1>6, <1>7 DEF MsgOk
  <2>2. x.type = "VoteResp" /\ ~x.reject => \A id \in x.to : HasVoted(v, x.term, id)
    BY <1>2, <1>6, <1>7 DEF MsgOk
  <2>3. x.type = "AppResp" => x.index = 0 \/ HasAcked(v, x.term, x.index)
    BY <1>6, <1>7 DEF MsgOk
  <2>4. x.type = "Log" =>
           /\ x.term \in h.won
           /\ Len(x.log) <= Len(h.log[x.term]) /\ Same(x.log, h.log[x.term], Len(x.log))
           /\ Committed(h, x.term, x.log, MinOf(x.commit, Len(x.log)))
           /\ OneConf(x.log, MinOf(x.commit, Len(x.log)), Len(x.log))
    BY <1>6, <1>7 DEF MsgOk
  <2>5. x.type = "Beat" =>
           /\ x.term \in h.won
           /\ \A id \in x.to : x.commit = 0 \/ HasAcked(D[id], x.term, x.commit)
           /\ Committed(h, x.term, h.log[x.term], x.commit)
    BY <1>2, <1>6, <1>7 DEF MsgOk
  <2> QED
    BY <2>1, <2>2, <2>3, <2>4, <2>5 DEF MsgOk
<1> QED
  BY <1>5, <1>6, <1>7

\* What a write stores, and what the node then remembers on disk.
Stored(s) ==
  [term |-> s.term, vote |-> s.vote, log |-> s.log, commit |-> s.commit,
   applied |-> s.applied, cs |-> ConfState(s.conf)]

Synced(D, M, n) == [D EXCEPT ![n] = M[n]]

\* What has been sent was sent before or held back.
SentOut(sent2, sent, w) == \A m \in sent2 : m \in sent \/ \E x \in w : m = Routed(x)

\* A write, after which what was held back is sent.
LEMMA WriteStep ==
  ASSUME NEW h, NEW M, NEW D, NEW n \in Ids, NEW s, NEW d, NEW w, NEW sent,
         AgreesAt(h, M, D, n, s, d, w, sent), s.conf # Refused,
         NEW sent2, SentOut(sent2, sent, w)
  PROVE  \E E : AgreesAt(h, M, E, n, s, Stored(s), {}, sent2)
<1> USE DEF SentOut
<1>1. /\ s \in NodeType /\ d \in DiskType /\ w \in SUBSET Msgs
      /\ ViewOk(h, s, M[n]) /\ ViewOk(h, d, D[n])
      /\ NodeOk(h, M, D, n, s, d) /\ HistOk(h, D) /\ M \in [Ids -> Views] /\ D \in [Ids -> Views]
      /\ \A m \in w : m.from = n /\ MsgOk(h, D, s, M[n], m)
      /\ AsksFor(n, s, w \cup sent)
  BY AtFacts
<1>2. PICK E : E = Synced(D, M, n)
  OBVIOUS
<1>3. E[n] = M[n] /\ (\A l \in Ids \ {n} : E[l] = D[l]) /\ E \in [Ids -> Views]
  BY <1>1, <1>2 DEF Synced
<1>4. Grows(D, E)
  BY <1>1, <1>3 DEF Grows, Knows, NodeOk
<1>5. PICK y : y = Stored(s)
  OBVIOUS
<1>6. ConfOk(s.log, s.applied, s.conf) /\ s.conf \in Confs
  BY NodeConf
<1>7. /\ y \in DiskType /\ y.term = s.term /\ y.vote = s.vote /\ y.log = s.log /\ y.commit = s.commit
      /\ y.applied = s.applied /\ y.cs = ConfState(s.conf)
  <2>1. ConfState(s.conf) \in ConfStates
    BY <1>6, ConfFields DEF ConfState, ConfStates
  <2>2. /\ s.term \in Nat \ {0} /\ s.vote \in Ids \cup {None} /\ s.log \in Logs /\ s.commit \in Nat
        /\ s.applied \in Nat
    BY <1>1 DEF NodeType
  <2> QED
    BY <1>5, <2>1, <2>2 DEF Stored, DiskType
<1>8. Ext(h, h)
  BY <1>1, MovesNot DEF HistOk, Moves
<1>9. HistOk(h, E)
  <2>1. \A t \in h.won : /\ Src(h, h.log[t]) /\ Len(h.log[t]) \in Nat
                         /\ \A j \in Len(h.log[t]) + 1 .. Len(h.log[t]) : h.log[t][j].term = t
    BY <1>1, ElectionFacts
  <2>2. (\A t \in h.won : ElectionOk(h, E, t)) /\ (\A c \in h.certs : CertOk(h, E, c))
    BY <1>1, <1>4, <1>8, <2>1, HistExt
  <2> QED
    BY <1>1, <2>2 DEF HistOk
<1>10. ViewOk(h, y, E[n])
  BY <1>1, <1>3, <1>7 DEF ViewOk
<1>11. d.term \in Nat /\ s.term \in Nat /\ d.term <= s.term
  BY <1>1 DEF NodeType, DiskType, NodeOk
<1>12. NodeOk(h, M, E, n, s, y)
  <2>1. ASSUME s.state = "candidate" PROVE CandidateOk(h, M, E, n, s, y)
    <3>1. CandidateOk(h, M, D, n, s, d)
      BY <1>1, <2>1 DEF NodeOk
    <3>2. \A v \in s.yes : HasVoted(E[v], s.term, n)
      <4>1. s.yes \in SUBSET Ids
        BY <1>1 DEF NodeType
      <4> QED
        BY <1>4, <3>1, <4>1 DEF CandidateOk, Grows, Knows, HasVoted
    <3> QED
      BY <1>7, <3>1, <3>2 DEF CandidateOk
  <2>2. ASSUME s.state = "leader" PROVE LeaderOk(h, E, n, s)
    <3>1. LeaderOk(h, D, n, s)
      BY <1>1, <2>2 DEF NodeOk
    <3>2. DOMAIN s.conf.trk \subseteq Ids
      BY NodeConf
    <3>3. \A id \in DOMAIN s.conf.trk :
            s.conf.trk[id].match = 0 \/ HasAcked(E[id], s.term, s.conf.trk[id].match)
      BY <1>4, <3>1, <3>2 DEF LeaderOk, Grows, Knows, HasAcked
    <3> QED
      BY <3>1, <3>3 DEF LeaderOk
  <2>3. \A t \in h.won : h.el[t].who = n => t <= y.term
    <3>1. h.won \subseteq Nat
      BY <1>1 DEF HistOk, Histories
    <3>2. \A t \in h.won : h.el[t].who = n => t <= d.term
      BY <1>1 DEF NodeOk
    <3> QED
      BY <1>7, <1>11, <3>1, <3>2
  <2>4. \A v \in Ids \ {n} : \A r \in M[v].votes : r.for = n => r.term <= y.term
    <3>1. \A v \in Ids \ {n} : \A r \in M[v].votes : r.term \in Nat
      BY <1>1 DEF Views, Votes
    <3>2. \A v \in Ids \ {n} : \A r \in M[v].votes : r.for = n => r.term <= d.term
      BY <1>1 DEF NodeOk
    <3> QED
      BY <1>7, <1>11, <3>1, <3>2
  <2>5. \E c : ConfOk(y.log, y.applied, c) /\ y.cs = ConfState(c)
    BY <1>6, <1>7
  <2>6. y.term <= s.term /\ y.applied <= y.commit
    BY <1>1, <1>7, <1>11 DEF NodeOk
  <2> QED
    BY <1>1, <1>3, <1>6, <2>1, <2>2, <2>3, <2>4, <2>5, <2>6 DEF NodeOk
<1>13. ASSUME NEW x \in w
       PROVE  /\ Routed(x) \in Msgs /\ Routed(x).from = n /\ MsgOk(h, E, y, E[n], Routed(x))
              /\ Routed(x).type = "Vote" => x.type = "Vote" /\ x.from = n /\ x.term = Routed(x).term
                                            /\ Routed(x).last = x.last
  <2>1. x \in Msgs /\ x.from = n /\ MsgOk(h, D, s, M[n], x)
    BY <1>1
  <2>2. Knows(M[n], E[n]) /\ y.term \in Nat /\ s.term <= y.term
    BY <1>3, <1>7, <1>11 DEF Knows
  <2>3. MsgOk(h, E, y, E[n], x)
    BY <1>1, <1>4, <1>8, <1>11, <2>1, <2>2, MsgExt
  <2>4. PICK r : r = Routed(x)
    OBVIOUS
  <2>5. /\ r \in Msgs /\ r.from = x.from /\ r.type = x.type /\ r.term = x.term
        /\ r.type = "Vote" => r.last = x.last
    BY <2>1, <2>4, RoutedFacts
  <2>6. MsgOk(h, E, y, E[n], r)
    BY <2>1, <2>3, <2>4, RoutedFacts
  <2> QED
    BY <2>1, <2>4, <2>5, <2>6
<1>14. AsksFor(n, s, {} \cup sent2)
  BY <1>1, <1>13 DEF AsksFor
<1>15. ActorOk(h, M, E, n, s, y, {}, sent2)
  BY <1>1, <1>7, <1>10, <1>12, <1>14 DEF ActorOk
<1>16. \A m \in sent2 : m \in sent \/ (m.from = n /\ m \in Msgs /\ MsgOk(h, E, y, E[n], m))
  BY <1>13
<1>17. Moves(h, M, D, n, h, M, E)
  BY <1>3, <1>4, <1>8 DEF Moves
<1>18. GhostsOk(h, M, E) /\ d.term <= y.term
  BY <1>1, <1>3, <1>7, <1>9, <1>11 DEF GhostsOk
<1> QED
  BY <1>5, <1>15, <1>16, <1>17, <1>18, StepKeeps

\* The disk with more applied.
AppliedOn(d, a, c) == [d EXCEPT !.applied = a, !.cs = ConfState(c)]

\* The application stores what it has applied.
LEMMA DiskStep ==
  ASSUME NEW h, NEW M, NEW D, NEW n \in Ids, NEW s, NEW d, NEW w, NEW sent,
         AgreesAt(h, M, D, n, s, d, w, sent),
         NEW a \in Nat, a <= d.commit, NEW c \in Confs, c = Refused \/ ConfOk(d.log, a, c)
  PROVE  AgreesAt(h, M, D, n, s, AppliedOn(d, a, c), w, sent)
<1>1. /\ s \in NodeType /\ d \in DiskType /\ w \in SUBSET Msgs
      /\ ViewOk(h, s, M[n]) /\ ViewOk(h, d, D[n])
      /\ NodeOk(h, M, D, n, s, d) /\ HistOk(h, D) /\ GhostsOk(h, M, D)
      /\ \A m \in w : m.from = n /\ MsgOk(h, D, s, M[n], m)
      /\ AsksFor(n, s, w \cup sent)
  BY AtFacts
<1>2. PICK y : y = AppliedOn(d, a, c)
  OBVIOUS
<1>3. /\ y \in DiskType /\ y.term = d.term /\ y.vote = d.vote /\ y.log = d.log /\ y.commit = d.commit
      /\ y.applied = a /\ y.cs = ConfState(c)
  <2>1. ConfState(c) \in ConfStates
    BY ConfFields DEF ConfState, ConfStates
  <2> QED
    BY <1>1, <1>2, <2>1 DEF AppliedOn, DiskType
<1>4. ViewOk(h, y, D[n])
  BY <1>1, <1>3 DEF ViewOk
<1>5. NodeOk(h, M, D, n, s, y)
  <2>1. s.state = "candidate" => CandidateOk(h, M, D, n, s, y)
    BY <1>1, <1>3 DEF NodeOk, CandidateOk
  <2>2. y.cs = ConfState(Refused) \/ \E x : ConfOk(y.log, y.applied, x) /\ y.cs = ConfState(x)
    BY <1>3
  <2> QED
    BY <1>1, <1>3, <2>1, <2>2 DEF NodeOk
<1>6. ActorOk(h, M, D, n, s, y, w, sent)
  BY <1>1, <1>3, <1>4, <1>5 DEF ActorOk
<1>7. Moves(h, M, D, n, h, M, D) /\ d.term <= y.term
  BY <1>1, <1>3, MovesNot DEF HistOk, DiskType
<1> QED
  BY <1>1, <1>2, <1>6, <1>7, StepKeeps

\* A node restarted from its disk.
LEMMA StartedFields ==
  ASSUME NEW d \in DiskType, Restore(d.cs) \in Confs, NEW z, z = Started(d)
  PROVE  /\ z \in NodeType /\ z.term = d.term /\ z.vote = d.vote /\ z.log = d.log
         /\ z.commit = d.commit /\ z.applied = d.applied /\ z.conf = Restore(d.cs)
         /\ z.state = "follower"
<1>1. PICK c : c = Restore(d.cs)
  OBVIOUS
<1>2. z = [term |-> d.term, vote |-> d.vote, state |-> "follower", lead |-> None,
     log |-> d.log, commit |-> d.commit, applied |-> d.applied,
     conf |-> c, yes |-> {}, no |-> {}, pending |-> 0,
     transferee |-> None, waiting |-> << >>, queue |-> << >>, confirmed |-> 0,
     acks |-> [id \in Ids |-> 0]]
  BY <1>1 DEF Started
<1>3. /\ d.term \in Nat \ {0} /\ d.vote \in Ids \cup {None} /\ d.log \in Logs /\ d.commit \in Nat
      /\ d.applied \in Nat /\ c \in Confs
  BY <1>1 DEF DiskType
<1>4. << >> \in Seq(ReadIds) /\ << >> \in Seq([id : ReadIds, index : Nat]) /\ [id \in Ids |-> 0] \in [Ids -> Nat]
  OBVIOUS
<1>5. z = Fields(z)
  BY <1>2 DEF Fields
<1>6. z \in NodeType
  BY <1>2, <1>3, <1>4, <1>5, NodeTyping
<1> QED
  BY <1>1, <1>2, <1>6

\* What is forgotten at a crash: all that is not on disk.
Forgot(M, D, n) == [M EXCEPT ![n] = D[n]]

\* Crash and restart: the node is back at its disk, and nothing is held.
LEMMA RestartStep ==
  ASSUME NEW h, NEW M, NEW D, NEW n \in Ids, NEW s, NEW d, NEW w, NEW sent,
         AgreesAt(h, M, D, n, s, d, w, sent), d.cs # ConfState(Refused),
         NEW z, z = Started(d)
  PROVE  z.conf # Refused /\ \E N : AgreesAt(h, N, D, n, z, d, {}, sent)
<1>1. /\ s \in NodeType /\ d \in DiskType
      /\ ViewOk(h, d, D[n])
      /\ NodeOk(h, M, D, n, s, d) /\ HistOk(h, D) /\ GhostsOk(h, M, D)
      /\ M \in [Ids -> Views] /\ D \in [Ids -> Views]
      /\ \A m \in sent : m \in Msgs
  BY AtFacts
<1>2. PICK c : ConfOk(d.log, d.applied, c) /\ d.cs = ConfState(c)
  BY <1>1 DEF NodeOk
<1>3. PICK r : r = Restore(d.cs)
  OBVIOUS
<1>4. Tracked(r) /\ Alike(c, r) /\ r.auto = c.auto
  <2>1. Tracked(c) /\ c.in # {} /\ (c.out = {} => ~c.auto)
    BY <1>2 DEF ConfOk, Good
  <2>2. Tracked(r) /\ Alike(r, c) /\ r.auto = c.auto
    BY <1>2, <1>3, <2>1, RestoreTracked
  <2> QED
    BY <2>2 DEF Alike
<1>5. /\ z \in NodeType /\ z.term = d.term /\ z.vote = d.vote /\ z.log = d.log
      /\ z.commit = d.commit /\ z.applied = d.applied /\ z.conf = r
      /\ z.state = "follower"
  BY <1>1, <1>3, <1>4, StartedFields DEF Tracked
<1>6. ConfOk(z.log, z.applied, z.conf) /\ z.conf # Refused
  <2>1. ConfOk(z.log, z.applied, z.conf)
    BY <1>2, <1>4, <1>5, ConfOkAlike
  <2> QED
    BY <2>1 DEF ConfOk, Good, Refused, Empty
<1>7. PICK N : N = Forgot(M, D, n)
  OBVIOUS
<1>8. N \in [Ids -> Views] /\ N[n] = D[n] /\ \A l \in Ids \ {n} : N[l] = M[l]
  BY <1>1, <1>7 DEF Forgot
<1>9. ViewOk(h, z, N[n])
  BY <1>1, <1>5, <1>8 DEF ViewOk
<1>10. NodeOk(h, N, D, n, z, d)
  <2>1. z.state \notin {"pre", "candidate", "leader"} /\ d.term <= z.term
    BY <1>1, <1>5 DEF DiskType
  <2>2. D[n].votes \subseteq N[n].votes /\ D[n].acks \subseteq N[n].acks
    BY <1>8
  <2>3. z.applied <= z.commit /\ d.applied <= d.commit
    BY <1>1, <1>5 DEF NodeOk
  <2>4. d.cs = ConfState(Refused) \/ \E x : ConfOk(d.log, d.applied, x) /\ d.cs = ConfState(x)
    BY <1>2
  <2>5. \A t \in h.won : h.el[t].who = n => t <= d.term
    BY <1>1 DEF NodeOk
  <2>6. \A v \in Ids \ {n} : \A q \in N[v].votes : q.for = n => q.term <= d.term
    BY <1>1, <1>8 DEF NodeOk
  <2> QED
    BY <1>6, <2>1, <2>2, <2>3, <2>4, <2>5, <2>6 DEF NodeOk
<1>11. AsksFor(n, z, {} \cup sent)
  BY <1>5 DEF AsksFor
<1>12. ActorOk(h, N, D, n, z, d, {}, sent)
  BY <1>1, <1>5, <1>9, <1>10, <1>11 DEF ActorOk
<1>13. Moves(h, M, D, n, h, N, D)
  <2>1. Ext(h, h)
    BY <1>1, MovesNot DEF HistOk, Moves
  <2>2. Grows(D, D)
    BY DEF Grows, Knows
  <2>3. \A q \in N[n].votes : q \in M[n].votes
    BY <1>1, <1>8 DEF NodeOk
  <2> QED
    BY <1>8, <2>1, <2>2, <2>3 DEF Moves
<1>14. GhostsOk(h, N, D)
  BY <1>1, <1>8 DEF GhostsOk
<1>15. d.term <= d.term
  BY <1>1 DEF DiskType
<1>16. AgreesAt(h, N, D, n, z, d, {}, sent)
  BY <1>12, <1>13, <1>14, <1>15, StepKeeps
<1> QED
  BY <1>6, <1>16

\* Messages that are dropped.
LEMMA SentLess ==
  ASSUME NEW h, NEW M, NEW D, NEW n \in Ids, NEW s, NEW d, NEW w, NEW sent,
         AgreesAt(h, M, D, n, s, d, w, sent), NEW sent2, sent2 \subseteq sent
  PROVE  AgreesAt(h, M, D, n, s, d, w, sent2)
<1>1. /\ GhostsOk(h, M, D) /\ ActorOk(h, M, D, n, s, d, w, sent) /\ HistOk(h, D) /\ d \in DiskType
  BY AtFacts
<1>2. ActorOk(h, M, D, n, s, d, w, sent2)
  <2>1. AsksFor(n, s, w \cup sent2)
    BY <1>1 DEF ActorOk, AsksFor
  <2> QED
    BY <1>1, <2>1 DEF ActorOk
<1>3. Moves(h, M, D, n, h, M, D) /\ d.term <= d.term
  BY <1>1, MovesNot DEF HistOk, DiskType
<1> QED
  BY <1>1, <1>2, <1>3, StepKeeps

\* The configuration after the next entry.
After(X, a, c) == IF IsConf(X[a + 1]) THEN Changed(c, X[a + 1].cc) ELSE c

\* It is the next one along the log, when the change is not refused.
LEMMA WalkOn ==
  ASSUME NEW X \in Logs, NEW a \in Nat, a + 1 <= Len(X), NEW c, ConfOk(X, a, c),
         NEW e, e = After(X, a, c), e # Refused
  PROVE  ConfOk(X, a + 1, e) /\ Keeps(c, e)
<1>1. PICK f : IsWalk(f, X, a) /\ Alike(f[a], c) /\ f[a].auto = c.auto
  BY DEF ConfOk
<1>2. Good(c) /\ Good(f[a])
  BY <1>1 DEF ConfOk, IsWalk
<1>3. a + 1 \in 1 .. Len(X)
  OBVIOUS
<1>4. PICK F : F = After(X, a, f[a])
  OBVIOUS
<1>5. Good(F) /\ Alike(F, e) /\ F.auto = e.auto /\ Good(e) /\ Keeps(c, e)
  <2>1. CASE ~IsConf(X[a + 1])
    BY <1>1, <1>2, <1>4, <2>1 DEF After, Keeps
  <2>2. CASE IsConf(X[a + 1])
    <3>1. X[a + 1].cc.changes \in Seq(Singles)
      BY <1>3, <2>2, ChangeTyping
    <3>2. PICK cc : cc = X[a + 1].cc
      OBVIOUS
    <3>3. e = Changed(c, cc) /\ F = Changed(f[a], cc) /\ cc.changes \in Seq(Singles)
      BY <1>4, <2>2, <3>1, <3>2 DEF After
    <3>4. Tracked(c) /\ c.in # {} /\ Tracked(f[a]) /\ f[a].in # {}
      BY <1>2 DEF Good
    <3>5. F # Refused /\ Alike(F, e) /\ F.auto = e.auto
      BY <1>1, <3>3, <3>4, ChangedAlike
    <3>6. Good(F)
      BY <3>3, <3>4, <3>5, ChangedResult DEF Good
    <3>7. Good(e) /\ Keeps(c, e)
      BY <3>3, <3>4, ChangedResult DEF Good
    <3> QED
      BY <3>5, <3>6, <3>7
  <2> QED
    BY <2>1, <2>2
<1>6. DEFINE g == [k \in 0 .. a + 1 |-> IF k = a + 1 THEN F ELSE f[k]]
<1>7. /\ \A k \in 0 .. a : g[k] = f[k]
      /\ g[a + 1] = F
  OBVIOUS
<1> HIDE DEF g
<1>8. IsWalk(g, X, a + 1)
  <2>1. g[0] = Bootstrapped
    BY <1>1, <1>7 DEF IsWalk
  <2>2. ASSUME NEW k \in 1 .. a + 1
        PROVE  g[k] = IF IsConf(X[k]) THEN Changed(g[k - 1], X[k].cc) ELSE g[k - 1]
    <3>1. CASE k = a + 1
      <4>1. k - 1 = a /\ g[a] = f[a]
        BY <1>7, <3>1
      <4> QED
        BY <1>4, <1>7, <3>1, <4>1 DEF After
    <3>2. CASE k # a + 1
      <4>1. k \in 1 .. a /\ k \in 0 .. a /\ k - 1 \in 0 .. a
        BY <3>2
      <4>2. g[k] = f[k] /\ g[k - 1] = f[k - 1]
        BY <1>7, <4>1
      <4> QED
        BY <1>1, <4>1, <4>2 DEF IsWalk
    <3> QED
      BY <3>1, <3>2
  <2>3. ASSUME NEW k \in 0 .. a + 1 PROVE Good(g[k])
    <3>1. CASE k = a + 1
      BY <1>5, <1>7, <3>1
    <3>2. CASE k # a + 1
      <4>1. k \in 0 .. a
        BY <3>2
      <4> QED
        BY <1>1, <1>7, <4>1 DEF IsWalk
    <3> QED
      BY <3>1, <3>2
  <2> QED
    BY <2>1, <2>2, <2>3 DEF IsWalk
<1> QED
  BY <1>5, <1>7, <1>8 DEF ConfOk

\* The refused configuration.
LEMMA RefusedConf ==
  /\ Refused \in Confs /\ DOMAIN Refused.trk = {} /\ Refused.in = {} /\ Refused.out = {}
  /\ Refused.auto = FALSE
<1>1. << >> \in [{} -> Progress] /\ DOMAIN << >> = {} /\ {} \in SUBSET Ids
  OBVIOUS
<1>2. << >> \in Tracks
  BY <1>1 DEF Tracks
<1> QED
  BY <1>1, <1>2 DEF Refused, Empty, Confs

\* The state with an entry more applied; nothing is applied after a refusal.
AppliedNext(s, c) == [s EXCEPT !.applied = s.applied + 1, !.conf = c]

NextConf(s) == IF s.conf = Refused THEN Refused ELSE After(s.log, s.applied, s.conf)

\* A committed entry is applied.
LEMMA ApplyStep ==
  ASSUME NEW h, NEW M, NEW D, NEW n \in Ids, NEW s, NEW d, NEW w, NEW sent,
         AgreesAt(h, M, D, n, s, d, w, sent), s.applied < s.commit,
         NEW c, c = NextConf(s), NEW z, z = AppliedNext(s, c)
  PROVE  AgreesAt(h, M, D, n, z, d, w, sent) /\ z \in NodeType
<1>1. /\ s \in NodeType /\ d \in DiskType /\ w \in SUBSET Msgs
      /\ ViewOk(h, s, M[n]) /\ ViewOk(h, d, D[n])
      /\ NodeOk(h, M, D, n, s, d)
      /\ \A m \in w : m.from = n /\ MsgOk(h, D, s, M[n], m)
      /\ HistOk(h, D)
      /\ AsksFor(n, s, w \cup sent)
  BY AtFacts
<1>2. /\ s.log \in Logs /\ Len(s.log) \in Nat /\ s.applied \in Nat /\ s.commit \in Nat
      /\ s.commit <= Len(s.log) /\ s.conf \in Confs
  BY <1>1, LogFacts DEF NodeType, ViewOk, Committed
<1>3. /\ c \in Confs /\ Keeps(s.conf, c)
      /\ c = Refused \/ ConfOk(s.log, s.applied + 1, c)
  <2>1. CASE c = Refused
    BY <2>1, RefusedConf DEF Keeps
  <2>2. CASE c # Refused
    <3>1. s.conf # Refused /\ c = After(s.log, s.applied, s.conf)
      BY <2>2 DEF NextConf
    <3>2. ConfOk(s.log, s.applied, s.conf)
      BY <3>1, NodeConf
    <3>3. s.applied + 1 <= Len(s.log)
      BY <1>2
    <3>4. ConfOk(s.log, s.applied + 1, c) /\ Keeps(s.conf, c)
      BY <1>2, <2>2, <3>1, <3>2, <3>3, WalkOn
    <3> QED
      BY <3>4 DEF ConfOk, Good, Tracked
  <2> QED
    BY <2>1, <2>2
<1>4. /\ z \in NodeType /\ z.term = s.term /\ z.vote = s.vote /\ z.log = s.log /\ z.state = s.state
      /\ z.commit = s.commit /\ z.yes = s.yes /\ z.pending = s.pending
      /\ z.applied = s.applied + 1 /\ z.conf = c
  <2>1. PICK a : a = s.applied + 1
    OBVIOUS
  <2>2. z = [s EXCEPT !.applied = a, !.conf = c] /\ a \in Nat /\ c \in Confs
    BY <1>2, <1>3, <2>1 DEF AppliedNext
  <2> HIDE DEF Confs, Logs
  <2>3. z \in NodeType /\ z.applied = a /\ z.conf = c
    BY ONLY <1>1, <2>2 DEF NodeType
  <2>4. /\ z.term = s.term /\ z.vote = s.vote /\ z.log = s.log /\ z.state = s.state
        /\ z.commit = s.commit /\ z.yes = s.yes /\ z.pending = s.pending
    BY ONLY <1>1, <2>2 DEF NodeType
  <2> QED
    BY <2>1, <2>3, <2>4
<1>5. ViewOk(h, z, M[n])
  BY <1>1, <1>4 DEF ViewOk
<1>6. NodeOk(h, M, D, n, z, d)
  <2>1. z.applied <= z.commit
    BY <1>2, <1>4
  <2>2. z.conf = Refused \/ ConfOk(z.log, z.applied, z.conf)
    BY <1>3, <1>4
  <2>3. z.state \in {"pre", "candidate"} => ~HasUnappliedConfChanges(z)
    <3>1. \A i \in z.applied + 1 .. z.commit : i \in s.applied + 1 .. s.commit
      BY <1>2, <1>4
    <3> QED
      BY <1>1, <1>4, <3>1 DEF NodeOk, HasUnappliedConfChanges
  <2>4. z.state = "candidate" => CandidateOk(h, M, D, n, z, d)
    BY <1>1, <1>4 DEF NodeOk, CandidateOk
  <2>5. z.state = "leader" => LeaderOk(h, D, n, z)
    <3> HAVE z.state = "leader"
    <3>1. LeaderOk(h, D, n, s)
      BY <1>1, <1>4 DEF NodeOk
    <3>2. OneConf(s.log, s.applied + 1, Len(s.log))
      <4>1. OneConf(s.log, s.applied, Len(s.log))
        BY <3>1 DEF LeaderOk
      <4> QED
        BY <1>2, <4>1, OneConfWithin
    <3>3. \A id \in DOMAIN c.trk : c.trk[id].match = 0 \/ HasAcked(D[id], s.term, c.trk[id].match)
      BY <1>3, <3>1 DEF LeaderOk, Keeps
    <3> QED
      BY <1>4, <3>1, <3>2, <3>3 DEF LeaderOk
  <2> QED
    BY <1>1, <1>4, <2>1, <2>2, <2>3, <2>4, <2>5 DEF NodeOk
<1>7. \A m \in w : m.from = n /\ MsgOk(h, D, z, M[n], m)
  BY <1>1, <1>4 DEF MsgOk
<1>8. AsksFor(n, z, w \cup sent)
  BY <1>1, <1>4 DEF AsksFor
<1>9. ActorOk(h, M, D, n, z, d, w, sent)
  BY <1>1, <1>4, <1>5, <1>6, <1>7, <1>8 DEF ActorOk
<1> QED
  BY <1>4, <1>9, LocalStep
-----------------------------------------------------------------------------
(* The handlers. *)

\* Nothing that was committed is lost or changed.
Retains(s, z) == s.commit <= z.commit /\ Same(s.log, z.log, s.commit)

\* The cluster agrees with some history when node n has got to s, d and w.
Reaches(n, s, d, w, sent) == \E h, M, D : AgreesAt(h, M, D, n, s, d, w, sent)

\* What a handler leaves is sound when it started in s.
Sound(n, s, d, w, sent, r) ==
  /\ Reaches(n, r.s, d, (w \cup r.after) \cup r.out, sent)
  /\ Retains(s, r.s) /\ r.s.conf # Refused

\* A log that stays, and a commit index that does not go back.
LEMMA RetainsSame ==
  ASSUME NEW s, NEW z, z.log = s.log, s.commit <= z.commit
  PROVE  Retains(s, z)
BY DEF Retains, Same

\* What a handler leaves, from its parts.
LEMMA SoundResult ==
  ASSUME NEW h, NEW M, NEW D, NEW n \in Ids, NEW s, NEW d, NEW w, NEW sent, NEW z,
         NEW out, NEW after, NEW ms, ms = after \cup out,
         AgreesAt(h, M, D, n, z, d, w \cup ms, sent), z.conf # Refused,
         Retains(s, z), NEW r, r = Result(z, out, after)
  PROVE  Sound(n, s, d, w, sent, r)
<1>1. r.s = z /\ r.out = out /\ r.after = after
  BY DEF Result
<1>2. w \cup ms = (w \cup r.after) \cup r.out
  BY <1>1
<1> QED
  BY <1>1, <1>2 DEF Sound, Reaches

\* Nothing is sent.
LEMMA SoundQuiet ==
  ASSUME NEW h, NEW M, NEW D, NEW n \in Ids, NEW s, NEW d, NEW w, NEW sent, NEW z,
         AgreesAt(h, M, D, n, z, d, w, sent), z.conf # Refused,
         Retains(s, z), NEW r, r = Quiet(z)
  PROVE  Sound(n, s, d, w, sent, r)
<1>1. w \cup {} = w /\ {} = {} \cup {}
  OBVIOUS
<1>2. AgreesAt(h, M, D, n, z, d, w \cup {}, sent) /\ r = Result(z, {}, {})
  BY <1>1 DEF Quiet
<1> QED
  BY ONLY <1>1, <1>2, n \in Ids, z.conf # Refused, Retains(s, z), SoundResult

\* Messages that promise nothing are sent after the step.
LEMMA SoundIdle ==
  ASSUME NEW h, NEW M, NEW D, NEW n \in Ids, NEW s, NEW d, NEW w, NEW sent, NEW z,
         NEW out, NEW after,
         AgreesAt(h, M, D, n, z, d, w, sent), z.conf # Refused,
         \A m \in after \cup out : m \in Msgs /\ m.from = n /\ Idle(m),
         Retains(s, z), NEW r, r = Result(z, out, after)
  PROVE  Sound(n, s, d, w, sent, r)
<1>1. PICK ms : ms = after \cup out
  OBVIOUS
<1>2. AgreesAt(h, M, D, n, z, d, w \cup ms, sent)
  BY <1>1, HoldIdle
<1> QED
  BY <1>1, <1>2, SoundResult

\* A node's numbers.
LEMMA NodeNums ==
  ASSUME NEW h, NEW M, NEW D, NEW n \in Ids, NEW s, NEW d, NEW w, NEW sent,
         AgreesAt(h, M, D, n, s, d, w, sent)
  PROVE  /\ s \in NodeType /\ s.term \in Nat /\ s.term > 0 /\ s.commit \in Nat /\ s.applied \in Nat
         /\ s.log \in Logs /\ Len(s.log) \in Nat
         /\ s.commit <= Len(s.log) /\ s.applied <= s.commit /\ s.vote \in Ids \cup {None}
         /\ Retains(s, s)
<1>1. s \in NodeType /\ ViewOk(h, s, M[n]) /\ NodeOk(h, M, D, n, s, d)
  BY AtFacts
<1>2. /\ s.term \in Nat /\ s.term > 0 /\ s.commit \in Nat /\ s.applied \in Nat /\ s.log \in Logs
      /\ s.vote \in Ids \cup {None}
  BY <1>1 DEF NodeType
<1>3. Len(s.log) \in Nat
  BY <1>2, LogFacts
<1>4. s.commit <= Len(s.log) /\ s.applied <= s.commit
  BY <1>1 DEF ViewOk, Committed, NodeOk
<1>5. Retains(s, s)
  BY <1>2, RetainsSame
<1> QED
  BY <1>1, <1>2, <1>3, <1>4, <1>5

\* Responses to requests for votes.
Rejection(type, t, n, id) == VoteResp(type, t, n, id, TRUE)
Grant(type, t, n, id)     == VoteResp(type, t, n, id, FALSE)

\* A rejection.
LEMMA RejectTyping ==
  ASSUME NEW t \in Nat, NEW n \in Ids, NEW id \in Ids, NEW type, type \in {"VoteResp", "PreVoteResp"},
         NEW m, m = Rejection(type, t, n, id)
  PROVE  m \in Msgs /\ m.from = n /\ Idle(m)
<1>1. {id} \in SUBSET Ids
  OBVIOUS
<1>2. m \in Msgs
  BY <1>1 DEF Rejection, VoteResp, Msgs
<1>3. m.from = n /\ m.type = type
  BY DEF Rejection, VoteResp
<1>4. m.reject
  BY DEF Rejection, VoteResp
<1> QED
  BY <1>2, <1>3, <1>4 DEF Idle

\* A vote granted.
LEMMA GrantTyping ==
  ASSUME NEW t \in Nat, NEW n \in Ids, NEW id \in Ids, NEW type, type \in {"VoteResp", "PreVoteResp"},
         NEW m, m = Grant(type, t, n, id)
  PROVE  m \in Msgs /\ m.from = n /\ m.type = type /\ m.term = t /\ m.to = {id}
<1>1. {id} \in SUBSET Ids
  OBVIOUS
<1>2. m \in Msgs
  BY <1>1 DEF Grant, VoteResp, Msgs
<1>3. m.from = n /\ m.type = type /\ m.term = t /\ m.to = {id}
  BY DEF Grant, VoteResp
<1> QED
  BY <1>2, <1>3

\* An acknowledgement.
LEMMA AppRespTyping ==
  ASSUME NEW s, s.term \in Nat, NEW n \in Ids, NEW id \in Ids, NEW i \in Nat,
         NEW m, m = AppResp(s, n, id, i)
  PROVE  /\ m \in Msgs /\ m.from = n /\ m.type = "AppResp" /\ m.term = s.term /\ m.to = {id}
         /\ m.index = i
<1>1. {id} \in SUBSET Ids
  OBVIOUS
<1> QED
  BY <1>1 DEF AppResp, Msgs

\* A call to campaign at once.
LEMMA TimeoutNowTyping ==
  ASSUME NEW s, s.term \in Nat, NEW n \in Ids, NEW id \in Ids,
         NEW m, m = TimeoutNow(s, n, id)
  PROVE  m \in Msgs /\ m.from = n /\ m.type = "TimeoutNow" /\ Idle(m)
<1>1. {id} \in SUBSET Ids
  OBVIOUS
<1> QED
  BY <1>1 DEF TimeoutNow, Msgs, Idle

\* A message of an earlier term.
LEMMA OnLowerTermStep ==
  ASSUME NEW h, NEW M, NEW D, NEW n \in Ids, NEW s, NEW d, NEW w, NEW sent,
         AgreesAt(h, M, D, n, s, d, w, sent), s.conf # Refused,
         NEW m \in sent, NEW r, r = OnLowerTerm(s, n, m)
  PROVE  Sound(n, s, d, w, sent, r)
<1>1. s.term \in Nat /\ s.commit \in Nat
  BY NodeNums
<1>2. Retains(s, s)
  BY NodeNums
<1>m. m.from \in Ids
  BY SentFacts, MsgFacts
<1>3. CASE r = Quiet(s)
  BY <1>2, <1>3, SoundQuiet
<1>4. CASE r = Result(s, {}, {AppResp(s, n, m.from, 0)})
  <2>1. PICK x : x = AppResp(s, n, m.from, 0)
    OBVIOUS
  <2>2. x \in Msgs /\ x.from = n /\ Idle(x)
    BY <1>1, <1>m, <2>1, AppRespTyping DEF Idle
  <2> QED
    BY <1>2, <1>4, <2>1, <2>2, SoundIdle
<1>5. CASE r = Result(s, {}, {VoteResp("PreVoteResp", s.term, n, m.from, TRUE)})
  <2>0. PICK y, t, f : y = "PreVoteResp" /\ t = s.term /\ f = m.from
    OBVIOUS
  <2>1. PICK x : x = Rejection(y, t, n, f)
    OBVIOUS
  <2>2. x \in Msgs /\ x.from = n /\ Idle(x)
    <3>1. y \in {"VoteResp", "PreVoteResp"} /\ t \in Nat /\ f \in Ids
      BY <1>1, <1>m, <2>0
    <3> QED
      BY <2>1, <3>1, RejectTyping
  <2> QED
    <3>1. r = Result(s, {}, {x})
      BY <1>5, <2>0, <2>1 DEF Rejection
    <3> QED
      BY <1>2, <2>2, <3>1, SoundIdle
<1>6. \/ r = Quiet(s) \/ r = Result(s, {}, {AppResp(s, n, m.from, 0)})
      \/ r = Result(s, {}, {VoteResp("PreVoteResp", s.term, n, m.from, TRUE)})
  <2>1. CASE m.type \in {"Log", "Beat"} /\ AnswersLower
    <3>1. m.type # "PreVote"
      BY <2>1
    <3> QED
      BY <2>1, <3>1 DEF OnLowerTerm
  <2>2. CASE m.type = "PreVote"
    <3>1. m.type \notin {"Log", "Beat"}
      BY <2>2
    <3> QED
      BY <2>2, <3>1 DEF OnLowerTerm
  <2>3. CASE ~(m.type \in {"Log", "Beat"} /\ AnswersLower) /\ m.type # "PreVote"
    BY <2>3 DEF OnLowerTerm
  <2> QED
    BY <2>1, <2>2, <2>3
<1> QED
  BY <1>3, <1>4, <1>5, <1>6

\* Messages are sent after the step.
LEMMA SoundSend ==
  ASSUME NEW h, NEW M, NEW D, NEW n \in Ids, NEW s, NEW d, NEW w, NEW sent, NEW z,
         NEW out, NEW after,
         AgreesAt(h, M, D, n, z, d, w, sent), z.conf # Refused,
         \A m \in after \cup out : m \in Msgs /\ m.from = n /\ MsgOk(h, D, z, M[n], m),
         AsksFor(n, z, after \cup out),
         Retains(s, z), NEW r, r = Result(z, out, after)
  PROVE  Sound(n, s, d, w, sent, r)
<1>1. PICK ms : ms = after \cup out
  OBVIOUS
<1>2. AgreesAt(h, M, D, n, z, d, w \cup ms, sent)
  BY <1>1, HoldMore
<1> QED
  BY <1>1, <1>2, SoundResult

\* A request for a vote.
LEMMA HandleVoteStep ==
  ASSUME NEW h, NEW M, NEW D, NEW n \in Ids, NEW s, NEW d, NEW w, NEW sent,
         AgreesAt(h, M, D, n, s, d, w, sent), s.conf # Refused,
         NEW m \in sent, m.type \in {"Vote", "PreVote"}, m.type = "Vote" => m.term = s.term,
         NEW r, r = HandleVote(s, n, m)
  PROVE  Sound(n, s, d, w, sent, r)
<1>1. s.term \in Nat /\ Retains(s, s) /\ s.commit \in Nat
  BY NodeNums
<1>2. m \in Msgs /\ m.from \in Ids /\ m.term \in Nat
  BY SentFacts, MsgFacts
<1>3. PICK y, f, t : y = (IF m.type = "PreVote" THEN "PreVoteResp" ELSE "VoteResp") /\ f = m.from /\ t = m.term
  OBVIOUS
<1>4. y \in {"VoteResp", "PreVoteResp"} /\ f \in Ids /\ t \in Nat
  BY <1>2, <1>3
<1>5. CASE r = Result(s, {}, {Rejection(y, s.term, n, f)})
  <2>1. PICK x, u : u = s.term /\ x = Rejection(y, u, n, f)
    OBVIOUS
  <2>2. x \in Msgs /\ x.from = n /\ Idle(x)
    BY <1>1, <1>4, <2>1, RejectTyping
  <2>3. r = Result(s, {}, {x})
    BY <1>5, <2>1
  <2> QED
    BY <1>1, <2>2, <2>3, SoundIdle
<1>6. CASE m.type = "PreVote" /\ r = Result(s, {}, {Grant(y, t, n, f)})
  <2>1. PICK x : x = Grant(y, t, n, f)
    OBVIOUS
  <2>2. x \in Msgs /\ x.from = n /\ x.type = "PreVoteResp"
    BY <1>3, <1>4, <1>6, <2>1, GrantTyping
  <2>3. r = Result(s, {}, {x}) /\ Idle(x)
    BY <1>6, <2>1, <2>2 DEF Idle
  <2> QED
    BY <1>1, <2>2, <2>3, SoundIdle
<1>7. CASE /\ m.type = "Vote" /\ r = Result(Voted(s, f), {}, {Grant(y, t, n, f)})
           /\ s.vote \in {m.from, None} /\ IsUpToDate(s, m.last)
  <2>1. PICK x : x = Grant(y, t, n, f)
    OBVIOUS
  <2>2. x \in Msgs /\ x.from = n /\ x.type = "VoteResp" /\ x.term = t /\ x.to = {f}
    BY <1>3, <1>4, <1>7, <2>1, GrantTyping
  <2>3. UpToDate(s.log, m.last) /\ m.term = s.term
    BY <1>7 DEF IsUpToDate, UpToDate
  <2>4. PICK z : z = Voted(s, m.from)
    OBVIOUS
  <2>5. /\ z.conf = s.conf /\ z.term = s.term /\ z.log = s.log /\ z.commit = s.commit
        /\ \E N : AgreesAt(h, N, D, n, z, d, w, sent) /\ HasVoted(N[n], s.term, m.from)
    BY <1>7, <2>3, <2>4, VoteStep
  <2>6. PICK N : AgreesAt(h, N, D, n, z, d, w, sent) /\ HasVoted(N[n], s.term, m.from)
    BY <2>5
  <2>7. MsgOk(h, D, z, N[n], x)
    BY <1>3, <2>2, <2>3, <2>6 DEF MsgOk
  <2>8. AsksFor(n, z, {x} \cup {})
    BY <2>2 DEF AsksFor
  <2>9. Retains(s, z)
    BY <1>1, <2>5, RetainsSame
  <2>10. r = Result(z, {}, {x}) /\ z.conf # Refused
    BY <1>3, <1>7, <2>1, <2>4, <2>5
  <2>11. \A q \in {x} \cup {} : q \in Msgs /\ q.from = n /\ MsgOk(h, D, z, N[n], q)
    BY <2>2, <2>7
  <2> QED
    BY ONLY <2>6, <2>8, <2>9, <2>10, <2>11, n \in Ids, SoundSend
<1>8. \/ r = Result(s, {}, {Rejection(y, s.term, n, f)})
      \/ m.type = "PreVote" /\ r = Result(s, {}, {Grant(y, t, n, f)})
      \/ /\ m.type = "Vote" /\ r = Result(Voted(s, f), {}, {Grant(y, t, n, f)})
         /\ s.vote \in {m.from, None} /\ IsUpToDate(s, m.last)
  <2>1. CASE m.type = "PreVote"
    BY <1>3, <2>1 DEF HandleVote, Rejection, Grant
  <2>2. CASE m.type = "Vote"
    BY <1>3, <2>2 DEF HandleVote, Rejection, Grant, Voted
  <2> QED
    BY <2>1, <2>2
<1> QED
  BY <1>5, <1>6, <1>7, <1>8

\* Requests for votes.
LEMMA VoteMsgTyping ==
  ASSUME NEW h, NEW M, NEW D, NEW n \in Ids, NEW s, NEW d, NEW w, NEW sent,
         AgreesAt(h, M, D, n, s, d, w, sent), s.conf # Refused,
         NEW type, type \in {"Vote", "PreVote"}, NEW t \in Nat, NEW m, m = VoteMsg(type, s, n, t)
  PROVE  /\ m \in Msgs /\ m.from = n /\ m.type = type /\ m.term = t
         /\ m.last = LastAt(s.log, Len(s.log)) /\ m.last.term = LastTerm(s.log)
<1>1. s.log \in Logs /\ Len(s.log) \in Nat
  BY NodeNums
<1>2. LastTerm(s.log) \in Nat
  BY <1>1, LogFacts
<1>3. PICK V : V = Voters(s.conf) \ {n}
  OBVIOUS
<1>4. V \in SUBSET Ids
  <2>1. s.conf.in \in SUBSET Ids /\ s.conf.out \in SUBSET Ids
    BY NodeConf
  <2> QED
    BY <1>3, <2>1 DEF Voters
<1>5. PICK a, k : a = LastTerm(s.log) /\ k = Len(s.log)
  OBVIOUS
<1>6. PICK l : l = [term |-> a, index |-> k]
  OBVIOUS
<1>7. l \in Lasts /\ l.term = a
  BY <1>1, <1>2, <1>5, <1>6 DEF Lasts
<1>8. m = [type |-> type, term |-> t, from |-> n, to |-> V, last |-> l]
  BY <1>3, <1>5, <1>6 DEF VoteMsg
<1>9. m \in Msgs /\ m.from = n /\ m.type = type /\ m.term = t /\ m.last = l
  BY <1>4, <1>7, <1>8 DEF Msgs
<1>10. l = LastAt(s.log, Len(s.log))
  BY <1>5, <1>6 DEF LastAt, LastTerm
<1> QED
  BY <1>5, <1>7, <1>9, <1>10
\* campaign.
LEMMA CampaignStep ==
  ASSUME NEW h, NEW M, NEW D, NEW n \in Ids, NEW s, NEW d, NEW w, NEW sent,
         AgreesAt(h, M, D, n, s, d, w, sent), s.conf # Refused, ~HasUnappliedConfChanges(s),
         NEW kind, kind \in {"pre", "election", "transfer"}, NEW r, r = Campaign(s, n, kind)
  PROVE  Sound(n, s, d, w, sent, r)
<1>1. s \in NodeType /\ s.term \in Nat /\ s.commit \in Nat
  BY NodeNums
<1>2. PICK t : t = s.term + 1
  OBVIOUS
<1>3. t \in Nat
  BY <1>1, <1>2
<1>4. CASE kind = "pre"
  <2>1. PICK z : z = BecomePreCandidate(s)
    OBVIOUS
  <2>2. Calm(s, z) /\ z.conf = s.conf /\ z.log = s.log /\ z.commit = s.commit
    <3>1. {} \in SUBSET Ids /\ None \in Ids \cup {None}
      OBVIOUS
    <3>2. z = [s EXCEPT !.state = "pre", !.lead = None, !.yes = {}, !.no = {}]
      BY <2>1 DEF BecomePreCandidate
    <3>3. /\ z \in NodeType /\ z.term = s.term /\ z.vote = s.vote /\ z.log = s.log
          /\ z.commit = s.commit /\ z.applied = s.applied /\ z.conf = s.conf /\ z.state = "pre"
      BY <1>1, <3>1, <3>2 DEF NodeType
    <3>4. ~HasUnappliedConfChanges(z)
      BY <3>3 DEF HasUnappliedConfChanges
    <3> QED
      BY <3>3, <3>4 DEF Calm
  <2>3. AgreesAt(h, M, D, n, z, d, w, sent) /\ z.conf # Refused
    BY <2>2, CalmStep
  <2>4. PICK x, y, g : x = VoteMsg("PreVote", z, n, t) /\ y = "PreVoteResp" /\ g = Grant(y, t, n, n)
    OBVIOUS
  <2>5. x \in Msgs /\ x.from = n /\ x.type = "PreVote"
    BY <1>3, <2>3, <2>4, VoteMsgTyping
  <2>6. g \in Msgs /\ g.from = n /\ g.type = "PreVoteResp"
    <3>1. y \in {"VoteResp", "PreVoteResp"} /\ y = "PreVoteResp"
      BY <2>4
    <3> QED
      BY <1>3, <2>4, <3>1, GrantTyping
  <2>7. PICK A : A = IF n \in Voters(z.conf) THEN {g} ELSE {}
    OBVIOUS
  <2>8. r = Result(z, {x}, A)
    BY <1>2, <1>4, <2>1, <2>4, <2>7 DEF Campaign, Grant
  <2>9. \A q \in A \cup {x} : q \in Msgs /\ q.from = n /\ Idle(q)
    BY <2>5, <2>6, <2>7 DEF Idle
  <2>10. Retains(s, z)
    BY <1>1, <2>2, RetainsSame
  <2> QED
    BY ONLY <2>3, <2>8, <2>9, <2>10, n \in Ids, SoundIdle
<1>5. CASE kind # "pre"
  <2>1. PICK z : z = BecomeCandidate(s, n)
    OBVIOUS
  <2>2. /\ z.conf # Refused /\ z.term = t /\ z.log = s.log /\ z.state = "candidate"
        /\ z.commit = s.commit /\ z \in NodeType
        /\ \E N : AgreesAt(h, N, D, n, z, d, w, sent) /\ HasVoted(N[n], z.term, n)
    BY <1>2, <2>1, CandidateStep
  <2>3. PICK N : AgreesAt(h, N, D, n, z, d, w, sent) /\ HasVoted(N[n], z.term, n)
    BY <2>2
  <2>4. PICK x, y, g : x = VoteMsg("Vote", z, n, t) /\ y = "VoteResp" /\ g = Grant(y, t, n, n)
    OBVIOUS
  <2>5. /\ x \in Msgs /\ x.from = n /\ x.type = "Vote" /\ x.term = t
        /\ x.last = LastAt(z.log, Len(z.log)) /\ x.last.term = LastTerm(z.log)
    BY <1>3, <2>2, <2>3, <2>4, VoteMsgTyping
  <2>6. g \in Msgs /\ g.from = n /\ g.type = "VoteResp" /\ g.term = t /\ g.to = {n}
    <3>1. y \in {"VoteResp", "PreVoteResp"} /\ y = "VoteResp"
      BY <2>4
    <3> QED
      BY <1>3, <2>4, <3>1, GrantTyping
  <2>7. PICK A : A = IF n \in Voters(z.conf) THEN {g} ELSE {}
    OBVIOUS
  <2>8. r = Result(z, {x}, A)
    BY <1>2, <1>5, <2>1, <2>4, <2>7 DEF Campaign, Grant
  <2>9. LastTerm(z.log) < t
    <3>1. ViewOk(h, s, M[n])
      BY AtFacts
    <3>2. LastTerm(s.log) \in Nat /\ LastTerm(s.log) <= s.term
      BY <1>1, <3>1, LastBelow
    <3> QED
      BY <1>1, <1>2, <2>2, <3>2
  <2>10. MsgOk(h, D, z, N[n], x)
    BY <1>3, <2>2, <2>5, <2>9 DEF MsgOk
  <2>11. MsgOk(h, D, z, N[n], g)
    BY <2>2, <2>3, <2>6 DEF MsgOk
  <2>12. \A q \in A \cup {x} : q \in Msgs /\ q.from = n /\ MsgOk(h, D, z, N[n], q)
    BY <2>5, <2>6, <2>7, <2>10, <2>11
  <2>13. AsksFor(n, z, A \cup {x})
    BY <2>5, <2>6, <2>7 DEF AsksFor
  <2>14. Retains(s, z) /\ z.conf # Refused
    BY <1>1, <2>2, RetainsSame
  <2> QED
    BY ONLY <2>3, <2>8, <2>12, <2>13, <2>14, n \in Ids, SoundSend
<1> QED
  BY <1>4, <1>5

\* A leader that has appended sends its log, and acknowledges it to itself.
Announced(z, n) == Result(z, {LogMsg(z, n)}, {AppResp(z, n, n, Len(z.log))})

\* Doing so is sound.
LEMMA AnnounceStep ==
  ASSUME NEW h, NEW M, NEW D, NEW n \in Ids, NEW s, NEW d, NEW w, NEW sent, NEW z,
         AgreesAt(h, M, D, n, z, d, w, sent), z.state = "leader", z.conf # Refused,
         HasAcked(M[n], z.term, Len(z.log)), Retains(s, z), NEW r, r = Announced(z, n)
  PROVE  Sound(n, s, d, w, sent, r)
<1>1. z.term \in Nat /\ Len(z.log) \in Nat
  BY NodeNums
<1>2. PICK k, x, y : k = Len(z.log) /\ x = LogMsg(z, n) /\ y = AppResp(z, n, n, k)
  OBVIOUS
<1>3. x \in Msgs /\ MsgOk(h, D, z, M[n], x) /\ x.from = n /\ x.type = "Log"
  <2>1. /\ LogMsg(z, n) \in Msgs /\ MsgOk(h, D, z, M[n], LogMsg(z, n))
        /\ LogMsg(z, n).from = n /\ LogMsg(z, n).type = "Log"
    BY ONLY AgreesAt(h, M, D, n, z, d, w, sent), z.state = "leader", z.conf # Refused, n \in Ids,
            LeaderMsgs
  <2> QED
    BY <1>2, <2>1
<1>4. y \in Msgs /\ y.from = n /\ y.type = "AppResp" /\ y.term = z.term /\ y.index = k
  BY <1>1, <1>2, AppRespTyping
<1>5. MsgOk(h, D, z, M[n], y)
  BY <1>2, <1>4 DEF MsgOk
<1>6. r = Result(z, {x}, {y})
  BY <1>2 DEF Announced
<1>7. \A q \in {y} \cup {x} : q \in Msgs /\ q.from = n /\ MsgOk(h, D, z, M[n], q)
  BY <1>3, <1>4, <1>5
<1>8. AsksFor(n, z, {y} \cup {x})
  BY <1>3, <1>4 DEF AsksFor
<1> QED
  BY <1>6, <1>7, <1>8, SoundSend

\* becomeLeader does so.
LEMMA BecomeLeaderStep ==
  ASSUME NEW h, NEW M, NEW D, NEW n \in Ids, NEW s, NEW d, NEW w, NEW sent,
         AgreesAt(h, M, D, n, s, d, w, sent), s.state = "candidate", s.conf # Refused,
         VoteResult(s.conf.in, s.conf.out, s.yes, s.no) = "won",
         NEW r, r = BecomeLeader(s, n)
  PROVE  Sound(n, s, d, w, sent, r)
<1>1. PICK z : z = BecomeLeader(s, n).s
  OBVIOUS
<1>2. /\ z \in NodeType /\ z.conf # Refused /\ z.term = s.term /\ z.state = "leader"
      /\ z.commit = s.commit /\ z.log = Longer(s.log, Entry(s.term, Normal))
      /\ \E g, N, E : AgreesAt(g, N, E, n, z, d, w, sent) /\ HasAcked(N[n], z.term, Len(z.log))
  BY <1>1, ElectedStep
<1>3. PICK g, N, E : AgreesAt(g, N, E, n, z, d, w, sent) /\ HasAcked(N[n], z.term, Len(z.log))
  BY <1>2
<1>4. r = Announced(z, n)
  <2>1. \E x : r = AppendEntry(x, n, Normal) /\ z = AppendEntry(x, n, Normal).s
    BY <1>1 DEF BecomeLeader
  <2>2. PICK x : r = AppendEntry(x, n, Normal) /\ z = AppendEntry(x, n, Normal).s
    BY <2>1
  <2>3. PICK v : v = [x EXCEPT !.log = Append(@, Entry(x.term, Normal))]
    OBVIOUS
  <2>4. r = Announced(v, n)
    BY <2>2, <2>3 DEF AppendEntry, Announced
  <2>5. z = v
    BY <2>2, <2>3 DEF AppendEntry, Result
  <2> QED
    BY <2>4, <2>5
<1>5. Retains(s, z)
  <2>1. /\ s.log \in Logs /\ s.commit \in Nat /\ s.commit <= Len(s.log) /\ s.term \in Nat
        /\ Len(s.log) \in Nat
    BY NodeNums
  <2>2. Entry(s.term, Normal) \in Entries
    BY <2>1 DEF Entry, Entries
  <2>3. Same(s.log, z.log, Len(s.log))
    BY <1>2, <2>1, <2>2, Appended
  <2>4. Same(s.log, z.log, s.commit)
    BY <2>1, <2>3, SameUpTo
  <2> QED
    BY <1>2, <2>1, <2>4 DEF Retains
<1> QED
  BY <1>2, <1>3, <1>4, <1>5, AnnounceStep

\* A vote counted against the node, or for it when it asks for pre-votes.
Against(s, id) == [s EXCEPT !.no = @ \cup {id}]

\* What was voted, after a response.
Tallied(s, m) ==
  IF m.from \in s.yes \cup s.no THEN s
  ELSE IF m.reject THEN Against(s, m.from) ELSE Counted(s, m.from)

\* The responses are counted.
LEMMA TallyStep ==
  ASSUME NEW h, NEW M, NEW D, NEW n \in Ids, NEW s, NEW d, NEW w, NEW sent,
         AgreesAt(h, M, D, n, s, d, w, sent), s.conf # Refused,
         NEW m \in sent, n \in m.to, m.from \in Ids,
         \/ m.type = "PreVoteResp" /\ s.state = "pre"
         \/ m.type = "VoteResp" /\ s.state = "candidate" /\ m.term = s.term,
         NEW z, z = Tallied(s, m)
  PROVE  /\ AgreesAt(h, M, D, n, z, d, w, sent) /\ z.conf = s.conf /\ z.log = s.log
         /\ z.commit = s.commit /\ z.state = s.state /\ z.term = s.term /\ z \in NodeType
         /\ ~HasUnappliedConfChanges(z)
<1>1. s \in NodeType /\ ~HasUnappliedConfChanges(s)
  BY AtFacts DEF NodeOk
<1>2. CASE z = s
  BY <1>1, <1>2
<1>3. CASE z = Against(s, m.from) \/ (s.state = "pre" /\ z = Counted(s, m.from))
  <2>1. /\ z \in NodeType /\ z.term = s.term /\ z.vote = s.vote /\ z.log = s.log
        /\ z.commit = s.commit /\ z.applied = s.applied /\ z.conf = s.conf /\ z.state = s.state
        /\ z.pending = s.pending
        /\ z.yes = s.yes \/ s.state = "pre"
    <3>1. CASE z = Against(s, m.from)
      <4>1. PICK A : A = s.no \cup {m.from}
        OBVIOUS
      <4>2. z = [s EXCEPT !.no = A] /\ A \in SUBSET Ids
        BY <1>1, <3>1, <4>1 DEF Against, NodeType
      <4> QED
        BY <1>1, <4>2 DEF NodeType
    <3>2. CASE s.state = "pre" /\ z = Counted(s, m.from)
      <4>1. PICK A : A = s.yes \cup {m.from}
        OBVIOUS
      <4>2. z = [s EXCEPT !.yes = A] /\ A \in SUBSET Ids
        BY <1>1, <3>2, <4>1 DEF Counted, NodeType
      <4> QED
        BY <1>1, <3>2, <4>2 DEF NodeType
    <3> QED
      BY <1>3, <3>1, <3>2
  <2>2. ~HasUnappliedConfChanges(z)
    BY <1>1, <2>1 DEF HasUnappliedConfChanges
  <2>3. Calm(s, z)
    BY <2>1, <2>2 DEF Calm
  <2> QED
    BY <2>1, <2>2, <2>3, CalmStep
<1>4. CASE s.state = "candidate" /\ ~m.reject /\ z = Counted(s, m.from)
  <2>1. m.type = "VoteResp" /\ m.term = s.term
    BY <1>4
  <2>2. HasVoted(D[m.from], s.term, n)
    BY <1>4, <2>1, SentFacts DEF MsgOk
  <2>3. AgreesAt(h, M, D, n, z, d, w, sent)
    <3>1. PICK f : f = m.from
      OBVIOUS
    <3>2. f \in Ids /\ HasVoted(D[f], s.term, n) /\ z = Counted(s, f) /\ s.state = "candidate"
      BY <1>4, <2>2, <3>1
    <3> QED
      BY <3>2, YesStep
  <2>4. /\ z.conf = s.conf /\ z.log = s.log /\ z.applied = s.applied
        /\ z.commit = s.commit /\ z.state = s.state /\ z.term = s.term
    BY <1>1, <1>4 DEF Counted, NodeType
  <2>5. z \in NodeType
    BY <2>3, NodeNums
  <2>6. ~HasUnappliedConfChanges(z)
    BY <1>1, <2>4 DEF HasUnappliedConfChanges
  <2> QED
    BY <2>3, <2>4, <2>5, <2>6
<1> QED
  BY <1>2, <1>3, <1>4 DEF Tallied

\* A response to a request for a vote.
LEMMA HandleVoteRespStep ==
  ASSUME NEW h, NEW M, NEW D, NEW n \in Ids, NEW s, NEW d, NEW w, NEW sent,
         AgreesAt(h, M, D, n, s, d, w, sent), s.conf # Refused,
         NEW m \in sent, n \in m.to,
         \/ m.type = "PreVoteResp" /\ s.state = "pre"
         \/ m.type = "VoteResp" /\ s.state = "candidate" /\ m.term = s.term,
         NEW r, r = HandleVoteResp(s, n, m)
  PROVE  Sound(n, s, d, w, sent, r)
<1>1. PICK z : z = Tallied(s, m)
  OBVIOUS
<1>2. m.from \in Ids
  BY SentFacts, MsgFacts
<1>3. /\ AgreesAt(h, M, D, n, z, d, w, sent) /\ z.conf = s.conf /\ z.log = s.log
      /\ z.commit = s.commit /\ z.state = s.state /\ z.term = s.term /\ z \in NodeType
      /\ ~HasUnappliedConfChanges(z)
  BY <1>1, <1>2, TallyStep
<1>4. z.conf # Refused /\ z.term \in Nat /\ z.commit \in Nat
  BY <1>3, NodeNums
<1>5. \A x : Sound(n, z, d, w, sent, x) => Sound(n, s, d, w, sent, x)
  BY <1>3 DEF Sound, Retains
<1>6. CASE r = Campaign(z, n, "election")
  BY <1>3, <1>4, <1>5, <1>6, CampaignStep
<1>7. CASE /\ VoteResult(z.conf.in, z.conf.out, z.yes, z.no) = "won" /\ s.state = "candidate"
           /\ r = BecomeLeader(z, n)
  <2>1. z.state = "candidate"
    BY <1>3, <1>7
  <2>2. Sound(n, z, d, w, sent, r)
    BY <1>3, <1>4, <1>7, <2>1, BecomeLeaderStep
  <2> QED
    BY <1>5, <2>2
<1>8. CASE r = Quiet(BecomeFollower(z, z.term, None))
  <2>1. PICK y, t : t = z.term /\ y = BecomeFollower(z, t, None)
    OBVIOUS
  <2>2. t \in Nat /\ t >= z.term /\ None \in Ids \cup {None}
    BY <1>4, <2>1
  <2>3. /\ AgreesAt(h, M, D, n, y, d, w, sent) /\ y.conf # Refused
        /\ y.log = z.log /\ y.commit = z.commit
    BY <1>3, <1>4, <2>1, <2>2, FollowerStep
  <2>4. Retains(z, y)
    BY <1>4, <2>3, RetainsSame
  <2>5. r = Quiet(y)
    BY <1>8, <2>1
  <2> QED
    BY <1>5, <2>3, <2>4, <2>5, SoundQuiet
<1>9. CASE r = Quiet(z)
  <2>1. Retains(z, z)
    BY <1>4, RetainsSame
  <2> QED
    BY <1>3, <1>4, <1>5, <1>9, <2>1, SoundQuiet
<1>10. \/ r = Campaign(z, n, "election")
       \/ /\ VoteResult(z.conf.in, z.conf.out, z.yes, z.no) = "won" /\ s.state = "candidate"
          /\ r = BecomeLeader(z, n)
       \/ r = Quiet(BecomeFollower(z, z.term, None))
       \/ r = Quiet(z)
  <2>1. PICK v : v = VoteResult(z.conf.in, z.conf.out, z.yes, z.no)
    OBVIOUS
  <2>2. r = CASE v = "won" /\ s.state = "pre"       -> Campaign(z, n, "election")
              [] v = "won" /\ s.state = "candidate" -> BecomeLeader(z, n)
              [] v = "lost"                         -> Quiet(BecomeFollower(z, z.term, None))
              [] OTHER                              -> Quiet(z)
    BY <1>1, <2>1 DEF HandleVoteResp, Tallied, Against, Counted
  <2>3. s.state = "pre" => s.state # "candidate"
    OBVIOUS
  <2>4. v = "won" => v # "lost"
    OBVIOUS
  <2> QED
    BY <2>1, <2>2, <2>3, <2>4
<1> QED
  BY <1>6, <1>7, <1>8, <1>9, <1>10

\* maybeAppend: the first entry that differs from the leader's, and the log with
\* the leader's entries from there on.
Differs(X, L, prev) == {i \in prev + 1 .. Len(L) : ~(i <= Len(X) /\ TermAt(X, i) = TermAt(L, i))}

Spliced(X, L, j) == SubSeq(X, 1, j - 1) \o SubSeq(L, j, Len(L))

\* Splicing in what is the same up to there gives the leader's log.
LEMMA SplicedIs ==
  ASSUME NEW X \in Logs, NEW L \in Logs, NEW j \in 1 .. Len(L), j - 1 <= Len(X), Same(X, L, j - 1)
  PROVE  Spliced(X, L, j) = L
<1>1. X \in Seq(Entries) /\ L \in Seq(Entries) /\ Len(X) \in Nat /\ Len(L) \in Nat
  BY DEF Logs
<1>2. PICK A, B : A = SubSeq(X, 1, j - 1) /\ B = SubSeq(L, j, Len(L))
  OBVIOUS
<1>3. A \in Seq(Entries) /\ Len(A) = j - 1 /\ \A i \in 1 .. j - 1 : A[i] = X[i]
  BY <1>1, <1>2
<1>4. B \in Seq(Entries) /\ Len(B) = Len(L) - j + 1 /\ \A i \in 1 .. Len(B) : B[i] = L[j + i - 1]
  BY <1>1, <1>2
<1>5. PICK C : C = A \o B
  OBVIOUS
<1>6. /\ C \in Seq(Entries) /\ Len(C) = Len(L)
      /\ \A i \in 1 .. Len(L) : C[i] = IF i <= j - 1 THEN A[i] ELSE B[i - (j - 1)]
  BY <1>1, <1>3, <1>4, <1>5
<1>7. ASSUME NEW i \in 1 .. Len(L) PROVE C[i] = L[i]
  <2>1. CASE i <= j - 1
    <3>1. i \in 1 .. j - 1
      BY <2>1
    <3>2. C[i] = A[i] /\ A[i] = X[i] /\ X[i] = L[i]
      BY <1>3, <1>6, <2>1, <3>1 DEF Same
    <3> QED
      BY <3>2
  <2>2. CASE ~(i <= j - 1)
    <3>1. i - (j - 1) \in 1 .. Len(B) /\ j + (i - (j - 1)) - 1 = i
      BY <1>1, <1>4, <2>2
    <3>2. C[i] = B[i - (j - 1)]
      BY <1>6, <2>2
    <3> QED
      BY <1>4, <3>1, <3>2
  <2> QED
    BY <2>1, <2>2
<1>8. C = L
  BY <1>1, <1>6, <1>7, SeqEqual
<1> QED
  BY <1>2, <1>5, <1>8 DEF Spliced

\* Where two logs of a history have the same term they agree.
LEMMA MatchesAgree ==
  ASSUME NEW h, NEW X, Src(h, X), NEW L, Src(h, L), NEW i \in Nat, i <= Len(X), i <= Len(L),
         Len(X) \in Nat, Len(L) \in Nat, TermAt(X, i) = TermAt(L, i)
  PROVE  Same(X, L, i)
<1>1. CASE i = 0
  BY <1>1 DEF Same
<1>2. CASE i # 0
  <2>1. i \in 1 .. Len(X) /\ i \in 1 .. Len(L) /\ X[i].term = L[i].term
    BY <1>2 DEF TermAt
  <2> QED
    BY <2>1, LogMatching
<1> QED
  BY <1>1, <1>2

\* What maybeAppend makes of the log: the follower's own when it has everything,
\* the leader's otherwise.
LEMMA AppendAdopts ==
  ASSUME NEW h, NEW X \in Logs, Src(h, X), NEW L \in Logs, Src(h, L),
         NEW prev \in Nat, prev <= Len(L), prev <= Len(X), TermAt(X, prev) = TermAt(L, prev),
         NEW F, F = Differs(X, L, prev)
  PROVE  /\ F = {} => Holds(X, L)
         /\ F # {} => /\ Spliced(X, L, CHOOSE i \in F : \A j \in F : i <= j) = L
                      /\ ~Holds(X, L)
<1>1. Len(X) \in Nat /\ Len(L) \in Nat
  BY LogFacts
<1>2. Same(X, L, prev)
  BY <1>1, MatchesAgree
<1>3. ASSUME F = {} PROVE Holds(X, L)
  <2>1. CASE prev = Len(L)
    BY <1>2, <2>1 DEF Holds
  <2>2. CASE prev # Len(L)
    <3>1. Len(L) \in prev + 1 .. Len(L)
      BY <1>1, <2>2
    <3>2. Len(L) <= Len(X) /\ TermAt(X, Len(L)) = TermAt(L, Len(L))
      BY <1>3, <3>1 DEF Differs
    <3>3. Same(X, L, Len(L))
      BY <1>1, <3>2, MatchesAgree
    <3> QED
      BY <3>2, <3>3 DEF Holds
  <2> QED
    BY <2>1, <2>2
<1>4. ASSUME F # {}
      PROVE  /\ Spliced(X, L, CHOOSE i \in F : \A j \in F : i <= j) = L
             /\ ~Holds(X, L)
  <2>1. F \in SUBSET Nat
    BY <1>1 DEF Differs
  <2>2. \E i \in F : \A j \in F : i <= j
    BY <1>4, <2>1, LeastElement
  <2>3. PICK i : i = CHOOSE q \in F : \A j \in F : q <= j
    OBVIOUS
  <2>4. i \in F /\ \A j \in F : i <= j
    BY <2>2, <2>3
  <2>5. i \in prev + 1 .. Len(L) /\ ~(i <= Len(X) /\ TermAt(X, i) = TermAt(L, i))
    BY <2>4 DEF Differs
  <2>6. i \in 1 .. Len(L) /\ i - 1 \in Nat /\ i - 1 <= Len(L) /\ i \in Nat
    BY <1>1, <2>5
  <2>7. i - 1 <= Len(X) /\ Same(X, L, i - 1)
    <3>1. CASE i - 1 = prev
      BY <1>2, <3>1
    <3>2. CASE i - 1 # prev
      <4>1. i - 1 \in prev + 1 .. Len(L)
        BY <1>1, <2>5, <3>2
      <4>2. i - 1 \notin F
        BY <2>4, <2>6
      <4>3. i - 1 <= Len(X) /\ TermAt(X, i - 1) = TermAt(L, i - 1)
        BY <4>1, <4>2 DEF Differs
      <4>4. PICK k : k = i - 1
        OBVIOUS
      <4>5. k \in Nat /\ k <= Len(X) /\ k <= Len(L) /\ TermAt(X, k) = TermAt(L, k)
        BY <2>6, <4>3, <4>4
      <4>6. Same(X, L, k)
        BY <1>1, <4>5, MatchesAgree
      <4> QED
        BY <4>3, <4>4, <4>6
    <3> QED
      BY <3>1, <3>2
  <2>8. Spliced(X, L, i) = L
    BY <2>6, <2>7, SplicedIs
  <2>9. ~Holds(X, L)
    <3> SUFFICES ASSUME Holds(X, L) PROVE FALSE
      OBVIOUS
    <3>1. i <= Len(X) /\ X[i] = L[i]
      BY <1>1, <2>6 DEF Holds, Same
    <3>2. TermAt(X, i) = TermAt(L, i)
      BY <2>6, <3>1 DEF TermAt
    <3> QED
      BY <2>5, <3>1, <3>2
  <2> QED
    BY <2>3, <2>8, <2>9
<1> QED
  BY <1>3, <1>4

\* A leader's log was offered by the leader of its term.
LEMMA LogOffers ==
  ASSUME NEW h, NEW M, NEW D, NEW n \in Ids, NEW s, NEW d, NEW w, NEW sent,
         AgreesAt(h, M, D, n, s, d, w, sent), NEW m \in sent, m.type = "Log"
  PROVE  Offer(h, m.term, m.log, MinOf(m.commit, Len(m.log)))
<1>1. m.log \in Logs /\ MinOf(m.commit, Len(m.log)) \in Nat
  BY SentFacts, MsgFacts, LogFacts DEF MinOf
<1>2. \E x, v : MsgOk(h, D, x, v, m)
  BY SentFacts
<1> QED
  BY <1>1, <1>2 DEF MsgOk, Offer

\* What a node has committed is in the log of its term's leader.
LEMMA CommitInTerm ==
  ASSUME NEW h, NEW M, NEW D, NEW n \in Ids, NEW s, NEW d, NEW w, NEW sent,
         AgreesAt(h, M, D, n, s, d, w, sent), s.term \in h.won
  PROVE  s.commit <= Len(h.log[s.term]) /\ Same(s.log, h.log[s.term], s.commit) /\ MayAck(h, s, s.commit)
<1>1. HistOk(h, D) /\ \A v \in Ids : RecordsOk(h, D[v])
  BY AtFacts
<1>2. Committed(h, s.term, s.log, s.commit)
  BY AtFacts DEF ViewOk
<1>3. PICK t, X, k : t = s.term /\ X = s.log /\ k = s.commit
  OBVIOUS
<1>4. t \in Nat /\ k \in Nat /\ k <= Len(X)
  BY <1>3, NodeNums
<1>5. Committed(h, t, X, k) /\ t \in h.won /\ t <= t
  BY <1>2, <1>3, <1>4
<1>6. k <= Len(h.log[t]) /\ Same(X, h.log[t], k)
  BY <1>1, <1>4, <1>5, CommittedInLeader
<1> QED
  BY <1>3, <1>4, <1>6 DEF MayAck, Has

\* An acknowledgement of what the node has.
LEMMA AckSends ==
  ASSUME NEW h, NEW M, NEW D, NEW n \in Ids, NEW s, NEW d, NEW w, NEW sent, NEW z,
         AgreesAt(h, M, D, n, z, d, w, sent), z.conf # Refused, NEW k, MayAck(h, z, k),
         NEW id \in Ids, NEW u, u.term = z.term, NEW x, x = AppResp(u, n, id, k),
         Retains(s, z), NEW r, r = Result(z, {}, {x})
  PROVE  Sound(n, s, d, w, sent, r)
<1>1. PICK N : AgreesAt(h, N, D, n, z, d, w, sent) /\ HasAcked(N[n], z.term, k)
  BY AckedStep
<1>2. u.term \in Nat /\ k \in Nat
  BY NodeNums DEF MayAck
<1>3. x \in Msgs /\ x.from = n /\ x.type = "AppResp" /\ x.term = u.term /\ x.index = k
  BY <1>2, AppRespTyping
<1>4. MsgOk(h, D, z, N[n], x)
  BY <1>1, <1>3 DEF MsgOk
<1>5. \A q \in {x} \cup {} : q \in Msgs /\ q.from = n /\ MsgOk(h, D, z, N[n], q)
  BY <1>3, <1>4
<1>6. AsksFor(n, z, {x} \cup {})
  BY <1>3 DEF AsksFor
<1>7. Retains(s, z) /\ z.conf # Refused /\ r = Result(z, {}, {x}) /\ n \in Ids
  OBVIOUS
<1> QED
  BY ONLY <1>1, <1>5, <1>6, <1>7, SoundSend

\* The log of the follower after maybeAppend.
Resolved(X, L, F) == IF F = {} THEN X ELSE Spliced(X, L, CHOOSE i \in F : \A j \in F : i <= j)

\* handleAppendEntries.
LEMMA HandleAppendStep ==
  ASSUME NEW h, NEW M, NEW D, NEW n \in Ids, NEW s, NEW d, NEW w, NEW sent,
         AgreesAt(h, M, D, n, s, d, w, sent), s.conf # Refused, s.state = "follower",
         NEW m \in sent, m.type = "Log", m.term = s.term, NEW prev \in 0 .. Len(m.log),
         NEW r, r = HandleAppend(s, n, m, prev)
  PROVE  Sound(n, s, d, w, sent, r)
<1>1. /\ s.term \in Nat /\ Retains(s, s) /\ s.commit \in Nat /\ s.log \in Logs /\ Len(s.log) \in Nat
      /\ s.commit <= Len(s.log)
  BY NodeNums
<1>2. HistOk(h, D) /\ Src(h, s.log)
  BY AtFacts DEF ViewOk
<1>3. m.from \in Ids
  BY SentFacts, MsgFacts
<1>4. PICK L, c, f : L = m.log /\ c = MinOf(m.commit, Len(L)) /\ f = m.from
  OBVIOUS
<1>5. Offer(h, s.term, L, c)
  BY <1>4, LogOffers
<1>6. /\ L \in Logs /\ Len(L) \in Nat /\ c \in Nat /\ c <= Len(L) /\ Src(h, L)
      /\ s.term \in h.won /\ Same(L, h.log[s.term], Len(L))
  BY <1>2, <1>5, OfferFacts DEF Offer
<1>7. s.commit <= Len(h.log[s.term]) /\ Same(s.log, h.log[s.term], s.commit) /\ MayAck(h, s, s.commit)
  BY <1>6, CommitInTerm
<1>8. PICK F : F = Differs(s.log, L, prev)
  OBVIOUS
<1>9. PICK Y : Y = Resolved(s.log, L, F)
  OBVIOUS
<1>10. PICK ma : ma = (prev <= Len(s.log) /\ TermAt(s.log, prev) = TermAt(L, prev))
  OBVIOUS
<1>11. \/ prev < s.commit /\ r = Result(s, {}, {AppResp(s, n, f, s.commit)})
       \/ r = Result(s, {}, {AppResp(s, n, f, 0)})
       \/ /\ prev >= s.commit /\ prev <= Len(s.log) /\ TermAt(s.log, prev) = TermAt(L, prev)
          /\ r = Result(Taken(s, Y, c), {}, {AppResp(s, n, f, Len(L))})
  <2>2. CASE prev < s.commit
    BY <1>1, <1>4, <2>2 DEF HandleAppend
  <2>3. CASE prev >= s.commit /\ ~(prev <= Len(s.log) /\ TermAt(s.log, prev) = TermAt(L, prev))
    <3>1. ~(prev < s.commit)
      BY <1>1, <2>3
    <3> QED
      BY <1>4, <2>3, <3>1 DEF HandleAppend
  <2>4. CASE prev >= s.commit /\ prev <= Len(s.log) /\ TermAt(s.log, prev) = TermAt(L, prev)
    <3>1. ~(prev < s.commit)
      BY <1>1, <2>4
    <3>2. r = Result(Taken(s, Y, MinOf(m.commit, Len(L))), {}, {AppResp(s, n, f, Len(L))})
      BY <1>4, <1>8, <1>9, <2>4, <3>1 DEF HandleAppend, Taken, Differs, Spliced, Resolved
    <3> QED
      BY <1>4, <2>4, <3>2
  <2> QED
    BY <1>1, <2>2, <2>3, <2>4
<1>12. CASE prev < s.commit /\ r = Result(s, {}, {AppResp(s, n, f, s.commit)})
  <2>1. PICK k, x : k = s.commit /\ x = AppResp(s, n, f, k)
    OBVIOUS
  <2>2. MayAck(h, s, k) /\ f \in Ids /\ s.term = s.term /\ r = Result(s, {}, {x})
    BY <1>3, <1>4, <1>7, <1>12, <2>1
  <2> QED
    BY <1>1, <2>1, <2>2, AckSends
<1>13. CASE r = Result(s, {}, {AppResp(s, n, f, 0)})
  <2>1. PICK x : x = AppResp(s, n, f, 0)
    OBVIOUS
  <2>2. x \in Msgs /\ x.from = n /\ Idle(x)
    BY <1>1, <1>3, <1>4, <2>1, AppRespTyping DEF Idle
  <2> QED
    BY <1>1, <1>13, <2>1, <2>2, SoundIdle
<1>14. CASE /\ prev >= s.commit /\ prev <= Len(s.log) /\ TermAt(s.log, prev) = TermAt(L, prev)
            /\ r = Result(Taken(s, Y, c), {}, {AppResp(s, n, f, Len(L))})
  <2>1. /\ F = {} => Holds(s.log, L)
        /\ F # {} => /\ Spliced(s.log, L, CHOOSE i \in F : \A j \in F : i <= j) = L
                     /\ ~Holds(s.log, L)
    <3>1. PICK X : X = s.log
      OBVIOUS
    <3>2. X \in Logs /\ Src(h, X) /\ prev \in Nat /\ prev <= Len(L) /\ prev <= Len(X)
          /\ TermAt(X, prev) = TermAt(L, prev) /\ F = Differs(X, L, prev)
      BY <1>1, <1>2, <1>4, <1>6, <1>8, <1>14, <3>1
    <3>3. /\ F = {} => Holds(X, L)
          /\ F # {} => /\ Spliced(X, L, CHOOSE i \in F : \A j \in F : i <= j) = L
                       /\ ~Holds(X, L)
      BY <1>6, <3>2, AppendAdopts
    <3> QED
      BY <3>1, <3>3
  <2>2. s.commit <= Len(L)
    BY <1>1, <1>4, <1>6, <1>14
  <2>3. Same(s.log, L, s.commit)
    <3>1. Same(h.log[s.term], L, s.commit)
      BY <1>1, <1>6, <2>2, SameUpTo
    <3> QED
      BY <1>7, <3>1, SameTrans
  <2>4. Adopts(s, L, Y)
    BY <1>9, <2>1, <2>2, <2>3 DEF Adopts, Resolved
  <2>5. PICK z : z = Taken(s, Y, c)
    OBVIOUS
  <2>6. /\ AgreesAt(h, M, D, n, z, d, w, sent) /\ MayAck(h, z, Len(L))
        /\ z.conf # Refused /\ s.commit <= z.commit /\ Same(s.log, z.log, s.commit)
        /\ z.term = s.term
    <3>1. /\ AgreesAt(h, M, D, n, s, d, w, sent) /\ s.state = "follower" /\ s.conf # Refused
          /\ Offer(h, s.term, L, c) /\ Adopts(s, L, Y) /\ z = Taken(s, Y, c) /\ n \in Ids
      BY <1>5, <2>4, <2>5
    <3> QED
      BY ONLY <3>1, TakeStep
  <2>7. PICK k, x : k = Len(L) /\ x = AppResp(s, n, f, k)
    OBVIOUS
  <2>8. /\ AgreesAt(h, M, D, n, z, d, w, sent) /\ MayAck(h, z, k) /\ z.conf # Refused
        /\ s.term = z.term /\ Retains(s, z) /\ r = Result(z, {}, {x}) /\ f \in Ids /\ n \in Ids
        /\ x = AppResp(s, n, f, k)
    BY <1>3, <1>4, <1>14, <2>5, <2>6, <2>7 DEF Retains
  <2> QED
    BY ONLY <2>8, AckSends
<1> QED
  BY <1>11, <1>12, <1>13, <1>14

\* handleHeartbeat.
LEMMA HandleHeartbeatStep ==
  ASSUME NEW h, NEW M, NEW D, NEW n \in Ids, NEW s, NEW d, NEW w, NEW sent,
         AgreesAt(h, M, D, n, s, d, w, sent), s.conf # Refused, s.state = "follower",
         NEW m \in sent, m.type = "Beat", m.term = s.term, n \in m.to,
         NEW r, r = HandleHeartbeat(s, n, m)
  PROVE  Sound(n, s, d, w, sent, r)
<1>1. s.term \in Nat /\ s.commit \in Nat
  BY NodeNums
<1>2. m.from \in Ids /\ m.commit \in Nat /\ m.ctx \in Nat
  BY SentFacts, MsgFacts
<1>3. PICK c, k : c = m.commit /\ k = MaxOf(s.commit, c)
  OBVIOUS
<1>4. PICK z : z = CommittedAt(s, k)
  OBVIOUS
<1>5. s.term \in h.won /\ (c = 0 \/ HasAcked(D[n], s.term, c)) /\ Committed(h, s.term, h.log[s.term], c)
  <2>1. \E x, v : MsgOk(h, D, x, v, m)
    BY SentFacts
  <2> QED
    BY <1>3, <2>1 DEF MsgOk
<1>6. /\ AgreesAt(h, M, D, n, z, d, w, sent)
      /\ z.conf # Refused /\ s.commit <= z.commit /\ z.log = s.log
  <2>1. /\ AgreesAt(h, M, D, n, s, d, w, sent) /\ s.state = "follower" /\ s.conf # Refused /\ n \in Ids
        /\ c \in Nat /\ s.term \in h.won /\ (c = 0 \/ HasAcked(D[n], s.term, c))
        /\ Committed(h, s.term, h.log[s.term], c) /\ k = MaxOf(s.commit, c) /\ z = CommittedAt(s, k)
    BY <1>2, <1>3, <1>4, <1>5
  <2> QED
    BY ONLY <2>1, BeatStep
<1>7. PICK x : x = [type |-> "BeatResp", term |-> s.term, from |-> n, to |-> {m.from}, ctx |-> m.ctx]
  OBVIOUS
<1>8. x \in Msgs /\ x.from = n /\ Idle(x)
  <2>1. {m.from} \in SUBSET Ids
    BY <1>2
  <2>2. x \in Msgs
    BY <1>1, <1>2, <1>7, <2>1 DEF Msgs
  <2> QED
    BY <1>7, <2>2 DEF Idle
<1>9. r = Result(z, {x}, {})
  BY <1>3, <1>4, <1>7 DEF HandleHeartbeat, CommittedAt
<1>10. Retains(s, z)
  BY <1>6, RetainsSame
<1>11. \A q \in {} \cup {x} : q \in Msgs /\ q.from = n /\ Idle(q)
  BY <1>8
<1> QED
  BY <1>6, <1>9, <1>10, <1>11, SoundIdle

\* The receiver of a leader's message follows it.
LEMMA FollowStep ==
  ASSUME NEW h, NEW M, NEW D, NEW n \in Ids, NEW s, NEW d, NEW w, NEW sent,
         AgreesAt(h, M, D, n, s, d, w, sent), s.conf # Refused,
         NEW m, m.from \in Ids, m.term = s.term, NEW z, z = Follow(s, m)
  PROVE  /\ AgreesAt(h, M, D, n, z, d, w, sent) /\ z.conf # Refused
         /\ z.term = s.term /\ z.log = s.log /\ z.commit = s.commit /\ z.state = "follower"
<1>1. s \in NodeType /\ s.term \in Nat
  BY NodeNums
<1>2. CASE s.state = "follower"
  <2>1. z = [s EXCEPT !.lead = m.from]
    BY <1>2 DEF Follow
  <2>2. /\ z \in NodeType /\ z.term = s.term /\ z.vote = s.vote /\ z.log = s.log
        /\ z.commit = s.commit /\ z.applied = s.applied /\ z.conf = s.conf /\ z.state = "follower"
    BY <1>1, <1>2, <2>1 DEF NodeType
  <2>3. Calm(s, z)
    BY <2>2 DEF Calm
  <2> QED
    BY <2>2, <2>3, CalmStep
<1>3. CASE s.state # "follower"
  <2>1. PICK t, f : t = m.term /\ f = m.from
    OBVIOUS
  <2>2. z = BecomeFollower(s, t, f) /\ t \in Nat /\ t >= s.term /\ f \in Ids \cup {None} /\ t = s.term
    BY <1>1, <1>3, <2>1 DEF Follow
  <2> QED
    BY <2>2, FollowerStep
<1> QED
  BY <1>2, <1>3

\* Finitely many numbers are bounded.
LEMMA AcksBounded ==
  ASSUME NEW f, f \in [Ids -> Nat]
  PROVE  \E N \in Nat : f \in [Ids -> 0 .. N]
<1>1. PICK n \in Nat : ExistsSurjection(1 .. n, Ids)
  BY IdsAssumption, FS_NatSurjection
<1>2. PICK g : g \in [1 .. n -> Ids] /\ \A id \in Ids : \E i \in 1 .. n : g[i] = id
  BY <1>1 DEF ExistsSurjection, Surjection
<1> DEFINE T == {k \in 0 .. n : \E N \in Nat : \A i \in 1 .. k : f[g[i]] <= N}
<1>3. 0 \in T
  <2>1. \A i \in 1 .. 0 : f[g[i]] <= 0
    OBVIOUS
  <2> QED
    BY <2>1
<1>4. ASSUME NEW k \in 1 .. n, k - 1 \in T PROVE k \in T
  <2>1. PICK N \in Nat : \A i \in 1 .. k - 1 : f[g[i]] <= N
    BY <1>4
  <2>2. f[g[k]] \in Nat
    BY <1>2
  <2>3. \A i \in 1 .. k : f[g[i]] <= N + f[g[k]]
    <3> TAKE i \in 1 .. k
    <3>1. CASE i = k
      BY <2>2, <3>1
    <3>2. CASE i # k
      <4>1. i \in 1 .. k - 1 /\ f[g[i]] \in Nat
        BY <1>2, <3>2
      <4>2. f[g[i]] <= N
        BY <2>1, <4>1
      <4> QED
        BY <2>2, <4>1, <4>2
    <3> QED
      BY <3>1, <3>2
  <2>4. N + f[g[k]] \in Nat /\ k \in 0 .. n
    BY <2>2
  <2> QED
    BY <2>3, <2>4
<1> HIDE DEF T
<1>5. \A k \in 0 .. n : k \in T
  BY <1>3, <1>4, UpTo, Zenon
<1>6. n \in T
  BY <1>5
<1>7. PICK N \in Nat : \A i \in 1 .. n : f[g[i]] <= N
  BY <1>6 DEF T
<1>8. \A id \in Ids : f[id] \in 0 .. N
  BY <1>2, <1>7
<1> QED
  BY <1>8

\* The leader's state in the course of reads: nothing else is touched.
Reading(s, z) ==
  /\ z.term = s.term /\ z.vote = s.vote /\ z.log = s.log /\ z.commit = s.commit
  /\ z.applied = s.applied /\ z.conf = s.conf /\ z.state = s.state /\ z.yes = s.yes
  /\ z.pending = s.pending

\* It is calm.
LEMMA ReadingStep ==
  ASSUME NEW h, NEW M, NEW D, NEW n \in Ids, NEW s, NEW d, NEW w, NEW sent,
         AgreesAt(h, M, D, n, s, d, w, sent), s.conf # Refused,
         NEW z \in NodeType, Reading(s, z)
  PROVE  AgreesAt(h, M, D, n, z, d, w, sent) /\ z.conf # Refused /\ Retains(s, z)
<1>1. Calm(s, z)
  BY DEF Calm, Reading
<1>2. s.commit \in Nat
  BY NodeNums
<1>3. Retains(s, z)
  BY <1>2, RetainsSame DEF Reading
<1> QED
  BY <1>1, <1>3, CalmStep DEF Reading

\* The reads handed to StartReads.
Queued(s, reads) == [k \in DOMAIN reads |-> [id |-> reads[k], index |-> s.commit]]

\* StartReads and the states around it.
LEMMA StartReadsFields ==
  ASSUME NEW s \in NodeType, NEW n \in Ids, NEW reads \in Seq(ReadIds), NEW z, z = StartReads(s, n, reads).s
  PROVE  /\ z \in NodeType /\ Reading(s, z)
         /\ StartReads(s, n, reads) = Result(z, BcastHeartbeat(z, n), {})
<1>1. PICK q : q = s.queue \o Queued(s, reads)
  OBVIOUS
<1>2. PICK y : y = [s EXCEPT !.queue = q]
  OBVIOUS
<1>3. PICK k : k = HeartbeatCtx(y)
  OBVIOUS
<1>4. z = [y EXCEPT !.acks[n] = k] /\ StartReads(s, n, reads) = Result(z, BcastHeartbeat(z, n), {})
  BY <1>1, <1>2, <1>3 DEF StartReads, Queued, Result
<1>5. q \in Seq([id : ReadIds, index : Nat])
  <2>1. s.commit \in Nat /\ s.queue \in Seq([id : ReadIds, index : Nat])
    BY DEF NodeType
  <2>2. DOMAIN reads = 1 .. Len(reads) /\ Len(reads) \in Nat /\ \A i \in DOMAIN reads : reads[i] \in ReadIds
    OBVIOUS
  <2>3. Queued(s, reads) \in Seq([id : ReadIds, index : Nat])
    <3>1. \A i \in DOMAIN reads : [id |-> reads[i], index |-> s.commit] \in [id : ReadIds, index : Nat]
      BY <2>1, <2>2
    <3>2. Queued(s, reads) \in [1 .. Len(reads) -> [id : ReadIds, index : Nat]]
      BY <2>2, <3>1 DEF Queued
    <3>3. PICK S, L, Q : S = [id : ReadIds, index : Nat] /\ L = Len(reads) /\ Q = Queued(s, reads)
      OBVIOUS
    <3>4. Q \in [1 .. L -> S] /\ L \in Nat
      BY <2>2, <3>2, <3>3
    <3>5. Q \in Seq(S)
      BY ONLY <3>4
    <3> QED
      BY <3>3, <3>5
  <2> QED
    BY <1>1, <2>1, <2>3
<1>6. /\ y \in NodeType /\ Reading(s, y) /\ y.queue = q /\ y.confirmed \in Nat
  BY <1>2, <1>5 DEF NodeType, Reading
<1>7. k \in Nat
  BY <1>3, <1>5, <1>6 DEF HeartbeatCtx
<1>8. PICK a : a = [y.acks EXCEPT ![n] = k]
  OBVIOUS
<1>9. z = [y EXCEPT !.acks = a] /\ a \in [Ids -> Nat]
  BY <1>4, <1>6, <1>7, <1>8 DEF NodeType
<1>10. z \in NodeType /\ Reading(y, z)
  BY <1>6, <1>9 DEF NodeType, Reading
<1> QED
  BY <1>4, <1>6, <1>10 DEF Reading

\* What a handler leaves, whatever is read.
Leaves(r, z, out, after) == r.s = z /\ r.out = out /\ r.after = after

\* What a leader may send: its log, its heartbeats, and what promises nothing.
LeaderSays(z, n, m) ==
  \/ m = LogMsg(z, n)
  \/ m \in BcastHeartbeat(z, n)
  \/ m \in Msgs /\ m.from = n /\ Idle(m) /\ m.type # "Vote"

\* Saying so is sound.
LEMMA LeaderSends ==
  ASSUME NEW h, NEW M, NEW D, NEW n \in Ids, NEW s, NEW d, NEW w, NEW sent, NEW z,
         AgreesAt(h, M, D, n, z, d, w, sent), z.state = "leader", z.conf # Refused,
         NEW out, \A m \in out : LeaderSays(z, n, m), Retains(s, z), NEW r, Leaves(r, z, out, {})
  PROVE  Sound(n, s, d, w, sent, r)
<1>1. /\ LogMsg(z, n) \in Msgs /\ MsgOk(h, D, z, M[n], LogMsg(z, n))
      /\ LogMsg(z, n).from = n /\ LogMsg(z, n).type = "Log"
  BY ONLY AgreesAt(h, M, D, n, z, d, w, sent), z.state = "leader", z.conf # Refused, n \in Ids,
          LeaderMsgs
<1>2. \A m \in BcastHeartbeat(z, n) :
        m \in Msgs /\ m.from = n /\ m.type = "Beat" /\ MsgOk(h, D, z, M[n], m)
  BY ONLY AgreesAt(h, M, D, n, z, d, w, sent), z.state = "leader", z.conf # Refused, n \in Ids,
          LeaderMsgs
<1>3. ASSUME NEW m \in out
      PROVE  m \in Msgs /\ m.from = n /\ MsgOk(h, D, z, M[n], m) /\ m.type # "Vote"
  <2>1. CASE m = LogMsg(z, n)
    BY <1>1, <2>1
  <2>2. CASE m \in BcastHeartbeat(z, n)
    BY <1>2, <2>2
  <2>3. CASE m \in Msgs /\ m.from = n /\ Idle(m) /\ m.type # "Vote"
    BY <2>3 DEF Idle, MsgOk
  <2> QED
    BY <1>3, <2>1, <2>2, <2>3 DEF LeaderSays
<1>4. AsksFor(n, z, out)
  BY <1>3 DEF AsksFor
<1>5. AgreesAt(h, M, D, n, z, d, w \cup out, sent)
  BY <1>3, <1>4, HoldMore
<1>6. (w \cup r.after) \cup r.out = w \cup out /\ r.s = z
  BY DEF Leaves
<1> QED
  BY <1>5, <1>6 DEF Sound, Reaches

\* sendMsgReadIndexResponse.
LEMMA StartReadsStep ==
  ASSUME NEW h, NEW M, NEW D, NEW n \in Ids, NEW s, NEW d, NEW w, NEW sent,
         AgreesAt(h, M, D, n, s, d, w, sent), s.conf # Refused, s.state = "leader",
         NEW reads \in Seq(ReadIds), NEW r, r = StartReads(s, n, reads)
  PROVE  \E z : /\ AgreesAt(h, M, D, n, z, d, w, sent) /\ z.conf # Refused /\ z.state = "leader"
                /\ Reading(s, z) /\ Leaves(r, z, BcastHeartbeat(z, n), {})
<1>1. PICK z : z = StartReads(s, n, reads).s
  OBVIOUS
<1>2. s \in NodeType
  BY NodeNums
<1>3. /\ z \in NodeType /\ Reading(s, z)
      /\ r = Result(z, BcastHeartbeat(z, n), {})
  BY <1>1, <1>2, StartReadsFields
<1>4. AgreesAt(h, M, D, n, z, d, w, sent) /\ z.conf # Refused
  BY <1>3, ReadingStep
<1>5. Leaves(r, z, BcastHeartbeat(z, n), {}) /\ z.state = "leader"
  BY <1>3 DEF Leaves, Result, Reading
<1> QED
  BY <1>3, <1>4, <1>5

\* recvAck and maybeAdvance.
LEMMA HandleBeatRespStep ==
  ASSUME NEW h, NEW M, NEW D, NEW n \in Ids, NEW s, NEW d, NEW w, NEW sent,
         AgreesAt(h, M, D, n, s, d, w, sent), s.conf # Refused, s.state = "leader",
         NEW m \in sent, m.type = "BeatResp", NEW r, r = HandleBeatResp(s, m)
  PROVE  Sound(n, s, d, w, sent, r)
<1>1. s \in NodeType /\ Retains(s, s)
  BY NodeNums
<1>2. CASE r = Quiet(s)
  BY <1>1, <1>2, SoundQuiet
<1>3. CASE m.from \in DOMAIN s.conf.trk /\ r = MaybeAdvance([s EXCEPT !.acks[m.from] = MaxOf(@, m.ctx)])
  <2>1. m.from \in Ids /\ m.ctx \in Nat
    BY SentFacts, MsgFacts
  <2>2. PICK a : a = [s.acks EXCEPT ![m.from] = MaxOf(@, m.ctx)]
    OBVIOUS
  <2>3. PICK y : y = [s EXCEPT !.acks = a]
    OBVIOUS
  <2>4. a \in [Ids -> Nat]
    BY <1>1, <2>1, <2>2 DEF NodeType, MaxOf
  <2>5. y \in NodeType /\ Reading(s, y) /\ y.acks = a
    BY <1>1, <2>3, <2>4 DEF NodeType, Reading
  <2>6. r = MaybeAdvance(y)
    BY <1>3, <2>2, <2>3
  <2>7. PICK now : now = CommittedIndex(y.conf.in, y.conf.out, y.acks)
    OBVIOUS
  <2>8. now \in Nat
    <3>1. PICK N \in Nat : a \in [Ids -> 0 .. N]
      BY <2>4, AcksBounded
    <3>2. PICK c : c = y.conf
      OBVIOUS
    <3>3. Tracked(c) /\ c.in # {} /\ now = CommittedIndex(c.in, c.out, a)
      BY <2>5, <2>7, <3>2, NodeConf DEF Reading
    <3> QED
      BY <3>1, <3>3, QuorumAcked
  <2>9. PICK k : k = now - y.confirmed
    OBVIOUS
  <2>10. CASE k <= 0
    <3>1. r = Quiet(y)
      BY <2>6, <2>7, <2>9, <2>10 DEF MaybeAdvance
    <3>2. AgreesAt(h, M, D, n, y, d, w, sent) /\ y.conf # Refused /\ Retains(s, y)
      BY <2>5, ReadingStep
    <3> QED
      BY <3>1, <3>2, SoundQuiet
  <2>11. CASE ~(k <= 0)
    <3>1. PICK q, R : q = SubSeq(y.queue, k + 1, Len(y.queue)) /\ R = {y.queue[i] : i \in 1 .. k}
      OBVIOUS
    <3>2. PICK z : z = [y EXCEPT !.confirmed = now, !.queue = q]
      OBVIOUS
    <3>3. r = [Quiet(z) EXCEPT !.read = R]
      BY <2>6, <2>7, <2>9, <2>11, <3>1, <3>2 DEF MaybeAdvance
    <3>4. q \in Seq([id : ReadIds, index : Nat])
      <4>1. y.queue \in Seq([id : ReadIds, index : Nat]) /\ y.confirmed \in Nat
        BY <2>5 DEF NodeType
      <4>2. k \in Nat /\ k + 1 \in Nat \ {0}
        BY <2>8, <2>9, <2>11, <4>1
      <4>3. PICK Q, S, L : Q = y.queue /\ S = [id : ReadIds, index : Nat] /\ L = Len(Q)
        OBVIOUS
      <4>4. Q \in Seq(S) /\ L \in Nat /\ k \in Nat /\ L = Len(Q)
        BY <4>1, <4>2, <4>3
      <4>5. SubSeq(Q, k + 1, L) \in Seq(S)
        BY ONLY <4>4
      <4> QED
        BY <3>1, <4>3, <4>5
    <3>5. z \in NodeType /\ Reading(y, z)
      BY <2>5, <2>8, <3>2, <3>4 DEF NodeType, Reading
    <3>6. Reading(s, z)
      BY <2>5, <3>5 DEF Reading
    <3>7. AgreesAt(h, M, D, n, z, d, w, sent) /\ z.conf # Refused /\ Retains(s, z)
      BY <3>5, <3>6, ReadingStep
    <3>8. Leaves(r, z, {}, {}) /\ z.state = "leader"
      BY <3>3, <3>6 DEF Leaves, Quiet, Result, Reading
    <3>9. \A x \in {} : LeaderSays(z, n, x)
      OBVIOUS
    <3> QED
      BY <3>7, <3>8, <3>9, LeaderSends
  <2> QED
    BY <2>10, <2>11
<1> QED
  BY <1>2, <1>3 DEF HandleBeatResp

\* maybeCommit.
LEMMA MaybeCommitStep ==
  ASSUME NEW h, NEW M, NEW D, NEW n \in Ids, NEW s, NEW d, NEW w, NEW sent,
         AgreesAt(h, M, D, n, s, d, w, sent), s.conf # Refused, s.state = "leader",
         NEW z, z = MaybeCommit(s)
  PROVE  /\ \E g : AgreesAt(g, M, D, n, z, d, w, sent)
         /\ z.conf = s.conf /\ z.state = "leader" /\ z.log = s.log /\ s.commit <= z.commit
         /\ z.applied = s.applied /\ z.pending = s.pending /\ z.term = s.term
         /\ \E i : z = CommittedAt(s, i)
<1>1. s \in NodeType /\ s.commit \in Nat
  BY NodeNums
<1>2. PICK i : i = CommittedIndex(s.conf.in, s.conf.out, Matches(s))
  OBVIOUS
<1>3. CASE MayCommit(s, i)
  <2>1. z = CommittedAt(s, i) /\ s.commit <= i
    <3>1. i \in Nat
      BY <1>3, CommitCert
    <3>2. i > s.commit /\ i <= Len(s.log) /\ TermAt(s.log, i) = s.term
      BY <1>3 DEF MayCommit
    <3>3. z = CommittedAt(s, i)
      BY <1>2, <3>2 DEF MaybeCommit, CommittedAt
    <3> QED
      BY <1>1, <3>1, <3>2, <3>3
  <2>2. \E g : AgreesAt(g, M, D, n, z, d, w, sent)
    BY <1>3, <2>1, CommitStep
  <2>3. /\ z.conf = s.conf /\ z.state = "leader" /\ z.log = s.log /\ z.commit = i
        /\ z.applied = s.applied /\ z.pending = s.pending /\ z.term = s.term
    BY <1>1, <2>1 DEF CommittedAt, NodeType
  <2> QED
    BY <2>1, <2>2, <2>3
<1>4. CASE ~MayCommit(s, i)
  <2>1. z = s
    BY <1>2, <1>4 DEF MaybeCommit, MayCommit
  <2>2. z = CommittedAt(s, s.commit)
    BY <1>1, <2>1 DEF CommittedAt, NodeType
  <2> QED
    BY <1>1, <2>1, <2>2
<1> QED
  BY <1>3, <1>4

\* stepLeader of an acknowledgement.
LEMMA HandleAppRespStep ==
  ASSUME NEW h, NEW M, NEW D, NEW n \in Ids, NEW s, NEW d, NEW w, NEW sent,
         AgreesAt(h, M, D, n, s, d, w, sent), s.conf # Refused, s.state = "leader",
         NEW m \in sent, m.type = "AppResp", m.term = s.term, NEW r, r = HandleAppResp(s, n, m)
  PROVE  Sound(n, s, d, w, sent, r)
<1>1. s \in NodeType /\ Retains(s, s) /\ s.commit \in Nat
  BY NodeNums
<1>2. m.from \in Ids /\ m.index \in Nat
  BY SentFacts, MsgFacts
<1>3. CASE r = Quiet(s)
  BY <1>1, <1>3, SoundQuiet
<1>4. CASE r # Quiet(s)
  <2>1. PICK f, i : f = m.from /\ i = m.index
    OBVIOUS
  <2>2. PICK s0 : s0 = MatchedAt(s, f, i)
    OBVIOUS
  <2>3. AgreesAt(h, M, D, n, s0, d, w, sent) /\ s0.conf # Refused
    <3>1. i = 0 \/ HasAcked(D[f], s.term, i)
      BY <2>1, SentFacts DEF MsgOk
    <3>2. i \in Nat
      BY <1>2, <2>1
    <3> QED
      BY <2>2, <3>1, <3>2, MatchStep
  <2>4. s0.log = s.log /\ s0.commit = s.commit /\ s0.state = "leader" /\ s0.term = s.term
    BY <1>1, <2>2 DEF MatchedAt, NodeType
  <2>5. PICK s1 : s1 = MaybeCommit(s0)
    OBVIOUS
  <2>6. /\ \E g : AgreesAt(g, M, D, n, s1, d, w, sent)
        /\ s1.conf = s0.conf /\ s1.state = "leader" /\ s1.log = s0.log /\ s0.commit <= s1.commit
    BY <2>3, <2>4, <2>5, MaybeCommitStep
  <2>7. PICK g : AgreesAt(g, M, D, n, s1, d, w, sent)
    BY <2>6
  <2>8. s1 \in NodeType /\ s1.commit \in Nat /\ s1.term \in Nat
    BY <2>7, NodeNums
  <2>9. PICK y, q : y = [s1 EXCEPT !.waiting = << >>] /\ q = s1.waiting
    OBVIOUS
  <2>10. y \in NodeType /\ Reading(s1, y) /\ q \in Seq(ReadIds)
    <3>1. PICK e : e = << >>
      OBVIOUS
    <3>2. e \in Seq(ReadIds) /\ y = [s1 EXCEPT !.waiting = e]
      BY <2>9, <3>1
    <3>3. y \in NodeType /\ Reading(s1, y)
      BY ONLY <2>8, <3>2 DEF NodeType, Reading
    <3> QED
      BY <2>8, <2>9, <3>3 DEF NodeType
  <2>11. AgreesAt(g, M, D, n, y, d, w, sent) /\ y.conf # Refused /\ y.state = "leader"
    <3>1. s1.conf # Refused
      BY <2>3, <2>6
    <3> QED
      BY <2>6, <2>7, <2>10, <3>1, ReadingStep DEF Reading
  <2>12. PICK up, free, tn : /\ up = (s1.commit > s.commit)
                             /\ free = (up /\ s1.waiting # << >> /\ CommittedInTerm(s1))
                             /\ tn = (m.from = s1.transferee /\ m.index = Len(s1.log))
    OBVIOUS
  <2>13. PICK r1 : r1 = IF free THEN StartReads(y, n, q) ELSE Quiet(s1)
    OBVIOUS
  <2>14. PICK z, o : /\ AgreesAt(g, M, D, n, z, d, w, sent) /\ z.conf # Refused /\ z.state = "leader"
                     /\ Reading(s1, z) /\ Leaves(r1, z, o, {}) /\ \A x \in o : LeaderSays(z, n, x)
    <3>1. CASE free
      <4>1. r1 = StartReads(y, n, q)
        BY <2>13, <3>1
      <4>2. PICK z : /\ AgreesAt(g, M, D, n, z, d, w, sent) /\ z.conf # Refused /\ z.state = "leader"
                     /\ Reading(y, z) /\ Leaves(r1, z, BcastHeartbeat(z, n), {})
        BY <2>10, <2>11, <4>1, StartReadsStep
      <4>3. Reading(s1, z)
        BY <2>10, <4>2 DEF Reading
      <4>4. \A x \in BcastHeartbeat(z, n) : LeaderSays(z, n, x)
        BY DEF LeaderSays
      <4> QED
        BY <4>2, <4>3, <4>4
    <3>2. CASE ~free
      <4>1. r1 = Quiet(s1)
        BY <2>13, <3>2
      <4>2. Leaves(r1, s1, {}, {}) /\ Reading(s1, s1) /\ s1.conf # Refused
        BY <2>3, <2>6, <4>1 DEF Leaves, Quiet, Result, Reading
      <4> QED
        BY <2>6, <2>7, <4>2
    <3> QED
      BY <3>1, <3>2
  <2>15. PICK t : t = TimeoutNow(s1, n, f)
    OBVIOUS
  <2>16. LeaderSays(z, n, t)
    BY <1>2, <2>1, <2>8, <2>15, TimeoutNowTyping DEF LeaderSays
  <2>17. r = [r1 EXCEPT !.out = (@ \cup (IF up THEN {LogMsg(r1.s, n)} ELSE {}))
                                 \cup (IF tn THEN {t} ELSE {})]
    <3>1. s0 = [s EXCEPT !.conf.trk[m.from].match = m.index]
      BY <2>1, <2>2 DEF MatchedAt, Matched
    <3> QED
      BY <1>4, <2>1, <2>5, <2>9, <2>12, <2>13, <2>15, <3>1 DEF HandleAppResp
  <2>18. PICK O : O = (o \cup (IF up THEN {LogMsg(z, n)} ELSE {})) \cup (IF tn THEN {t} ELSE {})
    OBVIOUS
  <2>19. Leaves(r, z, O, {})
    <3>1. r1 = [s |-> r1.s, out |-> r1.out, after |-> r1.after, read |-> r1.read]
      BY <2>13 DEF StartReads, Quiet, Result
    <3> QED
      BY <2>14, <2>17, <2>18, <3>1 DEF Leaves
  <2>20. \A x \in O : LeaderSays(z, n, x)
    BY <2>14, <2>16, <2>18 DEF LeaderSays
  <2>21. Retains(s, z)
    <3>1. z.log = s.log /\ s.commit <= z.commit
      BY <2>4, <2>6, <2>14 DEF Reading
    <3> QED
      BY <3>1, RetainsSame
  <2> QED
    BY <2>14, <2>19, <2>20, <2>21, LeaderSends
<1> QED
  BY <1>3, <1>4

\* The rest of Step, by type and role.
LEMMA HandleStep ==
  ASSUME NEW h, NEW M, NEW D, NEW n \in Ids, NEW s, NEW d, NEW w, NEW sent,
         AgreesAt(h, M, D, n, s, d, w, sent), s.conf # Refused,
         NEW m \in sent, n \in m.to, m.term = s.term \/ m.type \in {"PreVote", "PreVoteResp"},
         NEW prev, m.type = "Log" => prev \in 0 .. Len(m.log), NEW r, r = Handle(s, n, m, prev)
  PROVE  Sound(n, s, d, w, sent, r)
<1>1. Retains(s, s) /\ s.commit \in Nat
  BY NodeNums
<1>2. m.from \in Ids
  BY SentFacts, MsgFacts
<1>q. CASE r = Quiet(s)
  BY <1>1, <1>q, SoundQuiet
<1>3. CASE m.type \in {"Vote", "PreVote"}
  <2>1. r = HandleVote(s, n, m)
    BY <1>3 DEF Handle
  <2> QED
    BY <1>3, <2>1, HandleVoteStep
<1>4. CASE m.type \in {"Log", "Beat"} /\ s.state # "leader"
  <2>1. PICK z : z = Follow(s, m)
    OBVIOUS
  <2>2. m.term = s.term
    BY <1>4
  <2>3. /\ AgreesAt(h, M, D, n, z, d, w, sent) /\ z.conf # Refused
        /\ z.term = s.term /\ z.log = s.log /\ z.commit = s.commit /\ z.state = "follower"
    BY <1>2, <2>1, <2>2, FollowStep
  <2>4. \A x : Sound(n, z, d, w, sent, x) => Sound(n, s, d, w, sent, x)
    BY <2>3 DEF Sound, Retains
  <2>5. CASE m.type = "Log"
    <3>1. r = HandleAppend(z, n, m, prev)
      BY <1>4, <2>1, <2>5 DEF Handle
    <3>2. m.term = z.term /\ prev \in 0 .. Len(m.log)
      BY <2>2, <2>3, <2>5
    <3>3. Sound(n, z, d, w, sent, r)
      BY <2>3, <2>5, <3>1, <3>2, HandleAppendStep
    <3> QED
      BY <2>4, <3>3
  <2>6. CASE m.type = "Beat"
    <3>1. r = HandleHeartbeat(z, n, m)
      BY <1>4, <2>1, <2>6 DEF Handle
    <3>2. m.term = z.term
      BY <2>2, <2>3
    <3>3. Sound(n, z, d, w, sent, r)
      BY <2>3, <2>6, <3>1, <3>2, HandleHeartbeatStep
    <3> QED
      BY <2>4, <3>3
  <2> QED
    BY <1>4, <2>5, <2>6
<1>5. CASE \/ m.type = "PreVoteResp" /\ s.state = "pre"
           \/ m.type = "VoteResp" /\ s.state = "candidate"
  <2>1. r = HandleVoteResp(s, n, m)
    BY <1>5 DEF Handle
  <2>2. \/ m.type = "PreVoteResp" /\ s.state = "pre"
        \/ m.type = "VoteResp" /\ s.state = "candidate" /\ m.term = s.term
    BY <1>5
  <2> QED
    BY <2>1, <2>2, HandleVoteRespStep
<1>6. CASE m.type = "AppResp" /\ s.state = "leader"
  <2>1. r = HandleAppResp(s, n, m) /\ m.term = s.term
    BY <1>6 DEF Handle
  <2> QED
    BY <1>6, <2>1, HandleAppRespStep
<1>7. CASE m.type = "BeatResp" /\ s.state = "leader"
  <2>1. r = HandleBeatResp(s, m)
    BY <1>7 DEF Handle
  <2> QED
    BY <1>7, <2>1, HandleBeatRespStep
<1>8. CASE m.type = "TimeoutNow" /\ s.state = "follower" /\ MayHup(s, n)
  <2>1. r = Campaign(s, n, "transfer") /\ ~HasUnappliedConfChanges(s)
    BY <1>8 DEF Handle, MayHup
  <2>2. PICK k : k = "transfer"
    OBVIOUS
  <2>3. k \in {"pre", "election", "transfer"} /\ r = Campaign(s, n, k)
    BY <2>1, <2>2
  <2> QED
    BY <2>1, <2>3, CampaignStep
<1>9. CASE /\ ~(m.type \in {"Vote", "PreVote"})
           /\ ~(m.type \in {"Log", "Beat"} /\ s.state # "leader")
           /\ ~(\/ m.type = "PreVoteResp" /\ s.state = "pre"
                \/ m.type = "VoteResp" /\ s.state = "candidate")
           /\ ~(m.type = "AppResp" /\ s.state = "leader")
           /\ ~(m.type = "BeatResp" /\ s.state = "leader")
           /\ ~(m.type = "TimeoutNow" /\ s.state = "follower" /\ MayHup(s, n))
  <2>1. r = Quiet(s)
    BY <1>9 DEF Handle
  <2> QED
    BY <1>q, <2>1
<1> QED
  BY <1>3, <1>4, <1>5, <1>6, <1>7, <1>8, <1>9

\* Step.
LEMMA StepMsgStep ==
  ASSUME NEW h, NEW M, NEW D, NEW n \in Ids, NEW s, NEW d, NEW w, NEW sent,
         AgreesAt(h, M, D, n, s, d, w, sent), s.conf # Refused,
         NEW m \in sent, n \in m.to,
         NEW prev, m.type = "Log" => prev \in 0 .. Len(m.log), NEW r, r = StepMsg(s, n, m, prev)
  PROVE  Sound(n, s, d, w, sent, r)
<1>1. s.term \in Nat
  BY NodeNums
<1>2. m.from \in Ids /\ m.term \in Nat
  BY SentFacts, MsgFacts
<1>3. CASE m.term < s.term
  <2>1. r = OnLowerTerm(s, n, m)
    BY <1>1, <1>2, <1>3 DEF StepMsg
  <2> QED
    BY <2>1, OnLowerTermStep
<1>4. CASE m.term = s.term
  <2>1. r = Handle(s, n, m, prev)
    BY <1>1, <1>2, <1>4 DEF StepMsg
  <2> QED
    BY <1>4, <2>1, HandleStep
<1>5. CASE m.term > s.term
  <2>1. PICK z : z = OnHigherTerm(s, m)
    OBVIOUS
  <2>2. r = Handle(z, n, m, prev)
    BY <1>1, <1>2, <1>5, <2>1 DEF StepMsg
  <2>3. /\ AgreesAt(h, M, D, n, z, d, w, sent) /\ z.conf # Refused
        /\ z.log = s.log /\ z.commit = s.commit
        /\ m.term = z.term \/ m.type \in {"PreVote", "PreVoteResp"}
    <3>1. CASE m.type \in {"PreVote", "PreVoteResp"} /\ z = s
      BY <3>1
    <3>2. CASE ~(m.type \in {"PreVote", "PreVoteResp"} /\ z = s)
      <4>1. PICK t, f : t = m.term /\ f = IF m.type \in {"Log", "Beat"} THEN m.from ELSE None
        OBVIOUS
      <4>2. z = BecomeFollower(s, t, f)
        BY <2>1, <3>2, <4>1 DEF OnHigherTerm
      <4>3. t \in Nat /\ t >= s.term /\ f \in Ids \cup {None}
        BY <1>1, <1>2, <1>5, <4>1
      <4>4. AgreesAt(h, M, D, n, s, d, w, sent) /\ s.conf # Refused /\ n \in Ids
        OBVIOUS
      <4>5. /\ AgreesAt(h, M, D, n, z, d, w, sent) /\ z.conf # Refused
            /\ z.term = t /\ z.log = s.log /\ z.commit = s.commit
        BY ONLY <4>2, <4>3, <4>4, FollowerStep
      <4> QED
        BY <4>1, <4>5
    <3> QED
      BY <3>1, <3>2
  <2>4. \A x : Sound(n, z, d, w, sent, x) => Sound(n, s, d, w, sent, x)
    BY <2>3 DEF Sound, Retains
  <2>5. Sound(n, z, d, w, sent, r)
    BY <2>2, <2>3, HandleStep
  <2> QED
    BY <2>4, <2>5
<1> QED
  BY <1>1, <1>2, <1>3, <1>4, <1>5

\* MsgProp at the leader.
LEMMA ProposedStep ==
  ASSUME NEW h, NEW M, NEW D, NEW n \in Ids, NEW s, NEW d, NEW w, NEW sent,
         AgreesAt(h, M, D, n, s, d, w, sent), s.conf # Refused, s.state = "leader",
         NEW cc \in ConfChanges \cup {Normal}, NEW r, r = Proposed(s, n, cc)
  PROVE  Sound(n, s, d, w, sent, r)
<1>1. /\ s \in NodeType /\ s.log \in Logs /\ s.commit \in Nat /\ s.commit <= Len(s.log) /\ s.term \in Nat
      /\ Len(s.log) \in Nat
  BY NodeNums
<1>2. PICK c : c = IF cc # Normal /\ ~Refuses(s, cc) THEN cc ELSE Normal
  OBVIOUS
<1>3. c \in ConfChanges \cup {Normal} /\ (c # Normal => s.pending <= s.applied)
  BY <1>1, <1>2 DEF Refuses, NodeType
<1>4. PICK z : z = Grown(s, c)
  OBVIOUS
<1>5. /\ z \in NodeType /\ z.conf = s.conf /\ z.term = s.term /\ z.state = "leader"
      /\ z.commit = s.commit /\ z.log = Longer(s.log, Entry(s.term, c))
      /\ \E g, N : AgreesAt(g, N, D, n, z, d, w, sent) /\ HasAcked(N[n], z.term, Len(z.log))
  BY <1>3, <1>4, AppendStep
<1>6. PICK g, N : AgreesAt(g, N, D, n, z, d, w, sent) /\ HasAcked(N[n], z.term, Len(z.log))
  BY <1>5
<1>7. r = Announced(z, n)
  <2>1. CASE cc # Normal /\ ~Refuses(s, cc)
    <3>1. PICK y : y = [s EXCEPT !.pending = Len(s.log) + 1]
      OBVIOUS
    <3>2. r = AppendEntry(y, n, c) /\ c # Normal
      BY <1>2, <2>1, <3>1 DEF Proposed
    <3>3. PICK v : v = [y EXCEPT !.log = Append(@, Entry(y.term, c))]
      OBVIOUS
    <3>4. r = Announced(v, n)
      BY <3>2, <3>3 DEF AppendEntry, Announced
    <3>5. v = z
      BY <1>1, <1>4, <3>1, <3>2, <3>3 DEF Grown, Longer, NodeType
    <3> QED
      BY <3>4, <3>5
  <2>2. CASE ~(cc # Normal /\ ~Refuses(s, cc))
    <3>1. r = AppendEntry(s, n, c) /\ c = Normal
      BY <1>2, <2>2 DEF Proposed
    <3>2. PICK v : v = [s EXCEPT !.log = Append(@, Entry(s.term, c))]
      OBVIOUS
    <3>3. r = Announced(v, n)
      BY <3>1, <3>2 DEF AppendEntry, Announced
    <3>4. v = z
      BY <1>1, <1>4, <3>1, <3>2 DEF Grown, Longer, NodeType
    <3> QED
      BY <3>3, <3>4
  <2> QED
    BY <2>1, <2>2
<1>8. Retains(s, z)
  <2>1. Entry(s.term, c) \in Entries
    BY <1>1, <1>3 DEF Entry, Entries
  <2>2. Same(s.log, z.log, Len(s.log))
    BY <1>1, <1>5, <2>1, Appended
  <2>3. Same(s.log, z.log, s.commit)
    BY <1>1, <2>2, SameUpTo
  <2> QED
    BY <1>1, <1>5, <2>3 DEF Retains
<1>9. z.conf # Refused /\ z.state = "leader"
  BY <1>5
<1> QED
  BY <1>6, <1>7, <1>8, <1>9, AnnounceStep

\* What only concerns the node's own bookkeeping: the transferee, the leader.
LEMMA QuietStep ==
  ASSUME NEW h, NEW M, NEW D, NEW n \in Ids, NEW s, NEW d, NEW w, NEW sent,
         AgreesAt(h, M, D, n, s, d, w, sent), s.conf # Refused,
         NEW z \in NodeType, Reading(s, z), NEW r, Leaves(r, z, {}, {})
  PROVE  Sound(n, s, d, w, sent, r)
<1>1. AgreesAt(h, M, D, n, z, d, w, sent) /\ z.conf # Refused /\ Retains(s, z)
  BY ReadingStep
<1>2. (w \cup r.after) \cup r.out = w /\ r.s = z
  BY DEF Leaves
<1> QED
  BY <1>1, <1>2 DEF Sound, Reaches

\* MsgReadIndex.
LEMMA ReadIndexStep ==
  ASSUME NEW h, NEW M, NEW D, NEW n \in Ids, NEW s, NEW d, NEW w, NEW sent,
         AgreesAt(h, M, D, n, s, d, w, sent), s.conf # Refused, s.state = "leader",
         NEW id \in ReadIds, NEW r,
         \/ \E x : r = [Quiet(s) EXCEPT !.read = x]
         \/ r = Quiet([s EXCEPT !.waiting = Append(@, id)])
         \/ r = StartReads(s, n, <<id>>)
  PROVE  Sound(n, s, d, w, sent, r)
<1>1. s \in NodeType /\ s.commit \in Nat
  BY NodeNums
<1>2. CASE \E x : r = [Quiet(s) EXCEPT !.read = x]
  <2>1. Leaves(r, s, {}, {}) /\ Reading(s, s)
    BY <1>2 DEF Leaves, Quiet, Result, Reading
  <2> QED
    BY <1>1, <2>1, QuietStep
<1>3. CASE r = Quiet([s EXCEPT !.waiting = Append(@, id)])
  <2>1. PICK q : q = Append(s.waiting, id)
    OBVIOUS
  <2>2. PICK z : z = [s EXCEPT !.waiting = q]
    OBVIOUS
  <2>3. q \in Seq(ReadIds)
    BY <1>1, <2>1 DEF NodeType
  <2>4. z \in NodeType /\ Reading(s, z)
    BY <1>1, <2>2, <2>3 DEF NodeType, Reading
  <2>5. Leaves(r, z, {}, {})
    BY <1>3, <2>1, <2>2 DEF Leaves, Quiet, Result
  <2> QED
    BY <2>4, <2>5, QuietStep
<1>4. CASE r = StartReads(s, n, <<id>>)
  <2>1. PICK q : q = <<id>>
    OBVIOUS
  <2>2. q \in Seq(ReadIds) /\ r = StartReads(s, n, q)
    BY <1>4, <2>1
  <2>3. PICK z : /\ AgreesAt(h, M, D, n, z, d, w, sent) /\ z.conf # Refused /\ z.state = "leader"
                 /\ Reading(s, z) /\ Leaves(r, z, BcastHeartbeat(z, n), {})
    BY <2>2, StartReadsStep
  <2>4. \A x \in BcastHeartbeat(z, n) : LeaderSays(z, n, x)
    BY DEF LeaderSays
  <2>5. Retains(s, z)
    BY <1>1, <2>3, RetainsSame DEF Reading
  <2> QED
    BY <2>3, <2>4, <2>5, LeaderSends
<1> QED
  BY <1>2, <1>3, <1>4

\* MsgBeat and MsgTransferLeader.
LEMMA LeaderInputStep ==
  ASSUME NEW h, NEW M, NEW D, NEW n \in Ids, NEW s, NEW d, NEW w, NEW sent,
         AgreesAt(h, M, D, n, s, d, w, sent), s.conf # Refused, s.state = "leader",
         NEW to \in Ids \cup {None}, NEW r,
         \/ r = Result(s, BcastHeartbeat(s, n), {})
         \/ r = Quiet([s EXCEPT !.transferee = to])
         \/ /\ to \in Ids
            /\ r = Result([s EXCEPT !.transferee = to],
                              IF s.conf.trk[to].match = Len(s.log)
                              THEN {TimeoutNow(s, n, to)} ELSE {}, {})
  PROVE  Sound(n, s, d, w, sent, r)
<1>1. s \in NodeType /\ s.commit \in Nat /\ Retains(s, s) /\ s.term \in Nat
  BY NodeNums
<1>2. CASE r = Result(s, BcastHeartbeat(s, n), {})
  <2>1. Leaves(r, s, BcastHeartbeat(s, n), {}) /\ \A x \in BcastHeartbeat(s, n) : LeaderSays(s, n, x)
    BY <1>2 DEF Leaves, Result, LeaderSays
  <2> QED
    BY <1>1, <2>1, LeaderSends
<1>3. PICK z : z = [s EXCEPT !.transferee = to]
  OBVIOUS
<1>4. z \in NodeType /\ Reading(s, z)
  BY <1>1, <1>3 DEF NodeType, Reading
<1>5. CASE r = Quiet([s EXCEPT !.transferee = to])
  <2>1. Leaves(r, z, {}, {})
    BY <1>3, <1>5 DEF Leaves, Quiet, Result
  <2> QED
    BY <1>4, <2>1, QuietStep
<1>6. CASE /\ to \in Ids
           /\ r = Result([s EXCEPT !.transferee = to],
                              IF s.conf.trk[to].match = Len(s.log)
                              THEN {TimeoutNow(s, n, to)} ELSE {}, {})
  <2>1. PICK x, O : x = TimeoutNow(s, n, to) /\ O = IF s.conf.trk[to].match = Len(s.log) THEN {x} ELSE {}
    OBVIOUS
  <2>2. Leaves(r, z, O, {})
    BY <1>3, <1>6, <2>1 DEF Leaves, Result
  <2>3. x \in Msgs /\ x.from = n /\ x.type = "TimeoutNow" /\ Idle(x)
    BY <1>1, <1>6, <2>1, TimeoutNowTyping
  <2>4. \A q \in O : LeaderSays(z, n, q)
    BY <2>1, <2>3 DEF LeaderSays
  <2>5. AgreesAt(h, M, D, n, z, d, w, sent) /\ z.conf # Refused /\ Retains(s, z) /\ z.state = "leader"
    BY <1>4, ReadingStep DEF Reading
  <2> QED
    BY <2>2, <2>4, <2>5, LeaderSends
<1> QED
  BY <1>2, <1>5, <1>6

\* The node s with its first i entries applied.
At(s, i) == [s EXCEPT !.applied = i]

\* What At leaves alone.
LEMMA AtFields ==
  ASSUME NEW s \in NodeType, NEW i \in Nat, NEW z, z = At(s, i)
  PROVE  /\ z \in NodeType /\ z.applied = i /\ z.term = s.term /\ z.log = s.log
         /\ z.commit = s.commit /\ z.conf = s.conf /\ z.state = s.state
         /\ z.transferee = s.transferee /\ z.pending = s.pending
<1>1. z = [s EXCEPT !.applied = i]
  BY DEF At
<1> QED
  BY <1>1 DEF NodeType

\* How much a node has applied does not matter to what it commits.
LEMMA MaybeCommitAt ==
  ASSUME NEW s \in NodeType, NEW i \in Nat, NEW z, z = At(s, i)
  PROVE  MaybeCommit(z) = At(MaybeCommit(s), i)
<1>1. z.term = s.term /\ z.log = s.log /\ z.commit = s.commit /\ z.conf = s.conf
  BY AtFields
<1>2. Matches(z) = Matches(s)
  BY <1>1 DEF Matches
<1>3. PICK j : j = CommittedIndex(s.conf.in, s.conf.out, Matches(s))
  OBVIOUS
<1>4. j = CommittedIndex(z.conf.in, z.conf.out, Matches(z))
  BY <1>1, <1>2, <1>3
<1>5. MaybeCommit(z) = IF j > s.commit /\ j <= Len(s.log) /\ TermAt(s.log, j) = s.term
                       THEN [z EXCEPT !.commit = j] ELSE z
  BY <1>1, <1>4 DEF MaybeCommit
<1>6. MaybeCommit(s) = IF j > s.commit /\ j <= Len(s.log) /\ TermAt(s.log, j) = s.term
                       THEN [s EXCEPT !.commit = j] ELSE s
  BY <1>3 DEF MaybeCommit
<1>7. [z EXCEPT !.commit = j] = At([s EXCEPT !.commit = j], i)
  BY DEF At, NodeType
<1> QED
  BY <1>5, <1>6, <1>7

Deposed(s, t) == [s EXCEPT !.transferee = t]

\* The entry i after k is committed and changes the configuration of s to c.
Due(s, k, i, c) ==
  /\ k \in Nat /\ i \in Nat /\ i = k + 1 /\ i <= s.commit
  /\ s.conf # Refused /\ IsConf(s.log[i]) /\ c = Changed(s.conf, s.log[i].cc)

\* q is where the switch of s at entry i leads.
Lands(n, s, d, w, sent, i, c, q) ==
  /\ Reaches(n, At(q.s, i), d, w \cup q.out, sent)
  /\ q.s \in NodeType /\ q.s.log = s.log /\ s.commit <= q.s.commit /\ q.s.conf = c
  /\ q.s.state = s.state /\ q.s.applied = s.applied /\ q.after = {}

\* A committed change of the configuration is switched to.
LEMMA SwitchedStep ==
  ASSUME NEW h, NEW M, NEW D, NEW n \in Ids, NEW s \in NodeType, NEW d, NEW w, NEW sent,
         NEW k, NEW i, NEW c, Due(s, k, i, c), NEW y, y = At(s, k),
         AgreesAt(h, M, D, n, y, d, w, sent), NEW q, q = Switched(s, n, c)
  PROVE  Lands(n, s, d, w, sent, i, c, q)
<1> USE DEF Due, Lands
<1>1. /\ y \in NodeType /\ y.applied = k /\ y.log = s.log /\ y.commit = s.commit /\ y.conf = s.conf
      /\ y.state = s.state
  BY AtFields
<1>2. c = NextConf(y)
  <2>1. IsConf(y.log[y.applied + 1]) /\ y.log[y.applied + 1].cc = s.log[i].cc
    BY <1>1
  <2> QED
    BY <1>1, <2>1 DEF NextConf, After
<1>3. s.commit \in Nat /\ y.applied < y.commit
  BY <1>1 DEF NodeType
<1>4. PICK z : z = AppliedNext(y, c)
  OBVIOUS
<1>5. AgreesAt(h, M, D, n, z, d, w, sent) /\ z \in NodeType
  BY <1>2, <1>3, <1>4, ApplyStep
<1>6. PICK s1 : s1 = [s EXCEPT !.conf = c]
  OBVIOUS
<1>7. z.conf = c /\ c \in Confs
  <2>1. z = [y EXCEPT !.applied = y.applied + 1, !.conf = c]
    BY <1>4 DEF AppliedNext
  <2>2. z.conf = c
    BY <1>1, <2>1 DEF NodeType
  <2> QED
    BY <1>5, <2>2 DEF NodeType
<1>8. /\ s1 \in NodeType /\ s1.conf = c /\ s1.log = s.log /\ s1.commit = s.commit /\ s1.state = s.state
      /\ s1.applied = s.applied
  BY <1>6, <1>7 DEF NodeType
<1> HIDE DEF Due, Lands
<1>9. z = At(s1, i)
  <2>1. z = [y EXCEPT !.applied = i, !.conf = c]
    BY <1>1, <1>4 DEF AppliedNext, Due
  <2>2. y = [s EXCEPT !.applied = k]
    BY DEF At
  <2>3. At(s1, i) = [s1 EXCEPT !.applied = i]
    BY DEF At
  <2> QED
    BY <1>6, <2>1, <2>2, <2>3 DEF NodeType
<1> USE DEF Due, Lands
<1>10. CASE \/ s.state # "leader"
            \/ n \notin DOMAIN c.trk \/ c.trk[n].learner
  <2>1. q = Quiet(s1)
    BY <1>6, <1>10 DEF Switched
  <2>2. q.s = s1 /\ q.out = {} /\ q.after = {}
    BY <2>1 DEF Quiet, Result
  <2>3. w \cup q.out = w
    BY <2>2
  <2>4. Reaches(n, z, d, w, sent)
    BY <1>5 DEF Reaches
  <2> QED
    BY <1>3, <1>8, <1>9, <2>2, <2>3, <2>4
<1>11. CASE ~(\/ s.state # "leader"
             \/ n \notin DOMAIN c.trk \/ c.trk[n].learner)
  <2>1. c # Refused /\ z.state = "leader"
    <3>1. c # Refused
      BY <1>11, RefusedConf
    <3>2. z.state = s1.state
      BY <1>8, <1>9, AtFields
    <3> QED
      BY <1>8, <1>11, <3>1, <3>2
  <2>2. PICK x : x = MaybeCommit(z)
    OBVIOUS
  <2>3. /\ \E g : AgreesAt(g, M, D, n, x, d, w, sent)
        /\ x.conf = c /\ x.state = "leader" /\ x.log = z.log /\ z.commit <= x.commit
    BY <1>5, <1>7, <2>1, <2>2, MaybeCommitStep
  <2>4. PICK g : AgreesAt(g, M, D, n, x, d, w, sent)
    BY <2>3
  <2>5. x \in NodeType
    BY <2>4, NodeNums
  <2>6. PICK s0 : s0 = MaybeCommit(s1)
    OBVIOUS
  <2>7. x = At(s0, i)
    BY <1>8, <1>9, <2>2, <2>6, MaybeCommitAt
  <2>8. PICK j : j = CommittedIndex(s1.conf.in, s1.conf.out, Matches(s1))
    OBVIOUS
  <2>9. s0 = [s1 EXCEPT !.commit = j] \/ s0 = s1
    BY <2>6, <2>8 DEF MaybeCommit
  <2>10. s0.applied = s.applied /\ s0.transferee \in Ids \cup {None} /\ s0 \in NodeType
    <3>1. CASE s0 = s1
      BY <1>8, <3>1 DEF NodeType
    <3>2. CASE s0 = [s1 EXCEPT !.commit = j]
      <4>1. x.commit = j
        BY <1>8, <2>7, <3>2 DEF At, NodeType
      <4>2. j \in Nat
        BY <2>5, <4>1 DEF NodeType
      <4> QED
        BY <1>8, <3>2, <4>2 DEF NodeType
    <3> QED
      BY <2>9, <3>1, <3>2
  <2>11. /\ s0.conf = c /\ s0.log = s.log /\ s0.state = s.state
         /\ s0.commit = x.commit /\ s.commit <= x.commit
    <3>1. /\ x.conf = s0.conf /\ x.log = s0.log /\ x.commit = s0.commit /\ x.state = s0.state
      BY <2>7, <2>10, AtFields
    <3>2. z.log = s1.log /\ z.commit = s1.commit
      BY <1>8, <1>9, AtFields
    <3> QED
      BY <1>8, <1>11, <2>3, <3>1, <3>2
  <2>12. PICK t \in Ids \cup {None} : t = IF s0.transferee \in Voters(c) THEN s0.transferee ELSE None
    BY <2>10
  <2>13. PICK s2 : s2 = Deposed(s0, t)
    OBVIOUS
  <2>14. q = Result(s2, {LogMsg(s2, n)}, {})
    <3>1. s2 = [MaybeCommit(s1) EXCEPT !.transferee = IF @ \in Voters(c) THEN @ ELSE None]
      BY <2>6, <2>10, <2>12, <2>13 DEF Deposed
    <3> QED
      BY <1>6, <1>11, <3>1 DEF Switched
  <2>15. /\ s2 \in NodeType /\ s2.conf = c /\ s2.log = s.log /\ s2.state = s.state
         /\ s2.commit = x.commit /\ s2.applied = s.applied
    BY <2>10, <2>11, <2>13 DEF Deposed, NodeType
  <2>16. PICK z2 : z2 = At(s2, i)
    OBVIOUS
  <2>17. z2 = Deposed(x, t)
    BY <2>7, <2>10, <2>13, <2>16 DEF Deposed, At, NodeType
  <2>18. z2 \in NodeType /\ Reading(x, z2)
    BY <2>5, <2>17 DEF Deposed, NodeType, Reading
  <2>19. AgreesAt(g, M, D, n, z2, d, w, sent) /\ z2.conf # Refused /\ z2.state = "leader"
    <3>1. x.conf # Refused
      BY <2>1, <2>3
    <3>2. AgreesAt(g, M, D, n, z2, d, w, sent) /\ z2.conf # Refused
      BY ONLY <2>4, <2>18, <3>1, ReadingStep, n \in Ids
    <3> QED
      BY <2>3, <2>18, <3>2 DEF Reading
  <2>20. LogMsg(z2, n) = LogMsg(s2, n)
    <3>1. z2.term = s2.term /\ z2.conf = s2.conf /\ z2.log = s2.log /\ z2.commit = s2.commit
      BY <2>15, <2>16, AtFields
    <3> QED
      BY <3>1 DEF LogMsg
  <2>21. PICK out : out = {LogMsg(s2, n)}
    OBVIOUS
  <2>22. PICK r : r = Result(z2, out, {})
    OBVIOUS
  <2>23. Leaves(r, z2, out, {}) /\ \A m \in out : LeaderSays(z2, n, m)
    BY <2>20, <2>21, <2>22 DEF Leaves, Result, LeaderSays
  <2>24. Retains(z2, z2)
    BY <2>19, NodeNums
  <2>25. Sound(n, z2, d, w, sent, r)
    BY ONLY <2>19, <2>23, <2>24, LeaderSends, n \in Ids
  <2>26. Reaches(n, z2, d, w \cup out, sent)
    <3>1. r.s = z2 /\ r.out = out /\ r.after = {}
      BY <2>23 DEF Leaves
    <3>2. (w \cup r.after) \cup r.out = w \cup out
      BY <3>1
    <3> QED
      BY <2>25, <3>1, <3>2 DEF Sound
  <2>27. q.s = s2 /\ q.out = out /\ q.after = {}
    BY <2>14, <2>21 DEF Result
  <2> QED
    BY <2>11, <2>15, <2>16, <2>26, <2>27
<1> QED
  BY <1>10, <1>11

-----------------------------------------------------------------------------
(* Applied's loop. *)

\* Entry i applied after r.
Stepped(s, n, r, i) ==
  IF ~IsConf(s.log[i]) \/ r.s.conf = Refused THEN r
  ELSE LET q == Switched(r.s, n, Changed(r.s.conf, s.log[i].cc))
       IN  [q EXCEPT !.out = @ \cup r.out]

IsLoop(f, s, n, j) ==
  f = [i \in s.applied .. j |-> IF i = s.applied THEN Quiet(s) ELSE Stepped(s, n, f[i - 1], i)]

\* r is where node s gets to with its first i entries applied.
Midway(s, n, d, w, sent, r, i) ==
  /\ Reaches(n, At(r.s, i), d, w \cup r.out, sent)
  /\ r.s \in NodeType /\ r.s.log = s.log /\ s.commit <= r.s.commit
  /\ r.s.state = s.state /\ r.s.applied = s.applied
  /\ r = Result(r.s, r.out, {})

\* One entry.
LEMMA MidwayStep ==
  ASSUME NEW n \in Ids, NEW s \in NodeType, NEW d, NEW w, NEW sent,
         NEW i \in Nat, i > 0, i <= s.commit, NEW r, Midway(s, n, d, w, sent, r, i - 1),
         NEW p, p = Stepped(s, n, r, i)
  PROVE  Midway(s, n, d, w, sent, p, i)
<1>0. i - 1 \in Nat /\ (i - 1) + 1 = i /\ s.commit \in Nat /\ s.applied \in Nat
  BY DEF NodeType
<1>r. PICK x, ro : x = r.s /\ ro = r.out
  OBVIOUS
<1>1. PICK y : y = At(x, i - 1)
  OBVIOUS
<1>2. PICK h, M, D : AgreesAt(h, M, D, n, y, d, w \cup ro, sent)
  BY <1>r, <1>1 DEF Midway, Reaches
<1>3. /\ x \in NodeType /\ x.log = s.log /\ s.commit <= x.commit
      /\ x.state = s.state /\ x.applied = s.applied /\ r = Result(x, ro, {})
      /\ x.commit \in Nat
  BY <1>r DEF Midway, NodeType
<1>4. /\ y \in NodeType /\ y.applied = i - 1 /\ y.log = s.log /\ y.commit = x.commit
      /\ y.conf = x.conf
  <2>1. x \in NodeType /\ i - 1 \in Nat /\ y = At(x, i - 1) /\ x.log = s.log
    BY <1>0, <1>1, <1>3
  <2> QED
    BY ONLY <2>1, AtFields
<1>5. i <= x.commit
  BY <1>0, <1>3
<1>6. CASE ~IsConf(s.log[i]) \/ x.conf = Refused
  <2>1. p = r
    BY <1>r, <1>6 DEF Stepped
  <2>2. NextConf(y) = x.conf
    <3>1. y.log[y.applied + 1] = s.log[i]
      BY <1>0, <1>4
    <3> QED
      BY <1>4, <1>6, <3>1 DEF NextConf, After
  <2>3. PICK z : z = AppliedNext(y, x.conf)
    OBVIOUS
  <2>4. y.applied < y.commit
    BY <1>0, <1>4, <1>5, <1>3
  <2>5. AgreesAt(h, M, D, n, z, d, w \cup ro, sent)
    BY <1>2, <2>2, <2>3, <2>4, ApplyStep
  <2>6. z = At(x, i)
    <3>1. z = [y EXCEPT !.applied = i, !.conf = x.conf]
      BY <1>0, <1>4, <2>3 DEF AppliedNext
    <3> QED
      BY <1>1, <1>3, <3>1 DEF At, NodeType
  <2> QED
    BY <1>r, <1>3, <2>1, <2>5, <2>6 DEF Midway, Reaches
<1>7. CASE ~(~IsConf(s.log[i]) \/ x.conf = Refused)
  <2>1. PICK c : c = Changed(x.conf, s.log[i].cc)
    OBVIOUS
  <2>2. PICK q : q = Switched(x, n, c)
    OBVIOUS
  <2>3. p = [q EXCEPT !.out = @ \cup ro]
    BY <1>r, <1>7, <2>1, <2>2 DEF Stepped
  <2>4. x.conf # Refused /\ IsConf(x.log[i]) /\ c = Changed(x.conf, x.log[i].cc)
    BY <1>3, <1>7, <2>1
  <2>5. /\ Reaches(n, At(q.s, i), d, (w \cup ro) \cup q.out, sent)
        /\ q.s \in NodeType /\ q.s.log = x.log /\ x.commit <= q.s.commit
        /\ q.s.state = x.state /\ q.s.applied = x.applied /\ q.after = {}
    <3>0. PICK v, k : v = w \cup ro /\ k = i - 1
      OBVIOUS
    <3>a. Due(x, k, i, c)
      BY <1>0, <1>5, <2>4, <3>0 DEF Due
    <3>1. /\ x \in NodeType /\ n \in Ids /\ y = At(x, k) /\ AgreesAt(h, M, D, n, y, d, v, sent)
          /\ q = Switched(x, n, c)
      BY <1>1, <1>2, <1>3, <2>2, <3>0
    <3>2. Lands(n, x, d, v, sent, i, c, q)
      BY ONLY <3>a, <3>1, SwitchedStep, Zenon
    <3> QED
      BY <3>0, <3>2 DEF Lands
  <2>6. \E s2, out : q = Result(s2, out, {})
    BY <2>2 DEF Switched, Quiet
  <2>7. p.s = q.s /\ p.out = q.out \cup ro /\ p = Result(p.s, p.out, {})
    <3>1. PICK s2, out : q = Result(s2, out, {})
      BY <2>6
    <3>2. p = Result(s2, out \cup ro, {})
      BY <2>3, <3>1 DEF Result
    <3>3. q.s = s2 /\ q.out = out /\ p.s = s2 /\ p.out = out \cup ro
      BY <3>1, <3>2 DEF Result
    <3> QED
      BY <3>2, <3>3
  <2>8. (w \cup ro) \cup q.out = w \cup p.out
    BY <2>7
  <2>9. q.s.commit \in Nat
    BY <2>5 DEF NodeType
  <2>10. s.commit <= q.s.commit
    BY <1>0, <1>3, <2>5, <2>9
  <2> QED
    BY <1>3, <2>5, <2>7, <2>8, <2>10 DEF Midway
<1> QED
  BY <1>6, <1>7

\* The loop has values.
LEMMA LoopExists ==
  ASSUME NEW s \in NodeType, NEW n, s.applied <= s.commit
  PROVE  \E f : IsLoop(f, s, n, s.commit)
<1>0. PICK a, b : a = s.applied /\ b = s.commit /\ a \in Nat /\ b \in Nat /\ a <= b
  BY DEF NodeType
<1> DEFINE T == {k \in 0 .. b - a : \E f : IsLoop(f, s, n, a + k)}
<1>1. 0 \in T
  <2> DEFINE g == [i \in a .. a |-> Quiet(s)]
  <2>1. g = [i \in a .. a |-> IF i = a THEN Quiet(s) ELSE Stepped(s, n, g[i - 1], i)]
    BY <1>0
  <2>2. IsLoop(g, s, n, a + 0)
    BY <1>0, <2>1 DEF IsLoop
  <2> QED
    BY <1>0, <2>2
<1>2. ASSUME NEW k \in 1 .. b - a, k - 1 \in T PROVE k \in T
  <2>1. PICK f : IsLoop(f, s, n, a + (k - 1))
    BY <1>2
  <2>0. a + k \in Nat /\ (a + k) - 1 = a + (k - 1) /\ a < a + k
    BY <1>0
  <2>2. PICK j : j = a + k /\ j \in Nat /\ j - 1 = a + (k - 1) /\ a < j
    BY <2>0
  <2>3. f = [i \in a .. j - 1 |-> IF i = a THEN Quiet(s) ELSE Stepped(s, n, f[i - 1], i)]
    BY <1>0, <2>1, <2>2 DEF IsLoop
  <2> DEFINE g == [i \in a .. j |-> IF i = j THEN Stepped(s, n, f[j - 1], j) ELSE f[i]]
  <2>4. \A i \in a .. j - 1 : g[i] = f[i]
    BY <1>0, <2>2
  <2>5. \A i \in a .. j : g[i] = IF i = a THEN Quiet(s) ELSE Stepped(s, n, g[i - 1], i)
    <3> SUFFICES ASSUME NEW i \in a .. j
                 PROVE  g[i] = IF i = a THEN Quiet(s) ELSE Stepped(s, n, g[i - 1], i)
      OBVIOUS
    <3>1. CASE i = j
      <4>1. g[i] = Stepped(s, n, f[j - 1], j)
        BY <3>1
      <4>2. g[j - 1] = f[j - 1]
        BY <1>0, <2>2, <2>4
      <4> QED
        BY <2>2, <3>1, <4>1, <4>2
    <3>2. CASE i # j
      <4>1. i \in a .. j - 1
        BY <1>0, <2>2, <3>2
      <4>2. g[i] = IF i = a THEN Quiet(s) ELSE Stepped(s, n, f[i - 1], i)
        BY <2>3, <2>4, <4>1
      <4>3. i # a => i - 1 \in a .. j - 1
        BY <1>0, <2>2, <4>1
      <4>4. i # a => g[i - 1] = f[i - 1]
        BY <2>4, <4>3
      <4> QED
        BY <4>2, <4>4
    <3> QED
      BY <3>1, <3>2
  <2>6. g = [i \in a .. j |-> IF i = a THEN Quiet(s) ELSE Stepped(s, n, g[i - 1], i)]
    BY <2>5
  <2> HIDE DEF g
  <2>7. IsLoop(g, s, n, a + k)
    BY <1>0, <2>2, <2>6 DEF IsLoop
  <2> QED
    BY <2>7
<1> HIDE DEF T
<1>3. b - a \in Nat /\ a + (b - a) = b
  BY <1>0
<1>4. \A k \in 0 .. b - a : k \in T
  BY <1>1, <1>2, <1>3, UpTo, Zenon
<1>5. b - a \in T
  BY <1>3, <1>4
<1> QED
  BY <1>0, <1>3, <1>5 DEF T

\* r is where the committed entries take s.
AppliedTo(n, s, d, w, sent, r) ==
  /\ Reaches(n, r.s, d, w \cup r.out, sent)
  /\ r.s.applied = s.commit /\ r.s.log = s.log /\ s.commit <= r.s.commit
  /\ r.s.state = s.state

\* The committed entries are applied.
LEMMA AppliedStep ==
  ASSUME NEW h, NEW M, NEW D, NEW n \in Ids, NEW s, NEW d, NEW w, NEW sent,
         AgreesAt(h, M, D, n, s, d, w, sent), NEW r, r = Applied(s, n)
  PROVE  AppliedTo(n, s, d, w, sent, r)
<1>0. s \in NodeType /\ s.applied \in Nat /\ s.commit \in Nat /\ s.applied <= s.commit
  BY NodeNums
<1> DEFINE F(f) == IsLoop(f, s, n, s.commit)
           f == CHOOSE x : F(x)
<1>1. F(f)
  <2>1. \E x : F(x)
    BY <1>0, LoopExists
  <2> QED
    BY <2>1
<1>2. r = [f[s.commit] EXCEPT !.s.applied = s.commit]
  BY DEF Applied, F, IsLoop, Stepped
<1> HIDE DEF F, f
<1>3. PICK a, b : a = s.applied /\ b = s.commit /\ a \in Nat /\ b \in Nat /\ a <= b
  BY <1>0
<1>4. /\ f[a] = Quiet(s)
      /\ \A i \in a + 1 .. b : f[i] = Stepped(s, n, f[i - 1], i)
  <2>1. f = [i \in a .. b |-> IF i = a THEN Quiet(s) ELSE Stepped(s, n, f[i - 1], i)]
    BY <1>1, <1>3 DEF F, IsLoop
  <2> QED
    BY <1>3, <2>1
<1> DEFINE T == {k \in 0 .. b - a : Midway(s, n, d, w, sent, f[a + k], a + k)}
<1>5. 0 \in T
  <2>1. PICK e : e = f[a]
    OBVIOUS
  <2>2. e.s = s /\ e.out = {} /\ e.after = {} /\ e = Result(e.s, e.out, {})
    BY <1>4, <2>1 DEF Quiet, Result
  <2>3. At(s, a) = s
    BY <1>0, <1>3 DEF At, NodeType
  <2>4. w \cup e.out = w
    BY <2>2
  <2>5. Reaches(n, At(e.s, a), d, w \cup e.out, sent)
    BY <2>2, <2>3, <2>4 DEF Reaches
  <2>6. Midway(s, n, d, w, sent, e, a)
    BY <1>0, <2>2, <2>5 DEF Midway
  <2>7. a + 0 = a
    BY <1>3
  <2> QED
    BY <1>3, <2>1, <2>6, <2>7
<1>6. ASSUME NEW k \in 1 .. b - a, k - 1 \in T PROVE k \in T
  <2>1. PICK j : j = a + k /\ j \in Nat /\ j > 0 /\ j <= b /\ j - 1 = a + (k - 1) /\ j \in a + 1 .. b
    BY <1>3
  <2>2. Midway(s, n, d, w, sent, f[j - 1], j - 1)
    BY <1>6, <2>1
  <2>3. f[j] = Stepped(s, n, f[j - 1], j)
    BY <1>4, <2>1
  <2>4. Midway(s, n, d, w, sent, f[j], j)
    BY <1>0, <1>3, <2>1, <2>2, <2>3, MidwayStep
  <2> QED
    BY <2>1, <2>4
<1> HIDE DEF T
<1>7. b - a \in Nat /\ a + (b - a) = b
  BY <1>3
<1>8. \A k \in 0 .. b - a : k \in T
  BY <1>5, <1>6, <1>7, UpTo, Zenon
<1>9. b - a \in T
  BY <1>7, <1>8
<1>10. PICK e : e = f[b] /\ Midway(s, n, d, w, sent, e, b)
  BY <1>7, <1>9 DEF T
<1>11. PICK es, eo : e = Result(es, eo, {}) /\ e.s = es /\ e.out = eo
  BY <1>10 DEF Midway
<1>12. es \in NodeType
  BY <1>10, <1>11 DEF Midway
<1>13. r.s = At(es, b) /\ r.out = eo
  <2>1. r = [Result(es, eo, {}) EXCEPT !.s.applied = b]
    BY <1>2, <1>3, <1>10, <1>11
  <2> QED
    BY <1>12, <2>1 DEF Result, At
<1>14. /\ r.s.applied = b /\ r.s.log = es.log /\ r.s.commit = es.commit /\ r.s.state = es.state
  BY <1>3, <1>12, <1>13, AtFields
<1> QED
  BY <1>3, <1>10, <1>11, <1>13, <1>14 DEF Midway, AppliedTo

-----------------------------------------------------------------------------
(* Ready. *)

\* The change that leaves a joint configuration is one.
LEMMA LeaveTyping == LeaveChange \in ConfChanges
<1>1. << >> \in Seq(Singles)
  OBVIOUS
<1> QED
  BY <1>1 DEF LeaveChange, Change, ConfChanges

\* A configuration that is not refused is not stored as a refused one.
LEMMA StoredConf ==
  ASSUME NEW c, c.in # {} PROVE ConfState(c) # ConfState(Refused)
<1>1. ConfState(c).in = c.in /\ ConfState(Refused).in = Refused.in
  BY DEF ConfState
<1> QED
  BY <1>1, RefusedConf

\* What is on disk after a Ready that applied up to r1.
Flushed(s, z) ==
  [term |-> s.term, vote |-> s.vote, log |-> s.log, commit |-> s.commit,
   applied |-> z.applied, cs |-> ConfState(z.conf)]

\* The application applies what is committed, or is late.
LEMMA ReadyApplies ==
  ASSUME NEW h, NEW M, NEW D, NEW n \in Ids, NEW s, NEW d, NEW w, NEW sent,
         AgreesAt(h, M, D, n, s, d, w, sent), s.conf # Refused,
         NEW sent2, SentOut(sent2, sent, w),
         NEW r, r = Quiet(s) \/ r = Applied(s, n), NEW e, e = Flushed(s, r.s)
  PROVE  Reaches(n, r.s, e, r.out, sent2)
<1>1. PICK E : AgreesAt(h, M, E, n, s, Stored(s), {}, sent2)
  BY WriteStep
<1>2. PICK f : f = Stored(s)
  OBVIOUS
<1>3. /\ Reaches(n, r.s, f, r.out, sent2)
      /\ r.s.log = s.log /\ r.s.applied <= s.commit
  <2>1. CASE r = Quiet(s)
    <3>1. r.s = s /\ r.out = {}
      BY <2>1 DEF Quiet, Result
    <3>2. s.applied <= s.commit
      BY NodeNums
    <3> QED
      BY <1>1, <1>2, <3>1, <3>2 DEF Reaches
  <2>2. CASE r = Applied(s, n)
    <3>1. PICK v : v = {}
      OBVIOUS
    <3>2. AgreesAt(h, M, E, n, s, f, v, sent2)
      BY <1>1, <1>2, <3>1
    <3>3. /\ Reaches(n, r.s, f, v \cup r.out, sent2)
          /\ r.s.applied = s.commit /\ r.s.log = s.log
      <4>1. AppliedTo(n, s, f, v, sent2, r)
        BY ONLY <2>2, <3>2, AppliedStep, n \in Ids
      <4> QED
        BY <4>1 DEF AppliedTo
    <3>4. v \cup r.out = r.out
      BY <3>1
    <3>5. s.commit \in Nat
      BY NodeNums
    <3> QED
      BY <3>3, <3>4, <3>5
  <2> QED
    BY <2>1, <2>2
<1>4. PICK z, v : z = r.s /\ v = r.out
  OBVIOUS
<1>5. PICK g, N, F : AgreesAt(g, N, F, n, z, f, v, sent2)
  BY <1>3, <1>4 DEF Reaches
<1>6. z \in NodeType /\ z.applied \in Nat /\ NodeOk(g, N, F, n, z, f)
  BY <1>5, NodeNums, AtFacts
<1>7. z.conf \in Confs /\ (z.conf = Refused \/ ConfOk(z.log, z.applied, z.conf))
  BY <1>6 DEF NodeType, NodeOk
<1>8. f.log = s.log /\ f.commit = s.commit
  BY <1>2 DEF Stored
<1>9. PICK a, c : a = z.applied /\ c = z.conf
  OBVIOUS
<1>10. a \in Nat /\ a <= f.commit /\ c \in Confs /\ (c = Refused \/ ConfOk(f.log, a, c))
  BY <1>3, <1>4, <1>6, <1>7, <1>8, <1>9
<1>11. AgreesAt(g, N, F, n, z, AppliedOn(f, a, c), v, sent2)
  BY ONLY <1>5, <1>10, DiskStep, n \in Ids
<1>12. AppliedOn(f, a, c) = e
  <2>1. PICK x, y : x = ConfState(c) /\ y = ConfState(s.conf)
    OBVIOUS
  <2>2. f = [term |-> s.term, vote |-> s.vote, log |-> s.log, commit |-> s.commit,
             applied |-> s.applied, cs |-> y]
    BY <1>2, <2>1 DEF Stored
  <2>3. AppliedOn(f, a, c) = [f EXCEPT !.applied = a, !.cs = x]
    BY <2>1 DEF AppliedOn
  <2>4. e = [term |-> s.term, vote |-> s.vote, log |-> s.log, commit |-> s.commit,
             applied |-> a, cs |-> x]
    BY <1>4, <1>9, <2>1 DEF Flushed
  <2> QED
    BY <2>2, <2>3, <2>4
<1> QED
  BY <1>4, <1>11, <1>12 DEF Reaches

\* A Ready of s applies up to r1, proposes in r2, and leaves e on disk and v held.
IsReady(s, n, r1, r2, e, v) ==
  /\ r1 = Quiet(s) \/ r1 = Applied(s, n)
  /\ r2 = Quiet(r1.s) \/ (AutoLeaves(r1.s, n) /\ r2 = Proposed(r1.s, n, LeaveChange))
  /\ e = Flushed(s, r1.s)
  /\ v = r2.after \cup (r1.out \cup r2.out)

\* A Ready, and the leader's own proposal to leave the joint configuration.
LEMMA ReadyStep ==
  ASSUME NEW h, NEW M, NEW D, NEW n \in Ids, NEW s, NEW d, NEW w, NEW sent,
         AgreesAt(h, M, D, n, s, d, w, sent), s.conf # Refused,
         NEW sent2, SentOut(sent2, sent, w),
         NEW r1, NEW r2, NEW e, NEW v, IsReady(s, n, r1, r2, e, v)
  PROVE  /\ Reaches(n, r2.s, e, v, sent2)
         /\ r1.s.conf # Refused => r2.s.conf # Refused /\ e.cs # ConfState(Refused)
<1> USE DEF IsReady
<1>1. Reaches(n, r1.s, e, r1.out, sent2)
  BY ReadyApplies
<1>2. PICK z, o : z = r1.s /\ o = r1.out
  OBVIOUS
<1>3. PICK g, N, F : AgreesAt(g, N, F, n, z, e, o, sent2)
  BY <1>1, <1>2 DEF Reaches
<1>4. z.conf # Refused => e.cs # ConfState(Refused)
  <2> SUFFICES ASSUME z.conf # Refused PROVE e.cs # ConfState(Refused)
    OBVIOUS
  <2>1. z.conf.in # {}
    BY <1>3, NodeConf
  <2>2. e.cs = ConfState(z.conf)
    BY <1>2 DEF Flushed
  <2> QED
    BY <2>1, <2>2, StoredConf
<1>5. CASE r2 = Quiet(z)
  <2>1. r2.s = z /\ r2.out = {} /\ r2.after = {}
    BY <1>5 DEF Quiet, Result
  <2>2. v = o
    BY <1>2, <2>1
  <2> QED
    BY <1>2, <1>3, <1>4, <2>1, <2>2 DEF Reaches
<1>6. CASE AutoLeaves(z, n) /\ r2 = Proposed(z, n, LeaveChange)
  <2>1. z.conf.auto /\ z.state = "leader"
    BY <1>6 DEF AutoLeaves, MayPropose
  <2>2. z.conf # Refused
    BY <2>1, RefusedConf
  <2>3. PICK cc \in ConfChanges \cup {Normal} : cc = LeaveChange
    BY LeaveTyping
  <2>4. r2 = Proposed(z, n, cc)
    BY <1>6, <2>3
  <2>5. Sound(n, z, e, o, sent2, r2)
    BY ONLY <1>3, <2>1, <2>2, <2>3, <2>4, ProposedStep, n \in Ids
  <2>6. (o \cup r2.after) \cup r2.out = v
    BY <1>2
  <2> QED
    BY <1>2, <1>4, <2>5, <2>6 DEF Sound
<1> QED
  BY <1>2, <1>5, <1>6

-----------------------------------------------------------------------------
(* The inputs of a follower and the leader's timers. *)

\* MsgForgetLeader.
LEMMA ForgetStep ==
  ASSUME NEW h, NEW M, NEW D, NEW n \in Ids, NEW s, NEW d, NEW w, NEW sent,
         AgreesAt(h, M, D, n, s, d, w, sent), s.conf # Refused,
         NEW r, r = Quiet([s EXCEPT !.lead = None])
  PROVE  Sound(n, s, d, w, sent, r)
<1>1. s \in NodeType
  BY NodeNums
<1>2. PICK z : z = [s EXCEPT !.lead = None]
  OBVIOUS
<1>3. z \in NodeType /\ Reading(s, z)
  BY <1>1, <1>2 DEF NodeType, Reading
<1>4. Leaves(r, z, {}, {})
  BY <1>2 DEF Leaves, Quiet, Result
<1> QED
  BY <1>3, <1>4, QuietStep

\* A leader without an active quorum steps down.
LEMMA CheckQuorumStep ==
  ASSUME NEW h, NEW M, NEW D, NEW n \in Ids, NEW s, NEW d, NEW w, NEW sent,
         AgreesAt(h, M, D, n, s, d, w, sent), s.conf # Refused,
         NEW r, r = Quiet(BecomeFollower(s, s.term, None))
  PROVE  Sound(n, s, d, w, sent, r)
<1>1. s \in NodeType /\ s.term \in Nat /\ s.commit \in Nat
  BY NodeNums
<1>2. PICK z, t, lead : z = BecomeFollower(s, t, lead) /\ t = s.term /\ lead = None
  OBVIOUS
<1>3. t \in Nat /\ t >= s.term /\ lead \in Ids \cup {None}
  BY <1>1, <1>2
<1>4. /\ AgreesAt(h, M, D, n, z, d, w, sent) /\ z.conf # Refused
      /\ z.log = s.log /\ z.commit = s.commit
  BY <1>2, <1>3, FollowerStep
<1>5. Retains(s, z)
  BY <1>1, <1>4, RetainsSame
<1>6. r = Quiet(z)
  BY <1>2
<1> QED
  BY <1>4, <1>5, <1>6, SoundQuiet

-----------------------------------------------------------------------------
(* The whole cluster. *)

Typed ==
  node \in [Ids -> NodeType] /\ disk \in [Ids -> DiskType] /\ held \in [Ids -> SUBSET Msgs]

\* No node is at a refused change.
Unrefused == \A n \in Ids : node[n].conf # Refused /\ disk[n].cs # ConfState(Refused)

RaftInv ==
  /\ Typed
  /\ setup \in DOMAIN Setups
  /\ \E h, M, D : Agrees(h, M, D)
  /\ ~panicked => Unrefused

\* The cluster as one node sees it.
LEMMA Zoom ==
  ASSUME NEW h, NEW M, NEW D, Agrees(h, M, D), NEW n \in Ids
  PROVE  AgreesAt(h, M, D, n, node[n], disk[n], held[n], net)
<1>1. \A m \in net : m \in Msgs /\ MsgOk(h, D, disk[m.from], D[m.from], m)
  BY DEF Agrees
<1>2. \A m \in net :
        m \in Msgs /\ MsgOk(h, D, IF m.from = n THEN disk[n] ELSE disk[m.from], D[m.from], m)
  BY <1>1
<1> QED
  BY <1>2 DEF Agrees, AgreesAt

\* The step of one node is a step of the cluster.
LEMMA PutBack ==
  ASSUME Typed, NEW n \in Ids, NEW s, NEW d, NEW w, Reaches(n, s, d, w, net'),
         node' = [node EXCEPT ![n] = s], disk' = [disk EXCEPT ![n] = d],
         held' = [held EXCEPT ![n] = w]
  PROVE  Typed' /\ \E h, M, D : Agrees(h, M, D)'
<1>1. PICK h, M, D : AgreesAt(h, M, D, n, s, d, w, net')
  BY DEF Reaches
<1>2. s \in NodeType /\ d \in DiskType /\ w \in SUBSET Msgs
  BY <1>1, AtFacts
<1>3. /\ node'[n] = s /\ disk'[n] = d /\ held'[n] = w
      /\ \A l \in Ids \ {n} : node'[l] = node[l] /\ disk'[l] = disk[l] /\ held'[l] = held[l]
  BY DEF Typed
<1>4. Typed'
  BY <1>2 DEF Typed
<1>5. \A l \in Ids : ActorOk(h, M, D, l, node'[l], disk'[l], held'[l], net')
  <2> SUFFICES ASSUME NEW l \in Ids
               PROVE  ActorOk(h, M, D, l, node'[l], disk'[l], held'[l], net')
    OBVIOUS
  <2>1. CASE l = n
    BY <1>1, <1>3, <2>1 DEF AgreesAt
  <2>2. CASE l # n
    BY <1>1, <1>3, <2>2 DEF AgreesAt
  <2> QED
    BY <2>1, <2>2
<1>6. \A m \in net' : m \in Msgs /\ MsgOk(h, D, disk'[m.from], D[m.from], m)
  <2> SUFFICES ASSUME NEW m \in net'
               PROVE  m \in Msgs /\ MsgOk(h, D, disk'[m.from], D[m.from], m)
    OBVIOUS
  <2>1. /\ m \in Msgs /\ (m.from = n => MsgOk(h, D, d, D[n], m))
        /\ m.from # n => MsgOk(h, D, disk[m.from], D[m.from], m)
    BY <1>1, SentFacts
  <2>2. m.from \in Ids
    BY <2>1, MsgFacts
  <2> QED
    BY <1>3, <2>1, <2>2
<1>7. Agrees(h, M, D)'
  BY <1>1, <1>5, <1>6 DEF Agrees, AgreesAt
<1> QED
  BY <1>4, <1>7

\* A node that has handled an input soundly; it panics at a refused change only.
LEMMA BecomesStep ==
  ASSUME ~Async, RaftInv, NEW n \in Ids, NEW r, Becomes(n, r),
         Sound(n, node[n], disk[n], held[n], net, r), ~panicked
  PROVE  RaftInv' /\ ~Panics(node[n], r.s)
<1>1. /\ node' = [node EXCEPT ![n] = r.s] /\ disk' = disk /\ setup' = setup
      /\ held' = [held EXCEPT ![n] = (held[n] \cup r.after) \cup r.out]
      /\ net' \subseteq net
  BY DEF Becomes, Sends, RaftInv, Typed
<1>2. PICK s, d, w : s = r.s /\ d = disk[n] /\ w = (held[n] \cup r.after) \cup r.out
  OBVIOUS
<1>3. PICK h, M, D : AgreesAt(h, M, D, n, s, d, w, net)
  BY <1>2 DEF Sound, Reaches
<1>4. Reaches(n, s, d, w, net')
  <2>1. PICK sent2 : sent2 = net' /\ sent2 \subseteq net
    BY <1>1
  <2>2. AgreesAt(h, M, D, n, s, d, w, sent2)
    BY <1>3, <2>1, SentLess
  <2> QED
    BY <2>1, <2>2 DEF Reaches
<1>5. disk' = [disk EXCEPT ![n] = d] /\ node' = [node EXCEPT ![n] = s] /\ held' = [held EXCEPT ![n] = w]
  BY <1>1, <1>2 DEF RaftInv, Typed
<1>6. Typed
  BY DEF RaftInv
<1>7. Typed' /\ \E g, N, E : Agrees(g, N, E)'
  BY <1>4, <1>5, <1>6, PutBack
<1>8. Unrefused'
  <2>1. s.conf # Refused /\ Unrefused
    BY <1>2 DEF Sound, RaftInv
  <2>2. \A l \in Ids : node'[l] = IF l = n THEN s ELSE node[l]
    BY <1>5, <1>6 DEF Typed
  <2> QED
    BY <1>1, <2>1, <2>2 DEF Unrefused
<1>9. RaftInv'
  BY <1>1, <1>7, <1>8 DEF RaftInv
<1>10. ~Panics(node[n], s)
  <2>1. /\ s.commit \in Nat /\ s.commit <= Len(s.log) /\ Len(s.log) \in Nat
    BY <1>3, NodeNums
  <2>2. node[n].commit <= s.commit /\ Same(node[n].log, s.log, node[n].commit)
    BY <1>2 DEF Sound, Retains
  <2>3. node[n].commit \in Nat
    BY <1>6 DEF Typed, NodeType
  <2>4. PICK b, X, Y : b = node[n].commit /\ X = node[n].log /\ Y = s.log
    OBVIOUS
  <2>5. \A i \in 1 .. b : i <= Len(Y) /\ Y[i] = X[i]
    BY <2>1, <2>2, <2>3, <2>4 DEF Same
  <2> QED
    BY <2>1, <2>4, <2>5 DEF Panics
<1> QED
  BY <1>2, <1>9, <1>10

\* A slice of a MsgApp is as sound as the whole of it.
LEMMA CutFacts ==
  ASSUME NEW m \in Msgs, NEW last \in 0 .. IF m.type = "Log" THEN Len(m.log) ELSE 0,
         NEW x, x = Cut(m, last)
  PROVE  /\ x \in Msgs /\ x.type = m.type /\ x.from = m.from /\ x.to = m.to
         /\ m.type # "Log" => x = m
         /\ m.type = "Log" => /\ Len(x.log) = last /\ Len(x.log) <= Len(m.log)
                              /\ Same(m.log, x.log, last) /\ x.log \in Logs
         /\ \A h, D, s, v : HistOk(h, D) /\ MsgOk(h, D, s, v, m) => MsgOk(h, D, s, v, x)
<1>1. CASE m.type # "Log"
  BY <1>1 DEF Cut
<1>2. CASE m.type = "Log"
  <2>1. m.log \in Logs /\ m.commit \in Nat /\ Len(m.log) \in Nat /\ m.term \in Nat /\ last \in Nat
        /\ last <= Len(m.log)
    BY <1>2, MsgFacts, LogFacts
  <2>2. PICK L : L = SubSeq(m.log, 1, last)
    OBVIOUS
  <2>3. L \in Logs /\ Len(L) = last /\ Same(m.log, L, last) /\ Same(L, m.log, last)
    <3>1. L \in Logs /\ Len(L) = last /\ \A i \in 1 .. last : L[i] = m.log[i]
      BY <2>1, <2>2 DEF Logs
    <3> QED
      BY <3>1 DEF Same
  <2>4. x = [m EXCEPT !.log = L]
    BY <1>2, <2>2 DEF Cut
  <2>5. /\ x \in Msgs /\ x.type = "Log" /\ x.from = m.from /\ x.to = m.to /\ x.term = m.term
        /\ x.log = L /\ x.commit = m.commit
    BY <1>2, <2>3, <2>4 DEF Msgs
  <2>6. ASSUME NEW h, NEW D, NEW s, NEW v, HistOk(h, D), MsgOk(h, D, s, v, m)
        PROVE  MsgOk(h, D, s, v, x)
    <3>1. PICK t, X, b, k : /\ t = m.term /\ X = m.log /\ b = MinOf(m.commit, Len(m.log))
                            /\ k = MinOf(m.commit, last)
      OBVIOUS
    <3>2. /\ t \in h.won /\ Len(X) <= Len(h.log[t]) /\ Same(X, h.log[t], Len(X))
          /\ Committed(h, t, X, b) /\ OneConf(X, b, Len(X))
      BY <1>2, <2>6, <3>1 DEF MsgOk
    <3>3. /\ b \in Nat /\ k \in Nat /\ k <= b /\ k <= last /\ (k = b \/ k = last)
          /\ t \in Nat /\ t <= t /\ Len(X) \in Nat /\ last <= Len(X)
      BY <2>1, <3>1 DEF MinOf
    <3>4. Len(L) <= Len(h.log[t]) /\ Same(L, h.log[t], last)
      <4>1. Same(X, h.log[t], last) /\ Len(h.log[t]) \in Nat
        BY <2>1, <2>6, <3>2, <3>3, SameUpTo, ElectionFacts
      <4> QED
        BY <2>1, <2>3, <3>1, <3>2, <3>3, <4>1, SameTrans
    <3>5. Committed(h, t, L, k)
      <4>1. Committed(h, t, X, k)
        BY <2>6, <3>2, <3>3, CommittedUpTo
      <4>2. Same(X, L, k) /\ k <= Len(L)
        BY <2>1, <2>3, <3>1, <3>3, SameUpTo
      <4> QED
        BY <2>6, <3>3, <4>1, <4>2, CommittedSame
    <3>6. OneConf(L, k, last)
      <4>1. CASE k = last
        BY <3>3, <4>1 DEF OneConf
      <4>2. CASE k = b
        <5>1. OneConf(X, k, last)
          BY <2>1, <3>2, <3>3, <4>2, OneConfWithin
        <5> QED
          BY <2>1, <2>3, <3>1, <3>3, <5>1, OneConfSame
      <4> QED
        BY <3>3, <4>1, <4>2
    <3> QED
      BY <2>3, <2>5, <3>1, <3>2, <3>4, <3>5, <3>6 DEF MsgOk
  <2> QED
    BY <1>2, <2>1, <2>3, <2>5, <2>6
<1> QED
  BY <1>1, <1>2

\* So it may be sent as well.
LEMMA SentCut ==
  ASSUME NEW h, NEW M, NEW D, NEW n \in Ids, NEW s, NEW d, NEW w, NEW sent,
         AgreesAt(h, M, D, n, s, d, w, sent), NEW m \in sent,
         NEW last \in 0 .. IF m.type = "Log" THEN Len(m.log) ELSE 0, NEW x, x = Cut(m, last)
  PROVE  AgreesAt(h, M, D, n, s, d, w, sent \cup {x})
<1>1. m \in Msgs /\ HistOk(h, D) /\ MsgOk(h, D, IF m.from = n THEN d ELSE disk[m.from], D[m.from], m)
  BY DEF AgreesAt, GhostsOk
<1>2. /\ x \in Msgs /\ x.type = m.type /\ x.from = m.from /\ (m.type # "Log" => x = m)
      /\ MsgOk(h, D, IF x.from = n THEN d ELSE disk[x.from], D[x.from], x)
  BY <1>1, CutFacts
<1>3. CASE m.type # "Log"
  <2>1. sent \cup {x} = sent
    BY <1>2, <1>3
  <2> QED
    BY <2>1
<1>4. CASE m.type = "Log"
  <2>1. \A l, z, y : AsksFor(l, z, y \cup sent) => AsksFor(l, z, y \cup (sent \cup {x}))
    BY <1>2, <1>4 DEF AsksFor
  <2>2. \A l, z, e, y : ActorOk(h, M, D, l, z, e, y, sent) => ActorOk(h, M, D, l, z, e, y, sent \cup {x})
    BY <2>1 DEF ActorOk
  <2> QED
    BY <1>2, <2>2 DEF AgreesAt
<1> QED
  BY <1>3, <1>4

\* What a handler leaves of a slice is sound.
LEMMA SliceStep ==
  ASSUME NEW h, NEW M, NEW D, NEW n \in Ids, NEW s, NEW d, NEW w, NEW sent,
         AgreesAt(h, M, D, n, s, d, w, sent), s.conf # Refused,
         NEW m \in sent, n \in m.to, NEW last \in 0 .. IF m.type = "Log" THEN Len(m.log) ELSE 0,
         NEW prev \in 0 .. last, NEW x, x = Cut(m, last), NEW r, r = StepMsg(s, n, x, prev)
  PROVE  Sound(n, s, d, w, sent, r)
<1>1. PICK all : all = sent \cup {x}
  OBVIOUS
<1>2. AgreesAt(h, M, D, n, s, d, w, all)
  BY <1>1, SentCut
<1>3. m \in Msgs
  BY SentFacts
<1>4. x \in all /\ n \in x.to /\ (x.type = "Log" => prev \in 0 .. Len(x.log))
  BY <1>1, <1>3, CutFacts
<1>5. Sound(n, s, d, w, all, r)
  BY <1>2, <1>4, StepMsgStep
<1>6. Reaches(n, r.s, d, (w \cup r.after) \cup r.out, sent)
  <2>1. PICK g, N, E : AgreesAt(g, N, E, n, r.s, d, (w \cup r.after) \cup r.out, all)
    BY <1>5 DEF Sound, Reaches
  <2>2. sent \subseteq all
    BY <1>1
  <2>3. AgreesAt(g, N, E, n, r.s, d, (w \cup r.after) \cup r.out, sent)
    BY <2>1, <2>2, SentLess
  <2> QED
    BY <2>3 DEF Reaches
<1> QED
  BY <1>5, <1>6 DEF Sound

\* Every input leaves the node in a sound state.
LEMMA EventSound ==
  ASSUME RaftInv, ~panicked, NEW n \in Ids, Event(n)
  PROVE  \E r : Becomes(n, r) /\ Sound(n, node[n], disk[n], held[n], net, r)
                /\ (panicked' => panicked \/ Panics(node[n], r.s))
<1>0. PICK h, M, D : Agrees(h, M, D)
  BY DEF RaftInv
<1>1. PICK s, d, w, sent : s = node[n] /\ d = disk[n] /\ w = held[n] /\ sent = net
  OBVIOUS
<1>2. AgreesAt(h, M, D, n, s, d, w, sent) /\ s.conf # Refused
  BY <1>0, <1>1, Zoom DEF RaftInv, Unrefused
<1> SUFFICES \E r : Becomes(n, r) /\ Sound(n, s, d, w, sent, r)
                    /\ (panicked' => panicked \/ Panics(s, r.s))
  BY <1>1
<1>3. ASSUME NEW m \in net, Receive(n, m)
      PROVE  \E r : Becomes(n, r) /\ Sound(n, s, d, w, sent, r)
                    /\ (panicked' => panicked \/ Panics(s, r.s))
  <2>0. PICK last \in 0 .. IF m.type = "Log" THEN Len(m.log) ELSE 0 : \E prev \in 0 .. last :
          /\ n \in m.to
          /\ Becomes(n, StepMsg(node[n], n, Cut(m, last), prev))
          /\ panicked' = Panics(node[n], StepMsg(node[n], n, Cut(m, last), prev).s)
    BY <1>3 DEF Receive
  <2>1. PICK prev \in 0 .. last :
          /\ n \in m.to
          /\ Becomes(n, StepMsg(node[n], n, Cut(m, last), prev))
          /\ panicked' = Panics(node[n], StepMsg(node[n], n, Cut(m, last), prev).s)
    BY <2>0
  <2>2. PICK x, r : x = Cut(m, last) /\ r = StepMsg(s, n, x, prev)
    OBVIOUS
  <2>4. m \in sent
    BY <1>1, <1>3
  <2>5. Sound(n, s, d, w, sent, r)
    BY ONLY <1>2, <2>1, <2>2, <2>4, SliceStep, n \in Ids
  <2> QED
    BY <1>1, <2>1, <2>2, <2>5
<1>4. CASE Timeout(n)
  <2>1. PICK kind : kind = IF PreVote THEN "pre" ELSE "election"
    OBVIOUS
  <2>2. kind \in {"pre", "election", "transfer"}
    BY <2>1
  <2>3. PICK r : r = Campaign(s, n, kind)
    OBVIOUS
  <2>4. MayHup(s, n) /\ Becomes(n, r) /\ panicked' = panicked
    BY <1>1, <1>4, <2>1, <2>3 DEF Timeout
  <2>5. ~HasUnappliedConfChanges(s)
    BY <2>4 DEF MayHup
  <2>6. Sound(n, s, d, w, sent, r)
    BY ONLY <1>2, <2>2, <2>3, <2>5, CampaignStep, n \in Ids
  <2> QED
    BY <2>4, <2>6
<1>5. ASSUME NEW cc \in UNION {Proposals[i] : i \in DOMAIN Proposals}, Propose(n, cc)
      PROVE  \E r : Becomes(n, r) /\ Sound(n, s, d, w, sent, r)
                    /\ (panicked' => panicked \/ Panics(s, r.s))
  <2>1. cc \in ConfChanges \cup {Normal}
    <3>1. SetupType(Setups[setup])
      BY RaftAssumption DEF RaftInv
    <3> QED
      BY <1>5, <3>1 DEF SetupType, Proposals
  <2>2. PICK r : r = Proposed(s, n, cc)
    OBVIOUS
  <2>3. s.state = "leader" /\ Becomes(n, r) /\ panicked' = panicked
    BY <1>1, <1>5, <2>2 DEF Propose, MayPropose
  <2>4. Sound(n, s, d, w, sent, r)
    BY ONLY <1>2, <2>1, <2>2, <2>3, ProposedStep, n \in Ids
  <2> QED
    BY <2>3, <2>4
<1>6. ASSUME NEW id \in Reads, ReadIndex(n, id)
      PROVE  \E r : Becomes(n, r) /\ Sound(n, s, d, w, sent, r)
                    /\ (panicked' => panicked \/ Panics(s, r.s))
  <2>1. id \in ReadIds
    BY DEF ReadIds, Reads, RaftInv
  <2>2. s.state = "leader" /\ panicked' = panicked
    BY <1>1, <1>6 DEF ReadIndex
  <2>3. PICK r : /\ Becomes(n, r)
                 /\ \/ \E x : r = [Quiet(s) EXCEPT !.read = x]
                    \/ r = Quiet([s EXCEPT !.waiting = Append(@, id)])
                    \/ r = StartReads(s, n, <<id>>)
    <3>1. PICK single : single = (Cardinality(s.conf.in) = 1 /\ s.conf.out = {})
      OBVIOUS
    <3>2. \/ Becomes(n, [Quiet(s) EXCEPT !.read = {[id |-> id, index |-> s.commit]}])
          \/ Becomes(n, Quiet([s EXCEPT !.waiting = Append(@, id)]))
          \/ Becomes(n, StartReads(s, n, <<id>>))
      BY <1>1, <1>6 DEF ReadIndex
    <3> QED
      BY <3>2
  <2>4. Sound(n, s, d, w, sent, r)
    BY ONLY <1>2, <2>1, <2>2, <2>3, ReadIndexStep, n \in Ids
  <2> QED
    BY <2>2, <2>3, <2>4
<1>7. CASE Beat(n)
  <2>1. PICK r : r = Result(s, BcastHeartbeat(s, n), {})
    OBVIOUS
  <2>2. s.state = "leader" /\ Becomes(n, r) /\ panicked' = panicked
    BY <1>1, <1>7, <2>1 DEF Beat
  <2>3. Sound(n, s, d, w, sent, r)
    BY <1>2, <2>1, <2>2, LeaderInputStep
  <2> QED
    BY <2>2, <2>3
<1>8. ASSUME NEW to \in Ids, Transfer(n, to)
      PROVE  \E r : Becomes(n, r) /\ Sound(n, s, d, w, sent, r)
                    /\ (panicked' => panicked \/ Panics(s, r.s))
  <2>1. s.state = "leader" /\ panicked' = panicked
    BY <1>1, <1>8 DEF Transfer
  <2>2. PICK r : /\ Becomes(n, r)
                 /\ \/ r = Quiet([s EXCEPT !.transferee = None])
                    \/ r = Result([s EXCEPT !.transferee = to],
                              IF s.conf.trk[to].match = Len(s.log)
                              THEN {TimeoutNow(s, n, to)} ELSE {}, {})
    BY <1>1, <1>8 DEF Transfer
  <2>3. CASE r = Quiet([s EXCEPT !.transferee = None])
    <3>1. PICK x \in Ids \cup {None} : x = None
      OBVIOUS
    <3>2. r = Quiet([s EXCEPT !.transferee = x])
      BY <2>3, <3>1
    <3>3. Sound(n, s, d, w, sent, r)
      BY ONLY <1>2, <2>1, <3>1, <3>2, LeaderInputStep, n \in Ids
    <3> QED
      BY <2>1, <2>2, <3>3
  <2>4. CASE r = Result([s EXCEPT !.transferee = to],
                              IF s.conf.trk[to].match = Len(s.log)
                              THEN {TimeoutNow(s, n, to)} ELSE {}, {})
    <3>1. Sound(n, s, d, w, sent, r)
      BY ONLY <1>2, <2>1, <2>4, LeaderInputStep, n \in Ids, to \in Ids
    <3> QED
      BY <2>1, <2>2, <3>1
  <2> QED
    BY <2>2, <2>3, <2>4
<1>9. CASE TransferEnds(n)
  <2>1. PICK x \in Ids \cup {None} : x = None
    OBVIOUS
  <2>2. PICK r : r = Quiet([s EXCEPT !.transferee = x])
    OBVIOUS
  <2>3. s.state = "leader" /\ Becomes(n, r) /\ panicked' = panicked
    BY <1>1, <1>9, <2>1, <2>2 DEF TransferEnds
  <2>4. Sound(n, s, d, w, sent, r)
    BY ONLY <1>2, <2>1, <2>2, <2>3, LeaderInputStep, n \in Ids
  <2> QED
    BY <2>3, <2>4
<1>10. CASE ForgetLeader(n)
  <2>1. PICK r : r = Quiet([s EXCEPT !.lead = None])
    OBVIOUS
  <2>2. Becomes(n, r) /\ panicked' = panicked
    BY <1>1, <1>10, <2>1 DEF ForgetLeader
  <2>3. Sound(n, s, d, w, sent, r)
    BY <1>2, <2>1, ForgetStep
  <2> QED
    BY <2>2, <2>3
<1>11. CASE CheckQuorum(n)
  <2>1. PICK r : r = Quiet(BecomeFollower(s, s.term, None))
    OBVIOUS
  <2>2. Becomes(n, r) /\ panicked' = panicked
    BY <1>1, <1>11, <2>1 DEF CheckQuorum
  <2>3. Sound(n, s, d, w, sent, r)
    BY <1>2, <2>1, CheckQuorumStep
  <2> QED
    BY <2>2, <2>3
<1> QED
  BY <1>3, <1>4, <1>5, <1>6, <1>7, <1>8, <1>9, <1>10, <1>11 DEF Event

\* What a node reaches, the cluster does, unless the node was refused a change.
LEMMA NodeStep ==
  ASSUME RaftInv, NEW n \in Ids, NEW s, NEW d, NEW w, Reaches(n, s, d, w, net'),
         node' = [node EXCEPT ![n] = s], disk' = [disk EXCEPT ![n] = d],
         held' = [held EXCEPT ![n] = w], setup' = setup, ~panicked,
         panicked' \/ (s.conf # Refused /\ d.cs # ConfState(Refused))
  PROVE  RaftInv'
<1>1. Typed
  BY DEF RaftInv
<1>2. Typed' /\ \E g, N, E : Agrees(g, N, E)'
  BY <1>1, PutBack
<1>3. ~panicked' => Unrefused'
  <2> SUFFICES ASSUME ~panicked' PROVE Unrefused'
    OBVIOUS
  <2>1. s.conf # Refused /\ d.cs # ConfState(Refused) /\ Unrefused
    BY DEF RaftInv
  <2>2. \A l \in Ids : /\ node'[l] = IF l = n THEN s ELSE node[l]
                       /\ disk'[l] = IF l = n THEN d ELSE disk[l]
    BY <1>1 DEF Typed
  <2> QED
    BY <2>1, <2>2 DEF Unrefused
<1> QED
  BY <1>2, <1>3 DEF RaftInv

\* Ready.
LEMMA ReadyKeeps ==
  ASSUME ~Async, RaftInv, ~panicked, NEW n \in Ids, NEW late \in BOOLEAN, Ready(n, late)
  PROVE  /\ RaftInv'
         /\ panicked' => disk'[n].cs = ConfState(Refused)
<1>0. PICK h, M, D : Agrees(h, M, D)
  BY DEF RaftInv
<1>1. PICK s, d, w, sent : s = node[n] /\ d = disk[n] /\ w = held[n] /\ sent = net
  OBVIOUS
<1>2. AgreesAt(h, M, D, n, s, d, w, sent) /\ s.conf # Refused
  BY <1>0, <1>1, Zoom DEF RaftInv, Unrefused
<1>3. PICK r1 : r1 = IF late THEN Quiet(s) ELSE Applied(s, n)
  OBVIOUS
<1>4. PICK r2 : r2 = IF s.applied < r1.s.applied /\ AutoLeaves(r1.s, n)
                     THEN Proposed(r1.s, n, LeaveChange) ELSE Quiet(r1.s)
  OBVIOUS
<1>5. PICK e, v : e = Flushed(s, r1.s) /\ v = r2.after \cup (r1.out \cup r2.out)
  OBVIOUS
<1>6. /\ node' = [node EXCEPT ![n] = r2.s]
      /\ disk' = [disk EXCEPT ![n] = e]
      /\ held' = [held EXCEPT ![n] = v]
      /\ Sends(held[n] \cup {}) /\ setup' = setup
      /\ panicked' = (r1.s.conf = Refused)
  BY <1>1, <1>3, <1>4, <1>5 DEF Ready, Flushed
<1>7. PICK sent2 : sent2 = net'
  OBVIOUS
<1>8. SentOut(sent2, sent, w)
  BY <1>1, <1>6, <1>7 DEF SentOut, Sends
<1>9. r1 = Quiet(s) \/ r1 = Applied(s, n)
  BY <1>3
<1>10. r2 = Quiet(r1.s) \/ (AutoLeaves(r1.s, n) /\ r2 = Proposed(r1.s, n, LeaveChange))
  BY <1>4
<1>r. IsReady(s, n, r1, r2, e, v)
  BY <1>5, <1>9, <1>10 DEF IsReady
<1>11. /\ Reaches(n, r2.s, e, v, sent2)
       /\ r1.s.conf # Refused => r2.s.conf # Refused /\ e.cs # ConfState(Refused)
  BY ONLY <1>2, <1>8, <1>r, ReadyStep, n \in Ids
<1>12. PICK z : z = r2.s
  OBVIOUS
<1>13. RaftInv'
  BY <1>6, <1>7, <1>11, <1>12, NodeStep
<1>14. disk'[n] = e
  BY <1>6 DEF RaftInv, Typed
<1>15. panicked' => disk'[n].cs = ConfState(Refused)
  <2>1. e.cs = ConfState(r1.s.conf)
    BY <1>5 DEF Flushed
  <2>2. panicked' => r1.s.conf = Refused
    BY <1>6
  <2> QED
    BY <1>14, <2>1, <2>2
<1> QED
  BY <1>13, <1>15

\* A crash and a restart.
LEMMA RestartKeeps ==
  ASSUME RaftInv, ~panicked, NEW n \in Ids, Restart(n)
  PROVE  RaftInv' /\ ~panicked'
<1>0. PICK h, M, D : Agrees(h, M, D)
  BY DEF RaftInv
<1>1. PICK d, sent, z, w : d = disk[n] /\ sent = net /\ z = Started(d) /\ w = {}
  OBVIOUS
<1>2. AgreesAt(h, M, D, n, node[n], d, held[n], sent) /\ d.cs # ConfState(Refused)
  BY <1>0, <1>1, Zoom DEF RaftInv, Unrefused
<1>3. z.conf # Refused /\ \E N : AgreesAt(h, N, D, n, z, d, {}, sent)
  BY <1>1, <1>2, RestartStep
<1>4. PICK N : AgreesAt(h, N, D, n, z, d, w, sent)
  BY <1>1, <1>3
<1>5. /\ node' = [node EXCEPT ![n] = z] /\ held' = [held EXCEPT ![n] = w] /\ disk' = disk
      /\ setup' = setup /\ panicked' = panicked /\ net' \subseteq sent
  BY <1>1 DEF Restart, Sends
<1>6. Reaches(n, z, d, w, net')
  <2>1. PICK sent2 : sent2 = net' /\ sent2 \subseteq sent
    BY <1>5
  <2>2. AgreesAt(h, N, D, n, z, d, w, sent2)
    BY <1>4, <2>1, SentLess
  <2> QED
    BY <2>1, <2>2 DEF Reaches
<1>7. disk' = [disk EXCEPT ![n] = d]
  BY <1>1, <1>5 DEF RaftInv, Typed
<1>8. RaftInv'
  BY <1>2, <1>3, <1>5, <1>6, <1>7, NodeStep
<1> QED
  BY <1>5, <1>8

\* Where the variables of the cluster do not change.
LEMMA RaftIdle ==
  ASSUME RaftInv, UNCHANGED <<node, disk, held, net, setup, panicked>>
  PROVE  RaftInv'
<1>1. PICK h, M, D : Agrees(h, M, D)
  BY DEF RaftInv
<1>2. Agrees(h, M, D)'
  BY <1>1 DEF Agrees
<1> QED
  BY <1>2 DEF RaftInv, Typed, Unrefused

\* A panic comes with a refused change on disk.
PanicCause == \E n \in Ids : disk[n].cs = ConfState(Refused)

\* Every step preserves the invariant.
LEMMA RaftNext ==
  ASSUME ~Async, RaftInv, Next
  PROVE  RaftInv' /\ (panicked' => PanicCause')
<1>0. ~panicked
  BY DEF Next
<1>1. ASSUME NEW n \in Ids, Event(n) PROVE RaftInv' /\ ~panicked'
  <2>1. PICK r : Becomes(n, r) /\ Sound(n, node[n], disk[n], held[n], net, r)
                 /\ (panicked' => panicked \/ Panics(node[n], r.s))
    BY <1>0, <1>1, EventSound
  <2> QED
    BY <1>0, <2>1, BecomesStep
<1>2. ASSUME NEW r \in Reads, AskRead(r) PROVE RaftInv' /\ ~panicked'
  BY <1>0, <1>2, RaftIdle DEF AskRead
<1>3. ASSUME NEW n \in Ids, NEW late \in BOOLEAN, Ready(n, late)
      PROVE  RaftInv' /\ (panicked' => PanicCause')
  BY <1>0, <1>3, ReadyKeeps DEF PanicCause
<1>4. ASSUME NEW n \in Ids, Restart(n) PROVE RaftInv' /\ ~panicked'
  BY <1>0, <1>4, RestartKeeps
<1> QED
  BY <1>1, <1>2, <1>3, <1>4 DEF Next

-----------------------------------------------------------------------------
(* The bootstrap. *)

NoLog == << >>
NoHistory(el, log) == [won |-> {}, el |-> el, log |-> log, certs |-> {}]
NoView == [votes |-> {}, acks |-> {}]

\* The bootstrap's configuration is the start of every walk.
LEMMA BootedConf ==
  ASSUME NEW X
  PROVE  Good(Bootstrapped) /\ ConfOk(X, 0, Bootstrapped)
<1>1. Tracked(Bootstrapped) /\ Bootstrapped.in # {} /\ Bootstrapped.auto = FALSE
  BY RaftAssumption, VotersOneByOne DEF Bootstrapped
<1>2. Good(Bootstrapped)
  BY <1>1 DEF Good
<1> DEFINE f == [k \in 0 .. 0 |-> Bootstrapped]
<1>3. IsWalk(f, X, 0)
  BY <1>2 DEF IsWalk
<1>4. Alike(f[0], Bootstrapped) /\ f[0].auto = Bootstrapped.auto
  BY DEF Alike
<1> HIDE DEF f
<1> QED
  BY <1>2, <1>3, <1>4 DEF ConfOk

\* The disk of the bootstrap.
LEMMA BootedFields ==
  ASSUME NEW d, d = Booted
  PROVE  /\ d \in DiskType /\ d.term = 1 /\ d.vote = None /\ d.log = NoLog /\ d.commit = 0
         /\ d.applied = 0 /\ d.cs = ConfState(Bootstrapped)
<1>1. PICK c : c = Bootstrapped
  OBVIOUS
<1>2. c \in Confs
  BY <1>1, BootedConf DEF Good, Tracked
<1>3. ConfState(c) \in ConfStates
  BY <1>2, ConfFields DEF ConfState, ConfStates
<1>4. PICK x, e : x = ConfState(c) /\ e = NoLog
  OBVIOUS
<1>5. e \in Logs
  BY <1>4 DEF NoLog, Logs
<1>6. d = [term |-> 1, vote |-> None, log |-> e, commit |-> 0, applied |-> 0, cs |-> x]
  BY <1>1, <1>4 DEF Booted, Bootstrapped, NoLog, BaseTerm
<1>7. d \in DiskType
  BY <1>3, <1>4, <1>5, <1>6 DEF DiskType
<1> QED
  BY <1>1, <1>4, <1>6, <1>7

\* The bootstrapped cluster agrees with the empty history.
LEMMA RaftInit ==
  ASSUME Init
  PROVE  RaftInv
<1>1. PICK d, z : d = Booted /\ z = Started(d)
  OBVIOUS
<1>2. /\ d \in DiskType /\ d.term = 1 /\ d.vote = None /\ d.log = NoLog /\ d.commit = 0
      /\ d.applied = 0 /\ d.cs = ConfState(Bootstrapped)
  BY <1>1, BootedFields
<1>3. Good(Bootstrapped) /\ ConfOk(NoLog, 0, Bootstrapped)
  BY BootedConf
<1>4. PICK r : r = Restore(d.cs)
  OBVIOUS
<1>5. Tracked(r) /\ Alike(Bootstrapped, r) /\ r.auto = Bootstrapped.auto
  <2>1. Tracked(r) /\ Alike(r, Bootstrapped) /\ r.auto = Bootstrapped.auto
    BY <1>2, <1>3, <1>4, RestoreTracked DEF Good
  <2> QED
    BY <2>1 DEF Alike
<1>6. /\ z \in NodeType /\ z.term = 1 /\ z.vote = None /\ z.log = NoLog
      /\ z.commit = 0 /\ z.applied = 0 /\ z.conf = r /\ z.state = "follower"
  <2>1. Restore(d.cs) \in Confs
    BY <1>4, <1>5 DEF Tracked
  <2> QED
    BY <1>1, <1>2, <1>4, <2>1, StartedFields
<1>7. ConfOk(NoLog, 0, r)
  BY <1>3, <1>5, ConfOkAlike
<1>8. r # Refused /\ d.cs # ConfState(Refused)
  <2>1. r.in # {} /\ Bootstrapped.in # {}
    BY <1>3, <1>7 DEF ConfOk, Good
  <2> QED
    BY <1>2, <2>1, RefusedConf, StoredConf
<1>9. PICK el, log : el \in [Nat -> Elections] /\ log \in [Nat -> Logs]
  <2>1. PICK i \in Ids : TRUE
    BY RaftAssumption
  <2>2. PICK c \in Confs : TRUE
    BY <1>5 DEF Tracked
  <2>3. [who |-> i, base |-> 0, app |-> 0, conf |-> c, q |-> {}] \in Elections
    BY <2>1, <2>2 DEF Elections
  <2>4. NoLog \in Logs
    BY DEF NoLog, Logs
  <2>5. PICK x \in Elections : TRUE
    BY <2>3
  <2>6. [t \in Nat |-> x] \in [Nat -> Elections] /\ [t \in Nat |-> NoLog] \in [Nat -> Logs]
    BY <2>4, <2>5
  <2> QED
    BY <2>6
<1>10. PICK h : h = NoHistory(el, log)
  OBVIOUS
<1>11. h \in Histories /\ h.won = {} /\ h.certs = {}
  BY <1>9, <1>10 DEF NoHistory, Histories
<1>12. PICK v : v = NoView
  OBVIOUS
<1>13. v \in Views /\ v.votes = {} /\ v.acks = {}
  BY <1>12 DEF NoView, Views
<1>14. PICK M : M = [l \in Ids |-> v]
  OBVIOUS
<1>15. M \in [Ids -> Views] /\ \A l \in Ids : M[l] = v
  BY <1>13, <1>14
<1>16. GhostsOk(h, M, M)
  BY <1>11, <1>15 DEF GhostsOk, HistOk
<1>17. /\ Len(NoLog) = 0 /\ Src(h, NoLog) /\ OneConf(NoLog, 0, 0) /\ \A t : Committed(h, t, NoLog, 0)
  <2>1. Len(NoLog) = 0
    BY DEF NoLog
  <2> QED
    BY <2>1 DEF Src, OneConf, Committed
<1>18. RecordsOk(h, v)
  BY <1>13 DEF RecordsOk
<1>19. ViewOk(h, z, v)
  BY <1>6, <1>13, <1>17, <1>18 DEF ViewOk
<1>20. ViewOk(h, d, v)
  BY <1>2, <1>13, <1>17, <1>18 DEF ViewOk
<1>21. ASSUME NEW n \in Ids PROVE NodeOk(h, M, M, n, z, d)
  <2>1. \A l \in Ids : M[l].votes = {} /\ M[l].acks = {}
    BY <1>13, <1>15
  <2>2. ConfOk(z.log, z.applied, z.conf)
    BY <1>6, <1>7
  <2>3. ConfOk(d.log, d.applied, Bootstrapped)
    BY <1>2, <1>3
  <2> QED
    BY <1>2, <1>6, <1>11, <2>1, <2>2, <2>3 DEF NodeOk
<1>22. ASSUME NEW n \in Ids PROVE ActorOk(h, M, M, n, z, d, {}, {})
  <2>1. AsksFor(n, z, {} \cup {})
    BY DEF AsksFor
  <2> QED
    BY <1>2, <1>6, <1>15, <1>19, <1>20, <1>21, <2>1 DEF ActorOk
<1>23. \A n \in Ids : node[n] = z /\ disk[n] = d /\ held[n] = {}
  BY <1>1 DEF Init
<1>24. net = {} /\ setup \in DOMAIN Setups
  BY DEF Init
<1>25. Agrees(h, M, M)
  BY <1>16, <1>22, <1>23, <1>24 DEF Agrees
<1>26. Typed
  BY <1>1, <1>2, <1>6 DEF Typed, Init
<1>27. Unrefused
  BY <1>6, <1>8, <1>23 DEF Unrefused
<1> QED
  BY <1>24, <1>25, <1>26, <1>27 DEF RaftInv

-----------------------------------------------------------------------------
(* What the history shows. *)

\* One leader to a term.
LEMMA HistoryElectionSafety ==
  ASSUME NEW h, NEW M, NEW D, Agrees(h, M, D)
  PROVE  ElectionSafety
<1> SUFFICES ASSUME NEW n \in Ids, NEW l \in Ids, Leads(n), Leads(l), node[n].term = node[l].term
             PROVE  n = l
  BY DEF ElectionSafety
<1>1. \A i \in Ids : node[i].state = "leader" => h.el[node[i].term].who = i
  BY DEF Agrees, ActorOk, NodeOk, LeaderOk
<1> QED
  BY <1>1 DEF Leads

\* What a node's view says of its log.
LEMMA HistoryFacts ==
  ASSUME NEW h, NEW M, NEW D, Agrees(h, M, D)
  PROVE  /\ HistOk(h, D) /\ \A v \in Ids : RecordsOk(h, D[v])
         /\ \A n \in Ids : /\ node[n].term \in Nat /\ node[n].commit \in Nat
                           /\ Committed(h, node[n].term, node[n].log, node[n].commit)
                           /\ node[n].state = "leader" => LeaderOk(h, D, n, node[n])
<1>1. HistOk(h, D)
  BY DEF Agrees, GhostsOk
<1>2. \A v \in Ids : RecordsOk(h, D[v])
  BY DEF Agrees, ActorOk, ViewOk
<1>3. ASSUME NEW n \in Ids
      PROVE  /\ node[n].term \in Nat /\ node[n].commit \in Nat
             /\ Committed(h, node[n].term, node[n].log, node[n].commit)
             /\ node[n].state = "leader" => LeaderOk(h, D, n, node[n])
  <2>1. ActorOk(h, M, D, n, node[n], disk[n], held[n], net)
    BY DEF Agrees
  <2>2. node[n] \in NodeType
    BY <2>1 DEF ActorOk
  <2>3. node[n].term \in Nat /\ node[n].commit \in Nat
    BY <2>2 DEF NodeType
  <2>4. Committed(h, node[n].term, node[n].log, node[n].commit)
    BY <2>1 DEF ActorOk, ViewOk
  <2> QED
    BY <2>1, <2>3, <2>4 DEF ActorOk, NodeOk
<1> QED
  BY <1>1, <1>2, <1>3

\* A leader has what was committed before.
LEMMA HistoryLeaderCompleteness ==
  ASSUME NEW h, NEW M, NEW D, Agrees(h, M, D)
  PROVE  LeaderCompleteness
<1> SUFFICES ASSUME NEW n \in Ids, NEW l \in Ids, Leads(l), node[l].term >= node[n].term
             PROVE  /\ node[n].commit <= Len(node[l].log)
                    /\ \A i \in 1 .. node[n].commit : node[l].log[i] = node[n].log[i]
  BY DEF LeaderCompleteness
<1>1. HistOk(h, D) /\ \A v \in Ids : RecordsOk(h, D[v])
  BY HistoryFacts
<1>2. PICK t, u, X, k : t = node[n].term /\ u = node[l].term /\ X = node[n].log /\ k = node[n].commit
  OBVIOUS
<1>3. t \in Nat /\ k \in Nat /\ Committed(h, t, X, k) /\ u \in Nat /\ t <= u
  BY <1>2, HistoryFacts
<1>4. u \in h.won /\ h.log[u] = node[l].log
  BY <1>2, HistoryFacts DEF Leads, LeaderOk
<1>5. k <= Len(h.log[u]) /\ Same(X, h.log[u], k)
  BY <1>1, <1>3, <1>4, CommittedInLeader
<1> QED
  BY <1>2, <1>4, <1>5 DEF Same

\* One command to an index.
LEMMA HistoryStateMachineSafety ==
  ASSUME NEW h, NEW M, NEW D, Agrees(h, M, D)
  PROVE  StateMachineSafety
<1>1. HistOk(h, D) /\ \A v \in Ids : RecordsOk(h, D[v])
  BY HistoryFacts
<1>2. ASSUME NEW n \in Ids, NEW l \in Ids, node[n].commit <= node[l].commit
      PROVE  \A i \in 1 .. node[n].commit : node[n].log[i] = node[l].log[i]
  <2>1. PICK t, X, k, u, Y, j : /\ t = node[n].term /\ X = node[n].log /\ k = node[n].commit
                                /\ u = node[l].term /\ Y = node[l].log /\ j = node[l].commit
    OBVIOUS
  <2>2. /\ t \in Nat /\ k \in Nat /\ Committed(h, t, X, k)
        /\ u \in Nat /\ j \in Nat /\ Committed(h, u, Y, j) /\ k <= j
    BY <1>2, <2>1, HistoryFacts
  <2>3. Same(X, Y, k)
    BY <1>1, <2>2, CommittedAgree
  <2> QED
    BY <2>1, <2>3 DEF Same
<1> SUFFICES ASSUME NEW n \in Ids, NEW l \in Ids,
                    NEW i \in 1 .. MinOf(node[n].commit, node[l].commit)
             PROVE  node[n].log[i] = node[l].log[i]
  BY DEF StateMachineSafety
<1>3. node[n].commit \in Nat /\ node[l].commit \in Nat
  BY HistoryFacts
<1>4. i \in 1 .. node[n].commit /\ i \in 1 .. node[l].commit
  BY <1>3 DEF MinOf
<1>5. CASE node[n].commit <= node[l].commit
  BY <1>2, <1>4, <1>5
<1>6. CASE node[l].commit <= node[n].commit
  BY <1>2, <1>4, <1>6
<1> QED
  BY <1>3, <1>5, <1>6

\* What is matched is on disk.
LEMMA HistoryMatchSound ==
  ASSUME NEW h, NEW M, NEW D, Agrees(h, M, D)
  PROVE  MatchSound
<1> SUFFICES ASSUME NEW l \in Ids, Leads(l), NEW id \in DOMAIN node[l].conf.trk \ {l},
                    disk[id].term = node[l].term
             PROVE  /\ node[l].conf.trk[id].match <= Len(disk[id].log)
                    /\ \A i \in 1 .. node[l].conf.trk[id].match : disk[id].log[i] = node[l].log[i]
  BY DEF MatchSound
<1>1. node[l] \in NodeType /\ LeaderOk(h, D, l, node[l])
  BY DEF Agrees, ActorOk, NodeOk, Leads
<1>2. PICK t, c, X, k : t = node[l].term /\ c = node[l].conf /\ X = disk[id].log /\ k = c.trk[id].match
  OBVIOUS
<1>3. c \in Confs /\ t \in Nat
  BY <1>1, <1>2 DEF NodeType
<1>4. id \in Ids /\ k \in Nat
  <2>1. c.trk \in Tracks
    BY <1>3 DEF Confs
  <2>2. DOMAIN c.trk \subseteq Ids /\ c.trk \in [DOMAIN c.trk -> Progress]
    BY <1>3, ConfFields
  <2>3. id \in DOMAIN c.trk
    BY <1>2
  <2>4. c.trk[id] \in Progress
    BY <2>2, <2>3
  <2> QED
    BY <1>2, <2>2, <2>3, <2>4 DEF Progress
<1>5. k = 0 \/ HasAcked(D[id], t, k)
  BY <1>1, <1>2 DEF LeaderOk
<1>6. /\ ActorOk(h, M, D, id, node[id], disk[id], held[id], net)
      /\ disk[id] \in DiskType /\ ViewOk(h, disk[id], D[id]) /\ HistOk(h, D)
  BY <1>4 DEF Agrees, ActorOk, GhostsOk
<1>7. X \in Logs
  BY <1>2, <1>6 DEF DiskType
<1>8. Len(X) \in Nat
  BY <1>7, LogFacts
<1>9. h.won \subseteq Nat
  BY <1>6 DEF HistOk, Histories
<1>10. ASSUME k # 0 PROVE k <= Len(X) /\ \A i \in 1 .. k : X[i] = node[l].log[i]
  <2>1. PICK a \in D[id].acks : a.term = t /\ a.index >= k
    BY <1>5, <1>10 DEF HasAcked
  <2>2. KeptIn(h, X, t, a.index, t) /\ D[id] \in Views
    BY <1>2, <1>6, <2>1 DEF ViewOk, RecordsOk
  <2>3. a.index \in Nat
    BY <2>1, <2>2 DEF Views, Acks
  <2>4. Has(h, X, t, a.index)
    BY <1>3, <1>7, <1>9, <2>2, <2>3, KeptHas
  <2>5. h.log[t] = node[l].log
    BY <1>1, <1>2 DEF LeaderOk
  <2>6. a.index <= Len(X) /\ \A i \in 1 .. a.index : X[i] = node[l].log[i]
    BY <2>4, <2>5 DEF Has, Same
  <2> QED
    BY <1>4, <1>8, <2>1, <2>3, <2>6
<1>11. k <= Len(X) /\ \A i \in 1 .. k : X[i] = node[l].log[i]
  BY <1>4, <1>8, <1>10
<1> QED
  BY <1>2, <1>11

-----------------------------------------------------------------------------
(* The theorems: with synchronous storage, for every set of nodes and every *)
(* setup.                                                                   *)

\* The invariant: the cluster agrees with some history, in every behaviour.
THEOREM RaftAgrees ==
  ASSUME ~Async
  PROVE  Spec => []RaftInv
<1>1. Init => RaftInv
  BY RaftInit
<1>2. RaftInv /\ [Next]_vars => RaftInv'
  <2> SUFFICES ASSUME RaftInv, [Next]_vars PROVE RaftInv'
    OBVIOUS
  <2>1. CASE Next
    BY <2>1, RaftNext
  <2>2. CASE UNCHANGED vars
    BY <2>2, RaftIdle DEF vars
  <2> QED
    BY <2>1, <2>2
<1> QED
  BY <1>1, <1>2, PTL DEF Spec

\* S1: one leader to a term.
THEOREM RaftElectionSafety ==
  ASSUME ~Async
  PROVE  Spec => []ElectionSafety
<1>1. RaftInv => ElectionSafety
  BY HistoryElectionSafety DEF RaftInv
<1> QED
  BY <1>1, RaftAgrees, PTL

\* A leader has everything that any node of its term or an earlier one has committed.
THEOREM RaftLeaderCompleteness ==
  ASSUME ~Async
  PROVE  Spec => []LeaderCompleteness
<1>1. RaftInv => LeaderCompleteness
  BY HistoryLeaderCompleteness DEF RaftInv
<1> QED
  BY <1>1, RaftAgrees, PTL

\* S2: no two nodes commit different entries at an index.
THEOREM RaftStateMachineSafety ==
  ASSUME ~Async
  PROVE  Spec => []StateMachineSafety
<1>1. RaftInv => StateMachineSafety
  BY HistoryStateMachineSafety DEF RaftInv
<1> QED
  BY <1>1, RaftAgrees, PTL

\* What a leader counts as matched by a node of its term, the node has stored.
THEOREM RaftMatchSound ==
  ASSUME ~Async
  PROVE  Spec => []MatchSound
<1>1. RaftInv => MatchSound
  BY HistoryMatchSound DEF RaftInv
<1> QED
  BY <1>1, RaftAgrees, PTL

-----------------------------------------------------------------------------
(* Which log a handler leaves in the node and in the MsgApps it sends. *)

Logged(s, Y) == "log" \in DOMAIN s /\ s.log = Y

Tells(r, Y) ==
  Logged(r.s, Y) /\ \A x \in r.out \cup r.after : x.type = "Log" => x.log = Y

\* Messages that carry no log.
LEMMA TellsNothing ==
  ASSUME NEW s, NEW Y, Logged(s, Y), NEW out, NEW after,
         \A x \in out \cup after : x.type # "Log", NEW r, Leaves(r, s, out, after)
  PROVE  Tells(r, Y)
  BY DEF Tells, Leaves

\* Nothing is sent.
LEMMA TellsQuiet ==
  ASSUME NEW s, NEW Y, Logged(s, Y), NEW r, r = Quiet(s)
  PROVE  Tells(r, Y)
  BY DEF Tells, Quiet, Result

\* The changes of role keep the log.
LEMMA RolesKeepLog ==
  ASSUME NEW s, NEW Y, Logged(s, Y), NEW t, NEW n, NEW lead
  PROVE  /\ Logged(Reset(s, t), Y) /\ Logged(BecomeFollower(s, t, lead), Y)
         /\ Logged(BecomePreCandidate(s), Y) /\ Logged(BecomeCandidate(s, n), Y)
<1>1. \A u : Logged(Reset(s, u), Y)
  BY DEF Logged, Reset
<1>2. Logged(BecomeFollower(s, t, lead), Y)
  <2>1. PICK z : z = Reset(s, t) /\ Logged(z, Y)
    BY <1>1
  <2>2. BecomeFollower(s, t, lead) = [z EXCEPT !.state = "follower", !.lead = lead]
    BY <2>1 DEF BecomeFollower
  <2> QED
    BY <2>1, <2>2 DEF Logged
<1>3. Logged(BecomePreCandidate(s), Y)
  BY DEF Logged, BecomePreCandidate
<1>4. Logged(BecomeCandidate(s, n), Y)
  <2>1. PICK z : z = Reset(s, s.term + 1) /\ Logged(z, Y)
    BY <1>1
  <2>2. BecomeCandidate(s, n) = [z EXCEPT !.state = "candidate", !.vote = n]
    BY <2>1 DEF BecomeCandidate
  <2> QED
    BY <2>1, <2>2 DEF Logged
<1> QED
  BY <1>1, <1>2, <1>3, <1>4

\* campaign.
LEMMA CampaignTells ==
  ASSUME NEW s, NEW Y, Logged(s, Y), NEW n, NEW kind, NEW r, r = Campaign(s, n, kind)
  PROVE  Tells(r, Y)
<1>1. PICK z : z = IF kind = "pre" THEN BecomePreCandidate(s) ELSE BecomeCandidate(s, n)
  OBVIOUS
<1>2. Logged(z, Y)
  BY <1>1, RolesKeepLog
<1>3. PICK after :
        after = IF n \in Voters(z.conf)
                THEN {VoteResp(IF kind = "pre" THEN "PreVoteResp" ELSE "VoteResp", s.term + 1, n, n, FALSE)}
                ELSE {}
  OBVIOUS
<1>4. PICK out : out = {VoteMsg(IF kind = "pre" THEN "PreVote" ELSE "Vote", z, n, s.term + 1)}
  OBVIOUS
<1>5. r = Result(z, out, after)
  BY <1>1, <1>3, <1>4 DEF Campaign
<1>6. \A x \in out \cup after : x.type # "Log"
  BY <1>3, <1>4 DEF VoteMsg, VoteResp
<1>7. Leaves(r, z, out, after)
  BY <1>5 DEF Leaves, Result
<1> QED
  BY <1>2, <1>6, <1>7, TellsNothing

\* appendEntry.
LEMMA AppendEntryTells ==
  ASSUME NEW s, NEW Y, Logged(s, Y), NEW n, NEW cc, NEW r, r = AppendEntry(s, n, cc)
  PROVE  Tells(r, Append(Y, Entry(s.term, cc)))
<1>1. PICK X : X = Append(Y, Entry(s.term, cc))
  OBVIOUS
<1>2. PICK z : z = [s EXCEPT !.log = X]
  OBVIOUS
<1>3. Logged(z, X)
  BY <1>2 DEF Logged
<1>4. r = Result(z, {LogMsg(z, n)}, {AppResp(z, n, n, Len(z.log))})
  BY <1>1, <1>2 DEF AppendEntry, Logged
<1>5. LogMsg(z, n).log = X /\ AppResp(z, n, n, Len(z.log)).type = "AppResp"
  BY <1>3 DEF LogMsg, AppResp, Logged
<1> QED
  BY <1>1, <1>3, <1>4, <1>5 DEF Tells, Result

\* becomeLeader.
LEMMA BecomeLeaderTells ==
  ASSUME NEW s, NEW Y, Logged(s, Y), NEW n, NEW r, r = BecomeLeader(s, n)
  PROVE  \E t : Tells(r, Append(Y, Entry(t, Normal)))
<1>1. PICK z : z = Reset(s, s.term) /\ Logged(z, Y)
  BY RolesKeepLog
<1>2. PICK y : y = [z EXCEPT !.state = "leader", !.lead = n,
                             !.conf.trk[n].match = Len(s.log), !.pending = Len(s.log)]
  OBVIOUS
<1>3. Logged(y, Y)
  BY <1>1, <1>2 DEF Logged
<1>4. r = AppendEntry(y, n, Normal)
  BY <1>1, <1>2 DEF BecomeLeader
<1> QED
  BY <1>3, <1>4, AppendEntryTells

\* The handlers of votes.
LEMMA HandleVoteTells ==
  ASSUME NEW s, NEW Y, Logged(s, Y), NEW n, NEW m, NEW r, r = HandleVote(s, n, m)
  PROVE  Tells(r, Y)
<1>1. PICK resp : resp = IF m.type = "PreVote" THEN "PreVoteResp" ELSE "VoteResp"
  OBVIOUS
<1>2. PICK z : z = [s EXCEPT !.vote = m.from]
  OBVIOUS
<1>3. Logged(z, Y)
  BY <1>2 DEF Logged
<1>4. PICK g, j : /\ g = VoteResp(resp, m.term, n, m.from, FALSE)
                  /\ j = VoteResp(resp, s.term, n, m.from, TRUE)
  OBVIOUS
<1>5. g.type # "Log" /\ j.type # "Log"
  BY <1>1, <1>4 DEF VoteResp
<1>6. \/ r = Result(s, {}, {g}) \/ r = Result(z, {}, {g}) \/ r = Result(s, {}, {j})
  BY <1>1, <1>2, <1>4 DEF HandleVote
<1> QED
  BY <1>3, <1>5, <1>6 DEF Tells, Result

\* A vote counted.
LEMMA HandleVoteRespTells ==
  ASSUME NEW s, NEW Y, Logged(s, Y), NEW n, NEW m, NEW r, r = HandleVoteResp(s, n, m)
  PROVE  Tells(r, Y) \/ \E t : Tells(r, Append(Y, Entry(t, Normal)))
<1>1. PICK z : z = IF m.from \in s.yes \cup s.no THEN s
                   ELSE IF m.reject THEN [s EXCEPT !.no = @ \cup {m.from}]
                                    ELSE [s EXCEPT !.yes = @ \cup {m.from}]
  OBVIOUS
<1>2. Logged(z, Y)
  BY <1>1 DEF Logged
<1>3. \/ r = Campaign(z, n, "election") \/ r = BecomeLeader(z, n)
      \/ r = Quiet(BecomeFollower(z, z.term, None)) \/ r = Quiet(z)
  BY <1>1 DEF HandleVoteResp
<1>4. Logged(BecomeFollower(z, z.term, None), Y)
  BY <1>2, RolesKeepLog
<1> QED
  BY <1>2, <1>3, <1>4, CampaignTells, BecomeLeaderTells, TellsQuiet

\* Two logs of one history.
Akin(X, L) == X \in Logs /\ L \in Logs /\ \E h : Src(h, X) /\ Src(h, L)

\* handleAppendEntries: the log is kept, or becomes the leader's.
LEMMA HandleAppendTells ==
  ASSUME NEW s \in NodeType, NEW Y, Logged(s, Y), NEW n, NEW m, Akin(Y, m.log),
         NEW prev \in 0 .. Len(m.log), NEW r, r = HandleAppend(s, n, m, prev)
  PROVE  Tells(r, Y) \/ Tells(r, m.log)
<1>1. PICK h : Src(h, Y) /\ Src(h, m.log)
  BY DEF Akin
<1>2. PICK L : L = m.log
  OBVIOUS
<1>3. Y \in Logs /\ L \in Logs /\ Len(Y) \in Nat /\ Len(L) \in Nat /\ s.log = Y
      /\ s.commit \in Nat
  BY <1>2, LogFacts DEF Akin, Logged, NodeType
<1>4. PICK F : F = Differs(s.log, L, prev)
  OBVIOUS
<1>5. PICK Z : Z = Resolved(s.log, L, F)
  OBVIOUS
<1>6. PICK a1, a2, a3, c : /\ a1 = AppResp(s, n, m.from, s.commit) /\ a2 = AppResp(s, n, m.from, 0)
                           /\ a3 = AppResp(s, n, m.from, Len(L))
                           /\ c = MinOf(m.commit, Len(L))
  OBVIOUS
<1>7. a1.type # "Log" /\ a2.type # "Log" /\ a3.type # "Log"
  BY <1>6 DEF AppResp
<1>8. PICK z : z = Taken(s, Z, c)
  OBVIOUS
<1>9. \/ r = Result(s, {}, {a1}) \/ r = Result(s, {}, {a2})
      \/ /\ prev <= Len(s.log) /\ TermAt(s.log, prev) = TermAt(L, prev)
         /\ r = Result(z, {}, {a3})
  <2>1. CASE prev < s.commit
    BY <1>6, <2>1 DEF HandleAppend
  <2>2. CASE prev >= s.commit /\ ~(prev <= Len(s.log) /\ TermAt(s.log, prev) = TermAt(L, prev))
    <3>1. ~(prev < s.commit)
      BY <1>3, <2>2
    <3> QED
      BY <1>2, <1>6, <2>2, <3>1 DEF HandleAppend
  <2>3. CASE prev >= s.commit /\ prev <= Len(s.log) /\ TermAt(s.log, prev) = TermAt(L, prev)
    <3>1. ~(prev < s.commit)
      BY <1>3, <2>3
    <3>2. r = Result(Taken(s, Z, MinOf(m.commit, Len(L))), {}, {AppResp(s, n, m.from, Len(L))})
      BY <1>2, <1>4, <1>5, <2>3, <3>1 DEF HandleAppend, Taken, Differs, Spliced, Resolved
    <3> QED
      BY <1>6, <1>8, <2>3, <3>2
  <2> QED
    BY <1>3, <2>1, <2>2, <2>3
<1>10. CASE r = Result(s, {}, {a1}) \/ r = Result(s, {}, {a2})
  BY <1>7, <1>10 DEF Tells, Result
<1>11. CASE prev <= Len(s.log) /\ TermAt(s.log, prev) = TermAt(L, prev) /\ r = Result(z, {}, {a3})
  <2>1. Z = Y \/ Z = L
    <3>1. F # {} => Spliced(Y, L, CHOOSE i \in F : \A j \in F : i <= j) = L
      <4>1. prev \in Nat /\ prev <= Len(L) /\ prev <= Len(Y)
        BY <1>2, <1>3, <1>11
      <4> QED
        BY <1>1, <1>2, <1>3, <1>4, <1>11, <4>1, AppendAdopts
    <3> QED
      BY <1>3, <1>5, <3>1 DEF Resolved
  <2>2. Logged(z, Z)
    BY <1>8 DEF Logged, Taken
  <2> QED
    BY <1>2, <1>7, <1>11, <2>1, <2>2 DEF Tells, Result
<1> QED
  BY <1>9, <1>10, <1>11

\* The other handlers keep it.
LEMMA HandleHeartbeatTells ==
  ASSUME NEW s, NEW Y, Logged(s, Y), NEW n, NEW m, NEW r, r = HandleHeartbeat(s, n, m)
  PROVE  Tells(r, Y)
<1>1. PICK z : z = [s EXCEPT !.commit = MaxOf(@, m.commit)]
  OBVIOUS
<1>2. Logged(z, Y)
  BY <1>1 DEF Logged
<1>3. PICK x : x = [type |-> "BeatResp", term |-> s.term, from |-> n, to |-> {m.from}, ctx |-> m.ctx]
  OBVIOUS
<1>4. r = Result(z, {x}, {}) /\ x.type # "Log"
  BY <1>1, <1>3 DEF HandleHeartbeat
<1> QED
  BY <1>2, <1>4 DEF Tells, Result

\* maybeCommit.
LEMMA MaybeCommitLogged ==
  ASSUME NEW s, NEW Y, Logged(s, Y)
  PROVE  Logged(MaybeCommit(s), Y)
<1>1. \E j : MaybeCommit(s) = [s EXCEPT !.commit = j] \/ MaybeCommit(s) = s
  BY DEF MaybeCommit
<1> QED
  BY <1>1 DEF Logged

\* The reads that start.
LEMMA StartReadsTells ==
  ASSUME NEW s, NEW Y, Logged(s, Y), NEW n, NEW q, NEW r, r = StartReads(s, n, q)
  PROVE  Tells(r, Y)
<1>1. PICK s1 : s1 = [s EXCEPT !.queue = @ \o [k \in DOMAIN q |-> [id |-> q[k], index |-> s.commit]]]
  OBVIOUS
<1>2. PICK s2 : s2 = [s1 EXCEPT !.acks[n] = HeartbeatCtx(s1)]
  OBVIOUS
<1>3. Logged(s1, Y)
  BY <1>1 DEF Logged
<1>4. Logged(s2, Y)
  BY <1>2, <1>3 DEF Logged
<1>5. r = Result(s2, BcastHeartbeat(s2, n), {})
  BY <1>1, <1>2 DEF StartReads
<1>6. \A x \in BcastHeartbeat(s2, n) : x.type # "Log"
  BY DEF BcastHeartbeat, BeatMsg
<1> QED
  BY <1>4, <1>5, <1>6 DEF Tells, Result

\* An acknowledgement.
LEMMA HandleAppRespTells ==
  ASSUME NEW s, NEW Y, Logged(s, Y), NEW n, NEW m, NEW r, r = HandleAppResp(s, n, m)
  PROVE  Tells(r, Y)
<1>1. PICK s0 : s0 = [s EXCEPT !.conf.trk[m.from].match = m.index]
  OBVIOUS
<1>2. PICK s1 : s1 = MaybeCommit(s0)
  OBVIOUS
<1>3. Logged(s0, Y)
  BY <1>1 DEF Logged
<1>4. Logged(s1, Y)
  BY <1>2, <1>3, MaybeCommitLogged
<1>5. PICK y : y = [s1 EXCEPT !.waiting = << >>]
  OBVIOUS
<1>6. Logged(y, Y)
  BY <1>4, <1>5 DEF Logged
<1>7. PICK q : q = StartReads(y, n, s1.waiting) \/ q = Quiet(s1)
  OBVIOUS
<1>8. Tells(StartReads(y, n, s1.waiting), Y) /\ Tells(Quiet(s1), Y)
  BY <1>4, <1>6, StartReadsTells, TellsQuiet
<1>9. \A z : Logged(z, Y) => LogMsg(z, n).log = Y
  BY DEF LogMsg, Logged
<1>10. TimeoutNow(s1, n, m.from).type # "Log"
  BY DEF TimeoutNow
<1>11. \/ r = Quiet(s)
       \/ \E x, ms : /\ x = StartReads(y, n, s1.waiting) \/ x = Quiet(s1)
                     /\ ms \subseteq {LogMsg(x.s, n), TimeoutNow(s1, n, m.from)}
                     /\ r = [x EXCEPT !.out = @ \cup ms]
  <2> SUFFICES ASSUME r # Quiet(s)
               PROVE  \E x, ms : /\ x = StartReads(y, n, s1.waiting) \/ x = Quiet(s1)
                                 /\ ms \subseteq {LogMsg(x.s, n), TimeoutNow(s1, n, m.from)}
                                 /\ r = [x EXCEPT !.out = @ \cup ms]
    OBVIOUS
  <2> DEFINE x == IF s1.commit > s.commit /\ s1.waiting # << >> /\ CommittedInTerm(s1)
                  THEN StartReads(y, n, s1.waiting) ELSE Quiet(s1)
             a == IF s1.commit > s.commit THEN {LogMsg(x.s, n)} ELSE {}
             b == IF m.from = s1.transferee /\ m.index = Len(s1.log)
                  THEN {TimeoutNow(s1, n, m.from)} ELSE {}
  <2>1. r = [x EXCEPT !.out = @ \cup a \cup b]
    BY <1>1, <1>2, <1>5 DEF HandleAppResp
  <2>2. x = StartReads(y, n, s1.waiting) \/ x = Quiet(s1)
    OBVIOUS
  <2>3. a \cup b \subseteq {LogMsg(x.s, n), TimeoutNow(s1, n, m.from)}
    OBVIOUS
  <2> HIDE DEF x, a, b
  <2>4. r = [x EXCEPT !.out = @ \cup (a \cup b)]
    <3>1. \A o : o \cup a \cup b = o \cup (a \cup b)
      OBVIOUS
    <3> QED
      BY <2>1, <3>1
  <2> QED
    BY <2>2, <2>3, <2>4
<1>12. CASE r = Quiet(s)
  BY <1>12, TellsQuiet
<1>13. ASSUME NEW x, NEW ms, x = StartReads(y, n, s1.waiting) \/ x = Quiet(s1),
              ms \subseteq {LogMsg(x.s, n), TimeoutNow(s1, n, m.from)},
              r = [x EXCEPT !.out = @ \cup ms]
       PROVE  Tells(r, Y)
  <2>1. Tells(x, Y)
    BY <1>8, <1>13
  <2>2. \E z, o : x = Result(z, o, {})
    BY <1>13 DEF StartReads, Quiet
  <2>3. r.s = x.s /\ r.out = x.out \cup ms /\ r.after = x.after
    BY <1>13, <2>2 DEF Result
  <2>4. \A e \in ms : e.type = "Log" => e.log = Y
    BY <1>9, <1>10, <1>13, <2>1 DEF Tells
  <2> QED
    BY <2>1, <2>3, <2>4 DEF Tells
<1> QED
  BY <1>11, <1>12, <1>13

\* A response to a heartbeat.
LEMMA HandleBeatRespTells ==
  ASSUME NEW s, NEW Y, Logged(s, Y), NEW m, NEW r, r = HandleBeatResp(s, m)
  PROVE  Tells(r, Y)
<1>1. PICK z : z = [s EXCEPT !.acks[m.from] = MaxOf(@, m.ctx)]
  OBVIOUS
<1>2. Logged(z, Y)
  BY <1>1 DEF Logged
<1>3. r = Quiet(s) \/ r = MaybeAdvance(z)
  BY <1>1 DEF HandleBeatResp
<1>4. Tells(MaybeAdvance(z), Y)
  <2>1. PICK now, k : now = CommittedIndex(z.conf.in, z.conf.out, z.acks) /\ k = now - z.confirmed
    OBVIOUS
  <2>2. PICK y : y = [z EXCEPT !.confirmed = now, !.queue = SubSeq(@, k + 1, Len(@))]
    OBVIOUS
  <2>3. Logged(y, Y)
    BY <1>2, <2>2 DEF Logged
  <2>4. \/ MaybeAdvance(z) = Quiet(z)
        \/ MaybeAdvance(z) = [Quiet(y) EXCEPT !.read = {z.queue[i] : i \in 1 .. k}]
    BY <2>1, <2>2 DEF MaybeAdvance
  <2> QED
    BY <1>2, <2>3, <2>4 DEF Tells, Quiet, Result
<1> QED
  BY <1>3, <1>4, TellsQuiet

\* What a message leaves of the log Y: Y, the log it carries, or Y and an
\* empty entry.
Draws(r, Y, m) ==
  \/ Tells(r, Y)
  \/ m.type = "Log" /\ Tells(r, m.log)
  \/ \E t : Tells(r, Append(Y, Entry(t, Normal)))

\* A node's log.
LEMMA NodeLogged ==
  ASSUME NEW s \in NodeType
  PROVE  Logged(s, s.log)
  BY DEF Logged, NodeType

\* The rest of Step.
LEMMA HandleTells ==
  ASSUME NEW h, NEW M, NEW D, NEW n \in Ids, NEW s, NEW d, NEW w, NEW sent,
         AgreesAt(h, M, D, n, s, d, w, sent), s.conf # Refused,
         NEW m \in sent, m.term = s.term \/ m.type \in {"PreVote", "PreVoteResp"},
         NEW prev, m.type = "Log" => prev \in 0 .. Len(m.log), NEW r, r = Handle(s, n, m, prev)
  PROVE  Draws(r, s.log, m)
<1>1. s \in NodeType /\ Logged(s, s.log)
  BY NodeNums, NodeLogged
<1>2. m.from \in Ids
  BY SentFacts, MsgFacts
<1>3. PICK Y : Y = s.log /\ Logged(s, Y)
  BY <1>1
<1>4. CASE m.type \in {"Vote", "PreVote"}
  <2>1. r = HandleVote(s, n, m)
    BY <1>4 DEF Handle
  <2>2. Tells(r, Y)
    BY <1>3, <2>1, HandleVoteTells
  <2> QED
    BY <1>3, <2>2 DEF Draws
<1>5. CASE m.type \in {"Log", "Beat"} /\ s.state # "leader"
  <2>1. PICK z : z = Follow(s, m)
    OBVIOUS
  <2>2. m.term = s.term
    BY <1>5
  <2>3. /\ AgreesAt(h, M, D, n, z, d, w, sent) /\ z.conf # Refused
        /\ z.term = s.term /\ z.log = s.log /\ z.commit = s.commit /\ z.state = "follower"
    BY ONLY <1>2, <2>1, <2>2, FollowStep, AgreesAt(h, M, D, n, s, d, w, sent), s.conf # Refused, n \in Ids
  <2>4. z \in NodeType /\ Logged(z, Y)
    <3>1. z \in NodeType
      BY <2>3, NodeNums
    <3> QED
      BY <1>3, <2>3, <3>1, NodeLogged
  <2>5. CASE m.type = "Log"
    <3>1. r = HandleAppend(z, n, m, prev)
      BY <1>5, <2>1, <2>5 DEF Handle
    <3>2. HistOk(h, D) /\ Src(h, Y) /\ Y \in Logs
      BY <1>1, <1>3, AtFacts DEF ViewOk, NodeType
    <3>3. m.log \in Logs /\ Src(h, m.log)
      <4>1. Offer(h, m.term, m.log, MinOf(m.commit, Len(m.log)))
        BY <2>5, LogOffers
      <4> QED
        BY <3>2, <4>1, OfferFacts
    <3>4. Akin(Y, m.log)
      BY <3>2, <3>3 DEF Akin
    <3>5. Tells(r, Y) \/ Tells(r, m.log)
      BY <2>4, <2>5, <3>1, <3>4, HandleAppendTells
    <3> QED
      BY <1>3, <2>5, <3>5 DEF Draws
  <2>6. CASE m.type = "Beat"
    <3>1. r = HandleHeartbeat(z, n, m)
      BY <1>5, <2>1, <2>6 DEF Handle
    <3>2. Tells(r, Y)
      BY <2>4, <3>1, HandleHeartbeatTells
    <3> QED
      BY <1>3, <3>2 DEF Draws
  <2> QED
    BY <1>5, <2>5, <2>6
<1>6. CASE \/ m.type = "PreVoteResp" /\ s.state = "pre"
           \/ m.type = "VoteResp" /\ s.state = "candidate"
  <2>1. r = HandleVoteResp(s, n, m)
    BY <1>6 DEF Handle
  <2>2. Tells(r, Y) \/ \E t : Tells(r, Append(Y, Entry(t, Normal)))
    BY <1>3, <2>1, HandleVoteRespTells
  <2> QED
    BY <1>3, <2>2 DEF Draws
<1>7. CASE m.type = "AppResp" /\ s.state = "leader"
  <2>1. r = HandleAppResp(s, n, m)
    BY <1>7 DEF Handle
  <2>2. Tells(r, Y)
    BY <1>3, <2>1, HandleAppRespTells
  <2> QED
    BY <1>3, <2>2 DEF Draws
<1>8. CASE m.type = "BeatResp" /\ s.state = "leader"
  <2>1. r = HandleBeatResp(s, m)
    BY <1>8 DEF Handle
  <2>2. Tells(r, Y)
    BY <1>3, <2>1, HandleBeatRespTells
  <2> QED
    BY <1>3, <2>2 DEF Draws
<1>9. CASE m.type = "TimeoutNow" /\ s.state = "follower" /\ MayHup(s, n)
  <2>1. r = Campaign(s, n, "transfer")
    BY <1>9 DEF Handle
  <2>2. Tells(r, Y)
    BY <1>3, <2>1, CampaignTells
  <2> QED
    BY <1>3, <2>2 DEF Draws
<1>10. CASE /\ ~(m.type \in {"Vote", "PreVote"})
            /\ ~(m.type \in {"Log", "Beat"} /\ s.state # "leader")
            /\ ~(\/ m.type = "PreVoteResp" /\ s.state = "pre"
                 \/ m.type = "VoteResp" /\ s.state = "candidate")
            /\ ~(m.type = "AppResp" /\ s.state = "leader")
            /\ ~(m.type = "BeatResp" /\ s.state = "leader")
            /\ ~(m.type = "TimeoutNow" /\ s.state = "follower" /\ MayHup(s, n))
  <2>1. r = Quiet(s)
    BY <1>10 DEF Handle
  <2>2. Tells(r, Y)
    BY <1>3, <2>1, TellsQuiet
  <2> QED
    BY <1>3, <2>2 DEF Draws
<1> QED
  BY <1>4, <1>5, <1>6, <1>7, <1>8, <1>9, <1>10

\* Step.
LEMMA StepMsgTells ==
  ASSUME NEW h, NEW M, NEW D, NEW n \in Ids, NEW s, NEW d, NEW w, NEW sent,
         AgreesAt(h, M, D, n, s, d, w, sent), s.conf # Refused, NEW m \in sent,
         NEW prev, m.type = "Log" => prev \in 0 .. Len(m.log), NEW r, r = StepMsg(s, n, m, prev)
  PROVE  Draws(r, s.log, m)
<1>1. s.term \in Nat /\ Logged(s, s.log)
  BY NodeNums, NodeLogged
<1>2. m.from \in Ids /\ m.term \in Nat
  BY SentFacts, MsgFacts
<1>3. CASE m.term < s.term
  <2>1. r = OnLowerTerm(s, n, m)
    BY <1>1, <1>2, <1>3 DEF StepMsg
  <2>2. PICK a, b : a = AppResp(s, n, m.from, 0) /\ b = VoteResp("PreVoteResp", s.term, n, m.from, TRUE)
    OBVIOUS
  <2>3. r = Result(s, {}, {a}) \/ r = Result(s, {}, {b}) \/ r = Quiet(s)
    BY <2>1, <2>2 DEF OnLowerTerm
  <2>4. a.type # "Log" /\ b.type # "Log"
    BY <2>2 DEF AppResp, VoteResp
  <2>5. Tells(r, s.log)
    BY <1>1, <2>3, <2>4 DEF Tells, Quiet, Result
  <2> QED
    BY <2>5 DEF Draws
<1>4. CASE m.term = s.term
  <2>1. r = Handle(s, n, m, prev)
    BY <1>1, <1>2, <1>4 DEF StepMsg
  <2> QED
    BY <1>4, <2>1, HandleTells
<1>5. CASE m.term > s.term
  <2>1. PICK z : z = OnHigherTerm(s, m)
    OBVIOUS
  <2>2. r = Handle(z, n, m, prev)
    BY <1>1, <1>2, <1>5, <2>1 DEF StepMsg
  <2>3. /\ AgreesAt(h, M, D, n, z, d, w, sent) /\ z.conf # Refused
        /\ z.log = s.log
        /\ m.term = z.term \/ m.type \in {"PreVote", "PreVoteResp"}
    <3>1. CASE m.type \in {"PreVote", "PreVoteResp"} /\ z = s
      BY <3>1
    <3>2. CASE ~(m.type \in {"PreVote", "PreVoteResp"} /\ z = s)
      <4>1. PICK t, f : t = m.term /\ f = IF m.type \in {"Log", "Beat"} THEN m.from ELSE None
        OBVIOUS
      <4>2. z = BecomeFollower(s, t, f)
        BY <2>1, <3>2, <4>1 DEF OnHigherTerm
      <4>3. t \in Nat /\ t >= s.term /\ f \in Ids \cup {None}
        BY <1>1, <1>2, <1>5, <4>1
      <4>4. AgreesAt(h, M, D, n, s, d, w, sent) /\ s.conf # Refused /\ n \in Ids
        OBVIOUS
      <4>5. /\ AgreesAt(h, M, D, n, z, d, w, sent) /\ z.conf # Refused
            /\ z.term = t /\ z.log = s.log
        BY ONLY <4>2, <4>3, <4>4, FollowerStep
      <4> QED
        BY <4>1, <4>5
    <3> QED
      BY <3>1, <3>2
  <2>4. Draws(r, z.log, m)
    BY <2>2, <2>3, HandleTells
  <2> QED
    BY <2>3, <2>4
<1> QED
  BY <1>1, <1>2, <1>3, <1>4, <1>5

-----------------------------------------------------------------------------
(* No refused change.  A change that fits the configuration can only be    *)
(* refused because it would leave no voter, or because it is empty and is  *)
(* not the change that leaves a joint configuration.                       *)

\* What clients propose in a setup.
Offered(name) == UNION {Setups[name].proposals[i] : i \in DOMAIN Setups[name].proposals}

\* The entries of X are clients', empty ones, and the leader's own changes.
From(X, P) == \A p \in 1 .. Len(X) : X[p].cc \in P \cup {Normal, LeaveChange}

\* No change along X is refused.
Walkable(X, P) == From(X, P) /\ \E c : ConfOk(X, Len(X), c)

\* Whatever configuration the changes of P have led to, none of them that fits
\* it removes its last voter.
KeepsVoters(P) ==
  \A cc \in P \ {Normal} :
    /\ cc.changes = << >> => cc.transition = "auto"
    /\ \A X \in Logs : \A c :
         From(X, P) /\ ConfOk(X, Len(X), c) /\ Fits(c, cc) => ApplyAll(c, cc.changes) # Refused

ClientsKeepVoters == \A name \in DOMAIN Setups : KeepsVoters(Offered(name))

\* A log that grows by a change that is not refused.
LEMMA GrowWalk ==
  ASSUME NEW X \in Logs, NEW e, NEW Y, Y = Append(X, e), Y \in Logs, NEW c, ConfOk(X, Len(X), c),
         NEW g, g = (IF IsConf(e) THEN Changed(c, e.cc) ELSE c), g # Refused
  PROVE  ConfOk(Y, Len(Y), g)
<1>1. /\ Len(X) \in Nat /\ Len(Y) = Len(X) + 1 /\ Y[Len(X) + 1] = e
      /\ \A i \in 1 .. Len(X) : Y[i] = X[i]
  BY DEF Logs
<1>2. PICK a : a = Len(X) /\ a \in Nat /\ Len(Y) = a + 1 /\ Y[a + 1] = e
  BY <1>1
<1>3. Same(X, Y, a)
  BY <1>1, <1>2 DEF Same
<1>4. ConfOk(Y, a, c)
  BY <1>2, <1>3, ConfOkSame
<1>5. g = After(Y, a, c) /\ a + 1 <= Len(Y)
  BY <1>2 DEF After
<1>6. ConfOk(Y, a + 1, g)
  BY <1>2, <1>4, <1>5, WalkOn
<1> QED
  BY <1>2, <1>6

\* The entries of a log that grows.
LEMMA GrowFrom ==
  ASSUME NEW X \in Logs, NEW P, From(X, P), NEW e, e.cc \in P \cup {Normal, LeaveChange},
         NEW Y, Y = Append(X, e)
  PROVE  From(Y, P)
<1>1. /\ Len(X) \in Nat /\ Len(Y) = Len(X) + 1 /\ Y[Len(X) + 1] = e
      /\ \A i \in 1 .. Len(X) : Y[i] = X[i]
  BY DEF Logs
<1> SUFFICES ASSUME NEW p \in 1 .. Len(Y) PROVE Y[p].cc \in P \cup {Normal, LeaveChange}
  BY DEF From
<1>2. CASE p \in 1 .. Len(X)
  BY <1>1, <1>2 DEF From
<1>3. CASE p = Len(X) + 1
  BY <1>1, <1>3
<1> QED
  BY <1>1, <1>2, <1>3

\* An empty entry.
LEMMA GrowNormal ==
  ASSUME NEW X \in Logs, NEW P, Walkable(X, P), NEW t, NEW Y, Y = Append(X, Entry(t, Normal)),
         Y \in Logs
  PROVE  Walkable(Y, P)
<1>1. PICK e : e = Entry(t, Normal)
  OBVIOUS
<1>2. e.cc = Normal /\ ~IsConf(e)
  BY <1>1 DEF Entry, IsConf
<1>3. From(Y, P)
  BY <1>1, <1>2, GrowFrom DEF Walkable
<1>4. PICK c : ConfOk(X, Len(X), c)
  BY DEF Walkable
<1>5. c # Refused
  BY <1>4, RefusedConf DEF ConfOk, Good
<1>6. ConfOk(Y, Len(Y), c)
  BY <1>1, <1>2, <1>4, <1>5, GrowWalk
<1> QED
  BY <1>3, <1>6 DEF Walkable

\* Nor is one along a part of a log.
LEMMA WalkableUpTo ==
  ASSUME NEW X \in Logs, NEW P, Walkable(X, P), NEW Y \in Logs, Len(Y) <= Len(X), Same(X, Y, Len(Y))
  PROVE  Walkable(Y, P)
<1>1. Len(X) \in Nat /\ Len(Y) \in Nat
  BY LogFacts
<1>2. From(Y, P)
  BY <1>1 DEF Walkable, From, Same
<1>3. PICK f : IsWalk(f, X, Len(X))
  BY DEF Walkable, ConfOk
<1>4. IsWalk(f, X, Len(Y)) /\ Good(f[Len(Y)])
  BY <1>1, <1>3 DEF IsWalk
<1>5. ConfOk(X, Len(Y), f[Len(Y)])
  BY <1>4 DEF ConfOk, Alike
<1> QED
  BY <1>1, <1>2, <1>5, ConfOkSame DEF Walkable

\* Where the last change of a log has been applied, its last configuration is
\* the current one.
LEMMA WalkLast ==
  ASSUME NEW X \in Logs, NEW e, ConfOk(X, Len(X), e), NEW a \in Nat, a <= Len(X), NEW c,
         ConfOk(X, a, c), \A p \in a + 1 .. Len(X) : ~IsConf(X[p])
  PROVE  Alike(c, e)
<1>1. PICK f : IsWalk(f, X, a) /\ Alike(f[a], c)
  BY DEF ConfOk
<1>2. PICK b : b = Len(X) /\ b \in Nat
  BY LogFacts
<1>3. PICK g : IsWalk(g, X, b) /\ Alike(g[b], e)
  BY <1>2 DEF ConfOk
<1>4. f[a] = g[a]
  <2>1. Same(X, X, a)
    BY DEF Same
  <2>2. \A k \in 0 .. a : f[k] = g[k]
    BY <1>1, <1>2, <1>3, <2>1, WalkUnique
  <2> QED
    BY <2>2
<1>5. g[b] = g[a]
  <2>1. b <= b /\ \A p \in a + 1 .. b : ~IsConf(X[p])
    BY <1>2
  <2> QED
    BY <1>2, <1>3, <2>1, WalkStays
<1> QED
  BY <1>1, <1>3, <1>4, <1>5 DEF Alike

\* Along a log whose walk goes on, the next change is not refused.
LEMMA WalkAhead ==
  ASSUME NEW X \in Logs, NEW e, ConfOk(X, Len(X), e), NEW a \in Nat, a + 1 <= Len(X), NEW c,
         ConfOk(X, a, c)
  PROVE  After(X, a, c) # Refused
<1>1. PICK f : IsWalk(f, X, a) /\ Alike(f[a], c)
  BY DEF ConfOk
<1>2. PICK b : b = Len(X) /\ b \in Nat
  BY LogFacts
<1>3. PICK g : IsWalk(g, X, b)
  BY <1>2 DEF ConfOk
<1>4. f[a] = g[a]
  <2>1. Same(X, X, a) /\ a <= b
    BY <1>2 DEF Same
  <2>2. \A k \in 0 .. a : f[k] = g[k]
    BY <1>1, <1>2, <1>3, <2>1, WalkUnique
  <2> QED
    BY <2>2
<1>5. Good(c) /\ c # Refused
  BY RefusedConf DEF ConfOk, Good
<1>6. CASE ~IsConf(X[a + 1])
  BY <1>5, <1>6 DEF After
<1>7. CASE IsConf(X[a + 1])
  <2>1. PICK cc : cc = X[a + 1].cc
    OBVIOUS
  <2>2. a + 1 \in 1 .. Len(X) /\ a + 1 \in 1 .. b /\ a + 1 \in 0 .. b /\ a \in 0 .. b /\ (a + 1) - 1 = a
    BY <1>2
  <2>3. cc.changes \in Seq(Singles)
    BY <1>7, <2>1, <2>2, ChangeTyping
  <2>4. g[a + 1] = Changed(g[a], cc) /\ Good(g[a + 1]) /\ Good(g[a])
    BY <1>3, <1>7, <2>1, <2>2 DEF IsWalk
  <2>5. Changed(g[a], cc) # Refused
    BY <2>4, RefusedConf DEF Good
  <2>6. PICK ga : ga = g[a] /\ Tracked(ga) /\ ga.in # {} /\ Tracked(c) /\ Alike(ga, c)
    BY <1>1, <1>4, <1>5, <2>4 DEF Good
  <2>7. Changed(c, cc) # Refused
    BY <2>3, <2>5, <2>6, ChangedAlike
  <2> QED
    BY <1>7, <2>1, <2>7 DEF After
<1> QED
  BY <1>6, <1>7

\* Without single changes the voters stay.
LEMMA ApplyNothing ==
  ASSUME NEW c, Tracked(c), c.in # {}
  PROVE  ApplyAll(c, << >>) # Refused
<1>0. << >> \in Seq(Singles) /\ Len(<< >>) = 0
  OBVIOUS
<1>1. PICK ops : ops = << >> /\ ops \in Seq(Singles) /\ Len(ops) = 0
  BY <1>0
<1>2. PICK f : /\ IsRun(f, c, ops)
               /\ ApplyAll(c, ops) = IF f[Len(ops)].in = {} THEN Refused ELSE f[Len(ops)]
  BY <1>1, ApplyAllRun
<1>3. f[0] = c
  BY <1>2 DEF IsRun
<1>4. ApplyAll(c, ops) = c
  BY <1>1, <1>2, <1>3
<1> QED
  BY <1>1, <1>4, RefusedConf

\* A change that a leader may propose grows the log by one that is not refused.
LEMMA ProposalGrows ==
  ASSUME NEW P, KeepsVoters(P), NEW X \in Logs, Walkable(X, P),
         NEW a \in Nat, a <= Len(X), \A p \in a + 1 .. Len(X) : ~IsConf(X[p]),
         NEW c, ConfOk(X, a, c), NEW cc \in ConfChanges, cc # Normal,
         cc \in P \cup {LeaveChange}, Fits(c, cc), NEW t, NEW Y, Y = Append(X, Entry(t, cc)),
         Y \in Logs
  PROVE  Walkable(Y, P)
<1>1. PICK e : ConfOk(X, Len(X), e)
  BY DEF Walkable
<1>2. From(X, P)
  BY DEF Walkable
<1>3. Alike(c, e)
  BY <1>1, WalkLast
<1>4. Fits(e, cc)
  BY <1>3 DEF Fits, Joint, Alike
<1>5. Tracked(e) /\ e.in # {}
  BY <1>1 DEF ConfOk, Good
<1>6. cc.changes \in Seq(Singles)
  BY DEF ConfChanges
<1>7. (cc.changes = << >> => cc.transition = "auto") /\ ApplyAll(e, cc.changes) # Refused
  <2>1. CASE cc \in P
    BY <1>1, <1>2, <1>4, <2>1 DEF KeepsVoters
  <2>2. CASE cc = LeaveChange
    <3>1. cc.changes = << >> /\ cc.transition = "auto"
      BY <2>2 DEF LeaveChange, Change
    <3> QED
      BY <1>5, <3>1, ApplyNothing
  <2> QED
    BY <2>1, <2>2
<1>8. Changed(e, cc) # Refused
  BY <1>4, <1>5, <1>6, <1>7, FitsApplies
<1>9. PICK x, g : x = Entry(t, cc) /\ g = Changed(e, cc)
  OBVIOUS
<1>10. x.cc = cc /\ IsConf(x)
  BY <1>9 DEF Entry, IsConf
<1>11. g = (IF IsConf(x) THEN Changed(e, x.cc) ELSE e) /\ g # Refused
  BY <1>8, <1>9, <1>10
<1>12. ConfOk(Y, Len(Y), g)
  BY <1>1, <1>9, <1>11, GrowWalk
<1>13. From(Y, P)
  BY <1>2, <1>9, <1>10, GrowFrom
<1> QED
  BY <1>12, <1>13 DEF Walkable

\* MsgProp at the leader.
LEMMA ProposedTells ==
  ASSUME NEW h, NEW M, NEW D, NEW n \in Ids, NEW s, NEW d, NEW w, NEW sent,
         AgreesAt(h, M, D, n, s, d, w, sent), s.conf # Refused, s.state = "leader",
         NEW P, KeepsVoters(P), Walkable(s.log, P),
         NEW cc \in ConfChanges \cup {Normal}, cc \in P \cup {Normal, LeaveChange},
         NEW r, r = Proposed(s, n, cc)
  PROVE  \E Y : Tells(r, Y) /\ Walkable(Y, P)
<1>1. /\ s \in NodeType /\ s.log \in Logs /\ s.commit \in Nat /\ s.commit <= Len(s.log) /\ s.term \in Nat
      /\ Len(s.log) \in Nat /\ s.applied \in Nat /\ s.applied <= s.commit /\ Logged(s, s.log)
  BY NodeNums, NodeLogged
<1>2. PICK X, t : X = s.log /\ t = s.term
  OBVIOUS
<1>3. ASSUME NEW c \in ConfChanges \cup {Normal} PROVE Append(X, Entry(t, c)) \in Logs
  BY <1>1, <1>2, <1>3 DEF Logs, Entries, Entry
<1>4. CASE cc # Normal /\ ~Refuses(s, cc)
  <2>1. PICK y : y = [s EXCEPT !.pending = Len(s.log) + 1]
    OBVIOUS
  <2>2. y.term = t /\ Logged(y, X)
    BY <1>1, <1>2, <2>1 DEF Logged, NodeType
  <2>3. r = AppendEntry(y, n, cc)
    BY <1>4, <2>1 DEF Proposed
  <2>4. PICK Y : Y = Append(X, Entry(t, cc)) /\ Y \in Logs
    BY <1>3
  <2>5. Tells(r, Y)
    BY <2>2, <2>3, <2>4, AppendEntryTells
  <2>6. NodeOk(h, M, D, n, s, d)
    BY AtFacts
  <2>7. LeaderOk(h, D, n, s) /\ ConfOk(X, s.applied, s.conf)
    BY <1>2, <2>6 DEF NodeOk
  <2>8. s.pending <= s.applied /\ Fits(s.conf, cc)
    BY <1>1, <1>4 DEF Refuses, NodeType
  <2>9. \A p \in s.applied + 1 .. Len(X) : ~IsConf(X[p])
    <3>1. s.pending \in Nat
      BY <1>1 DEF NodeType
    <3> QED
      BY <1>1, <1>2, <2>7, <2>8, <3>1 DEF LeaderOk
  <2>10. PICK a, k : a = s.applied /\ k = s.conf
    OBVIOUS
  <2>11. /\ a \in Nat /\ a <= Len(X) /\ (\A p \in a + 1 .. Len(X) : ~IsConf(X[p]))
         /\ ConfOk(X, a, k) /\ cc \in ConfChanges /\ cc # Normal /\ cc \in P \cup {LeaveChange}
         /\ Fits(k, cc) /\ X \in Logs /\ Walkable(X, P) /\ KeepsVoters(P)
    BY <1>1, <1>2, <1>4, <2>7, <2>8, <2>9, <2>10
  <2>12. Walkable(Y, P)
    BY ONLY <2>4, <2>11, ProposalGrows
  <2> QED
    BY <2>5, <2>12
<1>5. CASE ~(cc # Normal /\ ~Refuses(s, cc))
  <2>1. r = AppendEntry(s, n, Normal)
    BY <1>5 DEF Proposed
  <2>2. PICK Y : Y = Append(X, Entry(t, Normal)) /\ Y \in Logs
    BY <1>3
  <2>3. Tells(r, Y)
    BY <1>1, <1>2, <2>1, <2>2, AppendEntryTells
  <2>4. Walkable(Y, P)
    BY <1>1, <1>2, <2>2, GrowNormal
  <2> QED
    BY <2>3, <2>4
<1> QED
  BY <1>4, <1>5

\* switchToConfig.
LEMMA SwitchedTells ==
  ASSUME NEW s \in NodeType, NEW n, NEW c, NEW q, q = Switched(s, n, c)
  PROVE  q.s.conf = c /\ Tells(q, s.log)
<1>1. PICK s1 : s1 = [s EXCEPT !.conf = c]
  OBVIOUS
<1>2. s1.conf = c /\ Logged(s1, s.log) /\ "conf" \in DOMAIN s1
  BY <1>1 DEF Logged, NodeType
<1>3. PICK z : z = MaybeCommit(s1)
  OBVIOUS
<1>4. z.conf = c /\ Logged(z, s.log)
  <2>1. PICK i : i = CommittedIndex(s1.conf.in, s1.conf.out, Matches(s1))
    OBVIOUS
  <2>2. z = s1 \/ z = [s1 EXCEPT !.commit = i]
    BY <1>3, <2>1 DEF MaybeCommit
  <2> QED
    BY <1>2, <2>2 DEF Logged
<1>5. PICK t : t = IF z.transferee \in Voters(c) THEN z.transferee ELSE None
  OBVIOUS
<1>6. PICK s2 : s2 = [z EXCEPT !.transferee = t]
  OBVIOUS
<1>7. s2.conf = c /\ Logged(s2, s.log)
  BY <1>4, <1>6 DEF Logged
<1>8. q = Quiet(s1) \/ q = Result(s2, {LogMsg(s2, n)}, {})
  BY <1>1, <1>3, <1>5, <1>6 DEF Switched
<1>9. LogMsg(s2, n).log = s.log
  BY <1>7 DEF LogMsg, Logged
<1> QED
  BY <1>2, <1>7, <1>8, <1>9 DEF Tells, Quiet, Result

\* Midway, with no change refused.
Unhindered(s, n, d, w, sent, r, i) ==
  Midway(s, n, d, w, sent, r, i) /\ r.s.conf # Refused /\ Tells(r, s.log)

\* One entry of a log along which no change is refused.
LEMMA UnhinderedStep ==
  ASSUME NEW n \in Ids, NEW s \in NodeType, NEW P, Walkable(s.log, P), s.commit <= Len(s.log),
         NEW d, NEW w, NEW sent,
         NEW i \in Nat, i > 0, i <= s.commit, NEW r, Unhindered(s, n, d, w, sent, r, i - 1),
         NEW p, p = Stepped(s, n, r, i)
  PROVE  Unhindered(s, n, d, w, sent, p, i)
<1>1. /\ Midway(s, n, d, w, sent, r, i - 1) /\ r.s.conf # Refused /\ Tells(r, s.log)
  BY DEF Unhindered
<1>2. Midway(s, n, d, w, sent, p, i)
  BY <1>1, MidwayStep
<1>3. CASE ~IsConf(s.log[i])
  <2>1. p = r
    BY <1>3 DEF Stepped
  <2> QED
    BY <1>1, <1>2, <2>1 DEF Unhindered
<1>4. CASE IsConf(s.log[i])
  <2>1. PICK x, c, a, X : x = r.s /\ c = x.conf /\ a = i - 1 /\ X = s.log
    OBVIOUS
  <2>2. a \in Nat /\ a + 1 = i /\ X \in Logs /\ Len(X) \in Nat /\ s.commit \in Nat /\ a + 1 <= Len(X)
    <3>1. X \in Logs /\ s.commit \in Nat
      BY <2>1 DEF NodeType
    <3>2. Len(X) \in Nat
      BY <3>1, LogFacts
    <3> QED
      BY <2>1, <3>1, <3>2
  <2>3. PICK y : y = At(x, a)
    OBVIOUS
  <2>4. x \in NodeType /\ x.log = X
    BY <1>1, <2>1 DEF Midway
  <2>5. y.applied = a /\ y.log = X /\ y.conf = c
    <3>0. x \in NodeType /\ a \in Nat /\ y = At(x, a)
      BY <2>2, <2>3, <2>4
    <3>1. y.applied = a /\ y.log = x.log /\ y.conf = x.conf
      BY ONLY <3>0, AtFields
    <3> QED
      BY <2>1, <2>4, <3>1
  <2>6. PICK h, M, D, v : AgreesAt(h, M, D, n, y, d, v, sent)
    BY <1>1, <2>1, <2>3 DEF Midway, Reaches
  <2>7. NodeOk(h, M, D, n, y, d)
    BY <2>6, AtFacts
  <2>8. ConfOk(X, a, c)
    BY <1>1, <2>1, <2>5, <2>7 DEF NodeOk
  <2>9. PICK e : ConfOk(X, Len(X), e)
    BY <2>1 DEF Walkable
  <2>10. After(X, a, c) # Refused
    BY <2>2, <2>8, <2>9, WalkAhead
  <2>11. PICK g : g = Changed(c, X[i].cc) /\ g # Refused
    BY <1>4, <2>1, <2>2, <2>10 DEF After
  <2>12. PICK q : q = Switched(x, n, g)
    OBVIOUS
  <2>13. q.s.conf = g /\ Tells(q, X)
    BY <2>4, <2>12, SwitchedTells
  <2>14. p = [q EXCEPT !.out = @ \cup r.out]
    BY <1>1, <1>4, <2>1, <2>11, <2>12 DEF Stepped
  <2>15. \E s2, out : q = Result(s2, out, {})
    BY <2>12 DEF Switched, Quiet
  <2>16. p.s = q.s /\ p.out = q.out \cup r.out /\ p.after = {}
    <3>1. PICK s2, out : q = Result(s2, out, {})
      BY <2>15
    <3>2. p = Result(s2, out \cup r.out, {})
      BY <2>14, <3>1 DEF Result
    <3> QED
      BY <3>1, <3>2 DEF Result
  <2>17. Tells(p, X)
    BY <1>1, <2>1, <2>13, <2>16 DEF Tells
  <2> QED
    BY <1>2, <2>1, <2>11, <2>13, <2>16, <2>17 DEF Unhindered
<1> QED
  BY <1>3, <1>4

\* Where no change of the log is refused, none is when it is applied.
LEMMA AppliedTells ==
  ASSUME NEW h, NEW M, NEW D, NEW n \in Ids, NEW s, NEW d, NEW w, NEW sent,
         AgreesAt(h, M, D, n, s, d, w, sent), s.conf # Refused,
         NEW P, Walkable(s.log, P), NEW r, r = Applied(s, n)
  PROVE  r.s.conf # Refused /\ Tells(r, s.log)
<1>0. /\ s \in NodeType /\ s.applied \in Nat /\ s.commit \in Nat /\ s.applied <= s.commit
      /\ s.commit <= Len(s.log)
  BY NodeNums
<1> DEFINE F(f) == IsLoop(f, s, n, s.commit)
           f == CHOOSE x : F(x)
<1>1. F(f)
  <2>1. \E x : F(x)
    BY <1>0, LoopExists
  <2> QED
    BY <2>1
<1>2. r = [f[s.commit] EXCEPT !.s.applied = s.commit]
  BY DEF Applied, F, IsLoop, Stepped
<1> HIDE DEF F, f
<1>3. PICK a, b : a = s.applied /\ b = s.commit /\ a \in Nat /\ b \in Nat /\ a <= b
  BY <1>0
<1>4. /\ f[a] = Quiet(s)
      /\ \A i \in a + 1 .. b : f[i] = Stepped(s, n, f[i - 1], i)
  <2>1. f = [i \in a .. b |-> IF i = a THEN Quiet(s) ELSE Stepped(s, n, f[i - 1], i)]
    BY <1>1, <1>3 DEF F, IsLoop
  <2> QED
    BY <1>3, <2>1
<1> DEFINE T == {k \in 0 .. b - a : Unhindered(s, n, d, w, sent, f[a + k], a + k)}
<1>5. 0 \in T
  <2>1. PICK e : e = f[a]
    OBVIOUS
  <2>2. e.s = s /\ e.out = {} /\ e.after = {} /\ e = Result(e.s, e.out, {})
    BY <1>4, <2>1 DEF Quiet, Result
  <2>3. At(s, a) = s
    BY <1>0, <1>3 DEF At, NodeType
  <2>4. w \cup e.out = w
    BY <2>2
  <2>5. Reaches(n, At(e.s, a), d, w \cup e.out, sent)
    BY <2>2, <2>3, <2>4 DEF Reaches
  <2>6. Midway(s, n, d, w, sent, e, a)
    BY <1>0, <2>2, <2>5 DEF Midway
  <2>7. Tells(e, s.log)
    BY <1>0, <2>2, NodeLogged DEF Tells
  <2>8. Unhindered(s, n, d, w, sent, e, a)
    BY <2>2, <2>6, <2>7 DEF Unhindered
  <2>9. a + 0 = a
    BY <1>3
  <2> QED
    BY <1>3, <2>1, <2>8, <2>9
<1>6. ASSUME NEW k \in 1 .. b - a, k - 1 \in T PROVE k \in T
  <2>1. PICK j : j = a + k /\ j \in Nat /\ j > 0 /\ j <= b /\ j - 1 = a + (k - 1) /\ j \in a + 1 .. b
    BY <1>3
  <2>2. Unhindered(s, n, d, w, sent, f[j - 1], j - 1)
    BY <1>6, <2>1
  <2>3. f[j] = Stepped(s, n, f[j - 1], j)
    BY <1>4, <2>1
  <2>4. Unhindered(s, n, d, w, sent, f[j], j)
    BY <1>0, <1>3, <2>1, <2>2, <2>3, UnhinderedStep
  <2> QED
    BY <2>1, <2>4
<1> HIDE DEF T
<1>7. b - a \in Nat /\ a + (b - a) = b
  BY <1>3
<1>8. \A k \in 0 .. b - a : k \in T
  BY <1>5, <1>6, <1>7, UpTo, Zenon
<1>9. b - a \in T
  BY <1>7, <1>8
<1>10. PICK e : e = f[b] /\ Unhindered(s, n, d, w, sent, e, b)
  BY <1>7, <1>9 DEF T
<1>11. PICK es, eo : e = Result(es, eo, {}) /\ e.s = es /\ e.out = eo
  BY <1>10 DEF Midway, Unhindered
<1>12. es \in NodeType /\ es.conf # Refused /\ Tells(e, s.log)
  BY <1>10, <1>11 DEF Midway, Unhindered
<1>13. r.s = At(es, b) /\ r.out = eo /\ r.after = {}
  <2>1. r = [Result(es, eo, {}) EXCEPT !.s.applied = b]
    BY <1>2, <1>3, <1>10, <1>11
  <2> QED
    BY <1>12, <2>1 DEF Result, At
<1>14. r.s \in NodeType /\ r.s.log = es.log /\ r.s.conf = es.conf
  BY <1>3, <1>12, <1>13, AtFields
<1>15. Logged(r.s, s.log)
  <2>1. es.log = s.log
    BY <1>11, <1>12 DEF Tells, Logged
  <2> QED
    BY <1>14, <2>1, NodeLogged
<1> QED
  BY <1>11, <1>12, <1>13, <1>14, <1>15 DEF Tells

-----------------------------------------------------------------------------
(* No log in the cluster holds a change that is refused. *)

Carries(msgs, P) == \A m \in msgs : m.type = "Log" => Walkable(m.log, P)

LogsOk(P) ==
  /\ \A n \in Ids : /\ Walkable(node[n].log, P) /\ Walkable(disk[n].log, P)
                    /\ Carries(held[n], P)
  /\ Carries(net, P)

\* A message that is routed keeps its log.
LEMMA RoutedLog ==
  ASSUME NEW m \in Msgs, NEW P, m.type = "Log" => Walkable(m.log, P)
  PROVE  Routed(m).type = "Log" => Walkable(Routed(m).log, P)
<1>1. PICK T : T = {id \in m.to : <<m.from, id>> \notin Blocked}
  OBVIOUS
<1>2. Routed(m) = [m EXCEPT !.to = T]
  BY <1>1 DEF Routed
<1>3. Routed(m).type = m.type /\ (m.type = "Log" => Routed(m).log = m.log)
  BY <1>2 DEF Msgs
<1> QED
  BY <1>3

\* A node that handles an input and is left with the log Y.
LEMMA BecomesLogs ==
  ASSUME ~Async, RaftInv, NEW P, LogsOk(P), NEW n \in Ids, NEW r, Becomes(n, r),
         NEW Y, Tells(r, Y), Walkable(Y, P)
  PROVE  LogsOk(P)'
<1>1. /\ node' = [node EXCEPT ![n] = r.s] /\ disk' = disk
      /\ held' = [held EXCEPT ![n] = (held[n] \cup r.after) \cup r.out]
      /\ net' \subseteq net
  BY DEF Becomes, Sends, RaftInv, Typed
<1>2. r.s.log = Y /\ \A m \in r.out \cup r.after : m.type = "Log" => m.log = Y
  BY DEF Tells, Logged
<1>3. \A l \in Ids : Walkable(node'[l].log, P)
  <2>1. \A l \in Ids : node'[l] = IF l = n THEN r.s ELSE node[l]
    BY <1>1 DEF RaftInv, Typed
  <2> QED
    BY <1>2, <2>1 DEF LogsOk
<1>4. \A l \in Ids : Carries(held'[l], P)
  <2>1. \A l \in Ids : held'[l] = IF l = n THEN (held[n] \cup r.after) \cup r.out ELSE held[l]
    BY <1>1 DEF RaftInv, Typed
  <2>2. Carries((held[n] \cup r.after) \cup r.out, P)
    BY <1>2 DEF LogsOk, Carries
  <2> QED
    BY <2>1, <2>2 DEF LogsOk
<1>5. Carries(net', P)
  BY <1>1 DEF LogsOk, Carries
<1> QED
  BY <1>1, <1>3, <1>4, <1>5 DEF LogsOk

\* What a message leaves, no change is refused along.
LEMMA DrawsWalkable ==
  ASSUME NEW s \in NodeType, NEW P, Walkable(s.log, P), NEW m, m.type = "Log" => Walkable(m.log, P),
         NEW r, r.s \in NodeType, Draws(r, s.log, m)
  PROVE  \E Y : Tells(r, Y) /\ Walkable(Y, P)
<1>1. s.log \in Logs /\ r.s.log \in Logs
  BY DEF NodeType
<1>2. CASE Tells(r, s.log)
  BY <1>2
<1>3. CASE m.type = "Log" /\ Tells(r, m.log)
  BY <1>3
<1>4. ASSUME NEW t, Tells(r, Append(s.log, Entry(t, Normal)))
      PROVE  \E Y : Tells(r, Y) /\ Walkable(Y, P)
  <2>1. PICK Y : Y = Append(s.log, Entry(t, Normal))
    OBVIOUS
  <2>2. Tells(r, Y) /\ Y \in Logs
    BY <1>1, <1>4, <2>1 DEF Tells, Logged
  <2>3. Walkable(Y, P)
    BY <1>1, <2>1, <2>2, GrowNormal
  <2> QED
    BY <2>2, <2>3
<1> QED
  BY <1>2, <1>3, <1>4 DEF Draws

\* Every input leaves a log along which no change is refused.
LEMMA EventTells ==
  ASSUME RaftInv, ~panicked, NEW P, P = Offered(setup), KeepsVoters(P), LogsOk(P),
         NEW n \in Ids, Event(n)
  PROVE  \E r, Y : Becomes(n, r) /\ Tells(r, Y) /\ Walkable(Y, P)
<1>0. PICK h, M, D : Agrees(h, M, D)
  BY DEF RaftInv
<1>1. PICK s, d, w, sent : s = node[n] /\ d = disk[n] /\ w = held[n] /\ sent = net
  OBVIOUS
<1>2. AgreesAt(h, M, D, n, s, d, w, sent) /\ s.conf # Refused
  BY <1>0, <1>1, Zoom DEF RaftInv, Unrefused
<1>3. s \in NodeType /\ Logged(s, s.log) /\ Walkable(s.log, P)
  BY <1>1, <1>2, NodeNums, NodeLogged DEF LogsOk
<1>4. PICK X : X = s.log /\ Logged(s, X) /\ Walkable(X, P)
  BY <1>3
<1>5. ASSUME NEW m \in net, Receive(n, m)
      PROVE  \E r, Y : Becomes(n, r) /\ Tells(r, Y) /\ Walkable(Y, P)
  <2>0. PICK last \in 0 .. IF m.type = "Log" THEN Len(m.log) ELSE 0 : \E prev \in 0 .. last :
          Becomes(n, StepMsg(node[n], n, Cut(m, last), prev))
    BY <1>5 DEF Receive
  <2>1. PICK prev \in 0 .. last : Becomes(n, StepMsg(node[n], n, Cut(m, last), prev))
    BY <2>0
  <2>2. PICK x, r : x = Cut(m, last) /\ r = StepMsg(s, n, x, prev)
    OBVIOUS
  <2>3. m \in sent /\ n \in m.to
    BY <1>1, <1>5 DEF Receive
  <2>4. m \in Msgs /\ (m.type = "Log" => m.log \in Logs)
    BY <1>2, <2>3, SentFacts, MsgFacts
  <2>5. Sound(n, s, d, w, sent, r)
    BY ONLY <1>2, <2>1, <2>2, <2>3, SliceStep, n \in Ids
  <2>6. r.s \in NodeType
    BY <2>5, NodeNums DEF Sound, Reaches
  <2>7. Draws(r, s.log, x)
    <3>1. PICK all : all = sent \cup {x}
      OBVIOUS
    <3>2. AgreesAt(h, M, D, n, s, d, w, all)
      BY <1>2, <2>2, <2>3, <3>1, SentCut
    <3>3. x \in all /\ (x.type = "Log" => prev \in 0 .. Len(x.log))
      BY <2>2, <2>4, <3>1, CutFacts
    <3> QED
      BY ONLY <1>2, <2>2, <3>2, <3>3, StepMsgTells, n \in Ids
  <2>8. x.type = "Log" => Walkable(x.log, P)
    <3>1. m.type = "Log" => Walkable(m.log, P)
      BY DEF LogsOk, Carries
    <3>2. /\ x.type = m.type
          /\ m.type = "Log" => x.log \in Logs /\ Len(x.log) <= Len(m.log) /\ Same(m.log, x.log, Len(x.log))
      BY <2>2, <2>4, CutFacts
    <3> QED
      BY <2>4, <3>1, <3>2, WalkableUpTo
  <2>9. \E Y : Tells(r, Y) /\ Walkable(Y, P)
    BY <1>3, <2>6, <2>7, <2>8, DrawsWalkable
  <2> QED
    BY <1>1, <2>1, <2>2, <2>9
<1>6. CASE Timeout(n)
  <2>1. PICK kind : kind = IF PreVote THEN "pre" ELSE "election"
    OBVIOUS
  <2>2. PICK r : r = Campaign(s, n, kind)
    OBVIOUS
  <2>3. Becomes(n, r)
    BY <1>1, <1>6, <2>1, <2>2 DEF Timeout
  <2>4. Tells(r, X)
    BY <1>4, <2>2, CampaignTells
  <2> QED
    BY <1>4, <2>3, <2>4
<1>7. ASSUME NEW cc \in UNION {Proposals[i] : i \in DOMAIN Proposals}, Propose(n, cc)
      PROVE  \E r, Y : Becomes(n, r) /\ Tells(r, Y) /\ Walkable(Y, P)
  <2>1. cc \in ConfChanges \cup {Normal}
    <3>1. SetupType(Setups[setup])
      BY RaftAssumption DEF RaftInv
    <3> QED
      BY <1>7, <3>1 DEF SetupType, Proposals
  <2>2. cc \in P \cup {Normal, LeaveChange}
    BY <1>7 DEF Offered, Proposals
  <2>3. PICK r : r = Proposed(s, n, cc)
    OBVIOUS
  <2>4. s.state = "leader" /\ Becomes(n, r)
    BY <1>1, <1>7, <2>3 DEF Propose, MayPropose
  <2>5. KeepsVoters(P)
    OBVIOUS
  <2>6. \E Y : Tells(r, Y) /\ Walkable(Y, P)
    BY ONLY <1>2, <1>3, <2>1, <2>2, <2>3, <2>4, <2>5, ProposedTells, n \in Ids
  <2> QED
    BY <2>4, <2>6
<1>8. ASSUME NEW id \in Reads, ReadIndex(n, id)
      PROVE  \E r, Y : Becomes(n, r) /\ Tells(r, Y) /\ Walkable(Y, P)
  <2>1. PICK r : /\ Becomes(n, r)
                 /\ \/ \E x : r = [Quiet(s) EXCEPT !.read = x]
                    \/ r = Quiet([s EXCEPT !.waiting = Append(@, id)])
                    \/ r = StartReads(s, n, <<id>>)
    <3>1. \/ Becomes(n, [Quiet(s) EXCEPT !.read = {[id |-> id, index |-> s.commit]}])
          \/ Becomes(n, Quiet([s EXCEPT !.waiting = Append(@, id)]))
          \/ Becomes(n, StartReads(s, n, <<id>>))
      BY <1>1, <1>8 DEF ReadIndex
    <3> QED
      BY <3>1
  <2>2. ASSUME NEW x, r = [Quiet(s) EXCEPT !.read = x] PROVE Tells(r, X)
    BY <1>4, <2>2 DEF Tells, Quiet, Result
  <2>3. CASE r = Quiet([s EXCEPT !.waiting = Append(@, id)])
    <3>1. PICK z : z = [s EXCEPT !.waiting = Append(@, id)]
      OBVIOUS
    <3>2. Logged(z, X)
      BY <1>4, <3>1 DEF Logged
    <3>3. Tells(r, X)
      BY <2>3, <3>1, <3>2, TellsQuiet
    <3> QED
      BY <1>4, <2>1, <3>3
  <2>4. CASE r = StartReads(s, n, <<id>>)
    <3>1. Tells(r, X)
      BY <1>4, <2>4, StartReadsTells
    <3> QED
      BY <1>4, <2>1, <3>1
  <2> QED
    BY <1>4, <2>1, <2>2, <2>3, <2>4
<1>9. CASE Beat(n)
  <2>1. PICK r, out : r = Result(s, out, {}) /\ out = BcastHeartbeat(s, n)
    OBVIOUS
  <2>2. Becomes(n, r)
    BY <1>1, <1>9, <2>1 DEF Beat
  <2>3. \A x \in out : x.type # "Log"
    BY <2>1 DEF BcastHeartbeat, BeatMsg
  <2>4. Tells(r, X)
    BY <1>4, <2>1, <2>3 DEF Tells, Result
  <2> QED
    BY <1>4, <2>2, <2>4
<1>10. ASSUME NEW to \in Ids, Transfer(n, to)
       PROVE  \E r, Y : Becomes(n, r) /\ Tells(r, Y) /\ Walkable(Y, P)
  <2>1. PICK y, z, out : /\ y = [s EXCEPT !.transferee = None] /\ z = [s EXCEPT !.transferee = to]
                         /\ out = IF s.conf.trk[to].match = Len(s.log) THEN {TimeoutNow(s, n, to)} ELSE {}
    OBVIOUS
  <2>2. Logged(y, X) /\ Logged(z, X)
    BY <1>4, <2>1 DEF Logged
  <2>3. \A x \in out : x.type # "Log"
    BY <2>1 DEF TimeoutNow
  <2>4. PICK r : Becomes(n, r) /\ (r = Quiet(y) \/ r = Result(z, out, {}))
    BY <1>1, <1>10, <2>1 DEF Transfer
  <2>5. Tells(r, X)
    BY <2>2, <2>3, <2>4 DEF Tells, Quiet, Result
  <2> QED
    BY <1>4, <2>4, <2>5
<1>11. CASE TransferEnds(n) \/ ForgetLeader(n) \/ CheckQuorum(n)
  <2>1. PICK z : /\ Becomes(n, Quiet(z))
                 /\ \/ z = [s EXCEPT !.transferee = None]
                    \/ z = [s EXCEPT !.lead = None]
                    \/ z = BecomeFollower(s, s.term, None)
    BY <1>1, <1>11 DEF TransferEnds, ForgetLeader, CheckQuorum
  <2>2. Logged(z, X)
    <3>1. Logged(BecomeFollower(s, s.term, None), X)
      BY <1>4, RolesKeepLog
    <3> QED
      BY <1>4, <2>1, <3>1 DEF Logged
  <2>3. PICK r : r = Quiet(z)
    OBVIOUS
  <2>4. Tells(r, X)
    BY <2>2, <2>3, TellsQuiet
  <2> QED
    BY <1>4, <2>1, <2>3, <2>4
<1> QED
  BY <1>5, <1>6, <1>7, <1>8, <1>9, <1>10, <1>11 DEF Event

\* Ready.
LEMMA ReadyLogs ==
  ASSUME ~Async, RaftInv, ~panicked, NEW P, KeepsVoters(P), LogsOk(P),
         NEW n \in Ids, NEW late \in BOOLEAN, Ready(n, late)
  PROVE  LogsOk(P)' /\ ~panicked'
<1>0. PICK h, M, D : Agrees(h, M, D)
  BY DEF RaftInv
<1>1. PICK s, d, w, sent : s = node[n] /\ d = disk[n] /\ w = held[n] /\ sent = net
  OBVIOUS
<1>2. AgreesAt(h, M, D, n, s, d, w, sent) /\ s.conf # Refused
  BY <1>0, <1>1, Zoom DEF RaftInv, Unrefused
<1>3. PICK r1 : r1 = IF late THEN Quiet(s) ELSE Applied(s, n)
  OBVIOUS
<1>4. PICK r2 : r2 = IF s.applied < r1.s.applied /\ AutoLeaves(r1.s, n)
                     THEN Proposed(r1.s, n, LeaveChange) ELSE Quiet(r1.s)
  OBVIOUS
<1>5. PICK e, v : e = Flushed(s, r1.s) /\ v = r2.after \cup (r1.out \cup r2.out)
  OBVIOUS
<1>6. /\ node' = [node EXCEPT ![n] = r2.s]
      /\ disk' = [disk EXCEPT ![n] = e]
      /\ held' = [held EXCEPT ![n] = v]
      /\ Sends(held[n] \cup {}) /\ setup' = setup
      /\ panicked' = (r1.s.conf = Refused)
  BY <1>1, <1>3, <1>4, <1>5 DEF Ready, Flushed
<1>7. PICK X : X = s.log /\ Logged(s, X) /\ Walkable(X, P)
  BY <1>1, <1>2, NodeNums, NodeLogged DEF LogsOk
<1>8. r1.s.conf # Refused /\ Tells(r1, X)
  <2>1. CASE r1 = Quiet(s)
    BY <1>2, <1>7, <2>1, TellsQuiet DEF Quiet, Result
  <2>2. CASE r1 = Applied(s, n)
    BY <1>2, <1>7, <2>2, AppliedTells
  <2> QED
    BY <1>3, <2>1, <2>2
<1>9. PICK sent2 : sent2 = net'
  OBVIOUS
<1>10. SentOut(sent2, sent, w)
  BY <1>1, <1>6, <1>9 DEF SentOut, Sends
<1>11. \E Y : Tells(r2, Y) /\ Walkable(Y, P)
  <2>1. PICK z : z = r1.s /\ z.log = X /\ Logged(z, X) /\ z.conf # Refused
    BY <1>8 DEF Tells, Logged
  <2>2. CASE r2 = Quiet(z)
    BY <1>7, <2>1, <2>2, TellsQuiet
  <2>3. CASE AutoLeaves(z, n) /\ r2 = Proposed(z, n, LeaveChange)
    <3>1. r1 = Quiet(s) \/ r1 = Applied(s, n)
      BY <1>3
    <3>2. Reaches(n, z, e, r1.out, sent2)
      BY <1>2, <1>5, <1>10, <2>1, <3>1, ReadyApplies
    <3>3. PICK g, N, E, o : AgreesAt(g, N, E, n, z, e, o, sent2)
      BY <3>2 DEF Reaches
    <3>4. PICK cc \in ConfChanges \cup {Normal} : cc = LeaveChange
      BY LeaveTyping
    <3>5. /\ r2 = Proposed(z, n, cc) /\ cc \in P \cup {Normal, LeaveChange}
          /\ z.state = "leader" /\ z.conf # Refused /\ KeepsVoters(P) /\ Walkable(z.log, P)
      BY <1>7, <2>1, <2>3, <3>4 DEF AutoLeaves, MayPropose
    <3> QED
      BY ONLY <3>3, <3>4, <3>5, ProposedTells, n \in Ids
  <2> QED
    BY <1>4, <2>1, <2>2, <2>3
<1>12. PICK Y : Tells(r2, Y) /\ Walkable(Y, P)
  BY <1>11
<1>13. \A l \in Ids : Walkable(node'[l].log, P)
  <2>1. \A l \in Ids : node'[l] = IF l = n THEN r2.s ELSE node[l]
    BY <1>6 DEF RaftInv, Typed
  <2>2. r2.s.log = Y
    BY <1>12 DEF Tells, Logged
  <2> QED
    BY <1>12, <2>1, <2>2 DEF LogsOk
<1>14. \A l \in Ids : Walkable(disk'[l].log, P)
  <2>1. \A l \in Ids : disk'[l] = IF l = n THEN e ELSE disk[l]
    BY <1>6 DEF RaftInv, Typed
  <2>2. e.log = X
    BY <1>5, <1>7 DEF Flushed
  <2> QED
    BY <1>7, <2>1, <2>2 DEF LogsOk
<1>15. \A l \in Ids : Carries(held'[l], P)
  <2>1. \A l \in Ids : held'[l] = IF l = n THEN v ELSE held[l]
    BY <1>6 DEF RaftInv, Typed
  <2>2. Carries(v, P)
    BY <1>5, <1>7, <1>8, <1>12 DEF Carries, Tells
  <2> QED
    BY <2>1, <2>2 DEF LogsOk
<1>16. Carries(net', P)
  <2> SUFFICES ASSUME NEW m \in net', m.type = "Log" PROVE Walkable(m.log, P)
    BY DEF Carries
  <2>1. CASE m \in sent
    BY <1>1, <2>1 DEF LogsOk, Carries
  <2>2. ASSUME NEW x \in w, m = Routed(x) PROVE Walkable(m.log, P)
    <3>1. x \in Msgs
      BY <1>1, <2>2 DEF RaftInv, Typed
    <3>2. x.type = "Log" => Walkable(x.log, P)
      BY <1>1, <2>2 DEF LogsOk, Carries
    <3> QED
      BY <2>2, <3>1, <3>2, RoutedLog
  <2> QED
    BY <1>9, <1>10, <2>1, <2>2 DEF SentOut
<1> QED
  BY <1>6, <1>8, <1>13, <1>14, <1>15, <1>16 DEF LogsOk

\* A restart reads the log back.
LEMMA RestartLogs ==
  ASSUME RaftInv, NEW P, LogsOk(P), NEW n \in Ids, Restart(n)
  PROVE  LogsOk(P)'
<1>1. PICK z : z = Started(disk[n]) /\ z.log = disk[n].log
  <2>1. PICK c, d : d = disk[n] /\ c = Restore(d.cs)
    OBVIOUS
  <2>2. Started(d) = [term |-> d.term, vote |-> d.vote, state |-> "follower", lead |-> None,
     log |-> d.log, commit |-> d.commit, applied |-> d.applied,
     conf |-> c, yes |-> {}, no |-> {}, pending |-> 0,
     transferee |-> None, waiting |-> << >>, queue |-> << >>, confirmed |-> 0,
     acks |-> [id \in Ids |-> 0]]
    BY <2>1 DEF Started
  <2> QED
    BY <2>1, <2>2
<1>2. /\ node' = [node EXCEPT ![n] = z] /\ held' = [held EXCEPT ![n] = {}] /\ disk' = disk
      /\ net' \subseteq net
  BY <1>1 DEF Restart, Sends
<1>3. \A l \in Ids : /\ node'[l] = IF l = n THEN z ELSE node[l]
                     /\ held'[l] = IF l = n THEN {} ELSE held[l]
  BY <1>2 DEF RaftInv, Typed
<1>4. \A l \in Ids : Walkable(node'[l].log, P)
  BY <1>1, <1>3 DEF LogsOk
<1>5. \A l \in Ids : Carries(held'[l], P)
  BY <1>3 DEF LogsOk, Carries
<1> QED
  BY <1>2, <1>4, <1>5 DEF LogsOk, Carries

\* The invariant, where the clients' changes keep voters.
WalkInv == RaftInv /\ ~panicked /\ LogsOk(Offered(setup))

\* It holds first.
LEMMA WalkInit ==
  ASSUME Init PROVE WalkInv
<1>1. RaftInv
  BY RaftInit
<1>2. /\ \A n \in Ids : node[n].log = << >> /\ disk[n].log = << >> /\ held[n] = {}
      /\ net = {} /\ ~panicked
  BY DEF Init, Started, Booted
<1>3. PICK P, X : P = Offered(setup) /\ X = << >> /\ X \in Logs /\ Len(X) = 0
  <2>1. << >> \in Logs /\ Len(<< >>) = 0
    BY DEF Logs
  <2> QED
    BY <2>1
<1>4. From(X, P)
  BY <1>3 DEF From
<1>5. \E c : ConfOk(X, 0, c)
  <2>1. PICK n : n \in Ids
    BY RaftAssumption
  <2>2. PICK h, M, D : Agrees(h, M, D)
    BY <1>1 DEF RaftInv
  <2>3. PICK s, d, w, sent : s = node[n] /\ d = disk[n] /\ w = held[n] /\ sent = net
    OBVIOUS
  <2>4. AgreesAt(h, M, D, n, s, d, w, sent) /\ s.conf # Refused
    BY <1>1, <1>2, <2>1, <2>2, <2>3, Zoom DEF RaftInv, Unrefused
  <2>5. NodeOk(h, M, D, n, s, d)
    BY <2>1, <2>4, AtFacts
  <2>6. s.log = X /\ s.applied = 0
    BY <1>2, <1>3, <2>1, <2>3 DEF Init, Started, Booted
  <2> QED
    BY <2>4, <2>5, <2>6 DEF NodeOk
<1>6. Walkable(X, P)
  BY <1>3, <1>4, <1>5 DEF Walkable
<1>7. LogsOk(P)
  BY <1>2, <1>3, <1>6 DEF LogsOk, Carries
<1> QED
  BY <1>1, <1>2, <1>3, <1>7 DEF WalkInv

\* And every step keeps it.
LEMMA WalkNext ==
  ASSUME ~Async, ClientsKeepVoters, WalkInv, Next
  PROVE  WalkInv'
<1>1. PICK P : P = Offered(setup) /\ RaftInv /\ ~panicked /\ LogsOk(P) /\ KeepsVoters(P)
  BY DEF WalkInv, ClientsKeepVoters, RaftInv
<1>2. RaftInv'
  BY <1>1, RaftNext
<1>3. ASSUME NEW n \in Ids, Event(n) PROVE LogsOk(P)' /\ ~panicked' /\ setup' = setup
  <2>1. PICK r : Becomes(n, r) /\ Sound(n, node[n], disk[n], held[n], net, r)
                 /\ (panicked' => panicked \/ Panics(node[n], r.s))
    BY <1>1, <1>3, EventSound
  <2>2. ~panicked' /\ setup' = setup
    BY <1>1, <2>1, BecomesStep DEF Becomes
  <2>3. PICK q, Y : Becomes(n, q) /\ Tells(q, Y) /\ Walkable(Y, P)
    BY <1>1, <1>3, EventTells
  <2>4. LogsOk(P)'
    BY <1>1, <2>3, BecomesLogs
  <2> QED
    BY <2>2, <2>4
<1>4. ASSUME NEW r \in Reads, AskRead(r) PROVE LogsOk(P)' /\ ~panicked' /\ setup' = setup
  BY <1>1, <1>4 DEF AskRead, LogsOk
<1>5. ASSUME NEW n \in Ids, NEW late \in BOOLEAN, Ready(n, late)
      PROVE  LogsOk(P)' /\ ~panicked' /\ setup' = setup
  BY <1>1, <1>5, ReadyLogs DEF Ready
<1>6. ASSUME NEW n \in Ids, Restart(n) PROVE LogsOk(P)' /\ ~panicked' /\ setup' = setup
  BY <1>1, <1>6, RestartLogs DEF Restart
<1>7. LogsOk(P)' /\ ~panicked' /\ setup' = setup
  BY <1>3, <1>4, <1>5, <1>6 DEF Next
<1>8. Offered(setup') = P
  BY <1>1, <1>7
<1> QED
  BY <1>2, <1>7, <1>8 DEF WalkInv

\* No panic: no node drops what it has committed, commits what it does not have,
\* or is refused a committed change.
THEOREM RaftNoPanic ==
  ASSUME ~Async, ClientsKeepVoters
  PROVE  Spec => []NoPanic
<1>1. Init => WalkInv
  BY WalkInit
<1>2. WalkInv /\ [Next]_vars => WalkInv'
  <2> SUFFICES ASSUME WalkInv, [Next]_vars PROVE WalkInv'
    OBVIOUS
  <2>1. CASE Next
    BY <2>1, WalkNext
  <2>2. CASE UNCHANGED vars
    <3>1. RaftInv'
      BY <2>2, RaftIdle DEF vars, WalkInv
    <3> QED
      BY <2>2, <3>1 DEF vars, WalkInv, LogsOk
  <2> QED
    BY <2>1, <2>2
<1>3. WalkInv => NoPanic
  BY DEF WalkInv, NoPanic
<1> QED
  BY <1>1, <1>2, <1>3, PTL DEF Spec

\* Whatever the clients propose, a panic is a committed change that is refused:
\* no node drops what it has committed or commits what it does not have.
THEOREM RaftPanicCause ==
  ASSUME ~Async
  PROVE  Spec => [](panicked => PanicCause)
<1> DEFINE Inv == RaftInv /\ (panicked => PanicCause)
<1>1. Init => Inv
  BY RaftInit DEF Init
<1>2. Inv /\ [Next]_vars => Inv'
  <2> SUFFICES ASSUME Inv, [Next]_vars PROVE Inv'
    OBVIOUS
  <2>1. CASE Next
    BY <2>1, RaftNext
  <2>2. CASE UNCHANGED vars
    BY <2>2, RaftIdle DEF vars, PanicCause
  <2> QED
    BY <2>1, <2>2
<1> QED
  BY <1>1, <1>2, PTL DEF Spec

-----------------------------------------------------------------------------
(* When the clients' changes keep voters: it is enough that one voter of   *)
(* the bootstrap is never removed and never made a learner.                *)

\* cc leaves the voter v alone.
Spares(cc, v) ==
  \A k \in DOMAIN cc.changes : cc.changes[k].id = v => cc.changes[k].op \in {"voter", "update"}

SparesVoter(P) ==
  \E v \in Boot : \A cc \in P \ {Normal} :
    Spares(cc, v) /\ (cc.changes = << >> => cc.transition = "auto")

\* Single changes that leave v alone.
LEMMA ApplyAllSpares ==
  ASSUME NEW c, Tracked(c), NEW v \in Ids, v \in c.in, NEW cc, cc.changes \in Seq(Singles), Spares(cc, v)
  PROVE  ApplyAll(c, cc.changes) # Refused /\ v \in ApplyAll(c, cc.changes).in
<1>0. PICK ops \in Seq(Singles) : ops = cc.changes
  OBVIOUS
<1>1. /\ Len(ops) \in Nat
      /\ \A k \in 1 .. Len(ops) : /\ ops[k] \in Singles
                                  /\ ops[k].id = v => ops[k].op \in {"voter", "update"}
  BY <1>0 DEF Spares
<1>2. PICK f : /\ IsRun(f, c, ops)
               /\ ApplyAll(c, ops) = IF f[Len(ops)].in = {} THEN Refused ELSE f[Len(ops)]
  BY ApplyAllRun
<1>3. \A k \in 0 .. Len(ops) : v \in f[k].in
  <2> DEFINE T == {k \in 0 .. Len(ops) : v \in f[k].in}
  <2>1. 0 \in T
    BY <1>1, <1>2 DEF IsRun
  <2>2. ASSUME NEW k \in 1 .. Len(ops), k - 1 \in T PROVE k \in T
    <3>1. k - 1 \in 0 .. Len(ops) /\ k \in 0 .. Len(ops) /\ ops[k] \in Singles
      BY <1>1
    <3>2. Tracked(f[k - 1]) /\ v \in f[k - 1].in
      BY <1>2, <2>2, <3>1 DEF IsRun
    <3>3. f[k] = ApplyOne(f[k - 1], ops[k])
      BY <1>2 DEF IsRun
    <3>4. f[k].in = AppliedIn(f[k - 1].in, ops[k])
      BY <3>1, <3>2, <3>3, ApplyOneTracked
    <3>5. v \in AppliedIn(f[k - 1].in, ops[k])
      BY <1>1, <3>2 DEF AppliedIn
    <3> QED
      BY <3>1, <3>4, <3>5
  <2> HIDE DEF T
  <2>3. \A k \in 0 .. Len(ops) : k \in T
    BY <1>1, <2>1, <2>2, UpTo, Zenon
  <2> QED
    BY <2>3 DEF T
<1>4. v \in f[Len(ops)].in
  BY <1>1, <1>3
<1>5. ApplyAll(c, ops) = f[Len(ops)] /\ v \in ApplyAll(c, ops).in
  BY <1>2, <1>4
<1> QED
  BY <1>0, <1>5, RefusedConf

\* A change that leaves v alone.
LEMMA ChangedSpares ==
  ASSUME NEW c, Tracked(c), NEW v \in Ids, v \in c.in, NEW cc, cc.changes \in Seq(Singles), Spares(cc, v),
         NEW d, d = Changed(c, cc), d # Refused
  PROVE  v \in d.in
<1>0. c.in # {} /\ cc.changes \in Seq(Singles)
  OBVIOUS
<1>1. CASE WantsLeave(cc)
  <2>1. d = LeaveJoint(c)
    BY <1>1 DEF Changed
  <2> QED
    BY <1>0, <2>1, LeaveResult
<1>2. CASE ~WantsLeave(cc) /\ WantsJoint(cc)
  <2>0. PICK a \in BOOLEAN : a = WantsAutoLeave(cc)
    BY DEF WantsAutoLeave
  <2>1. PICK ops \in Seq(Singles) : ops = cc.changes
    BY <1>0
  <2>2. d = EnterJoint(c, a, ops)
    BY <1>2, <2>0, <2>1 DEF Changed
  <2>r. /\ d # Refused => d.auto = a
        /\ ~Joint(c) /\ ApplyAll(c, ops) # Refused <=> d # Refused
        /\ ~Joint(c) => \E j : /\ Tracked(j) /\ j.in = c.in /\ j.out = c.in
                               /\ j.learners = c.learners /\ j.next = c.next
                               /\ ApplyAll(j, ops) # Refused =>
                                    d = [ApplyAll(j, ops) EXCEPT !.auto = a]
    BY <1>0, <2>2, EnterResult
  <2>3. PICK j : /\ Tracked(j) /\ j.in = c.in
                 /\ ApplyAll(j, ops) # Refused => d = [ApplyAll(j, ops) EXCEPT !.auto = a]
    BY <2>r
  <2>4. PICK e : e = ApplyAll(j, ops) /\ e # Refused /\ v \in e.in
    BY <2>1, <2>3, ApplyAllSpares
  <2>5. d = [e EXCEPT !.auto = a] /\ e \in Confs
    BY <2>3, <2>4, ApplyAllTracked DEF Tracked
  <2> QED
    BY <2>4, <2>5 DEF Confs
<1>3. CASE ~WantsLeave(cc) /\ ~WantsJoint(cc)
  <2>1. d = Simple(c, cc.changes)
    BY <1>3 DEF Changed
  <2>2. d.in = ApplyAll(c, cc.changes).in
    BY <1>0, <2>1, SimpleResult DEF Alike
  <2> QED
    BY <2>2, ApplyAllSpares
<1> QED
  BY <1>1, <1>2, <1>3

\* Along a log of such changes v stays a voter.
LEMMA WalkSpares ==
  ASSUME NEW v \in Boot, NEW P, \A cc \in P \ {Normal} : Spares(cc, v),
         NEW X \in Logs, From(X, P), NEW f, IsWalk(f, X, Len(X))
  PROVE  v \in f[Len(X)].in
<1>0. PICK b : b = Len(X) /\ b \in Nat
  BY LogFacts
<1>1. v \in Ids /\ v \in Bootstrapped.in
  BY RaftAssumption, VotersOneByOne DEF Bootstrapped
<1> DEFINE T == {k \in 0 .. b : v \in f[k].in}
<1>2. 0 \in T
  BY <1>0, <1>1 DEF IsWalk
<1>3. ASSUME NEW k \in 1 .. b, k - 1 \in T PROVE k \in T
  <2>1. k \in 0 .. b /\ k - 1 \in 0 .. b /\ v \in f[k - 1].in /\ k \in 1 .. Len(X)
    BY <1>0, <1>3
  <2>2. Good(f[k - 1]) /\ Good(f[k])
    BY <1>0, <2>1 DEF IsWalk
  <2>3. CASE ~IsConf(X[k])
    <3>1. f[k] = f[k - 1]
      BY <2>1, <2>3 DEF IsWalk
    <3> QED
      BY <2>1, <3>1
  <2>4. CASE IsConf(X[k])
    <3>1. PICK cc : cc = X[k].cc
      OBVIOUS
    <3>2. f[k] = Changed(f[k - 1], cc)
      BY <2>1, <2>4, <3>1 DEF IsWalk
    <3>3. cc.changes \in Seq(Singles)
      BY <2>1, <2>4, <3>1, ChangeTyping
    <3>4. cc # Normal /\ (cc \in P \/ cc = LeaveChange)
      BY <2>1, <2>4, <3>1 DEF IsConf, From
    <3>5. Spares(cc, v)
      <4>1. CASE cc \in P
        BY <3>4, <4>1
      <4>2. CASE cc = LeaveChange
        <5>1. DOMAIN cc.changes = {}
          BY <4>2 DEF LeaveChange, Change
        <5> QED
          BY <5>1 DEF Spares
      <4> QED
        BY <3>4, <4>1, <4>2
    <3>6. PICK c, d : c = f[k - 1] /\ d = f[k]
      OBVIOUS
    <3>7. Tracked(c) /\ v \in c.in /\ d = Changed(c, cc) /\ d # Refused
      BY <2>1, <2>2, <3>2, <3>6, RefusedConf DEF Good
    <3>8. v \in d.in
      BY <1>1, <3>3, <3>5, <3>7, ChangedSpares
    <3> QED
      BY <2>1, <3>6, <3>8
  <2> QED
    BY <2>3, <2>4
<1> HIDE DEF T
<1>4. \A k \in 0 .. b : k \in T
  BY <1>0, <1>2, <1>3, UpTo, Zenon
<1>5. b \in T
  BY <1>0, <1>4
<1> QED
  BY <1>0, <1>5 DEF T

\* A voter that is never removed is enough.
LEMMA SparesKeeps ==
  ASSUME NEW P, P \subseteq ConfChanges \cup {Normal}, SparesVoter(P)
  PROVE  KeepsVoters(P)
<1>1. PICK v \in Boot : \A cc \in P \ {Normal} :
                          Spares(cc, v) /\ (cc.changes = << >> => cc.transition = "auto")
  BY DEF SparesVoter
<1>2. ASSUME NEW cc \in P \ {Normal}, NEW X \in Logs, NEW c, From(X, P), ConfOk(X, Len(X), c)
      PROVE  ApplyAll(c, cc.changes) # Refused
  <2>1. PICK f : IsWalk(f, X, Len(X)) /\ Alike(f[Len(X)], c)
    BY <1>2 DEF ConfOk
  <2>2. \A x \in P \ {Normal} : Spares(x, v)
    BY <1>1
  <2>3. v \in f[Len(X)].in
    BY <1>2, <2>1, <2>2, WalkSpares
  <2>4. v \in c.in /\ v \in Ids /\ Tracked(c)
    BY <1>2, <2>1, <2>3, RaftAssumption DEF Alike, ConfOk, Good
  <2>5. cc.changes \in Seq(Singles)
    BY <1>2 DEF ConfChanges
  <2> QED
    BY <1>2, <2>2, <2>4, <2>5, ApplyAllSpares
<1> QED
  BY <1>1, <1>2 DEF KeepsVoters

\* Every cluster in which each setup spares a voter of the bootstrap runs
\* without a panic.
THEOREM RaftSpared ==
  ASSUME ~Async, \A name \in DOMAIN Setups : SparesVoter(Offered(name))
  PROVE  Spec => []NoPanic
<1>1. ASSUME NEW name \in DOMAIN Setups PROVE Offered(name) \subseteq ConfChanges \cup {Normal}
  <2>1. SetupType(Setups[name])
    BY RaftAssumption
  <2> QED
    BY <2>1 DEF SetupType, Offered
<1>2. ClientsKeepVoters
  BY <1>1, SparesKeeps DEF ClientsKeepVoters
<1> QED
  BY <1>2, RaftNoPanic
=============================================================================
