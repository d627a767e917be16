------------------------------- MODULE RaftLog -------------------------------
(***************************************************************************)
(* One node's log under asynchronous storage writes: the unstable part     *)
(* (log_unstable.go), the cursors (log.go), MemoryStorage (storage.go) and *)
(* the messages RawNode exchanges with its append and apply threads        *)
(* (rawnode.go).  An entry is its term: index and term identify an entry.  *)
(* The rest of the cluster is leader, the log of the leader of each term,  *)
(* fixed at the start; what it sends is any slice of it.                   *)
(***************************************************************************)
EXTENDS Integers, Sequences, FiniteSets

CONSTANTS MaxTerm,      \* terms are 1 .. MaxTerm
          MaxIndex,     \* no leader's log is longer
          MaxQueue,     \* MsgStorageAppends sent and not answered at once
          MaxCrashes,   \* restarts in one behaviour
          ApplyLimit,   \* maxApplyingEntsSize, in entries
          Histories     \* what the leaders' logs may be: a subset of Cluster

ASSUME BoundsAssumption ==
    /\ MaxTerm \in Nat \ {0} /\ MaxIndex \in Nat \ {0}
    /\ MaxQueue \in Nat \ {0} /\ MaxCrashes \in Nat /\ ApplyLimit \in Nat \ {0}

VARIABLES
    leader,     \* term -> the log of that term's leader
    term,       \* raft.Term
    u,          \* raftLog.unstable
    cur,        \* raftLog's cursors: committed, applying, applied, size in flight
    ms,         \* the MemoryStorage
    prevHard,   \* RawNode.prevHardSt
    after,      \* raft.msgsAfterAppend: answers to the leader
    appendQ,    \* MsgStorageAppends on their way to the append thread
    applyQ,     \* MsgStorageApplys on their way to the apply thread
    appendBack, \* the append thread's responses, in order, on their way back
    applyBack,  \* the apply thread's
    acked,      \* history: term -> the highest index acknowledged to its leader
    panicked,   \* a Panicf of log.go or storage.go was reached
    crashes

vars == <<leader, term, u, cur, ms, prevHard, after, appendQ, applyQ, appendBack, applyBack,
          acked, panicked, crashes>>

Terms   == DOMAIN leader
Indexes == 0 .. MaxIndex
None    == [index |-> 0, term |-> 0]       \* no snapshot, no entry id

MinOf(a, b) == IF a < b THEN a ELSE b
MaxOf(a, b) == IF a > b THEN a ELSE b
Highest(S)  == CHOOSE i \in S : \A j \in S : j <= i

-----------------------------------------------------------------------------
(* The logs of the leaders: a leader's log extends a prefix of an earlier  *)
(* leader's by entries of its own term.                                    *)

Logs == UNION {[1 .. k -> 1 .. MaxTerm] : k \in Indexes}

Grows(L, t) ==
    \E k \in 0 .. Len(L[t]) - 1 :
        /\ \A i \in k + 1 .. Len(L[t]) : L[t][i] = t
        /\ \/ k = 0
           \/ \E s \in 1 .. t - 1 :
                k <= Len(L[s]) /\ SubSeq(L[t], 1, k) = SubSeq(L[s], 1, k)

Cluster ==
    UNION {{L \in [1 .. n -> Logs] : \A t \in 1 .. n : Grows(L, t)} :
              n \in 1 .. MaxTerm}

ASSUME HistoriesAssumption == Histories \subseteq Cluster

(* What leader t may know to be committed: what every later leader has.    *)
(* Two logs with the same term at an index agree up to it.                 *)
Safe(t) ==
    Cardinality({k \in 1 .. Len(leader[t]) :
        \A s \in t .. Len(leader) : Len(leader[s]) >= k /\ leader[s][k] = leader[t][k]})

-----------------------------------------------------------------------------
(* MemoryStorage: ents[1] is the dummy entry at index base, where the      *)
(* stored snapshot ends.                                                   *)

StoreLast == ms.base + Len(ms.ents) - 1

StoreHas(i)  == ms.base <= i /\ i <= StoreLast
StoreTerm(i) == ms.ents[i - ms.base + 1]

StoreAppend(m, first, es) ==
    LET es2    == IF first <= m.base THEN SubSeq(es, m.base - first + 2, Len(es))
                                     ELSE es
        offset == MaxOf(first, m.base + 1) - m.base
    IN  IF first + Len(es) - 1 <= m.base
        THEN m
        ELSE [m EXCEPT !.ents = SubSeq(@, 1, offset) \o es2]

StoreGap(m, first) == first > m.base + Len(m.ents)

ApplySnapshot(m, s) ==
    IF m.base >= s.index THEN m
                         ELSE [m EXCEPT !.base = s.index, !.ents = <<s.term>>]

-----------------------------------------------------------------------------
(* Reading the log: unstable first, then storage.                          *)

FirstIndex == IF u.snap # None THEN u.snap.index + 1 ELSE ms.base + 1

LastIndex ==
    CASE u.entries # <<>> -> u.offset + Len(u.entries) - 1
      [] u.entries = <<>> /\ u.snap # None -> u.snap.index
      [] OTHER -> StoreLast

(* term(i), and -1 for ErrCompacted and ErrUnavailable.                    *)
TermAt(i) ==
    CASE i >= u.offset /\ i < u.offset + Len(u.entries) ->
             u.entries[i - u.offset + 1]
      [] i < u.offset /\ u.snap # None /\ u.snap.index = i -> u.snap.term
      [] OTHER ->
             IF i + 1 < FirstIndex \/ i > LastIndex \/ ~StoreHas(i)
             THEN -1 ELSE StoreTerm(i)

MatchTerm(i, t) == TermAt(i) = t

-----------------------------------------------------------------------------
(* Changing it.                                                            *)

(* Mutant: what replaces entries being written counts as being written.    *)
TruncateAndAppendWritten(first, es) ==
    CASE first = u.offset + Len(u.entries) ->
             [u EXCEPT !.entries = @ \o es]
      [] first <= u.offset /\ first # u.offset + Len(u.entries) ->
             [u EXCEPT !.entries = es, !.offset = first, !.inProgress = first]
      [] OTHER -> [u EXCEPT !.entries = SubSeq(@, 1, first - u.offset) \o es]

TruncateAndAppend(first, es) ==
    CASE first = u.offset + Len(u.entries) ->
             [u EXCEPT !.entries = @ \o es]
      [] first <= u.offset /\ first # u.offset + Len(u.entries) ->
             [u EXCEPT !.entries = es, !.offset = first, !.inProgress = first]
      [] OTHER ->
             [u EXCEPT !.entries = SubSeq(@, 1, first - u.offset) \o es,
                       !.inProgress = MinOf(@, first)]

StableTo(id) ==
    IF \/ id.index < u.offset
       \/ id.index >= u.offset + Len(u.entries)
       \/ u.entries[id.index - u.offset + 1] # id.term
    THEN u
    ELSE [u EXCEPT !.entries = SubSeq(@, id.index + 2 - u.offset, Len(@)),
                   !.offset = id.index + 1,
                   !.inProgress = MaxOf(@, id.index + 1)]

StableSnapTo(un, i) ==
    IF un.snap # None /\ un.snap.index = i
    THEN [un EXCEPT !.snap = None, !.snapBusy = FALSE]
    ELSE un

(* appliedTo, with its pause of the apply stream lifted or kept.           *)
AppliedTo(i, size) ==
    LET new  == MaxOf(i, cur.applied)
        left == MaxOf(cur.size - size, 0)
    IN  [cur EXCEPT !.applied = new, !.applying = MaxOf(@, new),
                    !.size = left, !.paused = left >= ApplyLimit]

AppliedPanics(i) == cur.committed < MaxOf(i, cur.applied)

-----------------------------------------------------------------------------
(* newLogWithSize: nothing unstable, nothing in flight.                    *)
EmptyUnstable(next) ==
    [offset |-> next, inProgress |-> next, entries |-> <<>>, snap |-> None,
     snapBusy |-> FALSE]

Cursors(base, commit) ==
    [committed |-> commit, applying |-> base, applied |-> base, size |-> 0,
     paused |-> FALSE]

Init ==
    /\ leader \in Histories
    /\ ms = [base |-> 0, ents |-> <<0>>, hs |-> [term |-> 0, commit |-> 0]]
    /\ term = 0 /\ u = EmptyUnstable(1) /\ cur = Cursors(0, 0)
    /\ prevHard = ms.hs
    /\ after = {} /\ appendQ = <<>> /\ applyQ = <<>> /\ appendBack = <<>> /\ applyBack = <<>>
    /\ acked = [t \in Terms |-> 0] /\ panicked = FALSE /\ crashes = 0

-----------------------------------------------------------------------------
(* Messages from the cluster.                                              *)

(* send of a MsgAppResp.  Of several to one leader only the highest tells  *)
(* it anything.                                                            *)
Answer(t, i) ==
    after' = {a \in after : a.term # t}
               \cup {[term |-> t,
                     index |-> Highest({i} \cup {a.index : a \in {b \in after : b.term = t}})]}

(* A message of a later term that carries no log: a vote request.          *)
NewTerm(t) ==
    /\ t > term
    /\ term' = t
    /\ UNCHANGED <<leader, u, cur, ms, prevHard, after, appendQ, applyQ, appendBack, applyBack,
                   acked, panicked, crashes>>

(* handleAppendEntries of the slice (prev, last] of leader t's log.        *)
AppendEntries(t, prev, last, commit) ==
    LET prevTerm == IF prev = 0 THEN 0 ELSE leader[t][prev]
        differs  == {i \in prev + 1 .. last : ~MatchTerm(i, leader[t][i])}
        ci       == CHOOSE i \in differs : \A j \in differs : i <= j
        tocommit == MinOf(commit, last)
    IN  /\ t >= term
        /\ term' = t
        /\ CASE prev < cur.committed ->
                  /\ Answer(t, cur.committed)
                  /\ UNCHANGED <<u, cur, panicked>>
             [] prev >= cur.committed /\ ~MatchTerm(prev, prevTerm) ->
                  /\ Answer(t, 0)
                  /\ UNCHANGED <<u, cur, panicked>>
             [] OTHER ->
                  /\ Answer(t, last)
                  /\ u' = IF differs = {} THEN u
                          ELSE TruncateAndAppend(ci, SubSeq(leader[t], ci, last))
                  /\ cur' = [cur EXCEPT !.committed = MaxOf(@, tocommit)]
                  /\ panicked' = (differs # {} /\ ci <= cur.committed)
        /\ UNCHANGED <<leader, ms, prevHard, appendQ, applyQ, appendBack, applyBack, acked, crashes>>

(* handleHeartbeat: the leader sends min(Match, committed), and Match comes *)
(* from an answer this node released in that term.                         *)
Heartbeat(t, commit) ==
    /\ t >= term
    /\ commit <= acked[t]
    /\ term' = t
    /\ cur' = [cur EXCEPT !.committed = MaxOf(@, commit)]
    /\ panicked' = (cur.committed < commit /\ LastIndex < commit)
    /\ UNCHANGED <<leader, u, ms, prevHard, after, appendQ, applyQ, appendBack, applyBack, acked,
                   crashes>>

(* handleSnapshot of leader t's snapshot at index i.                       *)
Snapshot(t, i) ==
    LET s == [index |-> i, term |-> leader[t][i]] IN
    /\ t >= term
    /\ term' = t
    /\ CASE i <= cur.committed ->
              /\ Answer(t, cur.committed)
              /\ UNCHANGED <<u, cur>>
         [] i > cur.committed /\ MatchTerm(i, s.term) ->
              /\ Answer(t, i)
              /\ cur' = [cur EXCEPT !.committed = i]
              /\ UNCHANGED u
         [] OTHER ->
              /\ Answer(t, i)
              /\ cur' = [cur EXCEPT !.committed = i]
              /\ u' = [EmptyUnstable(i + 1) EXCEPT !.snap = s]
    /\ UNCHANGED <<leader, ms, prevHard, appendQ, applyQ, appendBack, applyBack, acked, panicked,
                   crashes>>

-----------------------------------------------------------------------------
(* RawNode.Ready.                                                          *)

HardState == [term |-> term, commit |-> cur.committed]

NextEntries == SubSeq(u.entries, u.inProgress - u.offset + 1, Len(u.entries))

NextSnapshot == IF u.snapBusy THEN None ELSE u.snap

(* Mutant: entries that are not stored yet are applied.                    *)
MaxAppliableUnstable == cur.committed

MaxAppliable == MinOf(cur.committed, u.offset - 1)

(* Mutant: entries are applied while a snapshot waits.                     *)
NextCommittedPastSnapshot ==
    IF cur.paused THEN 0
    ELSE MaxOf(0, MinOf(MaxAppliable - cur.applying, ApplyLimit - cur.size))

NextCommitted ==
    IF cur.paused \/ u.snap # None
    THEN 0
    ELSE MaxOf(0, MinOf(MaxAppliable - cur.applying, ApplyLimit - cur.size))

NeedAppend == NextEntries # <<>> \/ HardState # prevHard \/ NextSnapshot # None
                \/ after # {}

(* Mutant: a response is asked for only with new entries.                  *)
NeedAppendRespNew == NextEntries # <<>> \/ NextSnapshot # None

NeedAppendResp == u.entries # <<>> \/ NextSnapshot # None

AppendResp ==
    [term |-> term,
     id   |-> IF u.entries # <<>>
              THEN [index |-> LastIndex, term |-> TermAt(LastIndex)]
              ELSE None,
     snap |-> NextSnapshot]

Ready ==
    LET n == NextCommitted
        i == cur.applying + n
    IN  /\ NeedAppend \/ n > 0
        /\ NeedAppend => Len(appendQ) + Len(appendBack) < MaxQueue
        /\ appendQ' = IF NeedAppend
                      THEN Append(appendQ,
                             [first |-> u.inProgress, ents |-> NextEntries,
                              hs |-> HardState, snap |-> NextSnapshot,
                              answers |-> after,
                              resp |-> IF NeedAppendResp THEN <<AppendResp>> ELSE <<>>])
                      ELSE appendQ
        /\ applyQ' = IF n > 0
                     THEN Append(applyQ, [to |-> i, size |-> n]) ELSE applyQ
        /\ prevHard' = HardState
        /\ after' = {}
        /\ u' = [u EXCEPT !.inProgress = IF u.entries # <<>> THEN LastIndex + 1 ELSE @,
                          !.snapBusy = (u.snap # None)]
        /\ cur' = IF n = 0 THEN cur
                  ELSE [cur EXCEPT !.applying = i, !.size = @ + n,
                                   !.paused = cur.size + n >= ApplyLimit
                                                \/ i < MaxAppliable]
        /\ panicked' = (n > 0 /\ cur.applying + 1 < FirstIndex)
        /\ UNCHANGED <<leader, term, ms, appendBack, applyBack, acked, crashes>>

-----------------------------------------------------------------------------
(* The append thread takes its messages in order: it stores the snapshot,  *)
(* the entries and the hard state, then releases the answers.              *)
AppendThread ==
    LET m == Head(appendQ)
        s == ApplySnapshot(ms, m.snap)
    IN  /\ appendQ # <<>>
        /\ ms' = [IF m.ents = <<>> THEN s ELSE StoreAppend(s, m.first, m.ents)
                    EXCEPT !.hs = m.hs]
        /\ panicked' = (m.ents # <<>> /\ StoreGap(s, m.first))
        /\ acked' = [t \in Terms |-> Highest({acked[t]} \cup
                        {a.index : a \in {b \in m.answers : b.term = t}})]
        /\ appendBack' = appendBack \o m.resp
        /\ appendQ' = Tail(appendQ)
        /\ UNCHANGED <<leader, term, u, cur, prevHard, after, applyQ, applyBack, crashes>>

ApplyThread ==
    /\ applyQ # <<>>
    /\ applyBack' = Append(applyBack, Head(applyQ))
    /\ applyQ' = Tail(applyQ)
    /\ UNCHANGED <<leader, term, u, cur, ms, prevHard, after, appendQ, appendBack, acked,
                   panicked, crashes>>

(* Mutant: a response of an earlier term is believed.                      *)
StableRespAnyTerm(m) == StableTo(m.id)

(* Step of MsgStorageAppendResp.  A response of an earlier term says       *)
(* nothing of the entries.                                                 *)
StableResp(m) == IF m.term = term THEN StableTo(m.id) ELSE u

StepAppendResp ==
    LET m == Head(appendBack) IN
    /\ appendBack # <<>>
    /\ appendBack' = Tail(appendBack)
    /\ IF m.snap = None
       THEN u' = StableResp(m) /\ UNCHANGED <<cur, panicked>>
       ELSE /\ u' = StableSnapTo(StableResp(m), m.snap.index)
            /\ cur' = AppliedTo(m.snap.index, 0)
            /\ panicked' = AppliedPanics(m.snap.index)
    /\ UNCHANGED <<leader, term, ms, prevHard, after, appendQ, applyQ, applyBack, acked,
                   crashes>>

StepApplyResp ==
    /\ applyBack # <<>>
    /\ applyBack' = Tail(applyBack)
    /\ cur' = AppliedTo(Head(applyBack).to, Head(applyBack).size)
    /\ panicked' = AppliedPanics(Head(applyBack).to)
    /\ UNCHANGED <<leader, term, u, ms, prevHard, after, appendQ, applyQ, appendBack, acked,
                   crashes>>

(* The application takes a snapshot at i and drops the log up to it.  It   *)
(* owes only to have applied what it drops: the hard state that commits it *)
(* may still be on its way to the append thread.                           *)
Compact(i) ==
    /\ ms.base < i /\ i <= cur.applied
    /\ ms' = [ms EXCEPT !.base = i, !.ents = SubSeq(@, i - ms.base + 1, Len(@))]
    /\ panicked' = (i > StoreLast)
    /\ UNCHANGED <<leader, term, u, cur, prevHard, after, appendQ, applyQ, appendBack, applyBack,
                   acked, crashes>>

(* A crash loses everything but the storage; newRaft starts from it, and   *)
(* loadState panics on a stored commit index outside the stored log.       *)
Restart ==
    /\ crashes < MaxCrashes
    /\ crashes' = crashes + 1
    /\ panicked' = (ms.hs.commit < ms.base \/ ms.hs.commit > StoreLast)
    /\ term' = ms.hs.term
    /\ u' = EmptyUnstable(StoreLast + 1)
    /\ cur' = Cursors(ms.base, ms.hs.commit)
    /\ prevHard' = ms.hs
    /\ after' = {} /\ appendQ' = <<>> /\ applyQ' = <<>> /\ appendBack' = <<>> /\ applyBack' = <<>>
    /\ UNCHANGED <<leader, ms, acked>>

-----------------------------------------------------------------------------
Receive ==
    \E t \in Terms :
        \/ NewTerm(t)
        \/ \E prev \in 0 .. Len(leader[t]) : \E last \in prev .. Len(leader[t]) :
             \E commit \in 0 .. Safe(t) : AppendEntries(t, prev, last, commit)
        \/ \E commit \in 1 .. Safe(t) : Heartbeat(t, commit)
        \/ \E i \in 1 .. Safe(t) : Snapshot(t, i)

Threads ==
    \/ AppendThread
    \/ ApplyThread
    \/ StepAppendResp
    \/ StepApplyResp

(* A process that has panicked does nothing any more.                      *)
Stopped == panicked /\ UNCHANGED vars

Running ==
    \/ Receive
    \/ Ready
    \/ Threads
    \/ \E i \in Indexes : Compact(i)
    \/ Restart

Next ==
    \/ ~panicked /\ Running
    \/ Stopped

(* The application calls Ready whenever HasReady, and its two threads and  *)
(* the delivery of their responses are reliable: all are weakly fair.      *)
(* Nothing is assumed of the cluster, of compaction or of restarts.        *)
Spec ==
    /\ Init /\ [][Next]_vars
    /\ WF_vars(~panicked /\ Ready)
    /\ WF_vars(~panicked /\ AppendThread)
    /\ WF_vars(~panicked /\ ApplyThread)
    /\ WF_vars(~panicked /\ StepAppendResp)
    /\ WF_vars(~panicked /\ StepApplyResp)

-----------------------------------------------------------------------------
(* No Panicf of log.go and storage.go is reached (no conflict below the    *)
(* commit index, no commit, apply or compaction beyond the log, no hole in *)
(* the storage) but one: loadState's, in a restart from a storage that was *)
(* compacted beyond the commit index of its stored hard state.             *)
OnlyLoadPanics ==
    panicked =>
      /\ ms.hs.commit < ms.base
      /\ u = EmptyUnstable(StoreLast + 1) /\ cur = Cursors(ms.base, ms.hs.commit)

(* What the log says, read through the unstable part and the storage, is a *)
(* prefix of one leader's log: a late MsgStorageAppendResp never lets      *)
(* entries that are about to be overwritten show through.                  *)
ReadsOneLog ==
    \E t \in Terms :
        /\ LastIndex <= Len(leader[t])
        /\ \A i \in FirstIndex .. LastIndex : TermAt(i) = leader[t][i]
        /\ LastIndex = 0 \/ TermAt(LastIndex) = leader[t][LastIndex]

(* An answer that reached a leader is backed by the storage: the node that *)
(* crashes now still has the term and, as long as no later term is stored, *)
(* every entry it has acknowledged.                                        *)
AckIsDurable ==
    \A t \in Terms :
        acked[t] > 0 =>
          /\ t <= ms.hs.term
          /\ t = ms.hs.term =>
               /\ acked[t] <= StoreLast
               /\ \A i \in MaxOf(1, ms.base) .. acked[t] :
                     StoreTerm(i) = leader[t][i]

(* What is handed to the apply thread is stored, and is what every later   *)
(* leader has there: a crash cannot take back an entry the state machine   *)
(* has seen.                                                               *)
AppliesDurable ==
    /\ cur.applying <= StoreLast
    /\ \A i \in ms.base + 1 .. cur.applying : StoreTerm(i) = leader[Len(leader)][i]

(* Once the terms stop changing, the unstable log of a node that did not   *)
(* panic drains and every committed entry is applied: ignoring responses   *)
(* of earlier terms does not keep entries in memory for ever.              *)
Settles ==
    <>[](~panicked => u.entries = <<>> /\ u.snap = None /\ cur.applied = cur.committed)

=============================================================================
