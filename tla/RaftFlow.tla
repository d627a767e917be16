------------------------------ MODULE RaftFlow ------------------------------
(***************************************************************************)
(* How a new leader brings one follower up to date (raft.go's sending and  *)
(* stepLeader, tracker/progress.go, tracker/inflights.go): probing for the *)
(* point where the logs part, the window of MsgApps in flight, snapshots,  *)
(* and the heartbeats that get a stalled flow going again.                 *)
(*                                                                         *)
(* The leader's term is fixed.  An entry is its term.  A third voter       *)
(* acknowledges by itself, so that the commit index moves with or without  *)
(* the follower.  Messages travel in order and one heartbeat at a time,    *)
(* except for MaxFaults faults: a message is lost, repeated or overtaken,  *)
(* or reported as undeliverable, or a heartbeat follows an unanswered one. *)
(***************************************************************************)
EXTENDS Integers, Sequences, FiniteSets

CONSTANTS Term,         \* the leader's term
          Starts,       \* the logs and commit indexes the two nodes start with, and
                        \* Config.MaxInflightMsgs
          MaxIndex,     \* the leader's log grows up to here
          MsgEntries,   \* Config.MaxSizePerMsg, in entries
          MaxFaults     \* faults, and heartbeats beyond one in flight

ASSUME FlowAssumption ==
    /\ Term \in Nat \ {0} /\ MaxIndex \in Nat \ {0} /\ MaxFaults \in Nat
    /\ MsgEntries \in Nat \ {0}

Nondecreasing(log) == \A i, j \in DOMAIN log : i <= j => log[i] <= log[j]

(* What an election leaves: the terms of both logs are those of earlier    *)
(* leaders, logs with one entry in common agree up to it, and the new      *)
(* leader has what the follower has committed.                             *)
ASSUME StartsAssumption ==
    \A s \in Starts :
        /\ s.size \in Nat \ {0}
        /\ s.log \in Seq(1 .. Term - 1) /\ Nondecreasing(s.log)
        /\ s.flog \in Seq(1 .. Term - 1) /\ Nondecreasing(s.flog)
        /\ s.base \in 0 .. s.commit /\ s.commit \in 0 .. Len(s.log)
        /\ s.fcommit \in 0 .. Len(s.flog) /\ s.fcommit <= Len(s.log)
        /\ \A j \in 1 .. s.fcommit : s.flog[j] = s.log[j]
        /\ \A i \in DOMAIN s.log \cap DOMAIN s.flog :
             s.log[i] = s.flog[i] => \A j \in 1 .. i : s.log[j] = s.flog[j]

VARIABLES
    ld,       \* the leader: log, compacted up to base, snapshot at snap, commit, and the
              \* third voter's Match
    pr,       \* its Progress of the follower
    fo,       \* the follower: log, commit
    toF, toL, \* messages on their way
    reports,  \* ReportSnapshot calls to come, by whether they report a failure
    panicked,
    faults

vars == <<ld, pr, fo, toF, toL, reports, panicked, faults>>

MinOf(a, b) == IF a < b THEN a ELSE b
MaxOf(a, b) == IF a > b THEN a ELSE b
Highest(S)  == CHOOSE i \in S : \A j \in S : j <= i

TermAt(log, i) == IF i = 0 THEN 0 ELSE log[i]

(* Mutant: an index with the term itself is skipped.                       *)
FindConflictByTermStrict(log, base, i, t) ==
    Highest({j \in 0 .. i : j = 0 \/ j < base \/ TermAt(log, j) < t})

(* findConflictByTerm; terms before base are unknown.                      *)
FindConflictByTerm(log, base, i, t) ==
    Highest({j \in 0 .. i : j = 0 \/ j < base \/ TermAt(log, j) <= t})

-----------------------------------------------------------------------------
(* Progress.  infl holds the last index of every MsgApp in flight, at most *)
(* size of them.                                                           *)

ResetState(p, state) ==
    [p EXCEPT !.state = state, !.paused = FALSE, !.pending = 0, !.infl = << >>]

BecomeProbe(p) ==
    LET next == IF p.state = "snapshot" THEN MaxOf(p.match, p.pending) + 1 ELSE p.match + 1
    IN  [ResetState(p, "probe") EXCEPT !.next = next, !.sent = MinOf(@, next - 1)]

BecomeReplicate(p) == [ResetState(p, "replicate") EXCEPT !.next = p.match + 1]

BecomeSnapshot(p, i) ==
    [ResetState(p, "snapshot") EXCEPT !.pending = i, !.next = i + 1, !.sent = i]

Full(p) == Len(p.infl) = p.size

(* Mutant: nothing is sent past a full window.                             *)
IsPausedWhenFull(p) == p.paused \/ p.state = "snapshot" \/ (p.state = "replicate" /\ Full(p))

IsPaused(p) == p.paused \/ p.state = "snapshot"

SentEntries(p, n) ==
    LET q == IF n = 0 THEN p ELSE [p EXCEPT !.next = @ + n, !.infl = Append(@, p.next + n - 1)]
    IN  IF p.state = "replicate" THEN [q EXCEPT !.paused = Full(q)]
                                 ELSE [p EXCEPT !.paused = @ \/ n > 0]

CanBumpCommit(p, i) == i > p.sent /\ p.sent < p.next - 1

(* Mutant: Next stays behind an acknowledgement.                           *)
MaybeUpdateMatch(p, i) ==
    IF i <= p.match THEN p ELSE [p EXCEPT !.match = i, !.paused = FALSE]

MaybeUpdate(p, i) ==
    IF i <= p.match THEN p
    ELSE [p EXCEPT !.match = i, !.next = MaxOf(@, i + 1), !.paused = FALSE]

(* Frees from the oldest on, up to the first that is larger.               *)
FreeLE(p, i) ==
    LET freed == Highest({n \in 0 .. Len(p.infl) : \A k \in 1 .. n : p.infl[k] <= i})
    IN  [p EXCEPT !.infl = SubSeq(@, freed + 1, Len(@))]

(* MaybeDecrTo, and p itself for a rejection that is out of date.          *)
MaybeDecrTo(p, rejected, hint) ==
    LET lower(next) == [p EXCEPT !.next = next, !.sent = MinOf(@, next - 1)]
    IN  CASE p.state = "replicate" /\ rejected > p.match  -> lower(p.match + 1)
          [] p.state # "replicate" /\ rejected = p.next - 1 ->
                [lower(MaxOf(MinOf(rejected, hint + 1), p.match + 1)) EXCEPT !.paused = FALSE]
          [] OTHER -> p

Genuine(p, rejected) ==
    IF p.state = "replicate" THEN rejected > p.match ELSE rejected = p.next - 1

-----------------------------------------------------------------------------
(* Sending.  What is sent is the new Progress and the messages.            *)

Sent(p, out) == [pr |-> p, out |-> out]

MaybeSendSnapshot(l, p) ==
    IF p.active
    THEN Sent(BecomeSnapshot(p, l.snap), <<[type |-> "Snap", index |-> l.snap]>>)
    ELSE Sent(p, << >>)

MaybeSendAppend(l, p, sendIfEmpty) ==
    LET prev == p.next - 1
        n    == IF p.state = "replicate" /\ Full(p) THEN 0
                ELSE MinOf(MsgEntries, Len(l.log) - prev)
    IN  CASE IsPaused(p) -> Sent(p, << >>)
          [] ~IsPaused(p) /\ prev < l.base -> MaybeSendSnapshot(l, p)
          [] ~IsPaused(p) /\ prev >= l.base /\ n = 0 /\ ~sendIfEmpty -> Sent(p, << >>)
          [] OTHER -> Sent([SentEntries(p, n) EXCEPT !.sent = l.commit],
                           <<[type |-> "App", prev |-> prev, last |-> prev + n,
                              commit |-> l.commit]>>)

(* The loop of MaybeSendAppends without empty ones.  It follows an accept, *)
(* so the Progress is in StateReplicate or paused: it sends a snapshot, or *)
(* as many MsgApps as there are entries for and the window takes.          *)
SendAll(l, p) ==
    LET prev == p.next - 1
        from(k) == prev + (k - 1) * MsgEntries
        upto(k) == MinOf(prev + k * MsgEntries, Len(l.log))
        ks   == {k \in 1 .. p.size - Len(p.infl) : from(k) < Len(l.log)}
        n    == Cardinality(ks)
        infl == p.infl \o [k \in 1 .. n |-> upto(k)]
    IN  CASE IsPaused(p) \/ (prev >= l.base /\ n = 0) -> Sent(p, << >>)
          [] ~IsPaused(p) /\ prev < l.base -> MaybeSendSnapshot(l, p)
          [] OTHER -> Sent([p EXCEPT !.next = upto(n) + 1, !.infl = infl, !.sent = l.commit,
                                     !.paused = Len(infl) = p.size],
                           [k \in 1 .. n |-> [type |-> "App", prev |-> from(k),
                                              last |-> upto(k), commit |-> l.commit]])

(* maybeCommit: of the three voters, the leader has all of its log.        *)
MaybeCommit(l, match) ==
    LET i == MaxOf(match, l.other)
    IN  IF i > l.commit /\ TermAt(l.log, i) = Term THEN [l EXCEPT !.commit = i] ELSE l

(* The leader becomes l; from the Progress p it sends an append, possibly  *)
(* empty, if asked to.                                                     *)
Sends(l, p, asked) ==
    \E s \in {IF asked THEN MaybeSendAppend(l, p, TRUE) ELSE Sent(p, << >>)} :
        /\ ld' = l
        /\ pr' = s.pr
        /\ toF' = toF \o s.out

-----------------------------------------------------------------------------
(* What the leader does of its own accord.                                 *)

Propose ==
    LET l == [ld EXCEPT !.log = Append(@, Term)] IN
    /\ Len(ld.log) < MaxIndex
    /\ Sends(l, pr, TRUE)
    /\ UNCHANGED <<fo, toL, reports, panicked, faults>>

(* The third voter acknowledges.                                           *)
OtherAcks(i) ==
    LET l == MaybeCommit([ld EXCEPT !.other = i], pr.match) IN
    /\ ld.other < i /\ i <= Len(ld.log)
    /\ Sends(l, pr, l.commit > ld.commit)
    /\ UNCHANGED <<fo, toL, reports, panicked, faults>>

Beating ==
    \/ \E k \in DOMAIN toF : toF[k].type = "Beat"
    \/ \E k \in DOMAIN toL : toL[k].type = "BeatResp"

SendHeartbeat ==
    LET commit == MinOf(pr.match, ld.commit) IN
    /\ pr' = [pr EXCEPT !.sent = commit]
    /\ toF' = Append(toF, [type |-> "Beat", commit |-> commit])
    /\ UNCHANGED <<ld, fo, toL, reports, panicked>>

Beat == ~Beating /\ SendHeartbeat /\ UNCHANGED faults

(* MsgCheckQuorum, with the third voter active.                            *)
CheckQuorum ==
    /\ pr.active
    /\ pr' = [pr EXCEPT !.active = FALSE]
    /\ UNCHANGED <<ld, fo, toF, toL, reports, panicked, faults>>

(* The application takes a snapshot of what it has applied.                *)
CreateSnapshot(i) ==
    /\ ld.snap < i /\ i <= ld.commit
    /\ ld' = [ld EXCEPT !.snap = i]
    /\ UNCHANGED <<pr, fo, toF, toL, reports, panicked, faults>>

(* It drops the log up to its snapshot, or keeps some of that.             *)
Compact(i) ==
    /\ ld.base < i /\ i <= ld.snap
    /\ ld' = [ld EXCEPT !.base = i]
    /\ UNCHANGED <<pr, fo, toF, toL, reports, panicked, faults>>

-----------------------------------------------------------------------------
(* What the leader is told.                                                *)

Active == [pr EXCEPT !.active = TRUE]

(* The Progress after an acknowledgement of i that is news.                *)
Accepted(i) ==
    LET p == MaybeUpdate(Active, i)
    IN  CASE p.state = "probe" -> BecomeReplicate(p)
          [] p.state = "snapshot" ->
                IF p.match >= ld.base THEN BecomeReplicate(BecomeProbe(p)) ELSE p
          [] p.state = "replicate" -> FreeLE(p, i)

OnAccept(i) ==
    IF i > pr.match \/ (i = pr.match /\ pr.state = "probe")
    THEN \E p \in {Accepted(i)} : \E l \in {MaybeCommit(ld, p.match)} :
         \E s \in {IF l.commit > ld.commit \/ CanBumpCommit(p, l.commit)
                   THEN MaybeSendAppend(l, p, TRUE) ELSE Sent(p, << >>)} :
         \E more \in {SendAll(l, s.pr)} :
            /\ ld' = l
            /\ pr' = more.pr
            /\ toF' = toF \o s.out \o more.out
    ELSE Sends(ld, Active, FALSE)

(* The Progress after a genuine rejection.                                 *)
Rejected(m) ==
    LET hint == IF m.term > 0 THEN FindConflictByTerm(ld.log, ld.base, m.hint, m.term)
                              ELSE m.hint
        p    == MaybeDecrTo(Active, m.index, hint)
    IN  IF p.state = "replicate" THEN BecomeProbe(p) ELSE p

OnReject(m) ==
    IF Genuine(pr, m.index)
    THEN \E p \in {Rejected(m)} : Sends(ld, p, TRUE)
    ELSE Sends(ld, Active, FALSE)

OnBeatResp ==
    \E p \in {[Active EXCEPT !.paused = FALSE]} :
        Sends(ld, p, p.match < Len(ld.log) \/ p.state = "probe")

ReceiveL ==
    LET m == Head(toL) IN
    /\ toL # << >>
    /\ toL' = Tail(toL)
    /\ CASE m.type = "Accept"   -> OnAccept(m.index)
         [] m.type = "Reject"   -> OnReject(m)
         [] m.type = "BeatResp" -> OnBeatResp
    /\ UNCHANGED <<fo, reports, panicked, faults>>

(* MsgSnapStatus: the transport tells what became of a snapshot.           *)
SnapStatus ==
    LET failed == Head(reports)
        p == IF failed THEN [pr EXCEPT !.pending = 0] ELSE pr
    IN  /\ reports # << >>
        /\ reports' = Tail(reports)
        /\ pr' = IF pr.state = "snapshot" THEN [BecomeProbe(p) EXCEPT !.paused = TRUE] ELSE pr
        /\ UNCHANGED <<ld, fo, toF, toL, panicked, faults>>

-----------------------------------------------------------------------------
(* The follower.                                                           *)

(* How far the follower's log is the leader's.                             *)
Common(f) ==
    Highest({i \in 0 .. MinOf(Len(f.log), Len(ld.log)) :
                SubSeq(f.log, 1, i) = SubSeq(ld.log, 1, i)})

(* The follower becomes f and answers m.                                   *)
Answers(f, m, bad) ==
    /\ fo' = f
    /\ toL' = Append(toL, m)
    /\ panicked' = bad

Accept(i) == [type |-> "Accept", index |-> i]

(* common is not in the message: it is kept for ProbesWell.                *)
Reject(prev) ==
    LET hint == FindConflictByTerm(fo.log, 0, MinOf(prev, Len(fo.log)), TermAt(ld.log, prev))
    IN  [type |-> "Reject", index |-> prev, hint |-> hint, term |-> TermAt(fo.log, hint),
         common |-> Common(fo)]

HandleAppend(m) ==
    LET matches(i) == i <= Len(fo.log) /\ TermAt(fo.log, i) = TermAt(ld.log, i)
        differs    == {i \in m.prev + 1 .. m.last : ~matches(i)}
        ci         == CHOOSE i \in differs : \A j \in differs : i <= j
        log        == IF differs = {} THEN fo.log
                      ELSE SubSeq(fo.log, 1, ci - 1) \o SubSeq(ld.log, ci, m.last)
    IN  CASE m.prev < fo.commit -> Answers(fo, Accept(fo.commit), FALSE)
          [] m.prev >= fo.commit /\ ~matches(m.prev) -> Answers(fo, Reject(m.prev), FALSE)
          [] OTHER -> Answers([log |-> log, commit |-> MaxOf(fo.commit, MinOf(m.commit, m.last))],
                              Accept(m.last), differs # {} /\ ci <= fo.commit)

HandleHeartbeat(m) ==
    Answers([fo EXCEPT !.commit = MaxOf(@, m.commit)], [type |-> "BeatResp"],
            m.commit > Len(fo.log))

HandleSnapshot(m) ==
    LET known == m.index <= Len(fo.log) /\ TermAt(fo.log, m.index) = TermAt(ld.log, m.index)
    IN  CASE m.index <= fo.commit -> Answers(fo, Accept(fo.commit), FALSE)
          [] m.index > fo.commit /\ known ->
                Answers([fo EXCEPT !.commit = m.index], Accept(m.index), FALSE)
          [] OTHER -> Answers([log |-> SubSeq(ld.log, 1, m.index), commit |-> m.index],
                              Accept(m.index), FALSE)

ReceiveF ==
    LET m == Head(toF) IN
    /\ toF # << >>
    /\ toF' = Tail(toF)
    /\ CASE m.type = "App"  -> HandleAppend(m)
         [] m.type = "Beat" -> HandleHeartbeat(m)
         [] m.type = "Snap" -> HandleSnapshot(m)
    /\ reports' = IF m.type = "Snap" THEN Append(reports, FALSE) ELSE reports
    /\ UNCHANGED <<ld, pr, faults>>

-----------------------------------------------------------------------------
(* Faults.                                                                 *)

Without(q, k) == SubSeq(q, 1, k - 1) \o SubSeq(q, k + 1, Len(q))

Fault == faults < MaxFaults /\ faults' = faults + 1

(* A snapshot that is lost is reported.                                    *)
Lose ==
    /\ Fault
    /\ \/ \E k \in DOMAIN toF :
             /\ toF' = Without(toF, k)
             /\ reports' = IF toF[k].type = "Snap" THEN Append(reports, TRUE) ELSE reports
             /\ UNCHANGED toL
       \/ \E k \in DOMAIN toL : toL' = Without(toL, k) /\ UNCHANGED <<toF, reports>>
    /\ UNCHANGED <<ld, pr, fo, panicked>>

Repeat ==
    /\ Fault
    /\ \/ \E k \in DOMAIN toF : toF' = Append(toF, toF[k]) /\ UNCHANGED toL
       \/ \E k \in DOMAIN toL : toL' = Append(toL, toL[k]) /\ UNCHANGED toF
    /\ UNCHANGED <<ld, pr, fo, reports, panicked>>

Overtake ==
    /\ Fault
    /\ \/ \E k \in DOMAIN toF :
             k < Len(toF) /\ toF' = Append(Without(toF, k), toF[k]) /\ UNCHANGED toL
       \/ \E k \in DOMAIN toL :
             k < Len(toL) /\ toL' = Append(Without(toL, k), toL[k]) /\ UNCHANGED toF
    /\ UNCHANGED <<ld, pr, fo, reports, panicked>>

(* MsgUnreachable.                                                         *)
Unreachable ==
    /\ Fault
    /\ pr.state = "replicate"
    /\ pr' = BecomeProbe(pr)
    /\ UNCHANGED <<ld, fo, toF, toL, reports, panicked>>

(* Heartbeats leave at every interval and for every ReadIndex, whether or  *)
(* not the last one is answered.                                           *)
BeatAgain == Beating /\ SendHeartbeat /\ Fault

-----------------------------------------------------------------------------
(* becomeLeader: the new Progress, the empty entry and the first MsgApp.   *)
NewProgress(l, size) ==
    [match |-> 0, next |-> Len(l.log), sent |-> 0, state |-> "probe", pending |-> 0,
     paused |-> FALSE, active |-> FALSE, infl |-> << >>, size |-> size]

Init ==
    \E start \in Starts :
        LET l == [log |-> Append(start.log, Term), base |-> start.base,
                  snap |-> start.base, commit |-> start.commit, other |-> 0]
            s == MaybeSendAppend(l, NewProgress(l, start.size), TRUE)
        IN  /\ ld = l /\ pr = s.pr /\ toF = s.out
            /\ fo = [log |-> start.flog, commit |-> start.fcommit]
            /\ toL = << >> /\ reports = << >> /\ panicked = FALSE /\ faults = 0

Next ==
    /\ ~panicked
    /\ \/ Propose
       \/ \E i \in 1 .. MaxIndex : OtherAcks(i)
       \/ Beat
       \/ CheckQuorum
       \/ \E i \in 1 .. MaxIndex : CreateSnapshot(i)
       \/ \E i \in 1 .. MaxIndex : Compact(i)
       \/ ReceiveL
       \/ SnapStatus
       \/ ReceiveF
       \/ Lose
       \/ Repeat
       \/ Overtake
       \/ Unreachable
       \/ BeatAgain

(* The leader ticks, what is not lost arrives, and the application calls   *)
(* ReportSnapshot.                                                         *)
Spec ==
    /\ Init /\ [][Next]_vars
    /\ WF_vars(Beat) /\ WF_vars(ReceiveF) /\ WF_vars(ReceiveL) /\ WF_vars(SnapStatus)

-----------------------------------------------------------------------------
(* The follower's log is the leader's up to Match, Match < Next, and in    *)
(* StateReplicate the window holds increasing indexes of (Match, Next),    *)
(* never more than MaxInflightMsgs, of which the last is Next - 1.         *)
MatchAgrees == pr.match <= Common(fo) /\ pr.match < pr.next

WindowExact ==
    /\ Len(pr.infl) <= pr.size
    /\ pr.infl # << >> => pr.infl[Len(pr.infl)] = pr.next - 1 /\ pr.infl[1] > pr.match
    /\ \A j \in 2 .. Len(pr.infl) : pr.infl[j - 1] < pr.infl[j]

(* Stale, repeated and reordered answers never make the leader believe     *)
(* more than the follower has, nor lose count of its window; and the       *)
(* follower never panics on a commit index or a conflict.                  *)
FlowSound == ~panicked /\ MatchAgrees /\ WindowExact

(* findConflictByTerm skips only probes that must fail: a rejection never  *)
(* sends a probing leader below the point up to which the logs agreed.     *)
ProbesWell ==
    [][toL # << >> /\ toL' = Tail(toL) /\ Head(toL).type = "Reject"
         /\ pr.state = "probe" /\ pr'.next < pr.next
           => pr'.next > Head(toL).common]_vars

(* Whatever is lost, repeated, overtaken, compacted or reported, once the  *)
(* faults are over the follower ends with the leader's log, all of it      *)
(* committed and known to be: no pause, window or snapshot stalls for ever.*)
CatchesUp ==
    <>[](fo.log = ld.log /\ fo.commit = Len(ld.log) /\ pr.match = Len(ld.log))
=============================================================================
