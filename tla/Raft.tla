-------------------------------- MODULE Raft --------------------------------
(***************************************************************************)
(* A cluster of nodes running raft.go over the harness's network and       *)
(* storage: elections with pre-vote and leadership transfer, replication,  *)
(* commitment, configuration changes, ReadIndex, crashes and restarts.     *)
(*                                                                         *)
(* The bootstrap's entries, of term 1, are the common base of the logs;    *)
(* index 1 is the first entry after them.  An entry is its term and its    *)
(* configuration change, if any.  The network loses, duplicates, delays    *)
(* and reorders: messages sent stay in net and are received any number of  *)
(* times.  MsgApps are slices of the log a leader had when it called       *)
(* bcastAppend: the message "Log" carries all of it, and any slice of it   *)
(* may be what is received, empty ones too.  Which slice the leader picks  *)
(* (tracker.Progress, flow control, snapshots) is left to RaftFlow.        *)
(***************************************************************************)
EXTENDS ConfChange

CONSTANTS Boot,        \* the voters of the bootstrap
          Async,       \* Config.AsyncStorageWrites
          Lockstep,    \* a step is written before any node takes another
          Setups       \* name -> the rest of the configuration and the environment

Normal == Change(<< >>, "none")   \* EntryNormal, which changes nothing

(* preVote     Config.PreVote                                              *)
(* inputs      the optional ones: "beat", "transfer", "forget", "quorum"   *)
(* blocked     the pairs <<from, to>> between which everything is lost     *)
(* campaigners term -> the nodes that may campaign for it                  *)
(* proposals   index -> what clients propose when the log ends before it   *)
(* reads       ids of read requests                                        *)
(* crashes     how many there are at most                                  *)
SetupType(s) ==
    /\ s.preVote \in BOOLEAN
    /\ s.inputs \subseteq {"beat", "transfer", "forget", "quorum"}
    /\ s.blocked \subseteq Ids \X Ids
    /\ \A t \in DOMAIN s.campaigners : t \in Nat /\ s.campaigners[t] \subseteq Ids
    /\ DOMAIN s.proposals \subseteq Nat
    /\ \A i \in DOMAIN s.proposals : s.proposals[i] \subseteq ConfChanges \cup {Normal}
    /\ s.crashes \in Nat

ASSUME RaftAssumption ==
    /\ Boot \subseteq Ids /\ Boot # {}
    /\ Async \in BOOLEAN /\ Lockstep \in BOOLEAN
    /\ \A name \in DOMAIN Setups : SetupType(Setups[name])

VARIABLES
    node,       \* the raft struct of each node
    disk,       \* its Storage and the state machine's applied index and ConfState
    held,       \* messages that wait for the next write to the storage
    net,        \* messages sent
    floor,      \* history: read -> the highest commit index when it was asked, or -1
    answers,    \* history: read states handed out
    panicked,   \* a panic was reached
    crashes,
    setup       \* the name of this behaviour's setup

vars == <<node, disk, held, net, floor, answers, panicked, crashes, setup>>

PreVote     == Setups[setup].preVote
Inputs      == Setups[setup].inputs
Blocked     == Setups[setup].blocked
Campaigners == Setups[setup].campaigners
Proposals   == Setups[setup].proposals
Reads       == Setups[setup].reads
MaxCrashes  == Setups[setup].crashes

None     == 0
BaseTerm == 1

Entry(t, cc)  == [term |-> t, cc |-> cc]
IsConf(e)     == e.cc # Normal

TermAt(log, i) == IF i = 0 THEN BaseTerm ELSE log[i].term
LastTerm(log)  == TermAt(log, Len(log))
MinOf(a, b)    == IF a < b THEN a ELSE b
MaxOf(a, b)    == IF a > b THEN a ELSE b

-----------------------------------------------------------------------------
(* Messages.  to is the set of receivers: one message stands for a         *)
(* broadcast.                                                              *)

VoteMsg(type, s, n, t) ==
    [type |-> type, term |-> t, from |-> n, to |-> Voters(s.conf) \ {n},
     last |-> [term |-> LastTerm(s.log), index |-> Len(s.log)]]

VoteResp(type, t, n, to, reject) ==
    [type |-> type, term |-> t, from |-> n, to |-> {to}, reject |-> reject]

AppResp(s, n, to, i) ==
    [type |-> "AppResp", term |-> s.term, from |-> n, to |-> {to}, index |-> i]

LogMsg(s, n) ==
    [type |-> "Log", term |-> s.term, from |-> n, to |-> DOMAIN s.conf.trk \ {n},
     log |-> s.log, commit |-> s.commit]

(* heartbeatCtx: the position of the last unconfirmed read, 0 for nil.     *)
HeartbeatCtx(s) == IF s.queue = << >> THEN 0 ELSE s.confirmed + Len(s.queue)

(* Mutant: a heartbeat carries the leader's commit index as it is.         *)
BeatMsgUncapped(s, n, to) ==
    [type |-> "Beat", term |-> s.term, from |-> n, to |-> {to},
     commit |-> s.commit, ctx |-> HeartbeatCtx(s)]

BeatMsg(s, n, to) ==
    [type |-> "Beat", term |-> s.term, from |-> n, to |-> {to},
     commit |-> MinOf(s.conf.trk[to].match, s.commit), ctx |-> HeartbeatCtx(s)]

BcastHeartbeat(s, n) == {BeatMsg(s, n, to) : to \in DOMAIN s.conf.trk \ {n}}

TimeoutNow(s, n, to) == [type |-> "TimeoutNow", term |-> s.term, from |-> n, to |-> {to}]

(* What a handler leaves: the state, the messages it sends, those it sends *)
(* after the next write (msgsAfterAppend), the read states it hands out.   *)
Result(s, out, after) == [s |-> s, out |-> out, after |-> after, read |-> {}]
Quiet(s) == Result(s, {}, {})

-----------------------------------------------------------------------------
(* Changes of role.                                                        *)

Reset(s, t) ==
    [s EXCEPT !.vote = IF t = s.term THEN @ ELSE None,
              !.term = t, !.lead = None, !.transferee = None,
              !.yes = {}, !.no = {}, !.pending = 0,
              !.conf.trk = [id \in DOMAIN @ |-> [@[id] EXCEPT !.match = 0]],
              !.queue = << >>, !.confirmed = 0, !.acks = [id \in Ids |-> 0]]

BecomeFollower(s, t, lead) ==
    [Reset(s, t) EXCEPT !.state = "follower", !.lead = lead]

BecomePreCandidate(s) ==
    [s EXCEPT !.state = "pre", !.lead = None, !.yes = {}, !.no = {}]

BecomeCandidate(s, n) ==
    [Reset(s, s.term + 1) EXCEPT !.state = "candidate", !.vote = n]

(* appendEntry: the leader acknowledges to itself after the write.         *)
AppendEntry(s, n, cc) ==
    LET s1 == [s EXCEPT !.log = Append(@, Entry(s.term, cc))]
    IN  Result(s1, {LogMsg(s1, n)}, {AppResp(s1, n, n, Len(s1.log))})

BecomeLeader(s, n) ==
    AppendEntry([Reset(s, s.term) EXCEPT !.state = "leader", !.lead = n,
                                         !.conf.trk[n].match = Len(s.log),
                                         !.pending = Len(s.log)],
                n, Normal)

Promotable(s, n) == n \in DOMAIN s.conf.trk /\ ~s.conf.trk[n].learner

HasUnappliedConfChanges(s) ==
    \E i \in s.applied + 1 .. s.commit : IsConf(s.log[i])

(* campaign, for kind "pre", "election" or "transfer".  A transfer's       *)
(* requests differ in not being ignored within the lease.                  *)
Campaign(s, n, kind) ==
    LET pre == kind = "pre"
        s1  == IF pre THEN BecomePreCandidate(s) ELSE BecomeCandidate(s, n)
        t   == s.term + 1
    IN  Result(s1,
               {VoteMsg(IF pre THEN "PreVote" ELSE "Vote", s1, n, t)},
               IF n \in Voters(s1.conf)
               THEN {VoteResp(IF pre THEN "PreVoteResp" ELSE "VoteResp", t, n, n, FALSE)}
               ELSE {})

(* Mutant: a node campaigns with changes of its configuration unapplied.   *)
MayHupUnapplied(s, n) ==
    /\ s.state # "leader"
    /\ Promotable(s, n)
    /\ s.term + 1 \in DOMAIN Campaigners /\ n \in Campaigners[s.term + 1]

MayHup(s, n) ==
    /\ s.state # "leader"
    /\ Promotable(s, n)
    /\ ~HasUnappliedConfChanges(s)
    /\ s.term + 1 \in DOMAIN Campaigners /\ n \in Campaigners[s.term + 1]

-----------------------------------------------------------------------------
(* Reads.                                                                  *)

(* sendMsgReadIndexResponse for ReadOnlySafe, for each read in turn.       *)
StartReads(s, n, reads) ==
    LET s1 == [s EXCEPT !.queue = @ \o [k \in DOMAIN reads |->
                                          [id |-> reads[k], index |-> s.commit]]]
        s2 == [s1 EXCEPT !.acks[n] = HeartbeatCtx(s1)]
    IN  Result(s2, BcastHeartbeat(s2, n), {})

(* Mutant: a new leader answers before it has committed in its term.       *)
CommittedInTermAssumed(s) == TRUE

CommittedInTerm(s) == TermAt(s.log, s.commit) = s.term

(* maybeAdvance: the reads that a quorum has now confirmed.                *)
MaybeAdvance(s) ==
    LET now == CommittedIndex(s.conf.in, s.conf.out, s.acks)
        k   == now - s.confirmed
    IN  IF k <= 0
        THEN Quiet(s)
        ELSE [Quiet([s EXCEPT !.confirmed = now, !.queue = SubSeq(@, k + 1, Len(@))])
                EXCEPT !.read = {s.queue[i] : i \in 1 .. k}]

-----------------------------------------------------------------------------
(* Commitment.                                                             *)

Matches(s) == [id \in Ids |-> IF id \in DOMAIN s.conf.trk THEN s.conf.trk[id].match ELSE 0]

(* Mutant: acknowledgements of an earlier term's entry commit it.          *)
MaybeCommitAnyTerm(s) ==
    LET i == CommittedIndex(s.conf.in, s.conf.out, Matches(s))
    IN  IF i > s.commit /\ i <= Len(s.log)
        THEN [s EXCEPT !.commit = i] ELSE s

(* maybeCommit: only an entry of the leader's own term is counted.         *)
MaybeCommit(s) ==
    LET i == CommittedIndex(s.conf.in, s.conf.out, Matches(s))
    IN  IF i > s.commit /\ i <= Len(s.log) /\ TermAt(s.log, i) = s.term
        THEN [s EXCEPT !.commit = i] ELSE s

-----------------------------------------------------------------------------
(* Step: the term first.  An ignored request within the leader's lease is  *)
(* a lost one.                                                             *)

OnHigherTerm(s, m) ==
    IF m.type = "PreVote" \/ (m.type = "PreVoteResp" /\ ~m.reject)
    THEN s
    ELSE BecomeFollower(s, m.term, IF m.type \in {"Log", "Beat"} THEN m.from ELSE None)

(* r.checkQuorum || r.preVote.                                             *)
AnswersLower == PreVote \/ "quorum" \in Inputs

OnLowerTerm(s, n, m) ==
    CASE m.type \in {"Log", "Beat"} /\ AnswersLower ->
             Result(s, {}, {AppResp(s, n, m.from, 0)})
      [] m.type = "PreVote" ->
             Result(s, {}, {VoteResp("PreVoteResp", s.term, n, m.from, TRUE)})
      [] OTHER -> Quiet(s)

IsUpToDate(s, last) ==
    \/ last.term > LastTerm(s.log)
    \/ last.term = LastTerm(s.log) /\ last.index >= Len(s.log)

HandleVote(s, n, m) ==
    LET pre     == m.type = "PreVote"
        resp    == IF pre THEN "PreVoteResp" ELSE "VoteResp"
        canVote == \/ s.vote = m.from
                   \/ s.vote = None /\ s.lead = None
                   \/ pre /\ m.term > s.term
    IN  IF canVote /\ IsUpToDate(s, m.last)
        THEN Result(IF pre THEN s ELSE [s EXCEPT !.vote = m.from],
                    {}, {VoteResp(resp, m.term, n, m.from, FALSE)})
        ELSE Result(s, {}, {VoteResp(resp, s.term, n, m.from, TRUE)})

(* stepCandidate for the vote responses of its own kind of candidacy.      *)
HandleVoteResp(s, n, m) ==
    LET s1  == IF m.from \in s.yes \cup s.no THEN s
               ELSE IF m.reject THEN [s EXCEPT !.no = @ \cup {m.from}]
                                ELSE [s EXCEPT !.yes = @ \cup {m.from}]
        res == VoteResult(s1.conf.in, s1.conf.out, s1.yes, s1.no)
    IN  CASE res = "won" /\ s.state = "pre"       -> Campaign(s1, n, "election")
          [] res = "won" /\ s.state = "candidate" -> BecomeLeader(s1, n)
          [] res = "lost"                         -> Quiet(BecomeFollower(s1, s1.term, None))
          [] OTHER                                -> Quiet(s1)

(* handleAppendEntries of the entries of m.log after prev.                 *)
HandleAppend(s, n, m, prev) ==
    LET last       == Len(m.log)
        matches(i) == i <= Len(s.log) /\ TermAt(s.log, i) = TermAt(m.log, i)
        differs    == {i \in prev + 1 .. last : ~matches(i)}
        log        == IF differs = {} THEN s.log
                      ELSE SubSeq(s.log, 1, (CHOOSE i \in differs : \A j \in differs : i <= j) - 1)
                             \o SubSeq(m.log, CHOOSE i \in differs : \A j \in differs : i <= j,
                                       last)
        commit     == MaxOf(s.commit, MinOf(m.commit, last))
    IN  CASE prev < s.commit  -> Result(s, {}, {AppResp(s, n, m.from, s.commit)})
          [] prev >= s.commit /\ ~matches(prev) -> Result(s, {}, {AppResp(s, n, m.from, 0)})
          [] OTHER -> Result([s EXCEPT !.log = log, !.commit = commit],
                             {}, {AppResp(s, n, m.from, last)})

HandleHeartbeat(s, n, m) ==
    Result([s EXCEPT !.commit = MaxOf(@, m.commit)],
           {[type |-> "BeatResp", term |-> s.term, from |-> n, to |-> {m.from}, ctx |-> m.ctx]},
           {})

(* stepLeader of an acknowledgement.                                       *)
HandleAppResp(s, n, m) ==
    LET s1   == MaybeCommit([s EXCEPT !.conf.trk[m.from].match = m.index])
        up   == s1.commit > s.commit
        free == up /\ s1.waiting # << >> /\ CommittedInTerm(s1)
        r    == IF free THEN StartReads([s1 EXCEPT !.waiting = << >>], n, s1.waiting)
                        ELSE Quiet(s1)
        tn   == m.from = s1.transferee /\ m.index = Len(s1.log)
    IN  IF m.from \notin DOMAIN s.conf.trk \/ m.index <= s.conf.trk[m.from].match
        THEN Quiet(s)
        ELSE [r EXCEPT !.out = @ \cup (IF up THEN {LogMsg(r.s, n)} ELSE {})
                                 \cup (IF tn THEN {TimeoutNow(s1, n, m.from)} ELSE {})]

HandleBeatResp(s, m) ==
    IF m.from \notin DOMAIN s.conf.trk \/ m.ctx = 0
    THEN Quiet(s)
    ELSE MaybeAdvance([s EXCEPT !.acks[m.from] = MaxOf(@, m.ctx)])

(* The rest of Step, by type and role.  The receiver of a MsgApp or a      *)
(* heartbeat of its term follows the sender.                               *)
Follow(s, m) ==
    IF s.state = "follower" THEN [s EXCEPT !.lead = m.from]
                            ELSE BecomeFollower(s, m.term, m.from)

Handle(s, n, m, prev) ==
    CASE m.type \in {"Vote", "PreVote"} -> HandleVote(s, n, m)
      [] m.type = "Log"  /\ s.state # "leader" -> HandleAppend(Follow(s, m), n, m, prev)
      [] m.type = "Beat" /\ s.state # "leader" -> HandleHeartbeat(Follow(s, m), n, m)
      [] \/ m.type = "PreVoteResp" /\ s.state = "pre"
         \/ m.type = "VoteResp" /\ s.state = "candidate" -> HandleVoteResp(s, n, m)
      [] m.type = "AppResp"  /\ s.state = "leader" -> HandleAppResp(s, n, m)
      [] m.type = "BeatResp" /\ s.state = "leader" -> HandleBeatResp(s, m)
      [] m.type = "TimeoutNow" /\ s.state = "follower" /\ MayHup(s, n) ->
             Campaign(s, n, "transfer")
      [] OTHER -> Quiet(s)

StepMsg(s, n, m, prev) ==
    CASE m.term < s.term -> OnLowerTerm(s, n, m)
      [] m.term > s.term -> Handle(OnHigherTerm(s, m), n, m, prev)
      [] OTHER           -> Handle(s, n, m, prev)

-----------------------------------------------------------------------------
(* Messages to which no receiver can react any more.  A node that has      *)
(* stored a term never goes back behind it, and leads a term once.         *)
Left(id, t) == disk'[id].term > t

Useful(m) ==
    LET s        == node'[CHOOSE id \in m.to : TRUE]
        open     == \E id \in m.to : ~Left(id, m.term)
        behind   == \E id \in m.to : ~Left(id, m.term - 1)
        in(role) == s.term = m.term /\ s.state = role
    IN  CASE m.type \in {"Vote", "TimeoutNow", "PreVoteResp"} -> open
          [] m.type \in {"Log", "Beat"} -> open \/ (AnswersLower /\ ~Left(m.from, m.term))
          [] m.type = "PreVote" -> ~Left(m.from, m.term)
          [] m.type = "VoteResp" ->
                behind \/ (in("candidate") /\ m.from \notin s.yes \cup s.no)
          [] m.type = "AppResp" ->
                behind \/ (in("leader") /\ m.index > Matches(s)[m.from])
          [] m.type = "BeatResp" ->
                behind \/ (in("leader") /\ m.ctx > s.acks[m.from])

(* route.                                                                  *)
Routed(m) == [m EXCEPT !.to = {id \in @ : <<m.from, id>> \notin Blocked}]

Sends(msgs) ==
    net' = {m \in net \cup {Routed(m) : m \in msgs} : m.to # {} /\ Useful(m)}

(* Mutant: nothing waits for the write.                                    *)
BecomesUnwritten(n, r) ==
    /\ node' = [node EXCEPT ![n] = r.s]
    /\ UNCHANGED <<disk, held, floor, crashes, setup>>
    /\ Sends(r.out \cup r.after)
    /\ answers' = answers \cup r.read

(* The node's next state, and what it sends: at once when the storage is   *)
(* written asynchronously, after the next write otherwise.                 *)
Becomes(n, r) ==
    /\ node' = [node EXCEPT ![n] = r.s]
    /\ UNCHANGED <<disk, floor, crashes, setup>>
    /\ held' = [held EXCEPT ![n] = @ \cup r.after \cup (IF Async THEN {} ELSE r.out)]
    /\ Sends(IF Async THEN r.out ELSE {})
    /\ answers' = answers \cup r.read

(* A conflict with a committed entry, or a commit index beyond the log.    *)
Panics(s, s1) ==
    \/ s1.commit > Len(s1.log)
    \/ \E i \in 1 .. s.commit : i > Len(s1.log) \/ s1.log[i] # s.log[i]

(* A MsgApp has the entries after prev up to last: fewer than there are    *)
(* when maxMsgSize or a full window of the receiver cuts them.             *)
Cut(m, last) == IF m.type = "Log" THEN [m EXCEPT !.log = SubSeq(@, 1, last)] ELSE m

Receive(n, m) ==
    /\ n \in m.to
    /\ \E last \in 0 .. IF m.type = "Log" THEN Len(m.log) ELSE 0 : \E prev \in 0 .. last :
        LET r == StepMsg(node[n], n, Cut(m, last), prev) IN
        /\ Becomes(n, r)
        /\ panicked' = Panics(node[n], r.s)

(* MsgHup: an election timeout, or Campaign().                             *)
Timeout(n) ==
    /\ MayHup(node[n], n)
    /\ Becomes(n, Campaign(node[n], n, IF PreVote THEN "pre" ELSE "election"))
    /\ UNCHANGED panicked

(* MsgProp at the leader.  A change that is not allowed now becomes an     *)
(* empty entry.                                                            *)
Refuses(s, cc) == s.pending > s.applied \/ ~Fits(s.conf, cc)

Proposed(s, n, cc) ==
    IF cc # Normal /\ ~Refuses(s, cc)
    THEN AppendEntry([s EXCEPT !.pending = Len(s.log) + 1], n, cc)
    ELSE AppendEntry(s, n, Normal)

MayPropose(s, n) ==
    /\ s.state = "leader"
    /\ n \in DOMAIN s.conf.trk
    /\ s.transferee = None

Propose(n, cc) ==
    LET s == node[n] IN
    /\ MayPropose(s, n)
    /\ Len(s.log) + 1 \in DOMAIN Proposals /\ cc \in Proposals[Len(s.log) + 1]
    /\ Becomes(n, Proposed(s, n, cc))
    /\ UNCHANGED panicked

(* MsgReadIndex reaches a leader, from its own application or forwarded.   *)
(* IsSingleton asks only how many voters there are.                        *)
ReadIndex(n, r) ==
    LET s      == node[n]
        single == Cardinality(s.conf.in) = 1 /\ s.conf.out = {}
    IN  /\ s.state = "leader"
        /\ floor[r] >= 0 /\ \A a \in answers : a.id # r
        /\ r \notin {s.waiting[k] : k \in DOMAIN s.waiting} \cup
                     {s.queue[k].id : k \in DOMAIN s.queue}
        /\ CASE single ->
                  Becomes(n, [Quiet(s) EXCEPT !.read = {[id |-> r, index |-> s.commit]}])
             [] ~single /\ ~CommittedInTerm(s) ->
                  Becomes(n, Quiet([s EXCEPT !.waiting = Append(@, r)]))
             [] OTHER -> Becomes(n, StartReads(s, n, <<r>>))
        /\ UNCHANGED panicked

(* A client asks for a read, knowing everything committed so far.          *)
AskRead(r) ==
    /\ floor[r] = -1
    /\ floor' = [floor EXCEPT ![r] =
                   CHOOSE c \in {node[n].commit : n \in Ids} :
                       \A n \in Ids : node[n].commit <= c]
    /\ UNCHANGED <<node, disk, held, net, answers, panicked, crashes, setup>>

(* MsgBeat, MsgTransferLeader, the end of a transfer, MsgForgetLeader and  *)
(* a MsgCheckQuorum that finds no active quorum.                           *)
Beat(n) ==
    /\ "beat" \in Inputs /\ node[n].state = "leader"
    /\ Becomes(n, Result(node[n], BcastHeartbeat(node[n], n), {}))
    /\ UNCHANGED panicked

Transfer(n, to) ==
    LET s == node[n] IN
    /\ "transfer" \in Inputs /\ s.state = "leader"
    /\ to \in DOMAIN s.conf.trk /\ ~s.conf.trk[to].learner
    /\ to # s.transferee
    /\ IF to = n
       THEN s.transferee # None /\ Becomes(n, Quiet([s EXCEPT !.transferee = None]))
       ELSE Becomes(n, Result([s EXCEPT !.transferee = to],
                              IF s.conf.trk[to].match = Len(s.log)
                              THEN {TimeoutNow(s, n, to)} ELSE {}, {}))
    /\ UNCHANGED panicked

TransferEnds(n) ==
    /\ node[n].state = "leader" /\ node[n].transferee # None
    /\ Becomes(n, Quiet([node[n] EXCEPT !.transferee = None]))
    /\ UNCHANGED panicked

ForgetLeader(n) ==
    /\ "forget" \in Inputs /\ node[n].state = "follower" /\ node[n].lead # None
    /\ Becomes(n, Quiet([node[n] EXCEPT !.lead = None]))
    /\ UNCHANGED panicked

CheckQuorum(n) ==
    /\ "quorum" \in Inputs /\ node[n].state = "leader"
    /\ Becomes(n, Quiet(BecomeFollower(node[n], node[n].term, None)))
    /\ UNCHANGED panicked

-----------------------------------------------------------------------------
(* The application.                                                        *)

(* applyConfChange and switchToConfig.  A leader that is no member any     *)
(* more stays leader.                                                      *)
Switched(s, n, conf) ==
    LET s1 == [s EXCEPT !.conf = conf]
        s2 == [MaybeCommit(s1) EXCEPT !.transferee = IF @ \in Voters(conf) THEN @ ELSE None]
    IN  IF \/ s.state # "leader"
           \/ n \notin DOMAIN conf.trk \/ conf.trk[n].learner
        THEN Quiet(s1)
        ELSE Result(s2, {LogMsg(s2, n)}, {})

(* The committed entries are applied one by one.  A change that is refused *)
(* leaves the empty configuration, and is the last one applied: its panic  *)
(* ends the program.                                                       *)
Applied(s, n) ==
    LET upto[i \in s.applied .. s.commit] ==
            IF i = s.applied THEN Quiet(s)
            ELSE LET r == upto[i - 1] IN
                 IF ~IsConf(s.log[i]) \/ r.s.conf = Refused THEN r
                 ELSE LET q == Switched(r.s, n, Changed(r.s.conf, s.log[i].cc))
                      IN  [q EXCEPT !.out = @ \cup r.out]
    IN  [upto[s.commit] EXCEPT !.s.applied = s.commit]

(* appliedTo: the leader leaves a joint configuration by itself.           *)
AutoLeaves(s, n) ==
    s.conf.auto /\ s.applied >= s.pending /\ MayPropose(s, n)

MustWrite(n) ==
    \/ held[n] # {}
    \/ \E f \in {"term", "vote", "commit"} : node[n][f] # disk[n][f]

(* Ready: write the hard state and the log, send what was held, apply what *)
(* is committed, and Advance.  The application may be late applying: that  *)
(* is told apart when a configuration change waits.                        *)
Ready(n, late) ==
    LET s  == node[n]
        r1 == IF late THEN Quiet(s) ELSE Applied(s, n)
        r2 == IF s.applied < r1.s.applied /\ AutoLeaves(r1.s, n)
              THEN Proposed(r1.s, n, LeaveChange) ELSE Quiet(r1.s)
    IN  /\ MustWrite(n) \/ (s.applied < s.commit /\ ~late)
        /\ late => HasUnappliedConfChanges(s)
        /\ node' = [node EXCEPT ![n] = r2.s]
        /\ disk' = [disk EXCEPT ![n] =
                      [term |-> s.term, vote |-> s.vote, log |-> s.log, commit |-> s.commit,
                       applied |-> r1.s.applied, cs |-> ConfState(r1.s.conf)]]
        /\ held' = [held EXCEPT ![n] = r2.after \cup (IF Async THEN {} ELSE r1.out \cup r2.out)]
        /\ Sends(held[n] \cup (IF Async THEN r1.out \cup r2.out ELSE {}))
        /\ panicked' = (r1.s.conf = Refused)
        /\ UNCHANGED <<floor, answers, crashes, setup>>

(* Mutant: the vote is not read back.                                      *)
StartedVoteless(d) ==
    [term |-> d.term, vote |-> None, state |-> "follower", lead |-> None,
     log |-> d.log, commit |-> d.commit, applied |-> d.applied,
     conf |-> Restore(d.cs), yes |-> {}, no |-> {}, pending |-> 0,
     transferee |-> None, waiting |-> << >>, queue |-> << >>, confirmed |-> 0,
     acks |-> [id \in Ids |-> 0]]

(* newRaft from what is stored: a follower without a leader.               *)
Started(d) ==
    [term |-> d.term, vote |-> d.vote, state |-> "follower", lead |-> None,
     log |-> d.log, commit |-> d.commit, applied |-> d.applied,
     conf |-> Restore(d.cs), yes |-> {}, no |-> {}, pending |-> 0,
     transferee |-> None, waiting |-> << >>, queue |-> << >>, confirmed |-> 0,
     acks |-> [id \in Ids |-> 0]]

Restart(n) ==
    /\ crashes < MaxCrashes
    /\ crashes' = crashes + 1
    /\ node' = [node EXCEPT ![n] = Started(disk[n])]
    /\ held' = [held EXCEPT ![n] = {}]
    /\ UNCHANGED <<disk, floor, answers, panicked, setup>>
    /\ Sends({})

-----------------------------------------------------------------------------
(* Bootstrap: term 1, the peers applied.                                   *)
Booted ==
    [term |-> BaseTerm, vote |-> None, log |-> << >>, commit |-> 0, applied |-> 0,
     cs |-> ConfState(OneByOne(Each("voter", Boot)))]

Init ==
    /\ setup \in DOMAIN Setups
    /\ disk = [n \in Ids |-> Booted]
    /\ node = [n \in Ids |-> Started(Booted)]
    /\ held = [n \in Ids |-> {}] /\ net = {}
    /\ floor = [r \in Reads |-> -1] /\ answers = {}
    /\ panicked = FALSE /\ crashes = 0

Event(n) ==
    \/ \E m \in net : Receive(n, m)
    \/ Timeout(n)
    \/ \E cc \in UNION {Proposals[i] : i \in DOMAIN Proposals} : Propose(n, cc)
    \/ \E r \in Reads : ReadIndex(n, r)
    \/ Beat(n)
    \/ \E to \in Ids : Transfer(n, to)
    \/ TransferEnds(n)
    \/ ForgetLeader(n)
    \/ CheckQuorum(n)

Next ==
    /\ ~panicked
    /\ \/ /\ Lockstep => \A l \in Ids : ~MustWrite(l)
          /\ \/ \E n \in Ids : Event(n)
             \/ \E r \in Reads : AskRead(r)
       \/ \E n \in Ids, late \in BOOLEAN : Ready(n, late)
       \/ \E n \in Ids : Restart(n)

Spec == Init /\ [][Next]_vars

-----------------------------------------------------------------------------
Leads(n) == node[n].state = "leader"

(* No log conflicts with what it has committed, no commit index exceeds    *)
(* its log, and no committed change is refused when it is applied.         *)
NoPanic == ~panicked

(* The leader of the highest term has every committed entry: nothing that  *)
(* one node has committed is missing from a later leader's log.            *)
LeaderCompleteness ==
    \A n, l \in Ids :
        Leads(l) /\ (node[l].term >= node[n].term) =>
            /\ node[n].commit <= Len(node[l].log)
            /\ \A i \in 1 .. node[n].commit : node[l].log[i] = node[n].log[i]

(* S1 and S2 of the harness's safety check: one leader to a term, and one  *)
(* command to an index, whatever was lost, repeated or restarted.          *)
ElectionSafety ==
    \A n, l \in Ids : Leads(n) /\ Leads(l) /\ node[n].term = node[l].term => n = l

StateMachineSafety ==
    \A n, l \in Ids :
        \A i \in 1 .. MinOf(node[n].commit, node[l].commit) :
            node[n].log[i] = node[l].log[i]

(* What a leader counts as acknowledged by a node, the node has stored, or *)
(* has already left the leader's term.                                     *)
MatchSound ==
    \A l \in Ids : Leads(l) =>
        \A id \in DOMAIN node[l].conf.trk \ {l} :
            LET k == node[l].conf.trk[id].match IN
            disk[id].term = node[l].term =>
                /\ k <= Len(disk[id].log)
                /\ \A i \in 1 .. k : disk[id].log[i] = node[l].log[i]

(* A read state is not older than the request: its index covers all that   *)
(* any node had committed when the read was asked.                         *)
ReadsCurrent == \A a \in answers : a.index >= floor[a.id]
=============================================================================
