# GoLean's concurrent semantics and its raft subject in TLA+

GoLean is an executable semantics of Go. A frontend lowers a Go package to a
core language, GoCore; a sequential machine (`stepFn`) runs one goroutine step
by step; a *pool* (`GoLean/GoCore/Multi.lean`) interleaves goroutines, drawing
every nondeterministic decision from a choice stream; a happens-before detector
(`GoLean/GoCore/Race.lean`) watches the pool's steps and refuses racy runs. The
sequential part is validated against `go run` by a corpus. Its largest subject
is a raft library (`raftsubject/`), which a harness (`raftharness/`) drives
through a faulty network.

What the corpus and the harness can hardly reach are orders of steps nobody
wrote a program or a scenario for: of goroutines in the pool, and of messages,
storage writes, crashes and configuration changes in raft. That is what these
modules model, check and, but for liveness and linearizable reads, prove.

## Inventory

| Part | State | Operations | Interacts through |
|---|---|---|---|
| Scheduler and driver (`Multi.lean`) | thread array, current goroutine, a boundary flag per goroutine | `stepMulti`, `stepThread`, `execProgLoop` | picks goroutines; passes their `Stop` on; classifies the end |
| Channels, select (`Machine.lean`, `Multi.lean`) | a cell per channel: buffer, capacity, closed. No wait queues: a waiter is a goroutine whose configuration is a blocked shape | `applyChanOp`, `applySelect`, `commitClause`; `arrivalPlan`/`applyPairing` with parked partners; `resumeThread` | cells, and parked configurations of other goroutines |
| `sync` (`Machine.lean`) | a cell per primitive: a bit; writer, readers, pendingW; counter, waiters; started, done | `applySyncOp`, `applyTryLock`, `resumeThread` | cells only |
| `sync/atomic` (`Machine.lean`) | data cells | `applyAtomicOp` | cells; clocks per address |
| Race detector (`Race.lean`) | a vector clock per goroutine, clocks per channel slot, close, lock and atomic address, a shadow of last accesses | `raceUpdate` folds each step's label | reads labels, may refuse the run |
| Choice stream (`State.lean`, `ChoiceTrace.lean`) | a list of picks | `consumeAt` | every nondeterministic site |
| Enumerator (`EnumDedup.lean`, `EnumDedup*.lean`) | a frontier of streams | explores all streams, dropping duplicates | drives the pool |
| Sequential machine (`StepFn.lean`, `Ops.lean`, `Store.lean`, ...) | one goroutine's configuration, the heap | `stepFn` | is a private step of the pool |
| Raft log (`raft/log.go`, `log_unstable.go`, `storage.go`, `rawnode.go`) | unstable entries and snapshot, cursors, stored log and hard state | `Ready`, `Step` of storage responses, `maybeAppend`, `restore`, `Compact` | messages to an append and an apply thread |
| Raft core (`raft/raft.go`, `read_only.go`) | term, vote, role, votes received, commit, configuration, queued reads | `Step` of every message, `tick`, `campaign`, `applyConfChange` | messages; the application's `Ready` loop |
| Progress tracking (`tracker/`) | Match, Next, state, pause and window of every follower | `maybeSendAppend`, `MaybeUpdate`, `MaybeDecrTo`, ... | decides what the leader sends |
| Configurations, quorums (`confchange/`, `quorum/`) | voters of a joint configuration, learners, AutoLeave | `EnterJoint`, `LeaveJoint`, `Simple`, `Restore`, `CommittedIndex`, `VoteResult` | used by elections, commitment, reads |
| Raft harness (`raftharness/`) | the network, each node's application | `route`, `run`, `apply`, `restartNode` | around the nodes |
| Frontend, decoder, admission, CLI, test harness, raft messages and codec | files, data | translation, parsing, process control | before or around a run |

`PROJECT.json` lists every part with what is modelled of it, and the hazards at
the lines where they bite. What is hard, and what makes each part correct:

* **Channels** have no queues, so correctness rests on an invariant over *parked
  goroutines and cells together*, stated in `Multi.lean`'s header: no parked
  receiver beside a value, no parked sender beside room, no matching pair both
  parked. Each arrival, pairing, wake-up and close keeps it only because of what
  the others do. From it follow order, exactly-once delivery, the emptiness of
  some code paths and the truth of the deadlock verdict.
* **Scheduling** happens at boundaries only; a finished operation opens one as a
  flag on the goroutine, cleared by a step of its own. Main's return opens a
  window in which others may still run, or abort.
* **Locks** record counts and bits, never holders, and may be released by
  anybody. `pendingW` is raised at a park and lowered at the wake-up, an
  arbitrary time later. TryLock may fail spuriously.
* **WaitGroup** has a 32-bit counter that wraps before it is tested, and a wait
  count that is reset before the waiters run.
* **Once** must complete when its function panics.
* **The detector** must let no run with a data race go on, and refuse no other
  beyond what `Race.lean` documents, from clocks, slot counters and last epochs
  alone.
* **The raft log** is read through two layers that change independently: entries
  are overwritten while the old ones are being written, and responses come back
  after the term has changed. What is read must always be one leader's log, and
  what is acknowledged or applied must survive a crash.
* **The raft core** must keep one leader to a term and never lose a committed
  entry, through lost, repeated and reordered messages, crashes, configuration
  changes that nodes apply at different times, and reads without a log entry.
* **Flow control** must never believe more than a follower has, and must not
  stall whatever is lost, compacted or reported.
* **Configurations**: quorums before and after each change must meet, and a
  restart must rebuild a joint configuration exactly.

## Modules

`Sched` is the scheduler and the driver. A goroutine is a control point `pc[p]`,
an optional boundary flag and an operation; `Picked` is `stepMulti`'s choice,
the `End...` actions are `execProgLoop`'s classification in its order, and
`FuelOut` may happen before any step. What a goroutine computes between two
operations is one step with any outcome: issue an operation, pass a boundary
that completes nothing, return, panic, recover, abort.

`ChanPool` extends it with channels. A send, receive or select is a list of
clauses, so a parked operation and a parked select are one notion. `Pair` is the
arrival path (partners before the cell), `Commit` the cell path, `Wake` is
`resumeThread`, `RefuseSelect` the refusal of a select that would meet another.
Values are stamps unique to an operation. `sent`, `rcvd` and `zeroed` are
history: no guard reads them.

`AbsChan` is what Go promises of channels, told by communications alone;
`ChanPool` is shown to implement it (`RefinesAbsChan`, with the histories as the
refinement mapping).

`SyncPool` extends `Sched` with Mutex, RWMutex, WaitGroup and Once. `Admits` is
the readiness test of apply and wake-up, `Acquire` the store of an acquisition.
`doing` is the stack of Once.Do frames: the frontend lowers `Do` to a function
that defers the completion, so `Local` never lets a goroutine leave such a frame
otherwise. `holdW`, `holdR`, `ran` and `skipped` are history; a release by a
goroutine that holds nothing is charged to any holder.

`Race` is the detector next to a reference. Each action is a pool step: the
cells say whether it is possible, its label moves `r` (the `RaceState`), and
`hist` records the events with the set of events that happen before them by the
rules of the Go memory model, which mention neither clocks nor epochs. The
verdicts of `r` are compared to `hist`. Locks are RWMutexes; a Mutex is one
without readers. An atomic operation that observes a store is, to the memory
model, after it as a whole: `AtomicWrite` logs the observation before the access,
where the detector records before it acquires.

`RaftLog` is one node's log under asynchronous storage writes. An entry is its
term. `Ready` is `RawNode.Ready` with `acceptReady`; `AppendThread` and
`ApplyThread` are the two threads it talks to, `StepAppendResp` and
`StepApplyResp` what comes back, in order. The rest of the cluster is reduced to
`leader`, the logs of the leaders of all terms: what a leader sends is any slice
of its log, a heartbeat, or a snapshot, with a commit index that every later
leader covers (`Safe`). `Compact` asks of the application what `storage.go` asks,
that it has applied what it drops. `Restart` forgets everything but the storage;
`loadState` may panic there, and then the process has `Stopped`.

`JointQuorum` and `ConfChange` are pure: decisions of joint majorities, and the
Changer's operations on a configuration with its checks, `Restore` included.
`ConfWalk` is the walk through all configurations that changes lead to.

`Raft` composes `ConfChange` with the protocol core into a cluster. A node is
the record of its `raft` struct; a handler of `raft.go` is an operator from a
node and a message to the node's next state, the messages it sends, those that
wait for the next write (`msgsAfterAppend`), and read states. `Becomes` installs
it. `Ready` is the harness's loop: write, send, apply, `Advance`. `Restart`
starts a node from its storage. A MsgApp is abstracted to the leader's log at
the time of sending, and what is received is any slice of it (`Cut`, `prev`):
one that begins anywhere, and ends early where `maxMsgSize` cuts it, or is empty
as for a full window. A message to a node that has moved past it is dropped from
`net` (`Useful`); no receiver would react to it.

`RaftFlow` is the part that `Raft` abstracts: which slice a leader sends to one
follower, with `Progress` and `Inflights` as they are, snapshots, and the
transport's reports. The leader's term is fixed, and a third voter acknowledges
by itself. The application takes snapshots (`CreateSnapshot`) and drops the log
up to the last one or less (`Compact`), so that a snapshot may be ahead of the
compacted index; that it never drops more than its snapshot covers is the
application's duty.

`MCChanPool`, `MCSyncPool`, `MCRace`, `MCRaftLog`, `MCConfWalk`, `MCRaft` and
`MCRaftFlow` hold the instances for TLC. `ChanPoolProofs`, `SyncPoolProofs`,
`RaceProofs`, `ConfChangeProofs`, `ConfWalkProofs`, `RaftFlowProofs`,
`RaftLogProofs` and `RaftProofs` hold the theorems. A definition whose comment begins with
"Mutant:" is a plausible mistake in the definition that follows it;
`PROJECT.json` names the property that it breaks.

## Runs

| Run | Question | States |
|---|---|---|
| `chan` | Do sends, receives, closes and selects on an unbuffered and a buffered channel keep the channel invariants and exactly-once delivery, reach the right verdicts, and implement `AbsChan`? | 1.0 M |
| `chan_ends` | Does every bounded program end, with nil channels, `select {}`, nil callees, entry panics and closes? | 18 k |
| `sync` | Mutex and RWMutex: exclusion, agreement of cells and holders, exact `pendingW`, no lost wake-up, no overtaken writer. WaitGroup: the counter's width (`Half = 2`: a two-bit counter, so that wrapping happens) and the wait count. Once: at most one run, nobody back early, nobody left behind by a panic. | 872 k |
| `sync_ends` | Does every bounded program over all four primitives end? | 244 k |
| `race` | With RWMutexes, atomics and channels of capacity 0, 1 and 2: does no racy run go on, is every refused one racy but for the documented over-refusal, and are the clocks exactly happens-before? | 2.1 M |
| `race_early` | Capacity 2 with early use of the channel: violated, see the findings. | |
| `raft_log` | Under overwriting leaders, late storage responses, snapshots, compaction and a crash: is the log one leader's, is what is acknowledged and applied stored, does it drain, and which panics are left? | 336 k |
| `conf_walk` | In every reachable configuration: do quorums meet across a change, is `Restore` exact, is `CommittedIndex` the quorum's, can be applied what was let through? | 5 k |
| `raft_cluster` | Seven setups of a three-node cluster: the raft safety properties, and linearizable reads. | 364 k |
| `raft_async` | Asynchronous writes and a crash: violated, see the findings. | |
| `raft_single` | Reads from a removed leader: violated, see the findings. | |
| `raft_flow` | Does the leader's bookkeeping stay true, does it probe well, and does the follower always catch up? | 859 k |

The longest runs take two to three minutes.

### Bounds

*Pool.* Three goroutines are needed for most mistakes (two parties and a
bystander that closes, overtakes or is woken wrongly); the budgets (main 2 or 3,
the others 1 or 2; a child may spawn the third) give a sender, a receiver and a
closer, or a holder, a parked writer and a late reader. A run's `Families` are
the sets of operations whose programs it explores one by one: plain and select
programs in `chan`, lock and wait programs in `sync`, one kind of
synchronization at a time in `race`. `chan_ends` and `sync_ends` are smaller
because liveness is checked without symmetry. `Race` bounds the events in `hist`
(`MaxEvents`, refined per family in `MCRace`): the 6 to 9 events hold a go
statement, two conflicting accesses and one or two synchronizations between
them. In `chan`, main has three operations in plain programs and two in select
programs. The goroutines other than main are
symmetric where no liveness is checked. Race runs switch deadlock checking off:
they stop at their bound. In the pools a finished run stutters, so TLC's
deadlock check finds any *other* state without a step.

*Raft log.* Two histories of leaders: `Returns`, in which the third leader
brings back the first one's entry that the second overwrote (the ABA problem
that `newStorageAppendRespMsg` describes), and `Overwrites`, in which a
committed entry stays and the next is replaced. Two writes in flight and one
entry at a time to apply are enough for every overlap of a write with an
overwrite; one crash at any point.

*Configurations.* Four nodes, three of them voters at first; every change of one
or two parts, of all three transitions; acknowledged indexes up to 2.

*Cluster.* Three nodes; node 1 campaigns for term 2, node 2 for term 3 unless the
setup says otherwise. `Setups` names what each behaviour adds: `contest` a crash
and competing candidates; `turns` leaders 1 and 3 that take turns up to term 5,
stepping down for want of a quorum, with a crash; `prevote` pre-votes and
forgotten leaders; `beats` heartbeats; `transfer` leadership transfer, with a
proposal before or after it; `members` a joint change from three voters to one
with automatic leaving, late application and a crash; `reads` ReadIndex. `turns`
is there for the own-term test of `maybeCommit`: a leader comes back and brings
its entries of an earlier term to a quorum, by a message that ends before its
own first entry, and the next leader has a later term and not those entries.
Without the test (`MaybeCommitAnyTerm`) they are committed and overwritten.
Where nodes 1 and 3 are not needed together their link is cut (`blocked`), so
that a quorum always includes node 2: the interesting quorums remain. `Lockstep`
lets a node write before any other node acts; with synchronous writes nothing
leaves a node before it has written, so other orders differ only in what is
visible earlier. In `raft_async` it is off. In `members` the run stops when a
second leader is elected (`UntilReelected`): `LeaderCompleteness` holds it to
what is committed at that moment. The cluster may always stop (nobody need
campaign again), so deadlock is not checked there.

*Flow.* Logs up to 3 entries, one entry to a message, windows of 1 and 2. Four
kinds of start: the follower's tail is of a later term, or of an earlier one and
longer than the leader's; the follower is behind and the window takes two; or it
is new and the log it needs is compacted. `MaxFaults` is one: a message that is
lost, repeated, overtaken or reported undeliverable, or a heartbeat that is sent
while another is unanswered (`BeatAgain`: heartbeats do not wait for answers).

### Fairness

`FairSpec` of the pools adds weak fairness of `Next` as a whole and nothing
else: the driver's loop takes another step as long as it can. No goroutine is
promised a turn; the choice stream may starve any of them. `Terminates` still
holds because the programs are bounded.

`RaftLog` assumes weak fairness of `Ready`, of the two threads and of the
delivery of their responses: `RawNode`'s contract with the application. Nothing
is assumed of the cluster, of compaction or of restarts; terms are bounded, so
they stop changing. `Settles` is about nodes that have not panicked.

`RaftFlow` assumes that the leader ticks (heartbeats), that what is not lost
arrives, and that the application reports on snapshots, as the documentation of
`Ready.Messages` demands. Proposals, snapshots, compaction, acknowledgements of
the third voter and faults need not happen.

## Findings

`race_early`. `raceUpdate` ignores the labels of a pool with one goroutine. That
is harmless for clocks, but a buffered channel's slot counters are not advanced
either, so values that main sent or received before its first `go` are not
counted, and later operations use slots that do not belong to them. With
capacity 1 nothing is lost (`race` uses such a channel early); from capacity 2
on a run whose accesses are ordered by a send and its receive can be refused as
racy, in nine events. Without the early use `race` passes with exact clocks.

`raft_single`. `IsSingleton` counts voters and does not ask whether the leader
is among them. A leader that has applied its own removal (and does not step
down: `StepDownOnRemoval` is off by default) and has one voter left in its
configuration answers ReadIndex without asking anybody, although that voter may
lead a later term: a stale read.

`raft_async`. With asynchronous writes a `MsgVote` need not wait for the write
of what it says: the candidate's last entry and its term. A node that crashes
after sending it and campaigns again for the same term with its shorter stored
log counts a grant of the first request in the second election, and leads
without a committed entry. With synchronous writes the messages wait, and
`raft_cluster` passes.

Remarks that are not runs. A configuration change without parts but with an
explicit or implicit transition passes the leader's check in a joint
configuration (`raft.go:1340` asks only whether it has parts), but
`applyConfChange` takes it for one that enters a joint configuration and panics;
`conf_walk` with `Changes <- OddChanges` shows it as a violation of
`AppliesWhatFits`. And `progress.go:48` says that in StateSnapshot `sentCommit ==
PendingSnapshot == Next-1`; a heartbeat or an acknowledgement changes
`sentCommit` or `Next` there, without consequences.

The third is about reads again. In a singleton configuration ReadIndex is
answered (`raft.go:1368`) before the test that the leader has committed an entry
of its term, also when the leader is that one voter. Node 2 of {1, 2} may have
learned that the removal of node 1 is committed but not that a command after it
is; it applies the removal, elects itself, and until it has committed in its
term it answers with an index below what node 1 has committed. The setup
`single` of `MCRaft` with `Normal` proposed at index 3, and the invariant that
`ReadsCurrent` holds as long as every leader is in its own configuration, shows
it in 27 states.

The last two are about what passes. `storage.go:266` asks of the application only
not to compact beyond what it has applied. With asynchronous writes an entry can
be applied, and dropped, before the hard state that commits it is stored; after a
crash in between, the commit index that is read back lies below the log, and
`loadState` (`raft.go:2050`) panics at every restart. `OnlyLoadPanics` says that
this is the only panic; `~panicked` as an invariant of `raft_log` shows it. And
`Race.lean` (547 to 562) documents that an atomic operation which records a write
is compared with earlier accesses before it acquires, so that an access which
only the observed store orders before it is refused although the memory model
orders the two. `NoFalseRace` admits exactly that case (`RecordedEarly`) and no
other; without the exception the atomics of `race` violate it.

## Proofs

Thirty-eight theorems are listed in `PROJECT.json`; thirty-five of them state
properties that the runs check, for every value of the constants: any set of goroutines, budgets, channels, capacities, primitives and
operations; any number of events; any nodes and changes; any logs, windows and
faults. The assumptions are the named `ASSUME`s of the modules, which TLC
evaluates on every run, and where a theorem needs more it says so.

**Channels** (`ChanPoolProofs`). Assumed: `Main \in Procs`,
`Budget`, `Cap` and `Ops` of their types, nil not a channel.

* `TypeCorrect`, with buffers within their capacity. Needs that only operations in
  progress have clauses.
* `HchanCorrect`: `HchanInv`, the three header invariants. They are inductive
  only together: a pairing keeps "no sender beside room" because it refills,
  which needs the buffer full, which is the same invariant before the step; an
  operation may park because it saw no partner *and* an unready cell, which are
  the other two. Each action has a lemma.
* `NeverInternal`: the refusal inside `applyPairing` is dead code, by
  "no receiver beside a value". `WokenByCloseCorrect`: on an open channel a
  parked operation is never ready by the cell.
* `CommitsOnceCorrect`. Its invariant adds that what was sent is what was
  received followed by the buffer (`Fifo`), and that stamps are fresh.
* `PoolRefinesAbsChan`: the pool implements `AbsChan`. Every action is a step of
  `AbsChan` or a stutter; a pairing with a full buffer is its receive and send
  at once, which is where `HchanInv` is needed.
* `DeadlockCorrect`: at a deadlock verdict main has not returned, and every
  goroutine is unborn, finished or parked with no clause ready.

**Locks** (`SyncPoolProofs`). Assumed: a finite set of goroutines, to count;
`Half > 0`; Mutexes distinct from RWMutexes.

* `TypeCorrect`, with `FramesInv`: a completion is only being applied by a
  goroutine whose innermost frame is that Once, so popping is defined.
* `MutualExclusionCorrect` and `HoldersExactCorrect`, together: exclusion is not
  inductive without the cells agreeing with the holders, and counting readers
  needs that the token a new reader adds is fresh (`Fresh`).
* `PendingExactCorrect`: the parked writers as a finite set, plus or minus one.
  From it `WriterNotOvertakenCorrect`, an action property.
* `ParkedForAReasonCorrect`, no lost wake-up: from `HoldersExact`,
  `PendingExact` and, for who is parked at a Once, `OnceInv`.
* `NoAddMisuseCorrect`: the misuse panic that the code leaves out is unreachable.
* `OnceOnlyCorrect`, by `OnceInv`: a Once that is running has exactly one frame
  on one stack (`OnceFrames`), a completion is of the innermost one
  (`CompletesTop`), and who is parked at a Once found it started
  (`ParkedStarted`).

**Race detector** (`RaceProofs`). `ClockExactCorrect`, `NoFalseRaceCorrect`,
`NoMissedRaceCorrect` and `ParkedSenderRefusesCloseCorrect`, each under
`OneEarlySlot`: if channels are used before the first `go`, their capacity is at
most 1. That is exactly what the finding `race_early` requires; without early
use there is no hypothesis on capacities. The invariant `RaceInv` says what each
clock of the detector stands for in the history: a goroutine's clock, its own
past (`ThreadsOk`); a channel's slot, the past of the operation that last used
it (`SlotsOk`, which counts operations and not only looks at clocks, so that the
k-th receive meets the k-th send); close, unlock, read-unlock and atomic clocks
likewise. As long as there is one goroutine the detector is idle and the
reference is linear (`Quiet`); the first `go` joins the two. The verdicts follow
because an epoch comparison with an exact clock is the happens-before relation;
for an atomic write it is the relation as it was before the operation observed
anything, which is why `NoFalseRace` has its exception and `NoMissedRace` none.

**Configurations** (`ConfWalkProofs`; `ConfChangeProofs` holds the lemmas about
changes, `Restore` and quorums, which the cluster's proofs cite too). For any
finite set of nodes:

* `QuorumsMeetCorrect`: a quorum before and one after any change meet. The
  change keeps or adds one voter, or enters or leaves a joint configuration;
  majorities are compared by counting.
* `AppliesWhatFitsCorrect`: what the leader lets through can be applied, under
  the hypothesis that a change without parts has the automatic transition (the
  remark under the findings is about the others).
* `CommittedExactCorrect`, `RestoreExactCorrect`: the inductive invariant is
  that tracked nodes are those of the configuration (`Tracked`) and that
  learners are no voters and learners-next are outgoing voters (`Related`).

The last proof failed at first because two arms of the model's `ApplyOne`
overlapped for a node that is to become a learner; the arms are now disjoint, as
the `switch` of `confchange.go` is.

**Flow control** (`RaftFlowProofs`). `FlowSoundCorrect` and `ProbesWellCorrect`
(an action property), for logs of any length, any message size and window, and
any number of faults. Assumed of the start (`StartsAssumption`) is what an
election leaves: terms below the leader's and nondecreasing, logs that agree up
to any common entry, and the follower's committed prefix in the leader's log.
The invariant `FlowInv` is about messages as much as about state. Because they
are lost, repeated and overtaken without limit, each must be true for ever:

* an acknowledgement of i, a heartbeat's commit index and `Match` are indexes up
  to which the logs agree (`Agreed`); neither the leader's growth (`Grown`) nor
  anything the follower does (`Advanced`) undoes that. A stale MsgApp could
  truncate the follower's log only at a conflict with the leader, that is above
  any index that agrees: `MendedIs`.
* a rejection's hint and term are not below the logs' common point, so that
  `findConflictByTerm` on the leader's side does not go below it either;
* the window is increasing, ends at `Next - 1` and begins above `Match`, through
  every transition of `Progress`; `SendAll`'s messages are counted (`Chunks`),
  and `FreeLE` leaves a suffix that still ends at `Next - 1` (`FreedIs`).

**Raft log** (`RaftLogProofs`). `OnlyLoadPanicsCorrect`, `ReadsOneLogCorrect`,
`AckIsDurableCorrect` and `AppliesDurableCorrect`, for any history of leaders'
logs in which each leader starts from a prefix of an earlier one's
(`HistoriesAssumption`), any length of the queues and any number of restarts. All
follow from one invariant (`LogInvCorrect`). It is about *stages*, whole logs that
the program never holds in one place: T[1] is what the storage holds, T[j + 1]
what it will hold once the j-th message to the append thread is written, V what
the node reads through the unstable log, and B[j] what it read when it asked for
the j-th response on its way back. `LogInv` says that such stages exist and

* each is a prefix of a leader's log, and its committed part is in the log of
  every leader from its term on (`StageOk`); log matching between leaders is
  itself proved, by induction on the term (`AllSourced`);
* they are in order (`Later`): terms and commit indexes do not fall, and within a
  term what appears is the leader's and stays. Hence `Throughout`: an entry that
  the node has now and had when it asked for a response of the same term was
  there all the time, so the storage and all messages in between have it. That is
  why `stableTo` may drop it, although the same term at the same index would, by
  itself, not exclude that it was overwritten and restored (the ABA problem that
  the comment in `rawnode.go` describes), and why the response of an older term
  must be ignored;
* each message writes the difference between two stages (`WritesOk`), the
  unstable log that between the storage and V; `offset`, `inProgress` and the
  cursors lie where the stages agree (`InProgressOk`, `StableOk`, `CursorOk`);
* while a snapshot is pending, no stage before it of this term has its entry
  (`LacksSnap`), and what is in flight carries it before anything else commits as
  much (`Carried`): so the first response that could end it is its own;
* an acknowledgement is backed by the stage whose message carries it (`AcksOk`),
  and therefore by the storage once it is released;
* compaction may overtake the storing of the commit index but not the applying,
  and what is in flight lies beyond that (`FlightOk`): so no write meets a
  compacted part of the log. Only a restart can find a stored commit index below
  the log; then the process has stopped with its storage still a prefix of a
  leader's log that backs what was acknowledged (`LoadInv`).

**Cluster** (`RaftProofs`). For any set of nodes, bootstrap, setup and number of
crashes, any order, loss and repetition of messages, with or without `Lockstep`,
and configuration changes that nodes apply at different times. All theorems
assume synchronous writes (`~Async`): the finding `raft_async` shows that
`LeaderCompleteness` fails without.

* `RaftElectionSafety`, `RaftLeaderCompleteness`, `RaftStateMachineSafety` and
  `RaftMatchSound` follow from one inductive invariant, `RaftInv` (`RaftAgrees`).
* `RaftNoPanic` adds the hypothesis `ClientsKeepVoters`: no change that clients
  propose removes the last voter of a configuration that their changes led to,
  and one without parts has the automatic transition. Both are needed: the code
  does panic on such changes (the first of the remarks under the findings is
  about the second). `RaftSpared` has the same conclusion from a condition that
  can be read off the proposals, that some voter of the bootstrap is never
  removed or made a learner; all setups of the runs satisfy it.
* `RaftPanicCause` has no hypothesis on clients: whatever they propose, a panic
  comes from a change that is refused when it is applied. The log's own panics,
  dropping a committed entry or committing beyond its end, do not happen.

`RaftInv` is about what the program forgets. It says that there are a *history*
h and for every node two *views*, M of what it has done and D of what it has
stored, such that every node, disk and message agrees with them (`Agrees`):

* h has the terms that were won, and for each the leader, its log, the length of
  the log it began with, the configuration it was elected in, how far that one
  was applied, and who voted (`ElectionOk`); and a certificate for every
  commitment: term, index, the configuration it was counted in and who had
  acknowledged (`CertOk`).
* A view has the votes of a node, each with the log it was given on, and its
  acknowledgements (`RecordsOk`). A voter keeps what it acknowledged in earlier
  terms, but for entries that a leader after that began without (`KeptIn`). As a
  message may bring a part of a leader's log only, it need not have that leader's
  entries in their place; so a vote also says which leaders may have written to
  the log it was given on (`upto`). A vote that comes after the term is won, given
  on a log that the winner wrote to, counts for nothing.
* An election and a certificate refer to D, not to M: a vote or an
  acknowledgement counts only when it left the node, which with synchronous
  writes is after it was stored. A crash therefore replaces M by D and nothing
  else.
* A request for a vote shows the log that its candidate counts votes for
  (`AsksFor`), which is the stored one once the term is stored (`CandidateOk`).
  So a node that restarts in the term it campaigned for cannot ask again with
  another log: that is where `raft_async` fails.
* A log is *sourced* (`Src`): each of its prefixes is one of the log of the
  leader of the prefix's last term. Log matching follows.
* A configuration is what the changes up to the applied index lead to
  (`ConfOk`), and at most one change lies beyond it in the log (`OneConf`),
  because a leader proposes none while one may be unapplied
  (`pendingConfIndex`), and a node with a committed change that it has not
  applied does not campaign (`HasUnappliedConfChanges`). So two configurations that
  a leader and a commitment used are equal or one change apart, or there is a
  commitment between them; in the first case their quorums meet (the lemma
  behind `QuorumsMeet`), in the second the argument goes by induction on the
  term. That is the heart of the proof: a certificate below a term that was won
  is in the log it was won with. A certificate is for an entry of its own term,
  which is what the test in `maybeCommit` is for.

`AgreesAt` states the same with one node in the middle of a handler. Each
operator of the model has a lemma that carries it from the state before to the
state, messages and held messages after, so that a handler's proof follows the
handler's text, and `Becomes`, `Ready` and `Restart` close the step. `WalkInv`,
for `RaftNoPanic`, adds that no change is refused along any log, whether it is a
node's, a disk's or a message's, and not only along what is committed.

The proofs corrected the model twice. `Applied` went on applying entries after
a refused change; it now stops there, as the panic does. And `SetupType` did not
say that proposals are configuration changes or normal entries.

**Only model-checked.** The liveness properties (`Terminates`, `Settles`,
`CatchesUp`: under fairness, out of the prover's reach). `ReadsCurrent`: it does
not hold of every setup (`raft_single`, and the last remark under the findings),
and its proof, for clusters in which no leader answers alone, would need the
floors of reads and the heartbeats that confirm them in the history too. What
`RECURSIVE` operators compute in `MC` modules is not part of any theorem.

## Not modelled

* What goroutines compute: expressions, statements, defers in general, map
  iteration, unsequenced operands, panics' texts. A private step has any outcome.
* Malformed states (a blocked goroutine whose cell has another shape), which the
  code refuses by name; they are excluded by typing and by Lean proofs.
* The choice stream: which slot a site consumes, replay, defaults.
* In `Race`: accesses to the primitives' own state words, WaitGroup and Once
  edges, the spawned child's entry read, readers kept out by a parked writer
  (more schedules than the code has, none fewer).
* In `Raft`: clocks and leases (a timeout may happen at any time, a request
  ignored within a lease is a lost one; `ReadOnlyLeaseBased` is out),
  `StepDownOnRemoval`, `DisableConfChangeValidation`, the quota of uncommitted
  bytes, and the forwarding of proposals and reads by followers (they reach the
  leader directly). Snapshots are in `RaftLog` and `RaftFlow`. Liveness of a
  whole cluster needs timing assumptions.
* In `RaftFlow`: the byte limit of the window and its ring buffer; the
  follower's own compaction.
* The messages' codec, and the harness's fixed scenarios, whose schedules are
  among those explored.
* Enumerator, seeds and prefix runs, frontend, decoder, admission, CLI, test
  harness. `PROJECT.json` gives each reason. Most of the repository's Go is the
  frontend, a compiler pass over Go syntax trees without concurrency or state
  between runs: it has no behaviour for a model checker, and is tested against
  `go run` by the corpus.

## Plan

Order of work, the most important behaviour first; the first eight are done.

1. `Sched`, `ChanPool`, `AbsChan`; the header invariants proved.
2. `SyncPool`; exclusion and the counts proved.
3. `Race` against the memory model, for go, channels, RWMutexes and atomics.
4. `RaftLog`: asynchronous storage.
5. `JointQuorum`, `ConfChange`, `ConfWalk`.
6. `Raft`: the cluster.
7. `RaftFlow`: flow control.
8. Proofs: the pool with its refinement, the detector, the configurations,
   the flow control, the asynchronous log and the cluster. Left: `ReadsCurrent`
   where no leader has a singleton configuration. The quorum that confirms a
   heartbeat meets the quorum that elected the next leader, so at the time of
   the read there was none; and as the leader had committed in its term, nobody
   had committed more.
9. `Race`: WaitGroup and Once edges, state-word accesses, the child's entry
   read; a composition of `ChanPool` and `Race`, so that labels come from the
   pool's own steps.
10. `Choices`: the choice stream and its sites; the enumerator as an exploration
    that must visit every stream's outcome while dropping duplicates.
