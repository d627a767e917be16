--------------------------- MODULE ConfWalkProofs ---------------------------
(***************************************************************************)
(* Proofs about configurations and quorums, for any finite set of nodes,   *)
(* any changes and any acknowledged indexes: the configurations before and *)
(* after a change decide together, the committed index is the one a quorum *)
(* has acknowledged, and what a leader lets through can be applied.        *)
(***************************************************************************)
EXTENDS ConfWalk, ConfChangeProofs

\* The bootstrapped configuration: every peer is a voter.
LEMMA BootstrapTracked ==
  /\ Tracked(Bootstrapped) /\ Bootstrapped.in = Boot
  /\ Bootstrapped.out = {} /\ Bootstrapped.auto = FALSE /\ Zero(Bootstrapped)
BY VotersOneByOne, BootAssumption DEF Bootstrapped

\* The inductive invariant of the walk: both configurations have voters, their
\* members are tracked, and one change leads from one to the other; AutoLeave is
\* set in joint configurations only.
WalkInv ==
  /\ Tracked(conf) /\ conf.in # {} /\ (conf.out = {} => ~conf.auto) /\ Zero(conf)
  /\ Tracked(prev) /\ prev.in # {}
  /\ conf = prev \/ Related(prev, conf)

\* The tracked nodes are those of the configuration, and its sets are
\* related, in every reachable state.
LEMMA WalkInvInductive == Spec => []WalkInv
<1>1. Init => WalkInv
  BY BootstrapTracked, BootAssumption DEF Init, WalkInv
<1>2. WalkInv /\ [Next]_vars => WalkInv'
  <2> SUFFICES ASSUME WalkInv, [Next]_vars PROVE WalkInv'
    OBVIOUS
  <2>1. CASE UNCHANGED vars
    BY <2>1 DEF WalkInv, vars
  <2>2. ASSUME NEW cc \in Changes, Step(cc) PROVE WalkInv'
    <3>1. conf' = Changed(conf, cc) /\ Changed(conf, cc) # Refused /\ prev' = conf
      BY <2>2 DEF Step
    <3>2. Tracked(conf) /\ conf.in # {}
      BY DEF WalkInv
    <3>3. /\ Tracked(conf') /\ conf'.in # {} /\ Related(conf, conf') /\ (conf'.out = {} => ~conf'.auto)
          /\ Keeps(conf, conf')
      BY <3>1, <3>2, ChangedResult, ChangesAssumption
    <3>4. Zero(conf')
      BY <3>3 DEF WalkInv, Zero, Keeps
    <3> QED
      BY <3>1, <3>2, <3>3, <3>4 DEF WalkInv
  <2> QED
    BY <2>1, <2>2 DEF Next
<1> QED
  BY <1>1, <1>2, PTL DEF Spec

(* Two nodes one change apart cannot decide past each other: every quorum  *)
(* of the configuration before a change of applyConfChange meets every     *)
(* quorum of the one after it.                                             *)
THEOREM QuorumsMeetCorrect == Spec => []QuorumsMeet
<1>1. WalkInv => QuorumsMeet
  <2> SUFFICES ASSUME WalkInv, NEW P \in Quorums(prev), NEW Q \in Quorums(conf)
               PROVE  P \cap Q # {}
    BY DEF QuorumsMeet
  <2>1. IsQuorum(prev.in, prev.out, P) /\ IsQuorum(conf.in, conf.out, Q)
    BY DEF Quorums
  <2>2. Alike(prev, conf) \/ Related(prev, conf)
    BY DEF WalkInv, Alike
  <2> QED
    BY <2>1, <2>2, NeighboursMeet DEF WalkInv
<1> QED
  BY <1>1, WalkInvInductive, PTL

(* A change that the leader lets through can be applied, unless it leaves  *)
(* no voter: applyConfChange does not panic.  The hypothesis says that a   *)
(* change without single changes asks for the automatic transition, as the *)
(* one that leaves a joint configuration does; the run that drops it finds *)
(* the panic.                                                              *)
THEOREM AppliesWhatFitsCorrect ==
  ASSUME \A cc \in Changes : cc.changes = << >> => cc.transition = "auto"
  PROVE  Spec => []AppliesWhatFits
<1>1. WalkInv => AppliesWhatFits
  <2> SUFFICES ASSUME WalkInv, NEW cc \in Changes,
                      Fits(conf, cc), ApplyAll(conf, cc.changes) # Refused
               PROVE  Changed(conf, cc) # Refused
    BY DEF AppliesWhatFits
  <2>1. cc.changes \in Seq(Singles) /\ Tracked(conf) /\ conf.in # {}
    BY ChangesAssumption DEF WalkInv
  <2> QED
    BY <2>1, FitsApplies
<1> QED
  BY <1>1, WalkInvInductive, PTL

(* The index that the leader computes by sorting the acknowledgements of   *)
(* both sets of voters is the highest one that a quorum, as elections      *)
(* count it, has acknowledged.                                             *)
THEOREM CommittedExactCorrect == Spec => []CommittedExact
<1>1. WalkInv => CommittedExact
  <2> SUFFICES ASSUME WalkInv, NEW acked \in [Ids -> 0 .. MaxMatch], NEW i,
                      i = CommittedIndex(conf.in, conf.out, acked)
               PROVE  /\ IsQuorum(conf.in, conf.out, AtLeast(acked, i))
                      /\ i < MaxMatch => ~IsQuorum(conf.in, conf.out, AtLeast(acked, i + 1))
    BY DEF CommittedExact, AtLeast
  <2>1. MaxMatch \in Nat /\ MaxMatch <= MaxUint64
    BY MatchAssumption, MaxUint64Assumption
  <2> QED
    BY <2>1, QuorumAcked DEF WalkInv
<1> QED
  BY <1>1, WalkInvInductive, PTL

-----------------------------------------------------------------------------
(* Restoring. *)

(* A node that starts from a snapshot has the configuration of the node    *)
(* that took it, joint or not: Restore rebuilds it from its ConfState in a *)
(* chain of changes, in whatever order the members of each set come.       *)
THEOREM RestoreExactCorrect == Spec => []RestoreExact
<1>1. WalkInv => RestoreExact
  <2> SUFFICES ASSUME WalkInv PROVE Restore(ConfState(conf)) = conf
    BY DEF RestoreExact
  <2>1. PICK r : r = Restore(ConfState(conf))
    OBVIOUS
  <2>2. Tracked(r) /\ Alike(r, conf) /\ r.auto = conf.auto /\ Zero(r)
    BY <2>1, RestoreTracked DEF WalkInv
  <2>3. DOMAIN r.trk = DOMAIN conf.trk
    BY <2>2 DEF WalkInv, Tracked, Alike, Voters
  <2>4. \A id \in DOMAIN r.trk : r.trk[id].match = conf.trk[id].match
    BY <2>2, <2>3 DEF WalkInv, Zero
  <2> QED
    BY <2>1, <2>2, <2>4, Determined DEF WalkInv, Alike
<1> QED
  BY <1>1, WalkInvInductive, PTL
=============================================================================
