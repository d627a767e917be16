------------------------------ MODULE ConfWalk ------------------------------
(***************************************************************************)
(* Every configuration that changes a leader lets through lead to, one     *)
(* change at a time, from a bootstrapped one.                              *)
(***************************************************************************)
EXTENDS ConfChange

CONSTANTS Boot,       \* the voters of the bootstrap
          Changes,    \* the changes an application may propose
          MaxMatch    \* acknowledged indexes are 0 .. MaxMatch

ASSUME BootAssumption == Boot \subseteq Ids /\ Boot # {}
ASSUME MatchAssumption == MaxMatch \in 0 .. MaxUint64
ASSUME ChangesAssumption ==
    \A cc \in Changes : /\ cc.changes \in Seq(Singles)
                        /\ cc.transition \in {"auto", "implicit", "explicit"}

VARIABLES conf,   \* r.trk.Config and r.trk.Progress
          prev    \* the configuration before the last change

vars == <<conf, prev>>

(* Bootstrap: one AddNode per peer.                                        *)
Bootstrapped == OneByOne(Each("voter", Boot))

Init == conf = Bootstrapped /\ prev = conf

(* ProposeConfChange and, once committed, ApplyConfChange.  An application *)
(* does not apply a change that removes every voter.                       *)
Step(cc) ==
    /\ Fits(conf, cc)
    /\ Changed(conf, cc) # Refused
    /\ conf' = Changed(conf, cc)
    /\ prev' = conf

Next == \E cc \in Changes : Step(cc)

Spec == Init /\ [][Next]_vars

-----------------------------------------------------------------------------
Quorums(c) == {S \in SUBSET Ids : IsQuorum(c.in, c.out, S)}

(* Two nodes that have applied one change more or less cannot decide past  *)
(* each other: every quorum of the configuration before a change meets     *)
(* every quorum of the one after it.                                       *)
QuorumsMeet == \A P \in Quorums(prev), Q \in Quorums(conf) : P \cap Q # {}

(* A node that starts from a snapshot has the configuration of the node    *)
(* that took it, its learners, staged learners and AutoLeave included.     *)
RestoreExact == Restore(ConfState(conf)) = conf

(* The index Committed computes by sorting is the highest one that a       *)
(* quorum, as elections count it, has acknowledged.                        *)
CommittedExact ==
    \A acked \in [Ids -> 0 .. MaxMatch] :
        LET reached(i) == IsQuorum(conf.in, conf.out, {id \in Ids : acked[id] >= i})
            i == CommittedIndex(conf.in, conf.out, acked)
        IN  reached(i) /\ (i < MaxMatch => ~reached(i + 1))

(* A change that passes the leader's check can be applied: no member is    *)
(* stopped by applyConfChange's panic.  Only a change that would leave no  *)
(* voter may be refused.                                                   *)
AppliesWhatFits ==
    \A cc \in Changes :
        Fits(conf, cc) /\ ApplyAll(conf, cc.changes) # Refused => Changed(conf, cc) # Refused
=============================================================================
