----------------------------- MODULE ConfChange -----------------------------
(***************************************************************************)
(* Configurations and their changes (confchange/, raftpb/confchange.go,    *)
(* tracker/tracker.go).  A configuration is one record: the incoming and   *)
(* the outgoing voters, the learners, the voters staged to become learners *)
(* (next), AutoLeave, and the tracked progress of every member, of which   *)
(* the Match index and IsLearner are kept.                                 *)
(***************************************************************************)
EXTENDS JointQuorum, Sequences

CONSTANT Ids   \* node ids; 0 is no node

ASSUME IdsAssumption == IsFiniteSet(Ids) /\ Ids \subseteq Nat \ {0}

(* MakeProgressTracker.  Also what the Changer returns with an error.      *)
Empty == [in |-> {}, out |-> {}, learners |-> {}, next |-> {}, auto |-> FALSE,
          trk |-> << >>]

Refused == Empty

Joint(c) == c.out # {}

Voters(c) == c.in \cup c.out

-----------------------------------------------------------------------------
(* A change: its single changes [op, id] in order and its transition.      *)

Op(op, id) == [op |-> op, id |-> id]

Singles == [op : {"voter", "learner", "remove", "update"}, id : Ids \cup {0}]

Change(ops, transition) == [changes |-> ops, transition |-> transition]

ConfChanges == [changes : Seq(Singles), transition : {"auto", "implicit", "explicit"}]

(* AsV2 of a V1 change: one single change, automatic transition.           *)
AsV2(op, id) == Change(<<Op(op, id)>>, "auto")

(* What appliedTo proposes: confChangeToMsg(nil).                          *)
LeaveChange == Change(<< >>, "auto")

WantsJoint(cc)     == cc.transition # "auto" \/ Len(cc.changes) > 1
WantsAutoLeave(cc) == cc.transition # "explicit"
WantsLeave(cc)     == cc.transition = "auto" /\ cc.changes = << >>

-----------------------------------------------------------------------------
(* The Changer.                                                            *)

Track(c, id, learner) ==
    [c EXCEPT !.trk = [j \in DOMAIN c.trk \cup {id} |->
                         IF j = id THEN [learner |-> learner, match |-> 0] ELSE c.trk[j]]]

Untrack(c, ids) == [c EXCEPT !.trk = [j \in DOMAIN c.trk \ ids |-> c.trk[j]]]

InitProgress(c, id, learner) ==
    IF learner THEN [Track(c, id, TRUE)  EXCEPT !.learners = @ \cup {id}]
               ELSE [Track(c, id, FALSE) EXCEPT !.in = @ \cup {id}]

MakeVoter(c, id) ==
    IF id \notin DOMAIN c.trk
    THEN InitProgress(c, id, FALSE)
    ELSE [c EXCEPT !.trk[id].learner = FALSE, !.learners = @ \ {id},
                   !.next = @ \ {id}, !.in = @ \cup {id}]

Remove(c, id) ==
    LET d == [c EXCEPT !.in = @ \ {id}, !.learners = @ \ {id}, !.next = @ \ {id}]
    IN  IF id \in DOMAIN c.trk \ c.out THEN Untrack(d, {id}) ELSE d

MakeLearner(c, id) ==
    LET d == [Remove(c, id) EXCEPT !.trk = c.trk]
    IN  CASE id \notin DOMAIN c.trk -> InitProgress(c, id, TRUE)
          [] id \in DOMAIN c.trk /\ c.trk[id].learner -> c
          [] OTHER -> IF id \in c.out
                      THEN [d EXCEPT !.next = @ \cup {id}]
                      ELSE [d EXCEPT !.learners = @ \cup {id}, !.trk[id].learner = TRUE]

ApplyOne(c, o) ==
    IF o.id = 0
    THEN c
    ELSE CASE o.op = "voter"   -> MakeVoter(c, o.id)
           [] o.op = "learner" -> MakeLearner(c, o.id)
           [] o.op = "remove"  -> Remove(c, o.id)
           [] o.op = "update"  -> c

(* apply: the single changes in order, and Refused without voters.         *)
ApplyAll(c, ops) ==
    LET upto[k \in 0 .. Len(ops)] ==
            IF k = 0 THEN c ELSE ApplyOne(upto[k - 1], ops[k])
        d == upto[Len(ops)]
    IN  IF d.in = {} THEN Refused ELSE d

(* checkInvariants.                                                        *)
WellFormed(c) ==
    /\ Voters(c) \cup c.learners \cup c.next \subseteq DOMAIN c.trk
    /\ \A id \in c.next : id \in c.out /\ ~c.trk[id].learner
    /\ \A id \in c.learners : id \notin Voters(c) /\ c.trk[id].learner
    /\ ~Joint(c) => c.next = {} /\ ~c.auto

CheckAndReturn(c) == IF WellFormed(c) THEN c ELSE Refused

(* checkAndCopy: Clone does not copy AutoLeave.                            *)
CheckAndCopy(c) == CheckAndReturn([c EXCEPT !.auto = FALSE])

(* Mutant: the incoming voters are copied after the changes. *)
EnterJointLate(c, auto, ops) ==
    LET d == CheckAndCopy(c)
        e == ApplyAll(d, ops)
    IN  IF d.in = {} \/ Joint(d) \/ e = Refused
        THEN Refused
        ELSE CheckAndReturn([e EXCEPT !.out = e.in, !.auto = auto])

EnterJoint(c, auto, ops) ==
    LET d == CheckAndCopy(c)
        e == ApplyAll([d EXCEPT !.out = d.in], ops)
    IN  IF d.in = {} \/ Joint(d) \/ e = Refused
        THEN Refused
        ELSE CheckAndReturn([e EXCEPT !.auto = auto])

(* Mutant: the staged learners stay staged. *)
LeaveJointStaged(c) ==
    LET d == CheckAndCopy(c)
        e == [d EXCEPT !.learners = @ \cup d.next]
    IN  IF ~Joint(d)
        THEN Refused
        ELSE CheckAndReturn([Untrack(e, d.out \ (e.in \cup e.learners)) EXCEPT !.out = {}])

LeaveJoint(c) ==
    LET d == CheckAndCopy(c)
        e == [d EXCEPT !.learners = @ \cup d.next,
                       !.trk = [j \in DOMAIN d.trk |->
                                  [d.trk[j] EXCEPT !.learner = @ \/ j \in d.next]],
                       !.next = {}]
    IN  IF ~Joint(d)
        THEN Refused
        ELSE CheckAndReturn([Untrack(e, d.out \ (e.in \cup e.learners)) EXCEPT !.out = {}])

Simple(c, ops) ==
    LET d == CheckAndCopy(c)
        e == ApplyAll(d, ops)
    IN  IF Joint(d) \/ Cardinality((c.in \ e.in) \cup (e.in \ c.in)) > 1
        THEN Refused
        ELSE CheckAndReturn(e)

(* applyConfChange, up to its panic on an error.                           *)
Changed(c, cc) ==
    CASE WantsLeave(cc) -> LeaveJoint(c)
      [] ~WantsLeave(cc) /\ WantsJoint(cc) ->
             EnterJoint(c, WantsAutoLeave(cc), cc.changes)
      [] OTHER -> Simple(c, cc.changes)

(* What the leader checks of a proposed change against its configuration:  *)
(* a change leaves a joint configuration or enters one, never both.        *)
Fits(c, cc) == Joint(c) <=> cc.changes = << >>

-----------------------------------------------------------------------------
(* Restoring a configuration from the ConfState of a snapshot.             *)

ConfState(c) == [in |-> c.in, out |-> c.out, learners |-> c.learners, next |-> c.next,
                 auto |-> c.auto]

(* quorum.Slice.  It is sorted; adding or removing a set of members one by *)
(* one gives the same configuration in every order.                        *)
Slice(S) == CHOOSE f \in [1 .. Cardinality(S) -> S] : \A i, j \in DOMAIN f : f[i] = f[j] => i = j

Each(op, S) == LET ids == Slice(S) IN [k \in DOMAIN ids |-> Op(op, ids[k])]

(* Mutant: the outgoing voters are not removed first. *)
ToIncomingKept(cs) ==
    Each("voter", cs.in) \o Each("learner", cs.learners) \o Each("learner", cs.next)

(* toConfChangeSingle.                                                     *)
ToOutgoing(cs) == Each("voter", cs.out)
ToIncoming(cs) ==
    Each("remove", cs.out) \o Each("voter", cs.in)
      \o Each("learner", cs.learners) \o Each("learner", cs.next)

(* chain of Simple changes, one at a time, from the empty configuration.   *)
OneByOne(ops) ==
    LET upto[k \in 0 .. Len(ops)] ==
            IF k = 0 THEN Empty ELSE Simple(upto[k - 1], <<ops[k]>>)
    IN  upto[Len(ops)]

Restore(cs) ==
    IF cs.out = {}
    THEN OneByOne(ToIncoming(cs))
    ELSE EnterJoint(OneByOne(ToOutgoing(cs)), cs.auto, ToIncoming(cs))
=============================================================================
