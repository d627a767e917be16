---------------------------- MODULE JointQuorum ----------------------------
(***************************************************************************)
(* Decisions by majority and by joint majorities (quorum/majority.go,      *)
(* quorum/joint.go).  A majority configuration is a set of voters, a joint *)
(* one the pair of the incoming and the outgoing set.                      *)
(***************************************************************************)
EXTENDS Integers, FiniteSets

CONSTANT MaxUint64   \* above every log index

ASSUME MaxUint64Assumption == MaxUint64 \in Nat

(* Mutant: one acknowledgement too few. *)
MajorityCommittedEager(c, acked) ==
    IF c = {}
    THEN MaxUint64
    ELSE LET pos == Cardinality(c) - Cardinality(c) \div 2
         IN  CHOOSE v \in {acked[id] : id \in c} :
                /\ Cardinality({id \in c : acked[id] < v}) <= pos
                /\ Cardinality({id \in c : acked[id] <= v}) > pos

(* The element at position n - (n/2 + 1) of the sorted acknowledgements; a *)
(* voter that has not reported counts as 0.                                *)
MajorityCommitted(c, acked) ==
    IF c = {}
    THEN MaxUint64
    ELSE LET pos == Cardinality(c) - (Cardinality(c) \div 2 + 1)
         IN  CHOOSE v \in {acked[id] : id \in c} :
                /\ Cardinality({id \in c : acked[id] < v}) <= pos
                /\ Cardinality({id \in c : acked[id] <= v}) > pos

CommittedIndex(in, out, acked) ==
    LET i == MajorityCommitted(in, acked)
        o == MajorityCommitted(out, acked)
    IN  IF i < o THEN i ELSE o

MajorityVote(c, yes, no) ==
    LET q       == Cardinality(c) \div 2 + 1
        voted   == Cardinality(c \cap yes)
        missing == Cardinality(c \ (yes \cup no))
    IN  CASE c = {} \/ voted >= q -> "won"
          [] c # {} /\ voted < q /\ voted + missing >= q -> "pending"
          [] OTHER -> "lost"

VoteResult(in, out, yes, no) ==
    LET r1 == MajorityVote(in, yes, no)
        r2 == MajorityVote(out, yes, no)
    IN  IF r1 = r2 THEN r1
        ELSE IF "lost" \in {r1, r2} THEN "lost" ELSE "pending"

IsQuorum(in, out, S) == VoteResult(in, out, S, {}) = "won"
=============================================================================
