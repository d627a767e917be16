------------------------------- MODULE MCRaft -------------------------------
(* Instances of Raft: three voters, and the setups of its runs.            *)
EXTENDS Raft, TLC

CONSTANT Used   \* the setups of a run

(* Who campaigns: node 1 for term 2 and node 2 for term 3; both of 1 and   *)
(* 2, then node 3; or 1 and 3 by turns, so that each comes back with       *)
(* entries of its earlier term.                                            *)
OneThenTwo == [t \in 2 .. 3 |-> {t - 1}]
Contested  == [t \in 2 .. 3 |-> IF t = 2 THEN {1, 2} ELSE {3}]
ByTurns    == [t \in 2 .. 5 |-> CASE t = 2 -> {1, 3} [] t = 4 -> {1} [] OTHER -> {3}]

(* Two nodes cannot reach each other, or only one the other; node 3        *)
(* reaches nobody, and node 1 only node 2.                                 *)
Apart(n, l)  == {<<n, l>>, <<l, n>>}
OneWay(n, l) == {<<l, n>>}
Mute         == Apart(1, 3) \cup OneWay(2, 3)

(* From three voters to one, by way of a joint configuration, and one      *)
(* command after it; the leader removes itself.                            *)
Shrink == Change(<<Op("remove", 2), Op("remove", 3)>>, "auto")
ShrinkThenUse == [i \in {2, 4} |-> IF i = 2 THEN {Shrink} ELSE {Normal}]
UseOnce       == [i \in {2} |-> {Normal}]
RemoveOne     == [i \in {2} |-> {AsV2("remove", 1)}]
NoProposals   == [i \in {} |-> {}]

Plain == [preVote |-> FALSE, inputs |-> {}, blocked |-> Apart(1, 3), campaigners |-> OneThenTwo,
          proposals |-> NoProposals, reads |-> {}, crashes |-> 0]

AllSetups ==
  [contest  |-> [Plain EXCEPT !.blocked = Apart(1, 2), !.campaigners = Contested, !.crashes = 1],
   turns    |-> [Plain EXCEPT !.campaigners = ByTurns, !.inputs = {"quorum"}, !.crashes = 1],
   prevote  |-> [Plain EXCEPT !.blocked = Mute, !.preVote = TRUE, !.inputs = {"forget"}],
   beats    |-> [Plain EXCEPT !.blocked = Mute, !.inputs = {"beat"}],
   transfer |-> [Plain EXCEPT !.blocked = Mute, !.inputs = {"transfer"}, !.proposals = UseOnce],
   members  |-> [Plain EXCEPT !.proposals = ShrinkThenUse, !.crashes = 1],
   reads    |-> [Plain EXCEPT !.blocked = Mute, !.reads = {"r"}],
   async    |-> [Plain EXCEPT !.blocked = OneWay(1, 2), !.crashes = 1],
   single   |-> [Plain EXCEPT !.blocked = {}, !.proposals = RemoveOne, !.reads = {"r"}]]

UsedSetups == [name \in Used |-> AllSetups[name]]

(* With members that change, what a second leader does is left out: it is  *)
(* held to LeaderCompleteness when it is elected.                          *)
UntilReelected ==
    setup = "members" => \A n \in Ids : node[n].state = "leader" => node[n].term = 2
=============================================================================
