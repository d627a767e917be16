----------------------------- MODULE MCRaftFlow -----------------------------
EXTENDS RaftFlow

Start(log, base, commit, flog, fcommit, size) ==
    [log |-> log, base |-> base, commit |-> commit, flog |-> flog, fcommit |-> fcommit,
     size |-> size]

(* The follower's tail is of a later term than the leader's, or of an      *)
(* earlier one, and longer; it has committed more than the leader knows;   *)
(* it is behind and the window takes two; it is new and the log it needs   *)
(* is compacted.                                                           *)
MCStarts == {Start(<<1, 1>>, 0, 0, <<1, 2, 2>>, 1, size) : size \in 1 .. 2}
      \cup {Start(<<1, 2>>, 0, 1, <<1, 1, 1>>, 0, size) : size \in 1 .. 2}
      \cup {Start(<<1>>, 0, 1, <<1>>, 0, 2), Start(<<1>>, 1, 1, << >>, 0, 1)}
=============================================================================
