----------------------------- MODULE MCConfWalk -----------------------------
EXTENDS ConfWalk

Parts == {Op(op, id) : op \in {"voter", "learner", "remove"}, id \in Ids}

Lists == {<<a>> : a \in Parts} \cup {<<a, b>> : a, b \in Parts}

(* All changes of at most two parts, with the empty change that leaves.    *)
AllChanges ==
    {Change(l, t) : l \in Lists, t \in {"auto", "implicit", "explicit"}} \cup {LeaveChange}

(* And the empty change with a transition.                                 *)
OddChanges == AllChanges \cup {Change(<< >>, "explicit"), Change(<< >>, "implicit")}
=============================================================================
