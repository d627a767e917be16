----------------------------- MODULE MCChanPool -----------------------------
(* Instances of ChanPool: an unbuffered channel, a buffered one, and nil. *)
EXTENDS ChanPool, TLC

CONSTANTS U, B   \* channels of capacity 0 and 1

Send(c) == [kind |-> "send", cls |-> <<[dir |-> "send", ch |-> c]>>, dflt |-> FALSE]
Recv(c) == [kind |-> "recv", cls |-> <<[dir |-> "recv", ch |-> c]>>, dflt |-> FALSE]
CloseOf(c) == [kind |-> "close", cls |-> <<[dir |-> "close", ch |-> c]>>, dflt |-> FALSE]
Go(k) == [kind |-> k, cls |-> <<>>, dflt |-> FALSE]
Select(cls, d) == [kind |-> "select", cls |-> cls, dflt |-> d]
S(c) == [dir |-> "send", ch |-> c]
R(c) == [dir |-> "recv", ch |-> c]

CONSTANTS MainBudget, ChildBudget
MCBudget == [p \in Procs |-> IF p = Main THEN MainBudget ELSE ChildBudget]

MCCap == [c \in Chans |-> IF c = B THEN 1 ELSE 0]

\* Plain operations on both kinds of channel.
PlainOps == {Send(c) : c \in Chans} \cup {Recv(c) : c \in Chans}
              \cup {CloseOf(B), Go("go")}

\* Selects that mix both sides, a default and a nil channel.
SelectOps == {Send(B), Recv(U), CloseOf(U), Go("go"),
              Select(<<S(U), R(B)>>, FALSE),
              Select(<<R(U), S(B)>>, FALSE),
              Select(<<R(NilChan), R(U)>>, TRUE)}

\* Operations on nil channels, the empty select and the abnormal ends of a go statement.
NilOps == {Send(NilChan), Recv(NilChan), CloseOf(NilChan), CloseOf(U), Recv(U),
           Go("go"), Go("goNil"), Go("goEntryPanics"), Select(<<>>, FALSE)}

(* A run works through families of operations one by one: a program uses those of one. *)
AllOps == PlainOps \cup SelectOps \cup NilOps

CONSTANT Families
VARIABLE family
mcVars == <<vars, family>>

OpsOf(f) == CASE f = "plain" -> PlainOps [] f = "select" -> SelectOps [] f = "nil" -> NilOps

MCInit == Init /\ family \in Families

(* With selects, whose clauses multiply the cases, main has one operation less. *)
MCNext ==
  /\ Next
  /\ family = "select" => left'[Main] > 0
  /\ \A p \in Procs : op'[p] \in {op[p], NoOp} \cup OpsOf(family)
  /\ UNCHANGED family

MCSpec == MCInit /\ [][MCNext]_mcVars
MCFairSpec == MCSpec /\ WF_mcVars(MCNext)

Sym == Permutations(Procs \ {Main})
=============================================================================
