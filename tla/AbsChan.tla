------------------------------ MODULE AbsChan ------------------------------
(***************************************************************************)
(* What Go promises of channels, told by the communications alone: a value *)
(* is received in the order of the sends, the k-th receive comes no later  *)
(* than the completion of the (k + capacity)-th send (go_mem, "Channel     *)
(* communication"), a closed channel takes no more values, and zeros come  *)
(* only after every value has been delivered.                              *)
(***************************************************************************)
EXTENDS Integers, Sequences

CONSTANTS Chans, Cap, Vals

VARIABLES sent, rcvd, closed, zeroed

absVars == <<sent, rcvd, closed, zeroed>>

Init ==
  /\ sent = [c \in Chans |-> <<>>]
  /\ rcvd = [c \in Chans |-> <<>>]
  /\ closed = [c \in Chans |-> FALSE]
  /\ zeroed = {}

Accept(c, v) == sent' = [sent EXCEPT ![c] = Append(@, v)]
Deliver(c) == rcvd' = [rcvd EXCEPT ![c] = Append(@, sent'[c][Len(@) + 1])]

Send(c, v) ==
  /\ ~closed[c]
  /\ Len(sent[c]) < Len(rcvd[c]) + Cap[c]
  /\ Accept(c, v)
  /\ UNCHANGED <<rcvd, closed, zeroed>>

Receive(c) ==
  /\ Len(rcvd[c]) < Len(sent[c])
  /\ UNCHANGED sent
  /\ Deliver(c)
  /\ UNCHANGED <<closed, zeroed>>

\* A send and a receive complete together; the receive may be of an older value.
Exchange(c, v) ==
  /\ ~closed[c]
  /\ Accept(c, v)
  /\ Deliver(c)
  /\ UNCHANGED <<closed, zeroed>>

Close(c) ==
  /\ ~closed[c]
  /\ closed' = [closed EXCEPT ![c] = TRUE]
  /\ UNCHANGED <<sent, rcvd, zeroed>>

ReceiveZero(c) ==
  /\ closed[c]
  /\ rcvd[c] = sent[c]
  /\ zeroed' = zeroed \cup {c}
  /\ UNCHANGED <<sent, rcvd, closed>>

Next ==
  \E c \in Chans :
    \/ \E v \in Vals : Send(c, v) \/ Exchange(c, v)
    \/ Receive(c)
    \/ Close(c)
    \/ ReceiveZero(c)

Spec == Init /\ [][Next]_absVars
=============================================================================
