------------------------------- MODULE MCRace -------------------------------
(* Instances of Race.  A run works through families of operations one by one: *)
(* a program uses those of one.                                               *)
EXTENDS Race, TLC

CONSTANTS X, F,         \* a variable, a field of it
          C0, C1, C2,   \* channels of capacity 0, 1 and 2
          Families
VARIABLE family
mcVars == <<vars, family>>

MCCap == [c \in Chans |-> CASE c = C0 -> 0 [] c = C1 -> 1 [] c = C2 -> 2]
MCPrefixes == {<<X, F>>}

MCInit == Init /\ family \in Families

(* The bound on the events of each family. *)
Events == [locks |-> 6, atomics |-> 7, chan0 |-> 6, chan1 |-> 8, chan2 |-> 9, early |-> 9]

(* Two goroutines share the channel of capacity 2, and use it once they are   *)
(* both there; in the family "early" main uses it before.                     *)
MCNext ==
  /\ Len(hist) < Events[family]
  /\ UNCHANGED family
  /\ \E t \in Procs :
       \/ \E u \in Procs : Go(t, u) /\ (family \in {"chan2", "early"} => Inert)
       \/ \E kind \in {"read", "write"} : family # "atomics" /\ Access(t, kind, X)
       \/ /\ family = "locks"
          /\ \E l \in Locks : Lock(t, l) \/ RLock(t, l) \/ Unlock(t, l) \/ RUnlock(t, l)
       \/ /\ family = "atomics"
          /\ \E k \in Keys : \/ Access(t, "write", k)
                             \/ Load(t, k)
                             \/ \E what \in {"store", "rmw", "observe"} : AtomicWrite(t, k, what)
       \/ family = "chan0" /\ ChanStep(t, C0)
       \/ family = "chan1" /\ ChanUse(t, C1)
       \/ family \in {"chan2", "early"} /\ (family = "chan2" => ~Inert) /\ ChanUse(t, C2)

MCSpec == MCInit /\ [][MCNext]_mcVars

Sym == Permutations(Procs \ {Main})
=============================================================================
