-------------------------------- MODULE MCHub --------------------------------
(***************************************************************************)
(* Instances of Hub for TLC: two clients of account A, more messages for A *)
(* than a buffer holds, and for the invariants one more that is for nobody *)
(* who is connected.                                                       *)
(***************************************************************************)
EXTENDS Hub, TLC

CONSTANTS A, B, c1, c2

MCAccountOf == [c \in Client |-> A]

MCFeed == <<A, B, A, A, A>>

MCShortFeed == <<A, A, A>>

ClientSymmetry == Permutations(Client)
=============================================================================
