--------------------------- MODULE MCNotification ---------------------------
(***************************************************************************)
(* Instances of Notification for TLC: two partitions, one of which holds   *)
(* an event twice, as the relay may have sent it, and one whose event      *)
(* cannot be read.                                                         *)
(***************************************************************************)
EXTENDS Notification, TLC

CONSTANTS p1, p2

MCTopic == p1 :> <<1, 2, 1>> @@ p2 :> <<3>>

MCShortTopic == p1 :> <<1, 2>> @@ p2 :> <<3>>

CopySymmetry == Permutations(Copy)
=============================================================================
