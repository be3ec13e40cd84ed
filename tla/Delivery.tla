------------------------------ MODULE Delivery ------------------------------
(***************************************************************************)
(* What the consumer group of notification promises together: the events   *)
(* of a partition that can be read are notified one after the other, in    *)
(* the order of their first copies in the topic, and an offset is          *)
(* committed only when nothing below it is left to do.  A commit may go    *)
(* back, so records are handled again, but not notified for the first time *)
(* again.  Leases, copies, rebalances and failures are Notification's      *)
(* affair.                                                                 *)
(***************************************************************************)
EXTENDS Integers, Sequences

CONSTANTS
  Partition,    \* the partitions of the topic
  Topic,        \* Topic[p]: the records of p, by the event they are about
  Unreadable    \* the events that can only be skipped

VARIABLES
  notified,     \* the events that have been published to the browsers
  committed     \* committed[p]: the next offset, as the group has committed it

vars == <<notified, committed>>

Finished(p, o) == Topic[p][o] \in Unreadable \cup notified

Init ==
  /\ notified = {}
  /\ committed = [p \in Partition |-> 1]

Notify(p) ==
  \E o \in DOMAIN Topic[p] :
    /\ ~Finished(p, o)
    /\ \A q \in 1..(o - 1) : Finished(p, q)
    /\ notified' = notified \cup {Topic[p][o]}
    /\ UNCHANGED committed

Commit ==
  /\ committed' \in [Partition -> Nat \ {0}]
  /\ \A p \in Partition : \A o \in 1..(committed'[p] - 1) : Finished(p, o)
  /\ UNCHANGED notified

Next == Commit \/ \E p \in Partition : Notify(p)

Spec == Init /\ [][Next]_vars
=============================================================================
