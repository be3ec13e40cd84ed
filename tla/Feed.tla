-------------------------------- MODULE Feed --------------------------------
(***************************************************************************)
(* What the outbox and the relay promise to a reader of the topic who      *)
(* drops repeated events: the events of an account reach it in the order   *)
(* of their ids, and only events that were committed to the outbox.  How   *)
(* copies, partitions, batches and crashes make that up is Relay's affair. *)
(***************************************************************************)
EXTENDS Integers

CONSTANTS
  Event,        \* the ids that events of the outbox may get
  AccountOf,    \* AccountOf[e]: the account event e is about, its partition key
  Transaction   \* the events of one database transaction of the ledger

VARIABLES
  outbox,       \* the committed rows of the outbox
  feed          \* the events that have reached the topic

vars == <<outbox, feed>>

(* The events of an account become visible in the order of their ids, as   *)
(* Ledger shows of them (VisibleInIdOrder).                                *)
InIdOrder(t) ==
  \A e \in t, f \in outbox : AccountOf[e] = AccountOf[f] => f < e

Init == outbox = {} /\ feed = {}

Post(t) ==
  /\ t \cap outbox = {}
  /\ InIdOrder(t)
  /\ outbox' = outbox \cup t
  /\ UNCHANGED feed

Announce(e) ==
  /\ e \in outbox \ feed
  /\ \A f \in outbox : AccountOf[f] = AccountOf[e] /\ f < e => f \in feed
  /\ feed' = feed \cup {e}
  /\ UNCHANGED outbox

Next == (\E t \in Transaction : Post(t)) \/ (\E e \in Event : Announce(e))

Spec == Init /\ [][Next]_vars
=============================================================================
