-------------------------------- MODULE Relay --------------------------------
(***************************************************************************)
(* Copies of the relay process that move events from the outbox table to a *)
(* Kafka topic.  A copy handles a batch in one database transaction, under *)
(* an advisory lock: it reads the first events that are not published,     *)
(* sends them, waits for the acknowledgement and marks them.  One action   *)
(* is one statement, one call of the producer, or one step of the broker.  *)
(*                                                                         *)
(* A copy knows of its database session only what its statements tell it:  *)
(* the session, and with it the lock, may be gone while the batch is still *)
(* on its way.  A copy that gave up on a batch does not know whether the   *)
(* broker will get it yet.  A process that is started again is another     *)
(* member of Copy.                                                         *)
(***************************************************************************)
EXTENDS Integers, Sequences, FiniteSets

CONSTANTS
  Event,        \* the ids that events of the outbox may get
  AccountOf,    \* AccountOf[e]: the account event e is about, its partition key
  Transaction,  \* the events of one database transaction of the ledger
  Partition,    \* the partitions of the topic
  PartitionOf,  \* PartitionOf[a]: the partition for the key of account a
  Copy,         \* the processes that run the relay
  BatchSize,    \* RELAY_BATCH_SIZE
  MaxFaults     \* bound: how many things go wrong in a behavior

ASSUME EventAssumption ==
  /\ Event \subseteq Nat /\ IsFiniteSet(Event)
  /\ Transaction \subseteq SUBSET Event

ASSUME PartitionAssumption ==
  \A e \in Event : AccountOf[e] \in DOMAIN PartitionOf /\ PartitionOf[AccountOf[e]] \in Partition

ASSUME BoundAssumption == BatchSize \in Nat \ {0} /\ MaxFaults \in Nat

VARIABLES
  outbox,      \* the committed rows of the outbox
  published,   \* those whose published_at is set
  topic,       \* topic[p]: the records of partition p, each the id of its event
  pc,          \* pc[r]: the next step of copy r
  batch,       \* batch[r]: the events r has read
  sending,     \* sending[r]: those of them the broker has not appended
  locked,      \* the copies whose database session holds the advisory lock
  unsettled,   \* the marks of sessions whose COMMIT has not been decided
  late,        \* late[n]: what is on its way of the batch given up at fault n
  faults       \* how many things went wrong

copies == <<pc, batch, sending>>
database == <<outbox, published, locked, unsettled>>
broker == <<topic, late>>
vars == <<outbox, published, topic, pc, batch, sending, locked, unsettled, late, faults>>

Label == {"idle", "getEvents", "publish", "await", "mark", "commit", "down"}

TypeOK ==
  /\ outbox \subseteq Event
  /\ published \subseteq Event
  /\ topic \in [Partition -> Seq(Event)]
  /\ pc \in [Copy -> Label]
  /\ batch \in [Copy -> SUBSET Event]
  /\ sending \in [Copy -> SUBSET Event]
  /\ locked \subseteq {r \in Copy : pc[r] \notin {"idle", "down"}}
  /\ unsettled \subseteq SUBSET Event
  /\ late \in [1..MaxFaults -> SUBSET Event]
  /\ faults \in 0..MaxFaults

Init ==
  /\ outbox = {} /\ published = {}
  /\ topic = [p \in Partition |-> <<>>]
  /\ pc = [r \in Copy |-> "idle"]
  /\ batch = [r \in Copy |-> {}]
  /\ sending = [r \in Copy |-> {}]
  /\ locked = {} /\ unsettled = {}
  /\ late = [n \in 1..MaxFaults |-> {}]
  /\ faults = 0

-----------------------------------------------------------------------------
(* The ledger commits events, those of an account in the order of their    *)
(* ids (VisibleInIdOrder of module Ledger); across accounts an event may   *)
(* become visible after one with a larger id.                              *)
InIdOrder(t) ==
  \A e \in t, f \in outbox : AccountOf[e] = AccountOf[f] => f < e

Post(t) ==
  /\ t \cap outbox = {}
  /\ InIdOrder(t)
  /\ outbox' = outbox \cup t
  /\ UNCHANGED <<published, locked, unsettled, copies, broker, faults>>

-----------------------------------------------------------------------------
(* One batch.                                                              *)

Goto(r, label) == pc' = [pc EXCEPT ![r] = label]

NeverHeld == FALSE    \* regression: the batch is not guarded by a lock

LockHeld == locked # {} \/ unsettled # {}

(* pg_try_advisory_xact_lock, first in the database transaction.  A copy   *)
(* that does not get the lock skips its turn, which changes nothing.       *)
TryLockOutbox(r) ==
  /\ pc[r] = "idle"
  /\ ~LockHeld
  /\ locked' = locked \cup {r}
  /\ Goto(r, "getEvents")
  /\ UNCHANGED <<outbox, published, unsettled, batch, sending, broker, faults>>

(* SELECT ... WHERE published_at IS NULL ORDER BY id LIMIT n.              *)
LastOf(S, n) ==    \* regression: the newest rows first
  {e \in S : Cardinality({f \in S : e < f}) < n}

FirstOf(S, n) == {e \in S : Cardinality({f \in S : f < e}) < n}

UnpublishedAfterLast ==    \* regression: a cursor on the largest published id
  FirstOf({e \in outbox : \A f \in published : f < e}, BatchSize)

Unpublished == FirstOf(outbox \ published, BatchSize)

(* A copy with nothing to send leaves its transaction at once.             *)
GetUnpublishedOutboxEvents(r) ==
  /\ pc[r] = "getEvents" /\ r \in locked
  /\ batch' = [batch EXCEPT ![r] = Unpublished]
  /\ Goto(r, IF Unpublished = {} THEN "commit" ELSE "publish")
  /\ UNCHANGED <<database, sending, broker, faults>>

(* ProduceSync hands the records to the client.  No statement is involved: *)
(* a copy that has lost its session sends all the same.                    *)
Publish(r) ==
  /\ pc[r] = "publish"
  /\ sending' = [sending EXCEPT ![r] = batch[r]]
  /\ Goto(r, "await")
  /\ UNCHANGED <<database, batch, broker, faults>>

MarkAtOnce(r) ==    \* regression: the acknowledgement is not waited for
  /\ pc[r] = "await"
  /\ Goto(r, "mark")
  /\ UNCHANGED <<database, batch, sending, broker, faults>>

(* ... and returns when the broker has acknowledged every record.          *)
Acknowledge(r) ==
  /\ pc[r] = "await" /\ sending[r] = {}
  /\ Goto(r, "mark")
  /\ UNCHANGED <<database, batch, sending, broker, faults>>

(* UPDATE outbox SET published_at for the ids of the batch.                *)
MarkOutboxEventsPublished(r) ==
  /\ pc[r] = "mark" /\ r \in locked
  /\ Goto(r, "commit")
  /\ UNCHANGED <<database, batch, sending, broker, faults>>

Commit(r) ==
  /\ pc[r] = "commit" /\ r \in locked
  /\ published' = published \cup batch[r]
  /\ locked' = locked \ {r}
  /\ Goto(r, "idle")
  /\ UNCHANGED <<outbox, unsettled, batch, sending, broker, faults>>

(* A statement on a session that is gone fails.                            *)
Disconnected(r) ==
  /\ pc[r] \in {"getEvents", "mark", "commit"} /\ r \notin locked
  /\ Goto(r, "idle")
  /\ UNCHANGED <<database, batch, sending, broker, faults>>

-----------------------------------------------------------------------------
(* The broker.  The records of one batch are appended to a partition in    *)
(* the order they were sent; nothing is assumed of the order of different  *)
(* batches, or of different partitions.                                    *)

Where(e) == PartitionOf[AccountOf[e]]

NextOf(e, S) == \A f \in S : Where(f) = Where(e) => e <= f

AppendRecord(e) == topic' = [topic EXCEPT ![Where(e)] = Append(@, e)]

Arrive(r, e) ==
  /\ e \in sending[r] /\ NextOf(e, sending[r])
  /\ AppendRecord(e)
  /\ sending' = [sending EXCEPT ![r] = @ \ {e}]
  /\ UNCHANGED <<database, pc, batch, late, faults>>

(* A batch its copy has given up may still arrive, whole or in part.       *)
ArriveLate(n, e) ==
  /\ e \in late[n] /\ NextOf(e, late[n])
  /\ AppendRecord(e)
  /\ late' = [late EXCEPT ![n] = @ \ {e}]
  /\ UNCHANGED <<database, copies, faults>>

Lose(n, p) ==
  /\ \E e \in late[n] : Where(e) = p
  /\ late' = [late EXCEPT ![n] = {e \in @ : Where(e) # p}]
  /\ UNCHANGED <<database, copies, topic, faults>>

-----------------------------------------------------------------------------
(* What may go wrong.                                                      *)

Fault == faults < MaxFaults /\ faults' = faults + 1

Abandon(r) ==
  /\ late' = [late EXCEPT ![faults'] = sending[r]]
  /\ sending' = [sending EXCEPT ![r] = {}]

KeepLock(r) == UNCHANGED locked    \* regression: a lock of the session

Unlock(r) == locked' = locked \ {r}

(* A statement or the producer returns an error, or the time for the batch *)
(* is up: the function passed to WithTx returns it, and the transaction is *)
(* rolled back.                                                            *)
Fail(r) ==
  /\ pc[r] \notin {"idle", "down"}
  /\ Fault
  /\ Abandon(r)
  /\ Unlock(r)
  /\ Goto(r, "idle")
  /\ UNCHANGED <<outbox, published, unsettled, batch, topic>>

(* The process stops, and another one is left to carry on.                 *)
Crash(r) ==
  /\ \E s \in Copy \ {r} : pc[s] # "down"
  /\ pc[r] # "down"
  /\ Fault
  /\ Abandon(r)
  /\ locked' = locked \ {r}
  /\ Goto(r, "down")
  /\ UNCHANGED <<outbox, published, unsettled, batch, topic>>

(* The database ends the session of a copy that will notice later.         *)
SessionLost(r) ==
  /\ r \in locked
  /\ Fault
  /\ locked' = locked \ {r}
  /\ UNCHANGED <<outbox, published, unsettled, copies, broker>>

(* commitTimeout expires: the copy goes on, and the session keeps the lock *)
(* until the database has decided.                                         *)
CommitTimeout(r) ==
  /\ pc[r] = "commit" /\ r \in locked
  /\ Fault
  /\ locked' = locked \ {r}
  /\ unsettled' = unsettled \cup {batch[r]}
  /\ Goto(r, "idle")
  /\ UNCHANGED <<outbox, published, batch, sending, broker>>

UnsettledCommits(b) ==
  /\ published' = published \cup b
  /\ unsettled' = unsettled \ {b}
  /\ UNCHANGED <<outbox, locked, copies, broker, faults>>

UnsettledRollsBack(b) ==
  /\ unsettled' = unsettled \ {b}
  /\ UNCHANGED <<outbox, published, locked, copies, broker, faults>>

-----------------------------------------------------------------------------

BatchStep(r) ==
  \/ TryLockOutbox(r) \/ GetUnpublishedOutboxEvents(r) \/ Publish(r)
  \/ Acknowledge(r) \/ MarkOutboxEventsPublished(r) \/ Commit(r)
  \/ Disconnected(r)

Delivery(r) == \E e \in Event : Arrive(r, e)

LateDelivery(n) ==
  (\E e \in Event : ArriveLate(n, e)) \/ (\E p \in Partition : Lose(n, p))

Settling == \E b \in unsettled : UnsettledCommits(b) \/ UnsettledRollsBack(b)

Failure(r) == Fail(r) \/ Crash(r) \/ SessionLost(r) \/ CommitTimeout(r)

Next ==
  \/ \E t \in Transaction : Post(t)
  \/ \E r \in Copy : BatchStep(r) \/ Delivery(r) \/ Failure(r)
  \/ \E n \in 1..MaxFaults : LateDelivery(n)
  \/ Settling

(* A copy that runs goes on, the broker appends what it is sent, and the   *)
(* database settles what it was asked to commit.  Nothing has to fail, and *)
(* a batch that was given up need not arrive.                              *)
Fairness ==
  /\ \A r \in Copy : WF_vars(BatchStep(r)) /\ WF_vars(Delivery(r))
  /\ WF_vars(Settling)

Spec == Init /\ [][Next]_vars

FairSpec == Spec /\ Fairness

-----------------------------------------------------------------------------
(* Safety.                                                                 *)

Copies(e) == {i \in DOMAIN topic[Where(e)] : topic[Where(e)][i] = e}

Arrived == {e \in Event : Copies(e) # {}}

(* An event that is marked as published is in the topic, whichever copy    *)
(* marked it and whatever became of the session that did (publishBatch:    *)
(* the marks follow the acknowledgement).                                  *)
NothingLost == published \subseteq Arrived

(* Every copy of an event but the first is owed to something that went     *)
(* wrong: as many copies of the relay as there may be, they send an event  *)
(* twice only after a failure, and once more after every further one.      *)
CopiesNeedFaults == \A e \in Event : Cardinality(Copies(e)) <= 1 + faults

(* Only one copy of the relay handles a batch at a time: no two copies are *)
(* sending events.                                                         *)
OneBatchAtATime ==
  \A r, s \in Copy : pc[r] = "await" /\ pc[s] = "await" => r = s

-----------------------------------------------------------------------------
(* Every event of the outbox is marked as published in the end, however    *)
(* late its transaction became visible and whichever copies are left.      *)
EveryEventPublished == \A e \in Event : e \in outbox ~> e \in published

-----------------------------------------------------------------------------
(* The first copies of the events of an account are in the topic in the    *)
(* order of their ids, whatever batches crossed on the way.                *)
FirstCopies == INSTANCE Feed WITH feed <- Arrived

ImplementsFeed == FirstCopies!Spec
=============================================================================
