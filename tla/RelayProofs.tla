----------------------------- MODULE RelayProofs -----------------------------
(***************************************************************************)
(* Proofs about Relay, for every set of copies, every batch size, every    *)
(* layout of the topic and any number of failures.                         *)
(***************************************************************************)
EXTENDS RelayInvariant, FiniteSetTheorems, TLAPS

USE DEF vars, copies, database, broker, Goto

-----------------------------------------------------------------------------
(* Sets without gaps.                                                      *)

LEMMA EmptyGapless ==
  ASSUME NEW rows, NEW arrived
  PROVE  GaplessIn({}, rows, arrived)
BY DEF GaplessIn

(* Another arrival disturbs no set.                                        *)
LEMMA ArrivalKeepsGapless ==
  ASSUME NEW S, NEW rows, NEW arrived, NEW more,
         GaplessIn(S, rows, arrived), arrived \subseteq more
  PROVE  GaplessIn(S, rows, more)
BY DEF GaplessIn

(* Events that become visible come after those of their account.           *)
LEMMA PostKeepsGapless ==
  ASSUME NEW rows \in SUBSET Event, NEW t \in SUBSET Event, NEW S, NEW arrived,
         GaplessIn(S, rows, arrived),
         \A e \in t, f \in rows : AccountOf[e] = AccountOf[f] => f < e
  PROVE  GaplessIn(S, rows \cup t, arrived)
<1> SUFFICES ASSUME NEW e \in S, NEW f \in t, AccountOf[f] = AccountOf[e], f < e
             PROVE  f \in S \/ f \in arrived
  BY DEF GaplessIn
<1>1. e < f
  BY DEF GaplessIn
<1>2. e \in Nat /\ f \in Nat
  BY EventAssumption DEF GaplessIn
<1> QED BY <1>1, <1>2

(* What has arrived need not be sent again.                                *)
LEMMA RemovalKeepsGapless ==
  ASSUME NEW S, NEW rows, NEW arrived, NEW e, GaplessIn(S, rows, arrived)
  PROVE  GaplessIn(S \ {e}, rows, arrived \cup {e})
BY DEF GaplessIn

(* The events of an account are in one partition: losing the rest of a     *)
(* partition loses all or none of them.                                    *)
LEMMA LossKeepsGapless ==
  ASSUME NEW S, NEW rows, NEW arrived, NEW p, GaplessIn(S, rows, arrived)
  PROVE  GaplessIn({e \in S : Where(e) # p}, rows, arrived)
BY DEF GaplessIn, Where

(* The first rows of a set have all rows before them.                      *)
LEMMA FirstOfClosed ==
  ASSUME NEW S \in SUBSET Event, NEW n \in Nat,
         NEW e \in FirstOf(S, n), NEW f \in S, f < e
  PROVE  f \in FirstOf(S, n)
<1> DEFINE below(x) == {g \in S : g < x}
<1>1. S \subseteq Nat /\ IsFiniteSet(S)
  BY EventAssumption, FS_Subset
<1>2. e \in S /\ Cardinality(below(e)) < n
  BY DEF FirstOf
<1>3. below(f) \subseteq below(e)
  <2>1. \A x, y, z \in Nat : x < y /\ y < z => x < z
    OBVIOUS
  <2> QED BY <1>1, <1>2, <2>1
<1>4. IsFiniteSet(below(e))
  BY <1>1, FS_Subset
<1>5. Cardinality(below(f)) <= Cardinality(below(e))
  BY <1>3, <1>4, FS_Subset
<1>6. Cardinality(below(f)) \in Nat /\ Cardinality(below(e)) \in Nat
  BY <1>3, <1>4, FS_Subset, FS_CardinalityType
<1>7. Cardinality(below(f)) < n
  BY <1>2, <1>5, <1>6
<1> QED BY <1>7 DEF FirstOf

LEMMA BatchGapless ==
  ASSUME TypeOK, NothingLost
  PROVE  Gapless(Unpublished) /\ Unpublished \subseteq Event
<1> DEFINE pending == outbox \ published
<1>1. pending \in SUBSET Event /\ BatchSize \in Nat
  BY BoundAssumption DEF TypeOK
<1>2. Unpublished \subseteq pending
  BY DEF Unpublished, FirstOf
<1>3. ASSUME NEW e \in Unpublished, NEW f \in outbox, f < e, f \notin Arrived
      PROVE  f \in Unpublished
  <2>1. f \in pending
    BY <1>3 DEF NothingLost
  <2> HIDE DEF pending
  <2>2. e \in FirstOf(pending, BatchSize)
    BY DEF Unpublished, pending
  <2>3. f \in FirstOf(pending, BatchSize)
    BY <1>1, <1>3, <2>1, <2>2, FirstOfClosed
  <2> QED BY <2>3 DEF Unpublished, pending
<1> QED BY <1>1, <1>2, <1>3 DEF Gapless, GaplessIn

-----------------------------------------------------------------------------
(* What has arrived.                                                       *)

LEMMA ArrivedKept ==
  ASSUME UNCHANGED topic
  PROVE  Arrived' = Arrived
BY DEF Arrived, Copies

LEMMA ArrivedGrows ==
  ASSUME TypeOK, NEW e \in Event, AppendRecord(e)
  PROVE  Arrived' = Arrived \cup {e}
<1> DEFINE p == Where(e)
<1>1. p \in Partition
  BY PartitionAssumption DEF Where
<1>2. topic[p] \in Seq(Event) /\ topic'[p] = Append(topic[p], e)
  BY <1>1 DEF TypeOK, AppendRecord
<1>3. \A q \in Partition \ {p} : topic'[q] = topic[q]
  BY DEF TypeOK, AppendRecord
<1>4. Len(topic[p]) \in Nat /\ DOMAIN topic[p] = 1..Len(topic[p])
  BY <1>2
<1>5. /\ DOMAIN topic'[p] = 1..(Len(topic[p]) + 1)
      /\ \A i \in 1..Len(topic[p]) : topic'[p][i] = topic[p][i]
      /\ topic'[p][Len(topic[p]) + 1] = e
  BY <1>2, <1>4
<1>6. ASSUME NEW f \in Event
      PROVE  Copies(f)' # {} <=> Copies(f) # {} \/ f = e
  <2>1. Where(f) \in Partition
    BY PartitionAssumption DEF Where
  <2>2. CASE Where(f) = p
    <3>1. Copies(f) = {i \in 1..Len(topic[p]) : topic[p][i] = f}
      BY <2>2, <1>4 DEF Copies
    <3>2. Copies(f)' = {i \in 1..(Len(topic[p]) + 1) : topic'[p][i] = f}
      BY <2>2, <1>5 DEF Copies, Where
    <3> HIDE DEF p
    <3>3. f = e => Len(topic[p]) + 1 \in Copies(f)'
      BY <3>2, <1>4, <1>5
    <3>4. \A i \in Copies(f) : i \in Copies(f)'
      BY <3>1, <3>2, <1>4, <1>5
    <3>5. \A i \in Copies(f)' : i \in Copies(f) \/ f = e
      BY <3>1, <3>2, <1>4, <1>5
    <3> QED BY <3>3, <3>4, <3>5
  <2>3. CASE Where(f) # p
    <3>1. topic'[Where(f)] = topic[Where(f)]
      BY <2>1, <2>3, <1>3
    <3>2. Copies(f)' = Copies(f)
      BY <3>1 DEF Copies, Where
    <3>3. f # e
      BY <2>3
    <3> QED BY <3>2, <3>3
  <2> QED BY <2>2, <2>3
<1> QED BY <1>6 DEF Arrived

-----------------------------------------------------------------------------
(* Types.                                                                  *)

LEMMA InitTyped == Init => TypeOK
BY BoundAssumption DEF Init, TypeOK, Label

LEMMA AppendTyped ==
  ASSUME TypeOK, NEW e \in Event, AppendRecord(e)
  PROVE  topic' \in [Partition -> Seq(Event)]
<1>1. Where(e) \in Partition
  BY PartitionAssumption DEF Where
<1>2. Append(topic[Where(e)], e) \in Seq(Event)
  BY <1>1 DEF TypeOK
<1> QED BY <1>1, <1>2 DEF TypeOK, AppendRecord

LEMMA AbandonTyped ==
  ASSUME TypeOK, NEW r \in Copy, Fault, Abandon(r)
  PROVE  /\ faults' \in 1..MaxFaults
         /\ sending' \in [Copy -> SUBSET Event]
         /\ late' \in [1..MaxFaults -> SUBSET Event]
<1>1. faults' \in 1..MaxFaults
  BY BoundAssumption DEF TypeOK, Fault
<1> QED BY <1>1 DEF TypeOK, Abandon

LEMMA TypeStep == TypeOK /\ [Next]_vars => TypeOK'
<1> SUFFICES ASSUME TypeOK, [Next]_vars PROVE TypeOK'
  OBVIOUS
<1> USE DEF TypeOK, Label
<1>1. CASE UNCHANGED vars
  BY <1>1
<1>2. ASSUME NEW t \in Transaction, Post(t) PROVE TypeOK'
  BY <1>2, EventAssumption DEF Post
<1>3. ASSUME NEW r \in Copy, BatchStep(r) PROVE TypeOK'
  <2>1. CASE TryLockOutbox(r)
    BY <2>1 DEF TryLockOutbox
  <2>2. CASE GetUnpublishedOutboxEvents(r)
    BY <2>2 DEF GetUnpublishedOutboxEvents, Unpublished, FirstOf
  <2>3. CASE Publish(r)
    BY <2>3 DEF Publish
  <2>4. CASE Acknowledge(r)
    BY <2>4 DEF Acknowledge
  <2>5. CASE MarkOutboxEventsPublished(r)
    BY <2>5 DEF MarkOutboxEventsPublished
  <2>6. CASE Commit(r)
    BY <2>6 DEF Commit
  <2>7. CASE Disconnected(r)
    BY <2>7 DEF Disconnected
  <2> QED BY <1>3, <2>1, <2>2, <2>3, <2>4, <2>5, <2>6, <2>7 DEF BatchStep
<1>4. ASSUME NEW r \in Copy, NEW e \in Event, Arrive(r, e) PROVE TypeOK'
  BY <1>4, AppendTyped DEF Arrive
<1>5. ASSUME NEW n \in 1..MaxFaults, NEW e \in Event, ArriveLate(n, e) PROVE TypeOK'
  BY <1>5, AppendTyped DEF ArriveLate
<1>6. ASSUME NEW n \in 1..MaxFaults, NEW p \in Partition, Lose(n, p) PROVE TypeOK'
  BY <1>6 DEF Lose
<1>7. ASSUME NEW r \in Copy, Failure(r) PROVE TypeOK'
  <2>1. CASE Fail(r)
    BY <2>1, AbandonTyped DEF Fail, Unlock
  <2>2. CASE Crash(r)
    BY <2>2, AbandonTyped DEF Crash
  <2>3. CASE SessionLost(r)
    BY <2>3, BoundAssumption DEF SessionLost, Fault
  <2>4. CASE CommitTimeout(r)
    BY <2>4, BoundAssumption DEF CommitTimeout, Fault
  <2> QED BY <1>7, <2>1, <2>2, <2>3, <2>4 DEF Failure
<1>8. CASE Settling
  BY <1>8 DEF Settling, UnsettledCommits, UnsettledRollsBack
<1> QED BY <1>1, <1>2, <1>3, <1>4, <1>5, <1>6, <1>7, <1>8
       DEF Next, Delivery, LateDelivery

-----------------------------------------------------------------------------
(* The inductive invariant.                                                *)

LEMMA InitInvariant == Init => IInv
<1> SUFFICES ASSUME Init PROVE IInv
  OBVIOUS
<1>1. TypeOK
  BY InitTyped
<1>2. BatchInv
  BY EmptyGapless DEF Init, BatchInv, BatchOf, Gapless
<1>3. LateInv
  BY EmptyGapless DEF Init, LateInv, Gapless
<1>4. UnsettledInv /\ NothingLost
  BY DEF Init, UnsettledInv, NothingLost
<1> QED BY <1>1, <1>2, <1>3, <1>4 DEF IInv

(* What a step leaves alone of the copies keeps its part of the invariant, *)
(* as long as no row becomes visible.                                      *)
Progress == UNCHANGED outbox /\ Arrived \subseteq Arrived'

LEMMA GaplessFrame ==
  ASSUME Progress, NEW S, Gapless(S)
  PROVE  GaplessIn(S, outbox', Arrived')
BY ArrivalKeepsGapless DEF Progress, Gapless

CopyKept(s) == pc'[s] = pc[s] /\ batch'[s] = batch[s] /\ sending'[s] = sending[s]

LEMMA CopyFrame ==
  ASSUME Progress, NEW s \in Copy, BatchOf(s), CopyKept(s)
  PROVE  BatchOf(s)'
<1>1. pc[s] = "publish" => GaplessIn(batch[s], outbox', Arrived')
  BY GaplessFrame DEF BatchOf
<1>2. GaplessIn(sending[s], outbox', Arrived')
  BY GaplessFrame DEF BatchOf
<1>3. (pc[s] = "publish" => Gapless(batch[s]))' /\ Gapless(sending[s])'
  BY <1>1, <1>2 DEF CopyKept, Gapless
<1>4. Arrived \subseteq Arrived'
  BY DEF Progress
<1> QED BY <1>3, <1>4 DEF BatchOf, CopyKept

LEMMA LateFrame ==
  ASSUME Progress, NEW n \in 1..MaxFaults, Gapless(late[n]), late'[n] = late[n]
  PROVE  Gapless(late[n])'
BY GaplessFrame DEF Gapless

LEMMA MarksFrame ==
  ASSUME Progress, UnsettledInv, NothingLost, UNCHANGED <<published, unsettled>>
  PROVE  UnsettledInv' /\ NothingLost'
BY DEF Progress, UnsettledInv, NothingLost

LEMMA LatePartKept ==
  ASSUME Progress, LateInv, UNCHANGED late
  PROVE  LateInv'
BY LateFrame DEF LateInv

(* The steps of a batch: no record moves.                                  *)
LEMMA BatchStepInvariant ==
  ASSUME IInv, NEW r \in Copy, BatchStep(r)
  PROVE  BatchInv' /\ LateInv' /\ UnsettledInv' /\ NothingLost'
<1> USE DEF IInv
<1>1. UNCHANGED <<outbox, unsettled, topic, late>>
  BY DEF BatchStep, TryLockOutbox, GetUnpublishedOutboxEvents, Publish, Acknowledge,
         MarkOutboxEventsPublished, Commit, Disconnected
<1>2. Arrived' = Arrived
  BY <1>1, ArrivedKept
<1>3. Progress
  BY <1>1, <1>2 DEF Progress
<1>4. ASSUME NEW s \in Copy \ {r} PROVE BatchOf(s)'
  <2>1. CopyKept(s)
    BY DEF CopyKept, TypeOK, BatchStep, TryLockOutbox, GetUnpublishedOutboxEvents, Publish,
           Acknowledge, MarkOutboxEventsPublished, Commit, Disconnected
  <2> QED BY <1>3, <2>1, CopyFrame DEF BatchInv
<1>5. BatchOf(r)
  BY DEF BatchInv
<1>6. sending'[r] = sending[r] => Gapless(sending[r])'
  BY <1>1, <1>2, <1>5 DEF BatchOf, Gapless
<1>7. BatchOf(r)'
  <2>1. CASE TryLockOutbox(r)
    BY <2>1, <1>6 DEF TryLockOutbox, BatchOf, TypeOK
  <2>2. CASE GetUnpublishedOutboxEvents(r)
    <3>1. batch'[r] = Unpublished /\ sending'[r] = sending[r]
      BY <2>2 DEF GetUnpublishedOutboxEvents, TypeOK
    <3>2. pc'[r] = IF Unpublished = {} THEN "commit" ELSE "publish"
      BY <2>2 DEF GetUnpublishedOutboxEvents, TypeOK
    <3>3. Gapless(batch[r])'
      BY <3>1, <1>1, <1>2, BatchGapless DEF Gapless
    <3> QED BY <3>1, <3>2, <3>3, <1>6 DEF BatchOf
  <2>3. CASE Publish(r)
    <3>1. batch'[r] = batch[r] /\ sending'[r] = batch[r] /\ pc'[r] = "await" /\ pc[r] = "publish"
      BY <2>3 DEF Publish, TypeOK
    <3>2. Gapless(sending[r])'
      BY <3>1, <1>1, <1>2, <1>5 DEF BatchOf, Gapless
    <3> QED BY <3>1, <3>2 DEF BatchOf
  <2>4. CASE Acknowledge(r)
    BY <2>4, <1>2, <1>5, <1>6 DEF Acknowledge, BatchOf, TypeOK
  <2>5. CASE MarkOutboxEventsPublished(r)
    BY <2>5, <1>2, <1>5, <1>6 DEF MarkOutboxEventsPublished, BatchOf, TypeOK
  <2>6. CASE Commit(r)
    BY <2>6, <1>6 DEF Commit, BatchOf, TypeOK
  <2>7. CASE Disconnected(r)
    BY <2>7, <1>6 DEF Disconnected, BatchOf, TypeOK
  <2> QED BY <2>1, <2>2, <2>3, <2>4, <2>5, <2>6, <2>7 DEF BatchStep
<1>8. BatchInv'
  BY <1>4, <1>7 DEF BatchInv
<1>9. UnsettledInv'
  BY <1>1, <1>2 DEF UnsettledInv
<1>10. NothingLost'
  <2>1. CASE Commit(r)
    BY <2>1, <1>2, <1>5 DEF Commit, BatchOf, NothingLost
  <2>2. CASE ~Commit(r)
    <3>1. UNCHANGED published
      BY <2>2 DEF BatchStep, TryLockOutbox, GetUnpublishedOutboxEvents, Publish, Acknowledge,
                  MarkOutboxEventsPublished, Disconnected
    <3> QED BY <3>1, <1>2 DEF NothingLost
  <2> QED BY <2>1, <2>2
<1> QED BY <1>1, <1>3, <1>8, <1>9, <1>10, LatePartKept

(* The broker appends a record, or a lost batch shrinks.                   *)
LEMMA ArriveInvariant ==
  ASSUME IInv, NEW r \in Copy, NEW e \in Event, Arrive(r, e)
  PROVE  BatchInv' /\ LateInv' /\ UnsettledInv' /\ NothingLost'
<1> USE DEF IInv
<1>1. Arrived' = Arrived \cup {e}
  BY ArrivedGrows DEF Arrive
<1>2. UNCHANGED <<outbox, published, unsettled, late>>
  BY DEF Arrive
<1>3. Progress
  BY <1>1, <1>2 DEF Progress
<1>4. ASSUME NEW s \in Copy \ {r} PROVE BatchOf(s)'
  <2>1. CopyKept(s)
    BY DEF CopyKept, TypeOK, Arrive
  <2> QED BY <1>3, <2>1, CopyFrame DEF BatchInv
<1>5. BatchOf(r)'
  <2>1. sending'[r] = sending[r] \ {e} /\ pc'[r] = pc[r] /\ batch'[r] = batch[r]
    BY DEF Arrive, TypeOK
  <2>2. BatchOf(r)
    BY DEF BatchInv
  <2>3. Gapless(sending[r])'
    <3>1. GaplessIn(sending[r], outbox, Arrived)
      BY <2>2 DEF BatchOf, Gapless
    <3>2. GaplessIn(sending[r] \ {e}, outbox, Arrived \cup {e})
      BY <3>1, RemovalKeepsGapless
    <3> QED BY <3>2, <2>1, <1>1, <1>2 DEF Gapless
  <2>4. pc[r] = "publish" => GaplessIn(batch[r], outbox', Arrived')
    BY <2>2, <1>3, GaplessFrame DEF BatchOf
  <2>5. (pc[r] = "publish" => Gapless(batch[r]))'
    BY <2>1, <2>4 DEF Gapless
  <2> QED BY <2>1, <2>2, <2>3, <2>5, <1>1 DEF BatchOf
<1>6. BatchInv'
  BY <1>4, <1>5 DEF BatchInv
<1> QED BY <1>2, <1>3, <1>6, LatePartKept, MarksFrame

LEMMA LateInvariant ==
  ASSUME IInv, NEW n \in 1..MaxFaults, LateDelivery(n)
  PROVE  BatchInv' /\ LateInv' /\ UnsettledInv' /\ NothingLost'
<1> USE DEF IInv
<1>1. UNCHANGED <<outbox, published, unsettled, copies>>
  BY DEF LateDelivery, ArriveLate, Lose
<1>2. /\ Progress
      /\ \A m \in 1..MaxFaults \ {n} : late'[m] = late[m]
      /\ Gapless(late[n])'
  <2>1. Gapless(late[n])
    BY DEF LateInv
  <2>2. ASSUME NEW e \in Event, ArriveLate(n, e)
        PROVE  /\ Progress
               /\ \A m \in 1..MaxFaults \ {n} : late'[m] = late[m]
               /\ Gapless(late[n])'
    <3>1. Arrived' = Arrived \cup {e}
      BY <2>2, ArrivedGrows DEF ArriveLate
    <3>2. late'[n] = late[n] \ {e} /\ \A m \in 1..MaxFaults \ {n} : late'[m] = late[m]
      BY <2>2 DEF ArriveLate, TypeOK
    <3>3. GaplessIn(late[n] \ {e}, outbox, Arrived \cup {e})
      BY <2>1, RemovalKeepsGapless DEF Gapless
    <3>4. Gapless(late[n])'
      BY <3>1, <3>2, <3>3, <1>1 DEF Gapless
    <3> QED BY <3>1, <3>2, <3>4, <1>1 DEF Progress
  <2>3. ASSUME NEW p \in Partition, Lose(n, p)
        PROVE  /\ Progress
               /\ \A m \in 1..MaxFaults \ {n} : late'[m] = late[m]
               /\ Gapless(late[n])'
    <3>1. Arrived' = Arrived
      BY <2>3, ArrivedKept DEF Lose
    <3>2. /\ late'[n] = {e \in late[n] : Where(e) # p}
          /\ \A m \in 1..MaxFaults \ {n} : late'[m] = late[m]
      BY <2>3 DEF Lose, TypeOK
    <3>3. GaplessIn({e \in late[n] : Where(e) # p}, outbox, Arrived)
      BY <2>1, LossKeepsGapless DEF Gapless
    <3>4. Gapless(late[n])'
      BY <3>1, <3>2, <3>3, <1>1 DEF Gapless
    <3> QED BY <3>1, <3>2, <3>4, <1>1 DEF Progress
  <2> QED BY <2>2, <2>3 DEF LateDelivery
<1>3. \A m \in 1..MaxFaults \ {n} : Gapless(late[m])'
  BY <1>2, LateFrame DEF LateInv
<1>4. LateInv'
  BY <1>2, <1>3 DEF LateInv
<1>5. \A s \in Copy : BatchOf(s)'
  <2> TAKE s \in Copy
  <2>1. CopyKept(s)
    BY <1>1 DEF CopyKept
  <2> QED BY <2>1, <1>2, CopyFrame DEF BatchInv
<1> QED BY <1>1, <1>2, <1>4, <1>5, MarksFrame DEF BatchInv

(* A copy fails: what it was sending is late from now on.                  *)
LEMMA FailureInvariant ==
  ASSUME IInv, TypeOK', NEW r \in Copy, Failure(r)
  PROVE  BatchInv' /\ LateInv' /\ UnsettledInv' /\ NothingLost'
<1> USE DEF IInv
<1>1. UNCHANGED <<outbox, published, topic>>
  BY DEF Failure, Fail, Crash, SessionLost, CommitTimeout
<1>2. Arrived' = Arrived
  BY <1>1, ArrivedKept
<1>3. Progress
  BY <1>1, <1>2 DEF Progress
<1>4. BatchOf(r)
  BY DEF BatchInv
<1>5. ASSUME NEW s \in Copy \ {r} PROVE BatchOf(s)'
  <2>1. CopyKept(s)
    BY DEF CopyKept, TypeOK, Failure, Fail, Crash, SessionLost, CommitTimeout, Abandon
  <2> QED BY <1>3, <2>1, CopyFrame DEF BatchInv
<1>6. CASE Fail(r) \/ Crash(r)
  <2>1. Fault /\ Abandon(r) /\ pc'[r] \in {"idle", "down"} /\ UNCHANGED unsettled
    BY <1>6 DEF Fail, Crash, TypeOK
  <2>2. faults' \in 1..MaxFaults
    BY <2>1, AbandonTyped
  <2>3. sending'[r] = {}
    BY <2>1 DEF Abandon, TypeOK
  <2>4. BatchOf(r)'
    BY <2>1, <2>3, EmptyGapless DEF BatchOf, Gapless
  <2>5. ASSUME NEW m \in 1..MaxFaults PROVE Gapless(late[m])'
    <3>1. CASE m = faults'
      <4>1. late'[m] = sending[r]
        BY <2>1, <3>1 DEF Abandon, TypeOK
      <4> QED BY <4>1, <1>1, <1>2, <1>4 DEF BatchOf, Gapless
    <3>2. CASE m # faults'
      <4>1. late'[m] = late[m]
        BY <2>1, <3>2 DEF Abandon, TypeOK
      <4> QED BY <4>1, <1>3, LateFrame DEF LateInv
    <3> QED BY <3>1, <3>2
  <2> QED BY <1>1, <1>3, <1>5, <2>1, <2>4, <2>5, MarksFrame DEF BatchInv, LateInv
<1>7. CASE SessionLost(r)
  <2>1. CopyKept(r) /\ UNCHANGED <<late, unsettled>>
    BY <1>7 DEF SessionLost, CopyKept
  <2>2. BatchOf(r)'
    BY <2>1, <1>3, <1>4, CopyFrame
  <2> QED BY <1>1, <1>3, <1>5, <2>1, <2>2, LatePartKept, MarksFrame DEF BatchInv
<1>8. CASE CommitTimeout(r)
  <2>1. /\ pc[r] = "commit" /\ pc'[r] = "idle" /\ sending'[r] = sending[r]
        /\ UNCHANGED late /\ unsettled' = unsettled \cup {batch[r]}
    BY <1>8 DEF CommitTimeout, TypeOK
  <2>2. BatchOf(r)'
    BY <2>1, <1>1, <1>2, <1>4 DEF BatchOf, Gapless
  <2>3. UnsettledInv'
    BY <2>1, <1>2, <1>4 DEF UnsettledInv, BatchOf
  <2>4. NothingLost'
    BY <1>1, <1>2 DEF NothingLost
  <2> QED BY <1>3, <1>5, <2>1, <2>2, <2>3, <2>4, LatePartKept DEF BatchInv
<1> QED BY <1>6, <1>7, <1>8 DEF Failure

LEMMA PostInvariant ==
  ASSUME IInv, NEW t \in Transaction, Post(t)
  PROVE  BatchInv' /\ LateInv' /\ UnsettledInv' /\ NothingLost'
<1> USE DEF IInv
<1>1. /\ outbox' = outbox \cup t
      /\ UNCHANGED <<published, unsettled, copies, broker>>
  BY DEF Post
<1>2. Arrived' = Arrived
  BY <1>1, ArrivedKept
<1>3. ASSUME NEW S, Gapless(S) PROVE GaplessIn(S, outbox', Arrived')
  <2>1. outbox \in SUBSET Event /\ t \in SUBSET Event
    BY EventAssumption DEF TypeOK
  <2>2. \A e \in t, f \in outbox : AccountOf[e] = AccountOf[f] => f < e
    BY DEF Post, InIdOrder
  <2>3. GaplessIn(S, outbox \cup t, Arrived)
    BY <1>3, <2>1, <2>2, PostKeepsGapless DEF Gapless
  <2> QED BY <2>3, <1>1, <1>2
<1>4. ASSUME NEW r \in Copy PROVE BatchOf(r)'
  <2>1. BatchOf(r)
    BY DEF BatchInv
  <2>2. pc[r] = "publish" => GaplessIn(batch[r], outbox', Arrived')
    BY <2>1, <1>3 DEF BatchOf
  <2>3. GaplessIn(sending[r], outbox', Arrived')
    BY <2>1, <1>3 DEF BatchOf
  <2>4. (pc[r] = "publish" => Gapless(batch[r]))' /\ Gapless(sending[r])'
    BY <2>2, <2>3, <1>1 DEF Gapless
  <2> QED BY <2>1, <2>4, <1>1, <1>2 DEF BatchOf
<1>5. ASSUME NEW n \in 1..MaxFaults PROVE Gapless(late[n])'
  <2>1. GaplessIn(late[n], outbox', Arrived')
    BY <1>3 DEF LateInv
  <2> QED BY <2>1, <1>1 DEF Gapless
<1> QED BY <1>1, <1>2, <1>4, <1>5 DEF BatchInv, LateInv, UnsettledInv, NothingLost

LEMMA SettlingInvariant ==
  ASSUME IInv, Settling
  PROVE  BatchInv' /\ LateInv' /\ UnsettledInv' /\ NothingLost'
<1> USE DEF IInv
<1>1. UNCHANGED <<outbox, copies, topic, late>>
  BY DEF Settling, UnsettledCommits, UnsettledRollsBack
<1>2. Arrived' = Arrived
  BY <1>1, ArrivedKept
<1>3. Progress
  BY <1>1, <1>2 DEF Progress
<1>4. BatchInv'
  BY <1>1, <1>3, CopyFrame DEF BatchInv, CopyKept
<1>5. UnsettledInv' /\ NothingLost'
  BY <1>2 DEF Settling, UnsettledCommits, UnsettledRollsBack, UnsettledInv, NothingLost
<1> QED BY <1>1, <1>3, <1>4, <1>5, LatePartKept

LEMMA InvStep == IInv /\ [Next]_vars => IInv'
<1> SUFFICES ASSUME IInv, [Next]_vars PROVE IInv'
  OBVIOUS
<1> DEFINE Kept == BatchInv' /\ LateInv' /\ UnsettledInv' /\ NothingLost'
<1>1. TypeOK'
  BY TypeStep DEF IInv
<1>2. ASSUME UNCHANGED vars PROVE Kept
  <2>1. Arrived' = Arrived
    BY <1>2, ArrivedKept
  <2>2. Progress
    BY <1>2, <2>1 DEF Progress
  <2>3. BatchInv'
    BY <1>2, <2>2, CopyFrame DEF IInv, BatchInv, CopyKept
  <2>4. LateInv'
    BY <1>2, <2>2, LatePartKept DEF IInv
  <2>5. UnsettledInv' /\ NothingLost'
    BY <1>2, <2>2, MarksFrame DEF IInv
  <2> QED BY <2>3, <2>4, <2>5
<1>3. ASSUME NEW t \in Transaction, Post(t) PROVE Kept
  BY <1>3, PostInvariant
<1>4. ASSUME NEW r \in Copy, BatchStep(r) PROVE Kept
  BY <1>4, BatchStepInvariant
<1>5. ASSUME NEW r \in Copy, Delivery(r) PROVE Kept
  BY <1>5, ArriveInvariant DEF Delivery
<1>6. ASSUME NEW r \in Copy, Failure(r) PROVE Kept
  BY <1>1, <1>6, FailureInvariant
<1>7. ASSUME NEW n \in 1..MaxFaults, LateDelivery(n) PROVE Kept
  BY <1>7, LateInvariant
<1>8. ASSUME Settling PROVE Kept
  BY <1>8, SettlingInvariant
<1> HIDE DEF Kept
<1>9. Kept
  BY <1>2, <1>3, <1>4, <1>5, <1>6, <1>7, <1>8 DEF Next
<1> QED BY <1>1, <1>9 DEF IInv, Kept

(* The inductive invariant holds in every reachable state: what may still  *)
(* be sent leaves no gap, and marks follow acknowledgements (publishBatch).*)
THEOREM Invariant == Spec => []IInv
<1>1. IInv /\ [Next]_vars => IInv'
  BY InvStep
<1> QED BY InitInvariant, <1>1, PTL DEF Spec

(* An event that is marked as published is in the topic, for any number of *)
(* copies of the relay and any number of failures (publishBatch).          *)
THEOREM MarkedHasArrived == Spec => []NothingLost
<1>1. IInv => NothingLost
  BY DEF IInv
<1> QED BY Invariant, <1>1, PTL

-----------------------------------------------------------------------------
(* The refinement.                                                         *)

(* The next record of a set without gaps may be announced: what precedes   *)
(* it in its account has arrived.                                          *)
LEMMA NextMayArrive ==
  ASSUME TypeOK, NEW S, Gapless(S), NEW e \in S, NextOf(e, S),
         NEW f \in outbox, AccountOf[f] = AccountOf[e], f < e
  PROVE  f \in Arrived
<1>1. e \in Nat /\ f \in Nat
  BY EventAssumption DEF TypeOK, Gapless, GaplessIn
<1>2. f \in S => e <= f
  BY DEF NextOf, Where
<1>3. f \notin S
  BY <1>1, <1>2
<1> QED BY <1>3 DEF Gapless, GaplessIn

LEMMA ArrivalAnnounces ==
  ASSUME TypeOK, NEW S, Gapless(S), NEW e \in S, NextOf(e, S), AppendRecord(e),
         UNCHANGED outbox
  PROVE  [FirstCopies!Next]_FirstCopies!vars
<1>1. e \in Event /\ e \in outbox
  BY DEF TypeOK, Gapless, GaplessIn
<1>2. Arrived' = Arrived \cup {e}
  BY <1>1, ArrivedGrows
<1>3. CASE e \in Arrived
  BY <1>2, <1>3 DEF FirstCopies!vars
<1>4. CASE e \notin Arrived
  <2>1. \A f \in outbox : AccountOf[f] = AccountOf[e] /\ f < e => f \in Arrived
    BY NextMayArrive
  <2>2. FirstCopies!Announce(e)
    BY <1>1, <1>2, <1>4, <2>1 DEF FirstCopies!Announce
  <2> QED BY <1>1, <2>2 DEF FirstCopies!Next
<1> QED BY <1>3, <1>4

LEMMA FeedStep ==
  ASSUME IInv, [Next]_vars
  PROVE  [FirstCopies!Next]_FirstCopies!vars
<1> USE DEF IInv
<1> DEFINE Quiet == UNCHANGED <<outbox, topic>>
<1>1. ASSUME Quiet PROVE [FirstCopies!Next]_FirstCopies!vars
  BY <1>1, ArrivedKept DEF FirstCopies!vars
<1>2. CASE UNCHANGED vars
  BY <1>1, <1>2
<1>3. ASSUME NEW t \in Transaction, Post(t) PROVE [FirstCopies!Next]_FirstCopies!vars
  <2>1. FirstCopies!Post(t)
    BY <1>3, ArrivedKept DEF Post, InIdOrder, FirstCopies!Post, FirstCopies!InIdOrder
  <2> QED BY <2>1 DEF FirstCopies!Next
<1>4. ASSUME NEW r \in Copy, BatchStep(r) PROVE [FirstCopies!Next]_FirstCopies!vars
  <2>1. Quiet
    BY <1>4 DEF BatchStep, TryLockOutbox, GetUnpublishedOutboxEvents, Publish, Acknowledge,
                MarkOutboxEventsPublished, Commit, Disconnected
  <2> QED BY <1>1, <2>1
<1>5. ASSUME NEW r \in Copy, NEW e \in Event, Arrive(r, e)
      PROVE  [FirstCopies!Next]_FirstCopies!vars
  <2>1. Gapless(sending[r])
    BY DEF BatchInv, BatchOf
  <2> QED BY <1>5, <2>1, ArrivalAnnounces DEF Arrive
<1>6. ASSUME NEW n \in 1..MaxFaults, LateDelivery(n)
      PROVE  [FirstCopies!Next]_FirstCopies!vars
  <2>1. Gapless(late[n])
    BY DEF LateInv
  <2>2. ASSUME NEW e \in Event, ArriveLate(n, e) PROVE [FirstCopies!Next]_FirstCopies!vars
    BY <2>1, <2>2, ArrivalAnnounces DEF ArriveLate
  <2>3. ASSUME NEW p \in Partition, Lose(n, p) PROVE [FirstCopies!Next]_FirstCopies!vars
    BY <2>3, <1>1 DEF Lose
  <2> QED BY <1>6, <2>2, <2>3 DEF LateDelivery
<1>7. ASSUME NEW r \in Copy, Failure(r) PROVE [FirstCopies!Next]_FirstCopies!vars
  <2>1. Quiet
    BY <1>7 DEF Failure, Fail, Crash, SessionLost, CommitTimeout
  <2> QED BY <1>1, <2>1
<1>8. CASE Settling
  <2>1. Quiet
    BY <1>8 DEF Settling, UnsettledCommits, UnsettledRollsBack
  <2> QED BY <1>1, <2>1
<1> HIDE DEF Quiet
<1> QED BY <1>2, <1>3, <1>4, <1>5, <1>6, <1>7, <1>8 DEF Next, Delivery

(* The relay implements Feed: a reader who drops repeated events gets the  *)
(* events of every account in the order of their ids, although batches of  *)
(* several copies may cross, arrive late or get lost (publishBatch).       *)
THEOREM Refinement == Spec => ImplementsFeed
<1>1. Init => FirstCopies!Init
  <2> SUFFICES ASSUME Init PROVE outbox = {} /\ Arrived = {}
    BY DEF FirstCopies!Init
  <2>1. \A e \in Event : topic[Where(e)] = <<>>
    BY PartitionAssumption DEF Init, Where
  <2> QED BY <2>1 DEF Init, Arrived, Copies
<1>2. IInv /\ [Next]_vars => [FirstCopies!Next]_FirstCopies!vars
  BY FeedStep
<1> QED BY Invariant, <1>1, <1>2, PTL DEF Spec, ImplementsFeed, FirstCopies!Spec

(* The type invariant, for every set of copies and every batch size.       *)
THEOREM TypeCorrect == Spec => []TypeOK
<1>1. IInv => TypeOK
  BY DEF IInv
<1> QED BY <1>1, Invariant, PTL

-----------------------------------------------------------------------------
(* How often an event is sent.                                             *)

LEMMA CopiesKept ==
  ASSUME NEW e, UNCHANGED topic
  PROVE  Copies(e)' = Copies(e)
BY DEF Copies, Where

LEMMA CopiesAppended ==
  ASSUME TypeOK, NEW e \in Event, NEW x \in Event, AppendRecord(x)
  PROVE  /\ e # x => Copies(e)' = Copies(e)
         /\ e = x => \E i : Copies(e)' = Copies(e) \cup {i}
<1> DEFINE p == Where(e)  n == Len(topic[p])
<1>1. p \in Partition /\ Where(x) \in Partition /\ Where(e)' = p
  BY PartitionAssumption DEF Where
<1>2. CASE Where(x) = p
  <2>1. topic[p] \in Seq(Event) /\ topic'[p] = Append(topic[p], x)
    BY <1>1, <1>2 DEF TypeOK, AppendRecord
  <2>2. /\ DOMAIN topic'[p] = (DOMAIN topic[p]) \cup {n + 1} /\ topic'[p][n + 1] = x
        /\ \A i \in DOMAIN topic[p] : topic'[p][i] = topic[p][i]
    BY <2>1
  <2>3. Copies(e) = {i \in DOMAIN topic[p] : topic[p][i] = e}
        /\ Copies(e)' = {i \in DOMAIN topic'[p] : topic'[p][i] = e}
    BY <1>1 DEF Copies
  <2> HIDE DEF p, n
  <2>4. e # x => Copies(e)' = Copies(e)
    BY <2>2, <2>3
  <2>5. e = x => Copies(e)' = Copies(e) \cup {n + 1}
    BY <2>2, <2>3
  <2> QED BY <2>4, <2>5
<1>3. CASE Where(x) # p
  <2>1. topic'[p] = topic[p] /\ e # x
    BY <1>1, <1>3 DEF TypeOK, AppendRecord
  <2> QED BY <1>1, <2>1 DEF Copies
<1> QED BY <1>2, <1>3

LEMMA CountsTyped ==
  ASSUME TypeOK, NEW e \in Event
  PROVE  /\ IsFiniteSet(Copies(e)) /\ IsFiniteSet(Delayed(e))
         /\ Cardinality(Copies(e)) \in Nat /\ Cardinality(Delayed(e)) \in Nat
         /\ faults \in Nat
<1>1. Where(e) \in Partition
  BY PartitionAssumption DEF Where
<1>2. topic[Where(e)] \in Seq(Event)
  BY <1>1 DEF TypeOK
<1>3. Copies(e) \in SUBSET (1..Len(topic[Where(e)])) /\ Len(topic[Where(e)]) \in Nat
  BY <1>2 DEF Copies
<1>4. IsFiniteSet(1..Len(topic[Where(e)])) /\ IsFiniteSet(1..MaxFaults)
  BY <1>3, BoundAssumption, FS_Interval
<1>5. IsFiniteSet(Copies(e))
  BY <1>3, <1>4, FS_Subset
<1>6. Delayed(e) \in SUBSET (1..MaxFaults)
  BY DEF Delayed
<1>7. IsFiniteSet(Delayed(e))
  BY <1>4, <1>6, FS_Subset
<1> QED BY <1>5, <1>7, FS_CardinalityType, BoundAssumption DEF TypeOK

LEMMA AddOne ==
  ASSUME NEW S, IsFiniteSet(S), NEW T, NEW x, T \subseteq S \cup {x}
  PROVE  /\ IsFiniteSet(T) /\ Cardinality(T) \in Nat
         /\ Cardinality(T) <= Cardinality(S) + 1
<1>1. Cardinality(S) \in Nat
  BY FS_CardinalityType
<1>2. IsFiniteSet(S \cup {x})
      /\ Cardinality(S \cup {x}) = IF x \in S THEN Cardinality(S) ELSE Cardinality(S) + 1
  BY FS_AddElement
<1>3. IsFiniteSet(T) /\ Cardinality(T) <= Cardinality(S \cup {x})
  BY <1>2, FS_Subset
<1>4. Cardinality(T) \in Nat
  BY <1>3, FS_CardinalityType
<1> QED BY <1>1, <1>2, <1>3, <1>4

LEMMA RemoveOne ==
  ASSUME NEW S, IsFiniteSet(S), NEW T, NEW x \in S, T \subseteq S \ {x}
  PROVE  /\ IsFiniteSet(T) /\ Cardinality(T) \in Nat
         /\ Cardinality(T) + 1 <= Cardinality(S)
<1>1. Cardinality(S) \in Nat
  BY FS_CardinalityType
<1>2. IsFiniteSet(S \ {x}) /\ Cardinality(S \ {x}) = Cardinality(S) - 1
  BY FS_RemoveElement
<1>3. IsFiniteSet(T) /\ Cardinality(T) <= Cardinality(S \ {x})
  BY <1>2, FS_Subset
<1>4. Cardinality(T) \in Nat
  BY <1>3, FS_CardinalityType
<1> QED BY <1>1, <1>2, <1>3, <1>4

LEMMA Fewer ==
  ASSUME NEW S, IsFiniteSet(S), NEW T, T \subseteq S
  PROVE  /\ IsFiniteSet(T) /\ Cardinality(T) \in Nat /\ Cardinality(S) \in Nat
         /\ Cardinality(T) <= Cardinality(S)
BY FS_Subset, FS_CardinalityType

(* No copy more of e is sent, and whoever could keep the others from e     *)
(* still does, or a fault is to blame.                                     *)
LEMMA NoCopyMore ==
  ASSUME TypeOK, TypeOK', NEW e \in Event, CopiesOf(e), Copies(e)' = Copies(e),
         Senders(e)' \subseteq Senders(e), Delayed(e)' \subseteq Delayed(e),
         faults' = faults \/ faults' = faults + 1,
         Taken(e) => Taken(e)' \/ faults' = faults + 1
  PROVE  CopiesOf(e)'
<1>1. /\ IsFiniteSet(Senders(e)) /\ IsFiniteSet(Delayed(e))
      /\ Cardinality(Copies(e)) \in Nat /\ faults \in Nat
  BY CountsTyped DEF CopiesOf
<1>2. /\ IsFiniteSet(Senders(e)') /\ Cardinality(Senders(e)') <= Cardinality(Senders(e))
      /\ Cardinality(Senders(e)') \in Nat /\ Cardinality(Senders(e)) \in Nat
  BY <1>1, Fewer
<1>3. /\ Cardinality(Delayed(e)') <= Cardinality(Delayed(e))
      /\ Cardinality(Delayed(e)') \in Nat /\ Cardinality(Delayed(e)) \in Nat
  BY <1>1, Fewer
<1>4. Cardinality(Copies(e)) + Cardinality(Senders(e)) + Cardinality(Delayed(e))
        <= faults + (IF Taken(e) THEN 1 ELSE 0)
  BY DEF CopiesOf
<1>5. Cardinality(Copies(e)') + Cardinality(Senders(e)') + Cardinality(Delayed(e)')
        <= faults' + (IF Taken(e)' THEN 1 ELSE 0)
  BY <1>1, <1>2, <1>3, <1>4
<1> QED BY <1>2, <1>5 DEF CopiesOf

(* A copy that reads e becomes the one who has it.                         *)
LEMMA OneMoreSender ==
  ASSUME TypeOK, TypeOK', NEW e \in Event, CopiesOf(e), UNCHANGED <<topic, late, faults>>,
         NEW r \in Copy, Senders(e)' \subseteq Senders(e) \cup {r}, ~Taken(e), Taken(e)'
  PROVE  CopiesOf(e)'
<1>1. Copies(e)' = Copies(e) /\ Delayed(e)' = Delayed(e)
  BY CopiesKept DEF Delayed
<1>2. /\ IsFiniteSet(Senders(e)) /\ Cardinality(Copies(e)) \in Nat
      /\ Cardinality(Delayed(e)) \in Nat /\ faults \in Nat
  BY CountsTyped DEF CopiesOf
<1>3. /\ IsFiniteSet(Senders(e)') /\ Cardinality(Senders(e)') <= Cardinality(Senders(e)) + 1
      /\ Cardinality(Senders(e)') \in Nat
  BY <1>2, AddOne
<1>4. Cardinality(Senders(e)) \in Nat
  BY <1>2, FS_CardinalityType
<1>5. Cardinality(Copies(e)) + Cardinality(Senders(e)) + Cardinality(Delayed(e)) <= faults
  BY <1>2, <1>4 DEF CopiesOf
<1>6. Cardinality(Copies(e)) + Cardinality(Senders(e)') + Cardinality(Delayed(e)) <= faults + 1
  BY <1>2, <1>3, <1>4, <1>5
<1> QED BY <1>1, <1>3, <1>6 DEF CopiesOf

(* What was on its way arrives.                                            *)
LEMMA OneArrives ==
  ASSUME TypeOK, TypeOK', NEW e \in Event, CopiesOf(e), AppendRecord(e), UNCHANGED faults,
         Taken(e) => Taken(e)',
         \/ \E r \in Senders(e) : /\ Senders(e)' \subseteq Senders(e) \ {r}
                                  /\ Delayed(e)' \subseteq Delayed(e)
         \/ \E n \in Delayed(e) : /\ Delayed(e)' \subseteq Delayed(e) \ {n}
                                  /\ Senders(e)' \subseteq Senders(e)
  PROVE  CopiesOf(e)'
<1> DEFINE c == Cardinality(Copies(e))  s == Cardinality(Senders(e))
           d == Cardinality(Delayed(e))  t == Cardinality(Senders(e)')
           u == Cardinality(Delayed(e)')
<1>1. /\ IsFiniteSet(Senders(e)) /\ IsFiniteSet(Delayed(e)) /\ IsFiniteSet(Copies(e))
      /\ c \in Nat /\ d \in Nat /\ faults \in Nat
  BY CountsTyped DEF CopiesOf
<1>2. /\ IsFiniteSet(Senders(e)') /\ s \in Nat /\ t \in Nat /\ u \in Nat /\ t + u + 1 <= s + d
  <2>1. ASSUME NEW r \in Senders(e), Senders(e)' \subseteq Senders(e) \ {r},
               Delayed(e)' \subseteq Delayed(e)
        PROVE  IsFiniteSet(Senders(e)') /\ s \in Nat /\ t \in Nat /\ u \in Nat /\ t + u + 1 <= s + d
    <3>1. IsFiniteSet(Senders(e)') /\ t \in Nat /\ t + 1 <= s /\ s \in Nat
      BY <1>1, <2>1, RemoveOne, FS_CardinalityType
    <3>2. u \in Nat /\ u <= d
      BY <1>1, <2>1, Fewer
    <3> HIDE DEF s, t, d, u
    <3> QED BY <1>1, <3>1, <3>2
  <2>2. ASSUME NEW n \in Delayed(e), Delayed(e)' \subseteq Delayed(e) \ {n},
               Senders(e)' \subseteq Senders(e)
        PROVE  IsFiniteSet(Senders(e)') /\ s \in Nat /\ t \in Nat /\ u \in Nat /\ t + u + 1 <= s + d
    <3>1. u \in Nat /\ u + 1 <= d
      BY <1>1, <2>2, RemoveOne
    <3>2. IsFiniteSet(Senders(e)') /\ t \in Nat /\ t <= s /\ s \in Nat
      BY <1>1, <2>2, Fewer
    <3> HIDE DEF s, t, d, u
    <3> QED BY <1>1, <3>1, <3>2
  <2> QED BY <2>1, <2>2
<1>3. Cardinality(Copies(e)') \in Nat /\ Cardinality(Copies(e)') <= c + 1
  <2>1. PICK i : Copies(e)' = Copies(e) \cup {i}
    BY CopiesAppended
  <2> QED BY <1>1, <2>1, AddOne
<1>4. c + s + d <= faults + (IF Taken(e) THEN 1 ELSE 0)
  BY DEF CopiesOf
<1> HIDE DEF c, s, d, t, u
<1>5. Cardinality(Copies(e)') + t + u <= faults' + (IF Taken(e)' THEN 1 ELSE 0)
  BY <1>1, <1>2, <1>3, <1>4
<1> QED BY <1>2, <1>5 DEF CopiesOf, t, u

(* A copy gives a batch up: what it was sending may arrive late.           *)
LEMMA AbandonedCopies ==
  ASSUME TypeOK, TypeOK', NEW e \in Event, CopiesOf(e), UNCHANGED <<topic, batch>>,
         NEW r \in Copy, Fault, Abandon(r), Goto(r, "idle") \/ Goto(r, "down")
  PROVE  CopiesOf(e)'
<1>1. /\ faults' = faults + 1 /\ faults' \in 1..MaxFaults
      /\ sending'[r] = {} /\ pc'[r] \in {"idle", "down"}
      /\ \A q \in Copy : q # r => sending'[q] = sending[q] /\ pc'[q] = pc[q]
      /\ late'[faults'] = sending[r]
      /\ \A n \in 1..MaxFaults : n # faults' => late'[n] = late[n]
  BY AbandonTyped DEF TypeOK, Abandon, Fault
<1>2. Senders(e)' \subseteq Senders(e) /\ r \notin Senders(e)'
  BY <1>1 DEF Senders
<1>3. Copies(e)' = Copies(e)
  BY CopiesKept
<1>4. CASE e \notin sending[r]
  <2>1. Delayed(e)' \subseteq Delayed(e)
    BY <1>1, <1>4 DEF Delayed
  <2> QED BY <1>1, <1>2, <1>3, <2>1, NoCopyMore
<1>5. CASE e \in sending[r]
  <2> DEFINE s == Cardinality(Senders(e))  t == Cardinality(Senders(e)')
             d == Cardinality(Delayed(e))  u == Cardinality(Delayed(e)')
             c == Cardinality(Copies(e))
  <2>1. Delayed(e)' \subseteq Delayed(e) \cup {faults'}
    BY <1>1 DEF Delayed
  <2>2. r \in Senders(e) /\ Senders(e)' \subseteq Senders(e) \ {r}
    BY <1>2, <1>5 DEF Senders
  <2>3. /\ IsFiniteSet(Senders(e)) /\ IsFiniteSet(Delayed(e))
        /\ c \in Nat /\ d \in Nat /\ faults \in Nat
    BY CountsTyped DEF CopiesOf
  <2>4. u \in Nat /\ u <= d + 1
    BY <2>1, <2>3, AddOne
  <2>5. IsFiniteSet(Senders(e)') /\ t \in Nat /\ t + 1 <= s /\ s \in Nat
    BY <2>2, <2>3, RemoveOne, FS_CardinalityType
  <2>6. c + s + d <= faults + (IF Taken(e) THEN 1 ELSE 0)
    BY DEF CopiesOf
  <2> HIDE DEF s, t, d, u, c
  <2>7. c + t + u <= faults' + (IF Taken(e)' THEN 1 ELSE 0)
    BY <1>1, <2>3, <2>4, <2>5, <2>6
  <2> QED BY <1>3, <2>5, <2>7 DEF CopiesOf, t, u, c
<1> QED BY <1>4, <1>5

LEMMA LockStep ==
  ASSUME TypeOK, LockInv, [Next]_vars
  PROVE  LockInv'
<1> USE DEF TypeOK, LockInv
<1>1. CASE UNCHANGED vars
  BY <1>1
<1>2. ASSUME NEW t \in Transaction, Post(t) PROVE LockInv'
  BY <1>2 DEF Post
<1>3. ASSUME NEW r \in Copy, BatchStep(r) PROVE LockInv'
  <2>1. CASE TryLockOutbox(r)
    BY <2>1 DEF TryLockOutbox, LockHeld
  <2>2. CASE Publish(r)
    BY <2>2 DEF Publish
  <2>3. CASE GetUnpublishedOutboxEvents(r)
    BY <2>3 DEF GetUnpublishedOutboxEvents
  <2>4. CASE Acknowledge(r) \/ MarkOutboxEventsPublished(r) \/ Commit(r) \/ Disconnected(r)
    BY <2>4 DEF Acknowledge, MarkOutboxEventsPublished, Commit, Disconnected
  <2> QED BY <1>3, <2>1, <2>2, <2>3, <2>4 DEF BatchStep
<1>4. ASSUME NEW r \in Copy, NEW e \in Event, Arrive(r, e) PROVE LockInv'
  BY <1>4 DEF Arrive
<1>5. ASSUME NEW n \in 1..MaxFaults, LateDelivery(n) PROVE LockInv'
  BY <1>5 DEF LateDelivery, ArriveLate, Lose
<1>6. ASSUME NEW r \in Copy, Failure(r) PROVE LockInv'
  <2>1. CASE Fail(r) \/ Crash(r)
    BY <2>1 DEF Fail, Crash, Abandon, Unlock
  <2>2. CASE SessionLost(r)
    BY <2>2 DEF SessionLost
  <2>3. CASE CommitTimeout(r)
    BY <2>3 DEF CommitTimeout
  <2> QED BY <1>6, <2>1, <2>2, <2>3 DEF Failure
<1>7. CASE Settling
  BY <1>7 DEF Settling, UnsettledCommits, UnsettledRollsBack
<1> QED BY <1>1, <1>2, <1>3, <1>4, <1>5, <1>6, <1>7 DEF Next, Delivery

(* A step of the batch that sends nothing and reads nothing.               *)
LEMMA BatchCopies ==
  ASSUME TypeOK, TypeOK', LockInv, NEW r \in Copy, BatchStep(r), NEW e \in Event, CopiesOf(e)
  PROVE  CopiesOf(e)'
<1> USE DEF TypeOK
<1>1. Copies(e)' = Copies(e) /\ Delayed(e)' = Delayed(e) /\ UNCHANGED <<topic, late, faults>>
  <2>1. UNCHANGED <<topic, late, faults>>
    BY DEF BatchStep, TryLockOutbox, GetUnpublishedOutboxEvents, Publish, Acknowledge,
           MarkOutboxEventsPublished, Commit, Disconnected
  <2> QED BY <2>1, CopiesKept DEF Delayed
<1>2. CASE TryLockOutbox(r)
  <2>1. Senders(e)' \subseteq Senders(e) /\ (Taken(e) => Taken(e)')
    BY <1>2 DEF TryLockOutbox, Senders, Taken
  <2> QED BY <1>1, <2>1, NoCopyMore
<1>3. CASE GetUnpublishedOutboxEvents(r)
  <2>1. /\ pc[r] = "getEvents" /\ r \in locked /\ batch'[r] = Unpublished
        /\ pc'[r] = IF Unpublished = {} THEN "commit" ELSE "publish"
        /\ \A q \in Copy : q # r => pc'[q] = pc[q] /\ batch'[q] = batch[q]
        /\ UNCHANGED <<published, locked, sending>>
    BY <1>3 DEF GetUnpublishedOutboxEvents
  <2>2. CASE e \in Unpublished
    <3>1. e \notin published /\ \A q \in locked : q = r
      BY <2>1, <2>2 DEF Unpublished, FirstOf, LockInv
    <3>2. ~Taken(e)
      BY <2>1, <3>1 DEF Taken
    <3>3. Taken(e)' /\ Senders(e)' \subseteq Senders(e) \cup {r}
      BY <2>1, <2>2 DEF Taken, Senders
    <3> QED BY <1>1, <3>2, <3>3, OneMoreSender
  <2>3. CASE e \notin Unpublished
    <3>1. Senders(e)' \subseteq Senders(e) /\ (Taken(e) => Taken(e)')
      BY <2>1, <2>3 DEF Senders, Taken
    <3> QED BY <1>1, <3>1, NoCopyMore
  <2> QED BY <2>2, <2>3
<1>4. CASE Publish(r)
  <2>1. Senders(e)' \subseteq Senders(e) /\ (Taken(e) => Taken(e)')
    BY <1>4 DEF Publish, Senders, Taken
  <2> QED BY <1>1, <2>1, NoCopyMore
<1>5. CASE Acknowledge(r) \/ MarkOutboxEventsPublished(r) \/ Disconnected(r)
  <2>1. Senders(e)' \subseteq Senders(e) /\ (Taken(e) => Taken(e)')
    BY <1>5 DEF Acknowledge, MarkOutboxEventsPublished, Disconnected, Senders, Taken
  <2> QED BY <1>1, <2>1, NoCopyMore
<1>6. CASE Commit(r)
  <2>1. Senders(e)' \subseteq Senders(e) /\ (Taken(e) => Taken(e)')
    BY <1>6 DEF Commit, Senders, Taken
  <2> QED BY <1>1, <2>1, NoCopyMore
<1> QED BY <1>2, <1>3, <1>4, <1>5, <1>6 DEF BatchStep

LEMMA CopiesStep ==
  ASSUME TypeOK, TypeOK', CopiesInv, [Next]_vars
  PROVE  CopiesInv'
<1> USE DEF TypeOK
<1>1. LockInv
  BY DEF CopiesInv
<1> SUFFICES ASSUME NEW e \in Event, CopiesOf(e) PROVE CopiesOf(e)'
  BY <1>1, LockStep DEF CopiesInv
<1>2. CASE UNCHANGED vars
  <2>1. Senders(e)' = Senders(e) /\ Delayed(e)' = Delayed(e) /\ (Taken(e) => Taken(e)')
    BY <1>2 DEF Senders, Delayed, Taken
  <2> QED BY <1>2, <2>1, CopiesKept, NoCopyMore
<1>3. ASSUME NEW t \in Transaction, Post(t) PROVE CopiesOf(e)'
  <2>1. Senders(e)' = Senders(e) /\ Delayed(e)' = Delayed(e) /\ (Taken(e) => Taken(e)')
    BY <1>3 DEF Post, Senders, Delayed, Taken
  <2> QED BY <1>3, <2>1, CopiesKept, NoCopyMore DEF Post
<1>4. ASSUME NEW r \in Copy, BatchStep(r) PROVE CopiesOf(e)'
  BY <1>1, <1>4, BatchCopies
<1>5. ASSUME NEW r \in Copy, NEW x \in Event, Arrive(r, x) PROVE CopiesOf(e)'
  <2>1. /\ x \in sending[r] /\ AppendRecord(x) /\ pc[r] = "await"
        /\ sending'[r] = sending[r] \ {x}
        /\ \A q \in Copy : q # r => sending'[q] = sending[q]
        /\ UNCHANGED <<published, locked, pc, batch, late, faults>>
    BY <1>1, <1>5 DEF Arrive, LockInv
  <2>2. Delayed(e)' = Delayed(e) /\ Senders(e)' \subseteq Senders(e) /\ (Taken(e) => Taken(e)')
    BY <2>1 DEF Delayed, Senders, Taken
  <2>3. CASE x = e
    <3>1. r \in Senders(e) /\ Senders(e)' \subseteq Senders(e) \ {r}
      BY <2>1, <2>3 DEF Senders
    <3> QED BY <2>1, <2>2, <2>3, <3>1, OneArrives
  <2>4. CASE x # e
    BY <2>1, <2>2, <2>4, CopiesAppended, NoCopyMore
  <2> QED BY <2>3, <2>4
<1>6. ASSUME NEW n \in 1..MaxFaults, NEW x \in Event, ArriveLate(n, x) PROVE CopiesOf(e)'
  <2>1. /\ x \in late[n] /\ AppendRecord(x)
        /\ late'[n] = late[n] \ {x} /\ \A m \in 1..MaxFaults : m # n => late'[m] = late[m]
        /\ UNCHANGED <<published, locked, pc, batch, sending, faults>>
    BY <1>6 DEF ArriveLate
  <2>2. Senders(e)' = Senders(e) /\ Delayed(e)' \subseteq Delayed(e) /\ (Taken(e) => Taken(e)')
    BY <2>1 DEF Delayed, Senders, Taken
  <2>3. CASE x = e
    <3>1. n \in Delayed(e) /\ Delayed(e)' \subseteq Delayed(e) \ {n}
      BY <2>1, <2>3 DEF Delayed
    <3> QED BY <2>1, <2>2, <2>3, <3>1, OneArrives
  <2>4. CASE x # e
    BY <2>1, <2>2, <2>4, CopiesAppended, NoCopyMore
  <2> QED BY <2>3, <2>4
<1>7. ASSUME NEW n \in 1..MaxFaults, NEW p \in Partition, Lose(n, p) PROVE CopiesOf(e)'
  <2>1. Senders(e)' = Senders(e) /\ Delayed(e)' \subseteq Delayed(e) /\ (Taken(e) => Taken(e)')
    BY <1>7 DEF Lose, Senders, Delayed, Taken
  <2> QED BY <1>7, <2>1, CopiesKept, NoCopyMore DEF Lose
<1>8. ASSUME NEW r \in Copy, Fail(r) \/ Crash(r) PROVE CopiesOf(e)'
  BY <1>8, AbandonedCopies DEF Fail, Crash
<1>9. ASSUME NEW r \in Copy, SessionLost(r) \/ CommitTimeout(r) PROVE CopiesOf(e)'
  <2>1. UNCHANGED <<topic, batch, sending, late>> /\ faults' = faults + 1
        /\ \A q \in Copy : pc'[q] = "publish" => pc[q] = "publish"
    BY <1>9 DEF SessionLost, CommitTimeout, Fault
  <2>2. Senders(e)' \subseteq Senders(e) /\ Delayed(e)' = Delayed(e)
    BY <2>1 DEF Senders, Delayed
  <2> QED BY <2>1, <2>2, CopiesKept, NoCopyMore
<1>10. CASE Settling
  <2>1. /\ UNCHANGED <<topic, late, faults, locked, pc, batch, sending>>
        /\ published \subseteq published'
    BY <1>10 DEF Settling, UnsettledCommits, UnsettledRollsBack
  <2>2. Senders(e)' = Senders(e) /\ Delayed(e)' = Delayed(e) /\ (Taken(e) => Taken(e)')
    BY <2>1 DEF Senders, Delayed, Taken
  <2> QED BY <2>1, <2>2, CopiesKept, NoCopyMore
<1> QED BY <1>2, <1>3, <1>4, <1>5, <1>6, <1>7, <1>8, <1>9, <1>10
       DEF Next, Delivery, LateDelivery, Failure

(* However many copies of the relay there are, they send an event once,    *)
(* and once more for every fault at most: the advisory lock keeps a second *)
(* copy from a batch, and the marks a later batch (relay.go, publishBatch).*)
THEOREM NoCopyWithoutFault == Spec => []CopiesNeedFaults
<1>1. Init => CopiesInv
  <2> SUFFICES ASSUME Init PROVE LockInv /\ \A e \in Event : CopiesOf(e)
    BY DEF CopiesInv
  <2>1. LockInv
    BY DEF Init, LockInv
  <2>2. ASSUME NEW e \in Event PROVE CopiesOf(e)
    <3>1. Senders(e) = {} /\ Delayed(e) = {} /\ faults = 0
      BY DEF Init, Senders, Delayed
    <3>2. Copies(e) = {}
      BY PartitionAssumption DEF Init, Copies, Where
    <3> QED BY <3>1, <3>2, FS_EmptySet DEF CopiesOf
  <2> QED BY <2>1, <2>2
<1>2. TypeOK /\ TypeOK' /\ CopiesInv /\ [Next]_vars => CopiesInv'
  BY CopiesStep
<1>3. TypeOK /\ CopiesInv => CopiesNeedFaults
  <2> SUFFICES ASSUME TypeOK, NEW e \in Event, CopiesOf(e)
               PROVE  Cardinality(Copies(e)) <= 1 + faults
    BY DEF CopiesInv, CopiesNeedFaults
  <2>1. /\ Cardinality(Copies(e)) \in Nat /\ Cardinality(Delayed(e)) \in Nat
        /\ faults \in Nat /\ Cardinality(Senders(e)) \in Nat
    BY CountsTyped, FS_CardinalityType DEF CopiesOf
  <2> QED BY <2>1 DEF CopiesOf
<1> QED BY <1>1, <1>2, <1>3, TypeCorrect, PTL DEF Spec
=============================================================================
