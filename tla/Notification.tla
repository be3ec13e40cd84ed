---------------------------- MODULE Notification -----------------------------
(***************************************************************************)
(* Copies of the notification process, one Kafka consumer group.  A copy   *)
(* polls records from its partitions, handles them one after the other and *)
(* commits their offsets.  To handle a record is to claim its event in     *)
(* Redis for a limited time (a lease), to publish the notification to all  *)
(* copies and to mark the event as done; an event that is done is skipped. *)
(* One action is one call to Redis or Kafka.  A partition may move to      *)
(* another copy at any time: nothing holds a rebalance back while records  *)
(* are handled.  A process that is started again is another member of Copy.*)
(***************************************************************************)
EXTENDS Integers, Sequences, FiniteSets

CONSTANTS
  Event,          \* event ids
  Malformed,      \* the events whose payload cannot be read
  Nameless,       \* the events that come without an id
  Partition,      \* the partitions of the topic
  Topic,          \* Topic[p]: the records of p, events in first-copy order, repeated or not
  Copy,           \* the processes that run notification
  MaxRebalances,  \* bound: how often a partition is taken from a running copy
  MaxFaults       \* bound: how many things go wrong in a behavior

ASSUME TopicAssumption ==
  /\ Malformed \subseteq Event /\ Nameless \subseteq Event
  /\ Topic \in [Partition -> Seq(Event)]

(* The relay sends every copy of an event under the key of its account,    *)
(* and so to the same partition (events.go, Key).                          *)
ASSUME KeyAssumption ==
  \A p, q \in Partition : \A i \in DOMAIN Topic[p], j \in DOMAIN Topic[q] :
    Topic[p][i] = Topic[q][j] => p = q

ASSUME BoundAssumption == MaxRebalances \in Nat /\ MaxFaults \in Nat

Unreadable == Malformed \cup Nameless

VARIABLES
  owner,       \* owner[p]: the copy partition p is assigned to
  position,    \* position[p]: the offset its owner polls next
  committed,   \* committed[p]: the offset the group has committed
  pc,          \* pc[c]: the next step of copy c
  fetched,     \* fetched[c]: the records c has polled and not handled
  current,     \* current[c]: the record c is handling
  handled,     \* handled[c]: the records c is going to commit
  key,         \* key[e]: what Redis stores under the key of event e
  channel,     \* the notifications published so far
  rebalances, faults

group == <<owner, position, committed, rebalances>>
copies == <<pc, fetched, current, handled>>
redis == <<key, channel>>
vars == <<group, copies, redis, faults>>

Label == {"poll", "next", "claim", "look", "publish", "mark", "skip", "leave", "stopped"}

Record == UNION {{p} \X DOMAIN Topic[p] : p \in Partition}

NoRecord == <<>>

EventOf(r) == Topic[r[1]][r[2]]

Offset(p) == 1..(Len(Topic[p]) + 1)

TypeOK ==
  /\ owner \in [Partition -> Copy]
  /\ position \in [Partition -> Nat] /\ committed \in [Partition -> Nat]
  /\ \A p \in Partition : position[p] \in Offset(p) /\ committed[p] \in Offset(p)
  /\ pc \in [Copy -> Label]
  /\ fetched \in [Copy -> SUBSET Record] /\ handled \in [Copy -> SUBSET Record]
  /\ current \in [Copy -> Record \cup {NoRecord}]
  /\ \A c \in Copy :
       IF pc[c] \in {"claim", "look", "publish", "mark", "skip"}
       THEN current[c] \in fetched[c] ELSE current[c] = NoRecord
  /\ key \in [Event -> {"none", "processing", "done"}]
  /\ channel \in Seq(Event)
  /\ rebalances \in 0..MaxRebalances /\ faults \in 0..MaxFaults

Init ==
  /\ owner \in [Partition -> Copy]
  /\ position = [p \in Partition |-> 1] /\ committed = [p \in Partition |-> 1]
  /\ pc = [c \in Copy |-> "poll"]
  /\ fetched = [c \in Copy |-> {}] /\ handled = [c \in Copy |-> {}]
  /\ current = [c \in Copy |-> NoRecord]
  /\ key = [e \in Event |-> "none"]
  /\ channel = <<>>
  /\ rebalances = 0 /\ faults = 0

-----------------------------------------------------------------------------
(* The loop of the consumer.                                               *)

Goto(c, label) == pc' = [pc EXCEPT ![c] = label]

(* PollFetches: the next records of some of the partitions of c.           *)
Poll(c) ==
  LET ready == {r \in Record : owner[r[1]] = c /\ position[r[1]] <= r[2]} IN
  /\ pc[c] = "poll"
  /\ \E polled \in (SUBSET ready) \ {{}} :
       /\ \A r \in polled, s \in ready : s[1] = r[1] /\ s[2] < r[2] => s \in polled
       /\ fetched' = [fetched EXCEPT ![c] = polled]
       /\ position' = [p \in Partition |->
            position[p] + Cardinality({r \in polled : r[1] = p})]
  /\ Goto(c, "next")
  /\ UNCHANGED <<owner, committed, rebalances, current, handled, redis, faults>>

(* The records of a partition are handled in their order.                  *)
Take(c) ==
  /\ pc[c] = "next"
  /\ \E r \in fetched[c] :
       /\ \A s \in fetched[c] : s[1] = r[1] => r[2] <= s[2]
       /\ current' = [current EXCEPT ![c] = r]
  /\ Goto(c, "claim")
  /\ UNCHANGED <<group, fetched, handled, redis, faults>>

OffsetsOf(records) ==
  [p \in Partition |->
     LET of == {r[2] : r \in {s \in records : s[1] = p}} IN
     IF of = {} THEN committed[p] ELSE 1 + CHOOSE o \in of : \A q \in of : q <= o]

FetchedOffsets(c) == OffsetsOf(handled[c] \cup fetched[c])    \* regression

HandledOffsets(c) == OffsetsOf(handled[c])

(* CommitRecords ends an iteration of the loop, and the last one.          *)
EndOfBatch(c) ==
  /\ \/ pc[c] = "next" /\ fetched[c] = {}
     \/ pc[c] = "leave"
  /\ Goto(c, IF pc[c] = "next" THEN "poll" ELSE "stopped")
  /\ fetched' = [fetched EXCEPT ![c] = {}]
  /\ handled' = [handled EXCEPT ![c] = {}]
  /\ UNCHANGED <<owner, position, rebalances, current, redis, faults>>

(* What was handled is committed, also of a partition that belongs to      *)
(* another copy by now: that may overwrite what the other has committed.   *)
Commit(c) ==
  /\ EndOfBatch(c)
  /\ committed' = HandledOffsets(c)

(* A commit that is rejected or lost is only logged.                       *)
CommitFails(c) ==
  /\ EndOfBatch(c)
  /\ UNCHANGED committed

-----------------------------------------------------------------------------
(* Processor.Handle, for the current record.                               *)

Now(c) == EventOf(current[c])

SetKey(e, value) == key' = [key EXCEPT ![e] = value]

(* A nil error: the record is finished.                                    *)
Finish(c) ==
  /\ handled' = [handled EXCEPT ![c] = @ \cup {current[c]}]
  /\ fetched' = [fetched EXCEPT ![c] = @ \ {current[c]}]
  /\ current' = [current EXCEPT ![c] = NoRecord]
  /\ Goto(c, "next")

(* A record without an event id is finished at once.                       *)
NoId(c) ==
  /\ pc[c] = "claim" /\ Now(c) \in Nameless
  /\ Finish(c)
  /\ UNCHANGED <<group, redis, faults>>

AlwaysFree(e) == e \in Event    \* regression: SET in place of SETNX

Free(e) == key[e] = "none"

(* SETNX notified:<event> processing, with the time of the lease.          *)
Claim(c) ==
  /\ pc[c] = "claim" /\ Now(c) \notin Nameless
  /\ \/ /\ Free(Now(c))
        /\ SetKey(Now(c), "processing")
        /\ Goto(c, IF Now(c) \in Malformed THEN "skip" ELSE "publish")
     \/ /\ ~Free(Now(c))
        /\ Goto(c, "look")
        /\ UNCHANGED key
  /\ UNCHANGED <<group, fetched, current, handled, channel, faults>>

ClaimedIsDone(value) == value # "none"    \* regression: a lease counts as done

IsDone(value) == value = "done"

(* GET of the key that was there: the event is done, or somebody else is   *)
(* at it, or the key has expired meanwhile; then the copy tries again.     *)
Look(c) ==
  /\ pc[c] = "look"
  /\ \/ IsDone(key[Now(c)]) /\ Finish(c)
     \/ ~IsDone(key[Now(c)]) /\ Goto(c, "claim") /\ UNCHANGED <<fetched, current, handled>>
  /\ UNCHANGED <<group, redis, faults>>

Publish(c) ==
  /\ pc[c] = "publish"
  /\ channel' = Append(channel, Now(c))
  /\ Goto(c, "mark")
  /\ UNCHANGED <<group, fetched, current, handled, key, faults>>

(* SET notified:<event> done, after the notification was published.        *)
Mark(c) ==
  /\ pc[c] = "mark"
  /\ SetKey(Now(c), "done")
  /\ Finish(c)
  /\ UNCHANGED <<group, channel, faults>>

(* ... or because the payload is of no use.                                *)
Skip(c) ==
  /\ pc[c] = "skip"
  /\ SetKey(Now(c), "done")
  /\ Finish(c)
  /\ UNCHANGED <<group, channel, faults>>

-----------------------------------------------------------------------------
(* What goes wrong with a call to Redis: it returns an error and has had   *)
(* its effect, or not.                                                     *)

Fault == faults < MaxFaults /\ faults' = faults + 1

GiveUp(c) == Goto(c, "next") /\ UNCHANGED <<fetched, current, handled>>    \* regression

(* An error returned by Handle: the same record is tried again, and finds  *)
(* the lease of its own first attempt.                                     *)
Retry(c) == Goto(c, "claim") /\ UNCHANGED <<fetched, current, handled>>

ClaimFails(c) ==
  /\ pc[c] \in {"claim", "look"} /\ Now(c) \notin Nameless
  /\ Fault
  /\ \/ pc[c] = "claim" /\ Free(Now(c)) /\ SetKey(Now(c), "processing")
     \/ UNCHANGED key
  /\ Retry(c)
  /\ UNCHANGED <<group, channel>>

PublishFails(c) ==
  /\ pc[c] = "publish"
  /\ Fault
  /\ channel' = Append(channel, Now(c)) \/ UNCHANGED channel
  /\ Retry(c)
  /\ UNCHANGED <<group, key>>

(* The notification is out: an error of Done is logged, and the record is  *)
(* finished.                                                               *)
MarkFails(c) ==
  /\ pc[c] = "mark"
  /\ Fault
  /\ SetKey(Now(c), "done") \/ UNCHANGED key
  /\ Finish(c)
  /\ UNCHANGED <<group, channel>>

SkipFails(c) ==
  /\ pc[c] = "skip"
  /\ Fault
  /\ SetKey(Now(c), "done") \/ UNCHANGED key
  /\ Retry(c)
  /\ UNCHANGED <<group, channel>>

-----------------------------------------------------------------------------
(* Time.                                                                   *)

(* Some copy has claimed the event and has not finished.                   *)
AtWork(e) ==
  \E c \in Copy : pc[c] \in {"publish", "mark", "skip"} /\ Now(c) = e

NeverExpires(e) == FALSE    \* regression: the key is set without an expiration

(* leaseTTL is over.  Before its owner is, only if that takes too long.    *)
LeaseMayExpire(e) == key[e] = "processing"

LeaseExpires(e) ==
  /\ LeaseMayExpire(e)
  /\ \/ ~AtWork(e) /\ UNCHANGED faults
     \/ AtWork(e) /\ Fault
  /\ SetKey(e, "none")
  /\ UNCHANGED <<group, copies, channel>>

(* doneTTL is over, and the event is in the topic once more.               *)
DoneExpires(e) ==
  /\ key[e] = "done"
  /\ Fault
  /\ SetKey(e, "none")
  /\ UNCHANGED <<group, copies, channel>>

-----------------------------------------------------------------------------
(* The consumer group, and processes that stop.                            *)

Running(c) == pc[c] # "stopped"

EndOfPartition(p) == Len(Topic[p]) + 1    \* regression: a new owner skips to the end

LatestCommit(p) == committed[p]

(* Partition p is assigned to another copy, which polls from the committed *)
(* offset.  What the former owner has polled already it goes on handling.  *)
Rebalance(p, c) ==
  /\ owner[p] # c /\ Running(c)
  /\ \/ ~Running(owner[p]) /\ UNCHANGED rebalances
     \/ /\ Running(owner[p])
        /\ rebalances < MaxRebalances /\ rebalances' = rebalances + 1
  /\ owner' = [owner EXCEPT ![p] = c]
  /\ position' = [position EXCEPT ![p] = LatestCommit(p)]
  /\ UNCHANGED <<committed, copies, redis, faults>>

OthersRun(c) == \E d \in Copy \ {c} : pc[d] \notin {"leave", "stopped"}

(* SIGTERM: what was handled is committed, and the copy leaves; the record *)
(* it was at is not handled.  A call that is interrupted after it had its  *)
(* effect, or while the event is marked, is a call that fails, before.     *)
Cancel(c) ==
  /\ pc[c] \in {"poll", "next", "claim", "look", "publish", "skip"}
  /\ OthersRun(c)
  /\ current' = [current EXCEPT ![c] = NoRecord]
  /\ Goto(c, IF pc[c] = "poll" THEN "stopped" ELSE "leave")
  /\ UNCHANGED <<group, fetched, handled, redis, faults>>

Crash(c) ==
  /\ Running(c) /\ OthersRun(c)
  /\ Fault
  /\ fetched' = [fetched EXCEPT ![c] = {}]
  /\ handled' = [handled EXCEPT ![c] = {}]
  /\ current' = [current EXCEPT ![c] = NoRecord]
  /\ Goto(c, "stopped")
  /\ UNCHANGED <<group, redis>>

-----------------------------------------------------------------------------

Handling(c) == NoId(c) \/ Claim(c) \/ Look(c) \/ Publish(c) \/ Mark(c) \/ Skip(c)

Consuming(c) == Poll(c) \/ Take(c) \/ Commit(c) \/ CommitFails(c)

CallFails(c) == ClaimFails(c) \/ PublishFails(c) \/ MarkFails(c) \/ SkipFails(c)

Next ==
  \/ \E c \in Copy : Consuming(c) \/ Handling(c) \/ CallFails(c) \/ Cancel(c) \/ Crash(c)
  \/ \E e \in Event : LeaseExpires(e) \/ DoneExpires(e)
  \/ \E p \in Partition, c \in Copy : Rebalance(p, c)

(* A copy that runs goes on, a lease nobody works under runs out, and the  *)
(* group gives the partitions of a copy that stopped to another one.       *)
Fairness ==
  /\ \A c \in Copy : WF_vars(Consuming(c) \/ Handling(c))
  /\ \A e \in Event : WF_vars(LeaseExpires(e))
  /\ \A p \in Partition :
       WF_vars(\E c \in Copy : ~Running(owner[p]) /\ Rebalance(p, c))

Spec == Init /\ [][Next]_vars

FairSpec == Spec /\ Fairness

-----------------------------------------------------------------------------
(* Safety.                                                                 *)

Published(e) == \E i \in DOMAIN channel : channel[i] = e

(* What the group has committed has been notified: no rebalance, restart   *)
(* or commit of a former owner skips an event that could be read           *)
(* (consumer.go, Run commits only what Handle has finished).               *)
CommittedIsNotified ==
  \A p \in Partition : \A o \in 1..(committed[p] - 1) :
    Topic[p][o] \in Unreadable \/ Published(Topic[p][o])

(* Whoever handles the events of a partition, their first notifications    *)
(* are published in the order of the topic, although a former owner may    *)
(* still be at an earlier record than the present one.                     *)
NotifiedInOrder ==
  \A p \in Partition : \A o \in DOMAIN Topic[p] : \A i \in DOMAIN channel :
    /\ channel[i] = Topic[p][o]
    /\ \A q \in 1..(o - 1) : Topic[p][q] # Topic[p][o]
    => \A q \in 1..(o - 1) :
         Topic[p][q] \in Unreadable \/ \E j \in 1..(i - 1) : channel[j] = Topic[p][q]

(* Every notification of an event but the first is owed to something that  *)
(* went wrong; copies of a record in the topic, records that are polled    *)
(* again after a rebalance, and commits that fail do not add any.          *)
RepeatsNeedFaults ==
  \A e \in Event :
    Cardinality({i \in DOMAIN channel : channel[i] = e}) <= 1 + faults

-----------------------------------------------------------------------------
(* Every event that can be read is notified in the end, whichever copies   *)
(* are left, also when a copy stopped or failed while it held the lease.   *)
EveryEventNotified ==
  \A p \in Partition : \A o \in DOMAIN Topic[p] :
    Topic[p][o] \notin Unreadable => <>Published(Topic[p][o])

-----------------------------------------------------------------------------
(* To browsers, and to the group that asks where to go on, all copies      *)
(* together are one process that notifies event after event and commits    *)
(* what it has done, whatever they do at the same time.                    *)
FirstNotifications ==
  INSTANCE Delivery WITH notified <- {e \in Event : Published(e)}

ImplementsDelivery == FirstNotifications!Spec
=============================================================================
