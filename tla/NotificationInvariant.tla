------------------------ MODULE NotificationInvariant -------------------------
(***************************************************************************)
(* An inductive invariant of Notification.  What a copy has polled leaves  *)
(* no gap: every earlier record of the partition is finished, or the copy  *)
(* has polled it too.  And an event whose lease can be claimed, now or     *)
(* once it runs out, has been published less often than things went wrong. *)
(***************************************************************************)
EXTENDS Notification

Done(p, o) == Topic[p][o] \in Unreadable \/ Published(Topic[p][o])

(* The records of p up to offset n, n included, are finished.              *)
DoneUpTo(p, n) == \A q \in 1..n : Done(p, q)

(* What comes before offset o is finished, or c has it at hand.            *)
NoGapBefore(c, p, o) == \A q \in 1..(o - 1) : Done(p, q) \/ <<p, q>> \in fetched[c]

BatchOf(c) ==
  /\ pc[c] = "poll" => fetched[c] = {}
  /\ \A r \in fetched[c] : NoGapBefore(c, r[1], r[2])
  /\ \A r \in handled[c] : DoneUpTo(r[1], r[2])

BatchInv == \A c \in Copy : BatchOf(c)

(* The owner of a partition has polled what was not finished.              *)
PositionInv ==
  \A p \in Partition : Running(owner[p]) => NoGapBefore(owner[p], p, position[p])

(* The record at hand is the first of its partition that is not finished.  *)
WorkOf(c) ==
  /\ current[c] # NoRecord => DoneUpTo(current[c][1], current[c][2] - 1)
  /\ pc[c] = "publish" => Now(c) \notin Unreadable
  /\ pc[c] = "mark" => Published(Now(c))
  /\ pc[c] = "skip" => Now(c) \in Unreadable

WorkInv == \A c \in Copy : WorkOf(c)

DoneInv == \A e \in Event : key[e] = "done" => e \in Unreadable \/ Published(e)

ProgressInv ==
  /\ BatchInv /\ PositionInv /\ WorkInv /\ DoneInv
  /\ CommittedIsNotified
  /\ NotifiedInOrder

IInv == TypeOK /\ ProgressInv

-----------------------------------------------------------------------------
(* The lease.                                                              *)

Publications(e) == {i \in DOMAIN channel : channel[i] = e}

(* The copies that go on to publish e.                                     *)
Publishers(e) == {c \in Copy : pc[c] = "publish" /\ Now(c) = e}

(* Nobody claims e now, nor when the lease runs out as it should.          *)
Taken(e) == key[e] = "done" \/ (key[e] = "processing" /\ AtWork(e))

LeaseOf(e) ==
  /\ IsFiniteSet(Publishers(e)) /\ (e \in Unreadable => Publications(e) = {})
  /\ Cardinality(Publications(e)) + Cardinality(Publishers(e))
       <= faults + (IF Taken(e) THEN 1 ELSE 0)

LeaseInv == \A e \in Event : LeaseOf(e)
=============================================================================
