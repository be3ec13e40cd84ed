--------------------------- MODULE RelayInvariant ---------------------------
(***************************************************************************)
(* An inductive invariant of Relay: what may still be sent leaves no gap   *)
(* before any of its events, and what is marked has arrived.  And one of   *)
(* the copies of an event: those in the topic and those that may still     *)
(* arrive, together, are paid for by faults.                               *)
(***************************************************************************)
EXTENDS Relay

(* S contains events of the rows only, and every row about the same account *)
(* that precedes one of them is in S too, or has arrived.                   *)
GaplessIn(S, rows, arrived) ==
  /\ S \subseteq rows
  /\ \A e \in S, f \in rows :
       AccountOf[f] = AccountOf[e] /\ f < e => f \in S \/ f \in arrived

Gapless(S) == GaplessIn(S, outbox, Arrived)

(* What a copy knows of its batch, session or no session.                  *)
BatchOf(r) ==
  /\ pc[r] = "publish" => Gapless(batch[r])
  /\ pc[r] = "await" => batch[r] \subseteq Arrived \cup sending[r]
  /\ pc[r] \in {"mark", "commit"} => batch[r] \subseteq Arrived
  /\ Gapless(sending[r])

BatchInv == \A r \in Copy : BatchOf(r)

LateInv == \A n \in 1..MaxFaults : Gapless(late[n])

UnsettledInv == \A b \in unsettled : b \subseteq Arrived

IInv ==
  /\ TypeOK
  /\ BatchInv
  /\ LateInv
  /\ UnsettledInv
  /\ NothingLost

-----------------------------------------------------------------------------
(* How often an event is sent.                                             *)

Senders(e) ==
  {r \in Copy : (pc[r] = "publish" /\ e \in batch[r]) \/ e \in sending[r]}

Delayed(e) == {n \in 1..MaxFaults : e \in late[n]}

(* Nobody reads e from the outbox, unless a fault takes its holder's lock. *)
Taken(e) ==
  \/ e \in published
  \/ \E r \in locked :
       pc[r] \in {"publish", "await", "mark", "commit"} /\ e \in batch[r]

CopiesOf(e) ==
  /\ IsFiniteSet(Senders(e))
  /\ Cardinality(Copies(e)) + Cardinality(Senders(e)) + Cardinality(Delayed(e))
       <= faults + (IF Taken(e) THEN 1 ELSE 0)

LockInv ==
  /\ \A r, s \in locked : r = s
  /\ locked # {} => unsettled = {}
  /\ \A r \in Copy : sending[r] # {} => pc[r] = "await"

CopiesInv == LockInv /\ \A e \in Event : CopiesOf(e)
=============================================================================
