-------------------------------- MODULE Bank --------------------------------
(***************************************************************************)
(* What the service operations promise together: each call takes effect at *)
(* one instant, on the committed rows of that instant, as if it ran alone, *)
(* or it takes no effect; and what its client is told is decided by those  *)
(* rows.  Ledger, where the statements of concurrent calls interleave,     *)
(* implements this specification.                                          *)
(***************************************************************************)
EXTENDS LedgerData

CONSTANTS Call, Workload

VARIABLES request, answer, transactions, reversed, entries, outbox

rows == <<transactions, reversed, entries, outbox>>
vars == <<request, answer, rows>>

Init ==
  /\ request \in Workload
  /\ answer = [c \in Call |-> Pending]
  /\ transactions = {} /\ reversed = {} /\ entries = {} /\ outbox = {}

(* The reason for which a request is turned down before any money is moved. *)
RequestRefusal(r) ==
  CASE r.type = "transfer" -> TransferRefusal(r)
    [] r.type = "deposit" -> DepositRefusal(r)
    [] r.type = "withdrawal" -> WithdrawalRefusal(r)
    [] r.type = "reversal" -> ReversalRefusal(r, transactions, reversed)

(* The transfer a valid request stands for.                                *)
Asked(r) ==
  IF RequestRefusal(r) # NoError THEN {}
  ELSE CASE r.type = "transfer" -> {TransferParamsOf(r)}
         [] r.type = "deposit" -> {DepositParamsOf(r)}
         [] r.type = "withdrawal" -> {WithdrawalParamsOf(r)}
         [] r.type = "reversal" ->
              {ReversalParamsOf(r, t) : t \in {u \in transactions : u.id = r.target}}

MarkedBy(p) == IF p.type = "reversal" THEN {p.reversalOf} ELSE {}

(* A call answers as it takes effect, unless its client has been told of   *)
(* an internal error before: then the outcome was unknown.                 *)
Tell(c, a) ==
  \/ answer[c] = Pending /\ answer' = [answer EXCEPT ![c] = a]
  \/ answer[c] = InternalError /\ UNCHANGED answer

(* The rows of a transfer are added together, under unused ids.            *)
AddRows(p, id) ==
  /\ \A t \in transactions : t.id # id
  /\ transactions' = transactions \cup {TransactionRow(p, id)}
  /\ reversed' = reversed \cup MarkedBy(p)
  /\ \E d, k \in entries' :
       /\ d.id # k.id /\ \A e \in entries : e.id \notin {d.id, k.id}
       /\ entries' = entries \cup {DebitEntry(p, id, d.id), CreditEntry(p, id, k.id)}
  /\ \E d, k \in outbox' :
       /\ d.id # k.id /\ \A ev \in outbox : ev.id \notin {d.id, k.id}
       /\ outbox' = outbox \cup {DebitPosted(p, id, d.id), CreditPosted(p, id, k.id)}

Post(c) ==
  /\ \E p \in Asked(request[c]), t \in transactions' :
       /\ CurrencyOf[p.from] = CurrencyOf[p.to]
       /\ \A u \in transactions : u.key # p.key
       /\ Affordable(p, Balance(entries, p.from))
       /\ AddRows(p, t.id)
       /\ Tell(c, Created(t.id))
  /\ UNCHANGED request

(* A reversal marks its target also when its key was used before.          *)
Replay(c) ==
  /\ \E p \in Asked(request[c]), t \in transactions :
       /\ t.key = p.key
       /\ SameArguments(p, t)
       /\ reversed' = reversed \cup MarkedBy(p)
       /\ Tell(c, Replayed(t.id))
  /\ UNCHANGED <<request, transactions, entries, outbox>>

Turns(p, error) ==
  \/ /\ CurrencyOf[p.from] # CurrencyOf[p.to]
     /\ error = "ErrCurrencyMismatch"
  \/ /\ \E t \in transactions : t.key = p.key /\ ~SameArguments(p, t)
     /\ error = "ErrTransactionsMismatch"
  \/ /\ \A t \in transactions : t.key # p.key
     /\ ~Affordable(p, Balance(entries, p.from))
     /\ error = "ErrNotEnough"

Refuse(c) ==
  /\ answer[c] = Pending
  /\ \E error \in Refusal :
       /\ \/ error = RequestRefusal(request[c])
          \/ \E p \in Asked(request[c]) : Turns(p, error)
       /\ answer' = [answer EXCEPT ![c] = Refused(error)]
  /\ UNCHANGED <<request, rows>>

Fail(c) ==
  /\ answer[c] = Pending
  /\ answer' = [answer EXCEPT ![c] = InternalError]
  /\ UNCHANGED <<request, rows>>

Next == \E c \in Call : Post(c) \/ Replay(c) \/ Refuse(c) \/ Fail(c)

Spec == Init /\ [][Next]_vars
=============================================================================
