--------------------------- MODULE LedgerInvariant --------------------------
(***************************************************************************)
(* Two inductive invariants of Ledger.  IInv says what a call knows at     *)
(* each statement, which locks it holds, whose rows it has staged, and how *)
(* the ids and keys of staged and committed rows relate.  PostingInv,      *)
(* which is inductive relative to IInv, says what the calls are for: that  *)
(* the parameters are those of the request, which rows exactly are staged  *)
(* at each statement, and which rows exactly belong to a transaction.      *)
(***************************************************************************)
EXTENDS Ledger

Unposted == {"start", "lockFirst", "lockSecond", "createTransaction", "getTransaction"}

Creating == {"getBalance", "createDebit", "createCredit", "postCredit", "postDebit"}

(* The parameters are known from the first lock on, the result from the    *)
(* insertion of the transaction on.                                        *)
SessionOf(c) ==
  /\ pc[c] \notin {"start", "done"} => param[c] \in TransferParams
  /\ param[c].type = "reversal" => param[c].reversalOf \in Id
  /\ pc[c] = "updateStatus" => param[c].type = "reversal"
  /\ pc[c] \in Unposted => result[c] = Pending
  /\ pc[c] \in Creating => /\ result[c].outcome = "created"
                           /\ result[c].transaction \in Id

SessionInv == \A c \in Call : SessionOf(c)

(* An account is locked by one call at most, and a call that has both its  *)
(* locks keeps them to the end of its database transaction.                *)
Exclusive == \A c, d \in Call : c # d => accountLocks[c] \cap accountLocks[d] = {}

HoldsOf(c) ==
  /\ pc[c] = "lockSecond" => First(param[c]) \in accountLocks[c]
  /\ pc[c] \notin {"start", "lockFirst", "lockSecond", "done"} =>
       param[c].from \in accountLocks[c] /\ param[c].to \in accountLocks[c]

LockInv == Exclusive /\ \A c \in Call : HoldsOf(c)

(* A call writes only rows of its own transfer, about accounts it holds.   *)
StagedOf(c) ==
  /\ pc[c] \in Unposted \cup {"done"} => staged[c] = NothingStaged
  /\ staged[c].transactions \subseteq {TransactionRow(param[c], result[c].transaction)}
  /\ \A e \in staged[c].entries : e.account \in accountLocks[c]
  /\ \A e \in staged[c].outbox : e.account \in accountLocks[c]

StagedInv == \A c \in Call : StagedOf(c)

(* Ids are drawn from the counters; the staged rows of an account have     *)
(* larger ids than its committed rows.                                     *)
EntryIds ==
  /\ \A e \in entries : e.id <= entrySeq
  /\ \A c \in Call : \A e \in staged[c].entries :
       e.id <= entrySeq /\ \A f \in entries : f.account = e.account => f.id < e.id

EventIds ==
  /\ \A e \in outbox : e.id <= outboxSeq
  /\ \A c \in Call : \A e \in staged[c].outbox :
       e.id <= outboxSeq /\ \A f \in outbox : f.account = e.account => f.id < e.id

TransactionIds ==
  /\ \A t \in transactions : t.id <= txSeq
  /\ \A c \in Call : \A t \in staged[c].transactions : t.id <= txSeq

(* Keys and ids identify rows, over the committed and the staged ones.     *)
KeyInv ==
  /\ PostedOncePerKey
  /\ \A c \in Call : \A t \in staged[c].transactions :
       /\ \A u \in transactions : t.key # u.key /\ t.id # u.id
       /\ \A d \in Call \ {c} : \A u \in staged[d].transactions :
            t.key # u.key /\ t.id # u.id

IInv ==
  /\ TypeOK
  /\ SessionInv
  /\ LockInv
  /\ StagedInv
  /\ EntryIds /\ EventIds /\ TransactionIds
  /\ KeyInv
  /\ BalanceIsCurrent

-----------------------------------------------------------------------------
(* Between start and done, the parameters are the ones the request stands  *)
(* for; the target of a reversal stays where it is.                        *)
Begun(c) == pc[c] \notin {"start", "done"}

Requested(p, r) ==
  \/ r.type = "transfer" /\ TransferRefusal(r) = NoError /\ p = TransferParamsOf(r)
  \/ r.type = "deposit" /\ DepositRefusal(r) = NoError /\ p = DepositParamsOf(r)
  \/ r.type = "withdrawal" /\ WithdrawalRefusal(r) = NoError /\ p = WithdrawalParamsOf(r)
  \/ /\ r.type = "reversal"
     /\ \E t \in transactions :
          t.id = r.target /\ t.type # "reversal" /\ p = ReversalParamsOf(r, t)

RequestInv == \A c \in Call : Begun(c) => Requested(param[c], request[c])

(* A transfer is between two accounts, and only a reversal reverses.       *)
Sound(source, destination, type, reversalOf) ==
  source # destination /\ (type = "reversal" <=> reversalOf # NoId)

SoundInv ==
  /\ \A t \in transactions : Sound(t.source, t.destination, t.type, t.reversalOf)
  /\ \A c \in Call : Begun(c) =>
       Sound(param[c].from, param[c].to, param[c].type, param[c].reversalOf)

(* A reversal has its target locked, and nobody marks it meanwhile.        *)
Target(p) == IF p.type = "reversal" THEN {p.reversalOf} ELSE {}

MarkInv ==
  /\ \A c \in Call : rowLocks[c] = IF Begun(c) THEN Target(param[c]) ELSE {}
  /\ \A c, d \in Call : c # d => rowLocks[c] \cap rowLocks[d] = {}
  /\ \A c \in Call : rowLocks[c] \cap reversed = {}

(* A call that still waits for an account holds only the ones before it,   *)
(* and one that has both has compared the currencies.                      *)
OrderOf(c) ==
  /\ pc[c] \in {"start", "lockFirst", "done"} => accountLocks[c] = {}
  /\ pc[c] = "lockSecond" => accountLocks[c] = {First(param[c])}
  /\ pc[c] \notin {"start", "lockFirst", "lockSecond", "done"} => SameCurrency(param[c])

OrderInv == \A c \in Call : OrderOf(c)

(* The rows a call has staged, statement by statement: none if it replays, *)
(* otherwise the transaction and as many of its entries and events as it   *)
(* has written.                                                            *)
Ending == {"updateStatus", "commit", "orphan"}

ReplayOf(c) ==
  /\ staged[c].transactions = {} /\ staged[c].entries = {} /\ staged[c].outbox = {}
  /\ \E t \in transactions : /\ t.key = param[c].key /\ SameArguments(param[c], t)
                             /\ result[c] = Replayed(t.id)

EntriesStaged(c) ==
  LET p == param[c]  tx == result[c].transaction  rows == staged[c].entries IN
  /\ pc[c] \in {"getBalance", "createDebit"} => rows = {}
  /\ pc[c] = "createCredit" => \E d \in rows : rows = {DebitEntry(p, tx, d.id)}
  /\ pc[c] \in {"postCredit", "postDebit"} \cup Ending =>
       \E d, k \in rows : /\ d.id # k.id
                          /\ rows = {DebitEntry(p, tx, d.id), CreditEntry(p, tx, k.id)}

EventsStaged(c) ==
  LET p == param[c]  tx == result[c].transaction  rows == staged[c].outbox IN
  /\ pc[c] \in {"getBalance", "createDebit", "createCredit", "postCredit"} => rows = {}
  /\ pc[c] = "postDebit" => \E k \in rows : rows = {CreditPosted(p, tx, k.id)}
  /\ pc[c] \in Ending =>
       \E d, k \in rows : /\ d.id # k.id
                          /\ rows = {DebitPosted(p, tx, d.id), CreditPosted(p, tx, k.id)}

CreationOf(c) ==
  /\ staged[c].transactions = {TransactionRow(param[c], result[c].transaction)}
  /\ EntriesStaged(c) /\ EventsStaged(c)
  /\ pc[c] # "getBalance" => Affordable(param[c], balance[c])

ShapeOf(c) ==
  /\ pc[c] \in Creating => CreationOf(c)
  /\ pc[c] \in Ending =>
       \/ result[c].outcome = "replayed" /\ ReplayOf(c)
       \/ result[c].outcome = "created" /\ CreationOf(c)
  /\ staged[c].reversed = IF pc[c] \in {"commit", "orphan"} THEN Target(param[c]) ELSE {}

ShapeInv == \A c \in Call : ShapeOf(c)

(* No id is drawn twice.                                                   *)
FreshInv ==
  \A c \in Call :
    /\ \A e \in staged[c].entries :
         /\ \A f \in entries : f.id # e.id
         /\ \A d \in Call \ {c} : \A f \in staged[d].entries : f.id # e.id
    /\ \A e \in staged[c].outbox :
         /\ \A f \in outbox : f.id # e.id
         /\ \A d \in Call \ {c} : \A f \in staged[d].outbox : f.id # e.id

(* The entries and events of a transaction are those of its row.           *)
RowParams(t) ==
  [from |-> t.source, to |-> t.destination, amount |-> t.amount, type |-> t.type,
   key |-> t.key, reversalOf |-> t.reversalOf]

Whole(t) ==
  LET p == RowParams(t) IN
  /\ \E d, k \in entries :
       {e \in entries : e.transaction = t.id} =
         {DebitEntry(p, t.id, d.id), CreditEntry(p, t.id, k.id)}
  /\ \E d, k \in outbox :
       {ev \in outbox : ev.transaction = t.id} =
         {DebitPosted(p, t.id, d.id), CreditPosted(p, t.id, k.id)}

WholeInv ==
  /\ \A t \in transactions : Whole(t)
  /\ \A e \in entries : \E t \in transactions : e.transaction = t.id
  /\ \A ev \in outbox : \E t \in transactions : ev.transaction = t.id

(* A client has no answer while its call is under way, except that it may  *)
(* have been told of an internal error before the outcome is known.        *)
AnswerInv ==
  /\ \A c \in Call :
       /\ pc[c] \notin {"orphan", "done"} => answer[c] = Pending
       /\ pc[c] = "orphan" => answer[c] = InternalError
  /\ AnswersAreTrue

PostingInv ==
  /\ RequestInv /\ SoundInv
  /\ MarkInv /\ OrderInv
  /\ ShapeInv /\ FreshInv
  /\ WholeInv /\ ReversalUndoesOnce
  /\ AnswerInv
=============================================================================
