------------------------------- MODULE Ledger -------------------------------
(***************************************************************************)
(* Concurrent calls of the service operations Transfer, Deposit, Withdraw  *)
(* and Reverse against one PostgreSQL database.  Every call runs its       *)
(* statements in one database transaction (Storage.WithTx) at the          *)
(* isolation level READ COMMITTED; one action below is one statement, and  *)
(* the statements of different calls interleave.  A retry is another call  *)
(* with the same request.                                                  *)
(*                                                                         *)
(* A call's uncommitted rows are in staged[c]; no other call sees them.    *)
(* What other calls do see of an open transaction is what they wait for:   *)
(* its row locks, and its insertion of an idempotency key.                 *)
(***************************************************************************)
EXTENDS LedgerData

CONSTANTS
  Call,        \* the API calls of a behavior
  Workload     \* what the calls may ask for: a set of functions Call -> Request

ASSUME WorkloadAssumption == Workload \subseteq [Call -> Request]

VARIABLES
  request,       \* request[c]: what the client of c asked for
  pc,            \* pc[c]: the next statement of c
  param,         \* param[c]: the transferParams of c, once they are known
  balance,       \* balance[c]: the source balance c has read
  result,        \* result[c]: the answer c gives if its commit succeeds
  answer,        \* answer[c]: what the client of c was told
  staged,        \* staged[c]: the rows c has written and not yet committed
  accountLocks,  \* accountLocks[c]: the rows of accounts c has locked
  rowLocks,      \* rowLocks[c]: the ids of the transactions rows c has locked
  transactions, reversed, entries, outbox,    \* the committed rows
  txSeq, entrySeq, outboxSeq                  \* the BIGSERIAL counters

database == <<transactions, reversed, entries, outbox>>
sequences == <<txSeq, entrySeq, outboxSeq>>
session == <<param, balance, result>>
locks == <<accountLocks, rowLocks>>
vars == <<request, pc, session, answer, staged, locks, database, sequences>>

Label ==
  {"start", "lockFirst", "lockSecond", "createTransaction", "getTransaction",
   "getBalance", "createDebit", "createCredit", "postCredit", "postDebit",
   "updateStatus", "commit", "orphan", "done"}

NothingStaged ==
  [transactions |-> {}, reversed |-> {}, entries |-> {}, outbox |-> {}]

TypeOK ==
  /\ request \in [Call -> Request]
  /\ pc \in [Call -> Label]
  /\ param \in [Call -> TransferParams \cup {NoParams}]
  /\ balance \in [Call -> Int64]
  /\ result \in [Call -> Answer]
  /\ answer \in [Call -> Answer]
  /\ staged \in [Call -> [transactions : SUBSET Transaction, reversed : SUBSET Id,
                          entries : SUBSET Entry, outbox : SUBSET Event]]
  /\ accountLocks \in [Call -> SUBSET Account]
  /\ rowLocks \in [Call -> SUBSET Id]
  /\ transactions \subseteq Transaction
  /\ reversed \subseteq Id
  /\ entries \subseteq Entry
  /\ outbox \subseteq Event
  /\ txSeq \in Nat /\ entrySeq \in Nat /\ outboxSeq \in Nat

(* The database after the migrations: accounts, and no transaction.        *)
Init ==
  /\ request \in Workload
  /\ pc = [c \in Call |-> "start"]
  /\ param = [c \in Call |-> NoParams]
  /\ balance = [c \in Call |-> 0]
  /\ result = [c \in Call |-> Pending]
  /\ answer = [c \in Call |-> Pending]
  /\ staged = [c \in Call |-> NothingStaged]
  /\ accountLocks = [c \in Call |-> {}]
  /\ rowLocks = [c \in Call |-> {}]
  /\ transactions = {} /\ reversed = {} /\ entries = {} /\ outbox = {}
  /\ txSeq = 0 /\ entrySeq = 0 /\ outboxSeq = 0

-----------------------------------------------------------------------------
(* How a database transaction ends.                                        *)

Goto(c, label) == pc' = [pc EXCEPT ![c] = label]

Give(c, a) == answer' = [answer EXCEPT ![c] = a]

ReleaseLocks(c) ==
  /\ accountLocks' = [accountLocks EXCEPT ![c] = {}]
  /\ rowLocks' = [rowLocks EXCEPT ![c] = {}]

Discard(c) == staged' = [staged EXCEPT ![c] = NothingStaged]

(* The function passed to WithTx returned an error, or the transaction     *)
(* never got that far: the deferred Rollback.                              *)
Rollback(c) ==
  /\ Goto(c, "done")
  /\ Discard(c)
  /\ ReleaseLocks(c)
  /\ UNCHANGED <<request, session, database>>

Refuse(c, error) ==
  /\ Rollback(c)
  /\ Give(c, Refused(error))

(* The rows of c become visible and its locks are released, in one step.   *)
Install(c) ==
  /\ transactions' = transactions \cup staged[c].transactions
  /\ reversed' = reversed \cup staged[c].reversed
  /\ entries' = entries \cup staged[c].entries
  /\ outbox' = outbox \cup staged[c].outbox
  /\ Goto(c, "done")
  /\ Discard(c)
  /\ ReleaseLocks(c)
  /\ UNCHANGED <<request, session, sequences>>

-----------------------------------------------------------------------------
(* The operations: validation, the reads of immutable account rows, and    *)
(* the parameters handed to the core of the money transfer.                *)

Begin(c, refusal, p) ==
  \/ /\ refusal # NoError
     /\ Refuse(c, refusal)
     /\ UNCHANGED sequences
  \/ /\ refusal = NoError
     /\ param' = [param EXCEPT ![c] = p]
     /\ Goto(c, "lockFirst")
     /\ UNCHANGED <<request, balance, result, answer, staged, locks, database,
                    sequences>>

Transfer(c) ==
  /\ pc[c] = "start" /\ request[c].type = "transfer"
  /\ Begin(c, TransferRefusal(request[c]), TransferParamsOf(request[c]))

Deposit(c) ==
  /\ pc[c] = "start" /\ request[c].type = "deposit"
  /\ Begin(c, DepositRefusal(request[c]), DepositParamsOf(request[c]))

Withdraw(c) ==
  /\ pc[c] = "start" /\ request[c].type = "withdrawal"
  /\ Begin(c, WithdrawalRefusal(request[c]), WithdrawalParamsOf(request[c]))

(* GetTransactionByID selects the target FOR UPDATE: it waits for a call   *)
(* that has the row locked, and then sees what that call committed.        *)
Reverse(c) ==
  /\ pc[c] = "start" /\ request[c].type = "reversal"
  /\ \A d \in Call \ {c} : request[c].target \notin rowLocks[d]
  /\ LET refusal == ReversalRefusal(request[c], transactions, reversed) IN
     \/ /\ refusal # NoError
        /\ Refuse(c, refusal)
        /\ UNCHANGED sequences
     \/ /\ refusal = NoError
        /\ \E t \in transactions :
             /\ t.id = request[c].target
             /\ param' = [param EXCEPT ![c] = ReversalParamsOf(request[c], t)]
        /\ rowLocks' = [rowLocks EXCEPT ![c] = {request[c].target}]
        /\ Goto(c, "lockFirst")
        /\ UNCHANGED <<request, balance, result, answer, staged, accountLocks,
                       database, sequences>>

-----------------------------------------------------------------------------
(* The core of the money transfer.                                         *)

(* The accounts are locked in the order of their ids.                      *)
ArgumentOrder(p) == <<p.from, p.to>>    \* regression: locks in request order

LockOrder(p) == IF p.from <= p.to THEN <<p.from, p.to>> ELSE <<p.to, p.from>>

First(p) == LockOrder(p)[1]

Second(p) == LockOrder(p)[2]

(* Regression: the account is read without FOR UPDATE.                     *)
ReadAccount(c, a) == accountLocks' = [accountLocks EXCEPT ![c] = @ \cup {a}]

(* SELECT ... FOR UPDATE on an account row.                                *)
LockAccount(c, a) ==
  /\ \A d \in Call \ {c} : a \notin accountLocks[d]
  /\ accountLocks' = [accountLocks EXCEPT ![c] = @ \cup {a}]

LockFirst(c) ==
  /\ pc[c] = "lockFirst"
  /\ LockAccount(c, First(param[c]))
  /\ Goto(c, "lockSecond")
  /\ UNCHANGED <<request, session, answer, staged, rowLocks, database, sequences>>

AnyCurrency(p) == TRUE    \* regression: no check of the currencies

SameCurrency(p) == CurrencyOf[p.from] = CurrencyOf[p.to]

LockSecond(c) ==
  /\ pc[c] = "lockSecond"
  /\ SameCurrency(param[c])
  /\ LockAccount(c, Second(param[c]))
  /\ Goto(c, "createTransaction")
  /\ UNCHANGED <<request, session, answer, staged, rowLocks, database, sequences>>

(* The second lock was granted, and the currencies turn out to differ.     *)
RefuseCurrency(c) ==
  /\ pc[c] = "lockSecond"
  /\ ~SameCurrency(param[c])
  /\ \A d \in Call \ {c} : Second(param[c]) \notin accountLocks[d]
  /\ Refuse(c, "ErrCurrencyMismatch")
  /\ UNCHANGED sequences

(* INSERT ... ON CONFLICT (idempotency_key) DO NOTHING, and the unique     *)
(* index on reversal_of.  The insertion waits for an open transaction that *)
(* has inserted the same value into either index.                          *)
CollidesInType(p, t) ==    \* regression: keys are unique per operation only
  \/ t.key = p.key /\ t.type = p.type
  \/ t.reversalOf = p.reversalOf /\ p.reversalOf # NoId

Collides(p, t) ==
  \/ t.key = p.key
  \/ t.reversalOf = p.reversalOf /\ p.reversalOf # NoId

InsertWaits(c) ==
  \E d \in Call \ {c} : \E t \in staged[d].transactions : Collides(param[c], t)

CreateTransaction(c) ==
  /\ pc[c] = "createTransaction"
  /\ ~InsertWaits(c)
  /\ \A t \in transactions : ~Collides(param[c], t)
  /\ txSeq' = txSeq + 1
  /\ staged' = [staged EXCEPT ![c].transactions = {TransactionRow(param[c], txSeq')}]
  /\ result' = [result EXCEPT ![c] = Created(txSeq')]
  /\ Goto(c, "getBalance")
  /\ UNCHANGED <<request, param, balance, answer, locks, database, entrySeq, outboxSeq>>

(* The insertion of a used key returns no row, and has drawn an id.        *)
DuplicateKey(c) ==
  /\ pc[c] = "createTransaction"
  /\ \E t \in transactions : t.key = param[c].key
  /\ txSeq' = txSeq + 1
  /\ Goto(c, "getTransaction")
  /\ UNCHANGED <<request, session, answer, staged, locks, database, entrySeq, outboxSeq>>

ToCommit(p) == "commit"    \* regression: the status is never updated

(* What follows the core of the money transfer.                            *)
AfterTransfer(p) == IF p.type = "reversal" THEN "updateStatus" ELSE "commit"

(* The key's transaction has the arguments of the call: the core returns   *)
(* it, and the operation goes on as if it had just been made.              *)
Replay(c) ==
  /\ pc[c] = "getTransaction"
  /\ \E t \in transactions :
       /\ t.key = param[c].key
       /\ SameArguments(param[c], t)
       /\ result' = [result EXCEPT ![c] = Replayed(t.id)]
  /\ Goto(c, AfterTransfer(param[c]))
  /\ UNCHANGED <<request, param, balance, answer, staged, locks, database, sequences>>

RefuseMismatch(c) ==
  /\ pc[c] = "getTransaction"
  /\ \E t \in transactions : t.key = param[c].key /\ ~SameArguments(param[c], t)
  /\ Refuse(c, "ErrTransactionsMismatch")
  /\ UNCHANGED sequences

(* Regression: a sum beyond int64 is taken for a balance.                  *)
CheckAnySum(c) ==
  LET sum == Balance(entries, param[c].from) IN
  /\ pc[c] = "getBalance"
  /\ Affordable(param[c], sum)
  /\ balance' = [balance EXCEPT ![c] = sum]
  /\ Goto(c, "createDebit")
  /\ UNCHANGED <<request, param, result, answer, staged, locks, database, sequences>>

(* SELECT SUM(amount), scanned into an int64, and the check of the balance. *)
CheckBalance(c) ==
  LET sum == Balance(entries, param[c].from) IN
  /\ pc[c] = "getBalance"
  /\ sum \in Int64
  /\ Affordable(param[c], sum)
  /\ balance' = [balance EXCEPT ![c] = sum]
  /\ Goto(c, "createDebit")
  /\ UNCHANGED <<request, param, result, answer, staged, locks, database, sequences>>

RefuseBalance(c) ==
  LET sum == Balance(entries, param[c].from) IN
  /\ pc[c] = "getBalance"
  /\ sum \in Int64
  /\ ~Affordable(param[c], sum)
  /\ Refuse(c, "ErrNotEnough")
  /\ UNCHANGED sequences

(* A sum that fits no int64 fails to scan: the operation ends there.       *)
BalanceOverflow(c) ==
  /\ pc[c] = "getBalance"
  /\ Balance(entries, param[c].from) \notin Int64
  /\ Refuse(c, "internal")
  /\ UNCHANGED sequences

(* Regression: the debit is inserted outside of the database transaction.  *)
AutocommitDebit(c) ==
  /\ pc[c] = "createDebit"
  /\ entrySeq' = entrySeq + 1
  /\ entries' = entries \cup {DebitEntry(param[c], result[c].transaction, entrySeq')}
  /\ Goto(c, "createCredit")
  /\ UNCHANGED <<request, session, answer, staged, locks, transactions, reversed,
                 outbox, txSeq, outboxSeq>>

CreateDebit(c) ==
  /\ pc[c] = "createDebit"
  /\ entrySeq' = entrySeq + 1
  /\ staged' = [staged EXCEPT ![c].entries =
       @ \cup {DebitEntry(param[c], result[c].transaction, entrySeq')}]
  /\ Goto(c, "createCredit")
  /\ UNCHANGED <<request, session, answer, locks, database, txSeq, outboxSeq>>

CreateCredit(c) ==
  /\ pc[c] = "createCredit"
  /\ entrySeq' = entrySeq + 1
  /\ staged' = [staged EXCEPT ![c].entries =
       @ \cup {CreditEntry(param[c], result[c].transaction, entrySeq')}]
  /\ Goto(c, "postCredit")
  /\ UNCHANGED <<request, session, answer, locks, database, txSeq, outboxSeq>>

PostCredit(c) ==
  /\ pc[c] = "postCredit"
  /\ outboxSeq' = outboxSeq + 1
  /\ staged' = [staged EXCEPT ![c].outbox =
       @ \cup {CreditPosted(param[c], result[c].transaction, outboxSeq')}]
  /\ Goto(c, "postDebit")
  /\ UNCHANGED <<request, session, answer, locks, database, txSeq, entrySeq>>

PostDebit(c) ==
  /\ pc[c] = "postDebit"
  /\ outboxSeq' = outboxSeq + 1
  /\ staged' = [staged EXCEPT ![c].outbox =
       @ \cup {DebitPosted(param[c], result[c].transaction, outboxSeq')}]
  /\ Goto(c, AfterTransfer(param[c]))
  /\ UNCHANGED <<request, session, answer, locks, database, txSeq, entrySeq>>

(* UPDATE ... SET status = 'reversed' WHERE id = target AND status =       *)
(* 'completed'; touching no row is an error, see Abort.                    *)
UpdateStatus(c) ==
  /\ pc[c] = "updateStatus"
  /\ param[c].reversalOf \notin reversed
  /\ staged' = [staged EXCEPT ![c].reversed = {param[c].reversalOf}]
  /\ Goto(c, "commit")
  /\ UNCHANGED <<request, session, answer, locks, database, sequences>>

-----------------------------------------------------------------------------
(* COMMIT, and how a database transaction may end otherwise.               *)

Commit(c) ==
  /\ pc[c] = "commit"
  /\ Install(c)
  /\ Give(c, result[c])

(* commitTimeout expires before the database answers: the client is told   *)
(* of an internal error, the outcome is decided by the database later.     *)
CommitTimeout(c) ==
  /\ pc[c] = "commit"
  /\ Give(c, InternalError)
  /\ Goto(c, "orphan")
  /\ UNCHANGED <<request, session, staged, locks, database, sequences>>

OrphanCommits(c) ==
  /\ pc[c] = "orphan"
  /\ Install(c)
  /\ UNCHANGED answer

OrphanRollsBack(c) ==
  /\ pc[c] = "orphan"
  /\ Rollback(c)
  /\ UNCHANGED <<answer, sequences>>

(* Any statement may fail: operationTimeout expires, also while the call   *)
(* waits for a lock; the connection or the process is lost; a constraint   *)
(* is violated; no connection is to be had.                                *)
Abort(c) ==
  /\ pc[c] \notin {"orphan", "done"}
  /\ Refuse(c, "internal")
  /\ UNCHANGED sequences

-----------------------------------------------------------------------------

Operation(c) == Transfer(c) \/ Deposit(c) \/ Withdraw(c) \/ Reverse(c)

Statement(c) ==
  \/ Operation(c)
  \/ LockFirst(c) \/ LockSecond(c) \/ RefuseCurrency(c)
  \/ CreateTransaction(c) \/ DuplicateKey(c) \/ Replay(c) \/ RefuseMismatch(c)
  \/ CheckBalance(c) \/ RefuseBalance(c) \/ BalanceOverflow(c)
  \/ CreateDebit(c) \/ CreateCredit(c) \/ PostCredit(c) \/ PostDebit(c)
  \/ UpdateStatus(c) \/ Commit(c)

Orphan(c) == OrphanCommits(c) \/ OrphanRollsBack(c)

Failure(c) == CommitTimeout(c) \/ Abort(c)

Step(c) == Statement(c) \/ Orphan(c) \/ Failure(c)

Next == \E c \in Call : Step(c)

(* A call keeps executing statements, a lock that stays free is granted,   *)
(* and the database settles every commit it was sent.  Nothing has to fail.*)
Fairness == \A c \in Call : WF_vars(Statement(c)) /\ WF_vars(Orphan(c))

Spec == Init /\ [][Next]_vars

FairSpec == Spec /\ Fairness

-----------------------------------------------------------------------------
(* Safety.                                                                 *)

(* Every committed transaction has exactly two ledger entries, minus its   *)
(* amount on the source and plus its amount on the destination, and there  *)
(* is no other entry: a failed, refused or replayed call leaves none, at   *)
(* whatever statement it stopped (service.go, transfer and WithTx).        *)
DoubleEntry ==
  /\ \A e \in entries : \E t \in transactions : e.transaction = t.id
  /\ \A t \in transactions : \E d, k \in entries :
       /\ {e \in entries : e.transaction = t.id} = {d, k}
       /\ d.account = t.source /\ d.amount = -t.amount
       /\ k.account = t.destination /\ k.amount = t.amount

(* The outbox announces the ledger: every committed entry has exactly one  *)
(* event, committed with it, and every event tells of a committed entry,   *)
(* of its counterparty and of the operation behind it.                     *)
Announces(ev, e) ==
  /\ ev.transaction = e.transaction /\ ev.account = e.account /\ ev.amount = e.amount
  /\ \E t \in transactions :
       /\ t.id = e.transaction /\ t.type = ev.type /\ t.reversalOf = ev.reversalOf
       /\ {ev.account, ev.counterparty} = {t.source, t.destination}

OutboxMatchesLedger ==
  /\ \A ev \in outbox : \E e \in entries : Announces(ev, e)
  /\ \A e \in entries : \E ev \in outbox :
       /\ Announces(ev, e)
       /\ \A other \in outbox : Announces(other, e) => other = ev

(* However many calls carry an idempotency key, and however many of them   *)
(* are retries of a call whose outcome was unknown, at most one            *)
(* transaction is posted under the key, and ids identify transactions.     *)
PostedOncePerKey ==
  \A t, u \in transactions : t.key = u.key \/ t.id = u.id => t = u

(* A reversal moves exactly the money of one earlier transaction back, that *)
(* transaction is no reversal and is marked 'reversed', and no transaction *)
(* is undone twice (Reverse, the row lock and the unique index).           *)
ReversalUndoesOnce ==
  \A t \in transactions : t.type = "reversal" =>
    /\ \E u \in transactions :
         /\ u.id = t.reversalOf /\ u.type # "reversal" /\ u.id \in reversed
         /\ u.source = t.destination /\ u.destination = t.source
         /\ u.amount = t.amount
    /\ \A u \in transactions : u.reversalOf = t.reversalOf => u = t

(* The source balance a call decided on is still the balance when its      *)
(* entries are installed, however late the commit: the locks of the core   *)
(* leave no window between check and use.                                  *)
Posting(c) == result[c].outcome = "created" /\ pc[c] \notin {"getBalance", "done"}

BalanceIsCurrent ==
  \A c \in Call : Posting(c) => balance[c] = Balance(entries, param[c].from)

(* What a client is told is true: "created" names a posted transaction     *)
(* that does what was asked, under the key of the call, and no two calls   *)
(* are told of the same creation; "replayed" names a posted transaction    *)
(* under the key that moves the same money between the same accounts.      *)
Does(t, r) ==
  /\ t.key = r.key
  /\ CASE r.type = "transfer" ->
            t.source = r.from /\ t.destination = r.to /\ t.amount = r.amount
       [] r.type = "deposit" -> t.destination = r.account /\ t.amount = r.amount
       [] r.type = "withdrawal" -> t.source = r.account /\ t.amount = r.amount
       [] r.type = "reversal" -> \E u \in transactions :
            /\ u.id = r.target /\ u.amount = t.amount
            /\ u.source = t.destination /\ u.destination = t.source

AnswersAreTrue ==
  \A c \in Call :
    /\ answer[c].outcome \in {"created", "replayed"} =>
         \E t \in transactions : t.id = answer[c].transaction /\ Does(t, request[c])
    /\ answer[c].outcome = "created" =>
         /\ \E t \in transactions :
              t.id = answer[c].transaction /\ t.type = request[c].type
         /\ \A d \in Call \ {c} : answer[d] # answer[c]

(* No set of calls waits for each other, over account locks, the locks on  *)
(* reversed transactions and insertions of the same key together.          *)
WaitsFor(c, d) ==
  /\ c # d
  /\ \/ /\ pc[c] = "start" /\ request[c].type = "reversal"
        /\ request[c].target \in rowLocks[d]
     \/ pc[c] = "lockFirst" /\ First(param[c]) \in accountLocks[d]
     \/ pc[c] = "lockSecond" /\ Second(param[c]) \in accountLocks[d]
     \/ /\ pc[c] = "createTransaction"
        /\ \E t \in staged[d].transactions : Collides(param[c], t)

NoWaitCycle ==
  \A waiting \in (SUBSET Call) \ {{}} :
    \E c \in waiting : \A d \in waiting : ~WaitsFor(c, d)

(* A transaction marked 'reversed' has been reversed: the two entries that *)
(* undo it exist.                                                          *)
ReversedHasReversal ==
  \A id \in reversed : \E t \in transactions : t.reversalOf = id

-----------------------------------------------------------------------------
(* What a step may never do.                                               *)

(* Only a reversal may take the balance of a user from zero or more to     *)
(* below zero.                                                             *)
Reverses(a) ==
  \E t \in transactions' \ transactions : t.type = "reversal" /\ t.source = a

NoOverdraft ==
  [][\A a \in User :
       Balance(entries, a) >= 0 /\ Balance(entries', a) < 0 => Reverses(a)]_vars

(* Only a reversal may take the balance of a user further below zero.      *)
NoDeeperOverdraft ==
  [][\A a \in User :
       /\ Balance(entries', a) < 0
       /\ Balance(entries', a) < Balance(entries, a)
       => Reverses(a)]_vars

(* The entries of an account, and its events, become visible in the order  *)
(* of their ids, although ids are drawn before the commit: what a reader   *)
(* who remembers the last id has skipped will not appear later.            *)
VisibleInIdOrder ==
  [][/\ \A e \in entries' \ entries : \A f \in entries :
          f.account = e.account => f.id < e.id
     /\ \A e \in outbox' \ outbox : \A f \in outbox :
          f.account = e.account => f.id < e.id]_vars

-----------------------------------------------------------------------------
(* Every call ends, and lets go of its locks, although calls wait for each *)
(* other at three kinds of locks: no statement has to fail for that.       *)
EveryCallEnds == <>[](\A c \in Call : pc[c] = "done" /\ answer[c] # Pending)

-----------------------------------------------------------------------------
(* Concurrent calls are serializable: the committed rows and the answers   *)
(* change as if every operation ran alone, in the order of the commits.    *)
Serial == INSTANCE Bank

ImplementsBank == Serial!Spec
=============================================================================
