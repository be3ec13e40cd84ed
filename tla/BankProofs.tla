----------------------------- MODULE BankProofs -----------------------------
(***************************************************************************)
(* Ledger implements Bank: every step of a call either changes neither the *)
(* committed rows nor the answers, or is one of Bank's steps.  A call      *)
(* takes effect when its rows are installed.                               *)
(***************************************************************************)
EXTENDS PostingProofs

USE DEF vars, database, sequences, session, locks, Goto, Give, ReleaseLocks, Discard

(* Both modules speak the language of LedgerData.                          *)
LEMMA SameRows ==
  ASSUME NEW p, NEW tx, NEW id
  PROVE  /\ Serial!TransactionRow(p, tx) = TransactionRow(p, tx)
         /\ Serial!DebitEntry(p, tx, id) = DebitEntry(p, tx, id)
         /\ Serial!CreditEntry(p, tx, id) = CreditEntry(p, tx, id)
         /\ Serial!DebitPosted(p, tx, id) = DebitPosted(p, tx, id)
         /\ Serial!CreditPosted(p, tx, id) = CreditPosted(p, tx, id)
BY DEF Serial!TransactionRow, TransactionRow, Serial!DebitEntry, DebitEntry,
       Serial!CreditEntry, CreditEntry, Serial!DebitPosted, DebitPosted,
       Serial!CreditPosted, CreditPosted

LEMMA SameBalance ==
  ASSUME NEW rows, NEW a
  PROVE  Serial!Balance(rows, a) = Balance(rows, a)
BY DEF Serial!Balance, Balance, Serial!Total, Total, Serial!EntriesOf, EntriesOf,
       Serial!MapThenSumSet, MapThenSumSet, Serial!MapThenFoldSet, MapThenFoldSet

LEMMA SameChecks ==
  ASSUME NEW p, NEW t, NEW sum
  PROVE  /\ Serial!Affordable(p, sum) <=> Affordable(p, sum)
         /\ Serial!SameArguments(p, t) <=> SameArguments(p, t)
BY DEF Serial!Affordable, Affordable, Serial!Wrap, Wrap, Serial!SameArguments, SameArguments

LEMMA SameRefusals ==
  ASSUME NEW r, NEW txs, NEW marked
  PROVE  /\ Serial!TransferRefusal(r) = TransferRefusal(r)
         /\ Serial!DepositRefusal(r) = DepositRefusal(r)
         /\ Serial!WithdrawalRefusal(r) = WithdrawalRefusal(r)
         /\ Serial!ReversalRefusal(r, txs, marked) = ReversalRefusal(r, txs, marked)
         /\ Serial!NoError = NoError /\ Serial!Refusal = Refusal
BY DEF Serial!TransferRefusal, TransferRefusal, Serial!DepositRefusal, DepositRefusal,
       Serial!WithdrawalRefusal, WithdrawalRefusal, Serial!ReversalRefusal, ReversalRefusal,
       Serial!DepositCode, DepositCode, Serial!WithdrawalCode, WithdrawalCode,
       Serial!NoError, NoError, Serial!Refusal, Refusal

LEMMA SameParams ==
  ASSUME NEW r, NEW t
  PROVE  /\ Serial!TransferParamsOf(r) = TransferParamsOf(r)
         /\ Serial!DepositParamsOf(r) = DepositParamsOf(r)
         /\ Serial!WithdrawalParamsOf(r) = WithdrawalParamsOf(r)
         /\ Serial!ReversalParamsOf(r, t) = ReversalParamsOf(r, t)
BY DEF Serial!TransferParamsOf, TransferParamsOf, Serial!DepositParamsOf, DepositParamsOf,
       Serial!WithdrawalParamsOf, WithdrawalParamsOf, Serial!ReversalParamsOf, ReversalParamsOf,
       Serial!DepositCode, DepositCode, Serial!WithdrawalCode, WithdrawalCode,
       Serial!NoId, NoId

LEMMA SameAnswers ==
  ASSUME NEW id, NEW error
  PROVE  /\ Serial!Created(id) = Created(id) /\ Serial!Replayed(id) = Replayed(id)
         /\ Serial!Refused(error) = Refused(error)
         /\ Serial!Pending = Pending /\ Serial!InternalError = InternalError
         /\ Refused("internal") = InternalError
BY DEF Serial!Created, Created, Serial!Replayed, Replayed, Serial!Refused, Refused,
       Serial!Pending, Pending, Serial!InternalError, InternalError, Serial!NoId, NoId

-----------------------------------------------------------------------------
(* The request of a call that has begun still stands for its parameters:   *)
(* what has been committed since then gives no reason to refuse it.        *)
LEMMA StillAsked ==
  ASSUME IInv, PostingInv, NEW c \in Call, Begun(c)
  PROVE  param[c] \in Serial!Asked(request[c])
<1> DEFINE r == request[c]  p == param[c]
<1>1. Requested(p, r) /\ r \in Request
  BY DEF PostingInv, RequestInv, IInv, TypeOK
<1>2. CASE r.type = "reversal"
  <2>1. PICK t \in transactions :
          t.id = r.target /\ t.type # "reversal" /\ p = ReversalParamsOf(r, t)
    BY <1>1, <1>2 DEF Requested
  <2>2. p.type = "reversal" /\ p.reversalOf = r.target
    BY <2>1 DEF ReversalParamsOf
  <2>3. r.target \notin reversed
    BY <2>2 DEF PostingInv, MarkInv, Target
  <2>4. \A u \in transactions : u.id = r.target => u = t
    BY <2>1 DEF IInv, KeyInv, PostedOncePerKey
  <2>5. ReversalRefusal(r, transactions, reversed) = NoError
    BY <2>1, <2>3, <2>4 DEF ReversalRefusal, NoError
  <2>6. Serial!RequestRefusal(r) = Serial!NoError
    BY <1>2, <2>5, SameRefusals DEF Serial!RequestRefusal
  <2> QED BY <1>2, <2>1, <2>6, SameParams DEF Serial!Asked
<1>3. CASE r.type = "transfer"
  BY <1>1, <1>3, SameRefusals, SameParams DEF Requested, Serial!Asked, Serial!RequestRefusal
<1>4. CASE r.type = "deposit"
  BY <1>1, <1>4, SameRefusals, SameParams DEF Requested, Serial!Asked, Serial!RequestRefusal
<1>5. CASE r.type = "withdrawal"
  BY <1>1, <1>5, SameRefusals, SameParams DEF Requested, Serial!Asked, Serial!RequestRefusal
<1> QED BY <1>1, <1>2, <1>3, <1>4, <1>5 DEF Requested

-----------------------------------------------------------------------------
(* Calls that change nothing but the answer.                               *)

LEMMA Turned ==
  ASSUME IInv, PostingInv, NEW c \in Call, pc[c] \notin {"orphan", "done"},
         NEW error \in Refusal, Refuse(c, error),
         \/ error = Serial!RequestRefusal(request[c])
         \/ Begun(c) /\ Serial!Turns(param[c], error)
  PROVE  Serial!Refuse(c)
<1>1. answer[c] = Serial!Pending
  BY SameAnswers DEF PostingInv, AnswerInv
<1>2. answer' = [answer EXCEPT ![c] = Serial!Refused(error)]
  BY SameAnswers DEF Refuse
<1>3. error \in Serial!Refusal
  BY SameRefusals
<1>4. UNCHANGED <<request, Serial!rows>>
  BY DEF Refuse, Rollback, Serial!rows
<1> QED BY <1>1, <1>2, <1>3, <1>4, StillAsked DEF Serial!Refuse

LEMMA Failed ==
  ASSUME IInv, PostingInv, NEW c \in Call, pc[c] \notin {"orphan", "done"},
         Give(c, InternalError), UNCHANGED <<request, database>>
  PROVE  Serial!Fail(c)
<1>1. answer[c] = Serial!Pending
  BY SameAnswers DEF PostingInv, AnswerInv
<1> QED BY <1>1, SameAnswers DEF Serial!Fail, Serial!rows

LEMMA OperationRefines ==
  ASSUME IInv, PostingInv, NEW c \in Call, Operation(c)
  PROVE  Serial!Refuse(c) \/ UNCHANGED Serial!vars
<1> DEFINE r == request[c]
<1>1. CASE UNCHANGED <<request, answer, database>>
  BY <1>1 DEF Serial!vars, Serial!rows
<1>2. CASE /\ pc[c] = "start" /\ Refuse(c, Serial!RequestRefusal(r))
           /\ Serial!RequestRefusal(r) \in Refusal
  BY <1>2, Turned
<1>3. {TransferRefusal(r), DepositRefusal(r), WithdrawalRefusal(r),
       ReversalRefusal(r, transactions, reversed)} \subseteq Refusal \cup {NoError}
  BY RefusalsTyped
<1>4. CASE Transfer(c)
  <2>1. Serial!RequestRefusal(r) = TransferRefusal(r)
    BY <1>4, SameRefusals DEF Transfer, Serial!RequestRefusal
  <2> QED BY <1>1, <1>2, <1>3, <1>4, <2>1 DEF Transfer, Begin
<1>5. CASE Deposit(c)
  <2>1. Serial!RequestRefusal(r) = DepositRefusal(r)
    BY <1>5, SameRefusals DEF Deposit, Serial!RequestRefusal
  <2> QED BY <1>1, <1>2, <1>3, <1>5, <2>1 DEF Deposit, Begin
<1>6. CASE Withdraw(c)
  <2>1. Serial!RequestRefusal(r) = WithdrawalRefusal(r)
    BY <1>6, SameRefusals DEF Withdraw, Serial!RequestRefusal
  <2> QED BY <1>1, <1>2, <1>3, <1>6, <2>1 DEF Withdraw, Begin
<1>7. CASE Reverse(c)
  <2>1. Serial!RequestRefusal(r) = ReversalRefusal(r, transactions, reversed)
    BY <1>7, SameRefusals DEF Reverse, Serial!RequestRefusal
  <2> QED BY <1>1, <1>2, <1>3, <1>7, <2>1 DEF Reverse
<1> QED BY <1>4, <1>5, <1>6, <1>7 DEF Operation

(* The key of a transaction that a call has staged is not in use.          *)
LEMMA KeyUnused ==
  ASSUME IInv, NEW c \in Call, CreationOf(c)
  PROVE  \A t \in transactions : t.key # param[c].key
<1>1. TransactionRow(param[c], result[c].transaction) \in staged[c].transactions
  BY DEF CreationOf
<1>2. TransactionRow(param[c], result[c].transaction).key = param[c].key
  BY DEF TransactionRow
<1> QED BY <1>1, <1>2 DEF IInv, KeyInv

LEMMA RefusalRefines ==
  ASSUME IInv, PostingInv, NEW c \in Call,
         RefuseCurrency(c) \/ RefuseMismatch(c) \/ RefuseBalance(c)
  PROVE  Serial!Refuse(c)
<1> USE DEF Begun
<1>1. CASE RefuseCurrency(c)
  <2>1. Serial!Turns(param[c], "ErrCurrencyMismatch")
    BY <1>1 DEF RefuseCurrency, SameCurrency, Serial!Turns
  <2> QED BY <1>1, <2>1, Turned DEF RefuseCurrency, Refusal
<1>2. CASE RefuseMismatch(c)
  <2>1. Serial!Turns(param[c], "ErrTransactionsMismatch")
    BY <1>2, SameChecks DEF RefuseMismatch, Serial!Turns
  <2> QED BY <1>2, <2>1, Turned DEF RefuseMismatch, Refusal
<1>3. CASE RefuseBalance(c)
  <2>1. CreationOf(c)
    BY <1>3 DEF RefuseBalance, PostingInv, ShapeInv, ShapeOf, Creating
  <2>2. Serial!Turns(param[c], "ErrNotEnough")
    BY <1>3, <2>1, KeyUnused, SameChecks, SameBalance DEF RefuseBalance, Serial!Turns
  <2> QED BY <1>3, <2>2, Turned DEF RefuseBalance, Refusal
<1> QED BY <1>1, <1>2, <1>3

LEMMA FailureRefines ==
  ASSUME IInv, PostingInv, NEW c \in Call, BalanceOverflow(c) \/ Failure(c)
  PROVE  Serial!Fail(c)
<1>1. Give(c, InternalError) /\ UNCHANGED <<request, database>>
  BY SameAnswers DEF BalanceOverflow, Failure, Abort, CommitTimeout, Refuse, Rollback
<1>2. pc[c] \notin {"orphan", "done"}
  BY DEF BalanceOverflow, Failure, Abort, CommitTimeout
<1> QED BY <1>1, <1>2, Failed

-----------------------------------------------------------------------------
(* Calls that take effect.                                                 *)

(* The rows of a posting have unused ids.                                  *)
LEMMA UnusedIds ==
  ASSUME IInv, PostingInv, NEW c \in Call, pc[c] \in {"commit", "orphan"},
         Install(c), CreationOf(c)
  PROVE  LET p == param[c]  tx == result[c].transaction IN
         /\ \E d, k \in entries' :
              /\ d.id # k.id /\ \A e \in entries : e.id \notin {d.id, k.id}
              /\ entries' = entries \cup {DebitEntry(p, tx, d.id), CreditEntry(p, tx, k.id)}
         /\ \E d, k \in outbox' :
              /\ d.id # k.id /\ \A ev \in outbox : ev.id \notin {d.id, k.id}
              /\ outbox' = outbox \cup {DebitPosted(p, tx, d.id), CreditPosted(p, tx, k.id)}
<1> DEFINE p == param[c]  tx == result[c].transaction
<1>1. PICK d, k \in staged[c].entries :
        d.id # k.id /\ staged[c].entries = {DebitEntry(p, tx, d.id), CreditEntry(p, tx, k.id)}
  BY DEF CreationOf, EntriesStaged, Ending
<1>2. PICK dd, kk \in staged[c].outbox :
        dd.id # kk.id /\ staged[c].outbox = {DebitPosted(p, tx, dd.id), CreditPosted(p, tx, kk.id)}
  BY DEF CreationOf, EventsStaged, Ending
<1>3. /\ \A e \in entries : e.id \notin {d.id, k.id}
      /\ \A ev \in outbox : ev.id \notin {dd.id, kk.id}
  BY DEF PostingInv, FreshInv
<1>4. /\ entries' = entries \cup staged[c].entries /\ d \in entries' /\ k \in entries'
      /\ outbox' = outbox \cup staged[c].outbox /\ dd \in outbox' /\ kk \in outbox'
  BY DEF Install
<1> QED BY <1>1, <1>2, <1>3, <1>4

LEMMA RowsAdded ==
  ASSUME IInv, PostingInv, NEW c \in Call, pc[c] \in {"commit", "orphan"},
         Install(c), CreationOf(c)
  PROVE  Serial!AddRows(param[c], result[c].transaction)
<1> DEFINE p == param[c]  tx == result[c].transaction
<1>1. /\ transactions' = transactions \cup {TransactionRow(p, tx)}
      /\ reversed' = reversed \cup Serial!MarkedBy(p)
  BY PostingInstalled DEF IInv, PostingInv, Target, Serial!MarkedBy
<1>2. \A t \in transactions : t.id # tx
  BY NewTransaction DEF IInv, PostingInv
<1> HIDE DEF p, tx
<1>3. /\ \E d, k \in entries' :
           /\ d.id # k.id /\ \A e \in entries : e.id \notin {d.id, k.id}
           /\ entries' = entries \cup {Serial!DebitEntry(p, tx, d.id), Serial!CreditEntry(p, tx, k.id)}
      /\ \E d, k \in outbox' :
           /\ d.id # k.id /\ \A ev \in outbox : ev.id \notin {d.id, k.id}
           /\ outbox' = outbox \cup {Serial!DebitPosted(p, tx, d.id), Serial!CreditPosted(p, tx, k.id)}
  BY UnusedIds, SameRows DEF p, tx
<1>4. Serial!AddRows(p, tx)
  BY <1>1, <1>2, <1>3, SameRows DEF Serial!AddRows
<1> QED BY <1>4 DEF p, tx

LEMMA TellRefines ==
  ASSUME IInv, PostingInv, NEW c \in Call, NEW a, a = result[c],
         \/ pc[c] = "commit" /\ Give(c, result[c])
         \/ pc[c] = "orphan" /\ UNCHANGED answer
  PROVE  Serial!Tell(c, a)
<1>1. /\ pc[c] = "commit" => answer[c] = Serial!Pending
      /\ pc[c] = "orphan" => answer[c] = Serial!InternalError
  BY SameAnswers DEF PostingInv, AnswerInv
<1> QED BY <1>1 DEF Serial!Tell

LEMMA PostRefines ==
  ASSUME IInv, PostingInv, NEW c \in Call, Install(c), CreationOf(c),
         result[c].outcome = "created",
         \/ pc[c] = "commit" /\ Give(c, result[c])
         \/ pc[c] = "orphan" /\ UNCHANGED answer
  PROVE  Serial!Post(c)
<1> DEFINE p == param[c]  tx == result[c].transaction
<1>1. p \in Serial!Asked(request[c])
  BY StillAsked DEF Begun
<1>2. CurrencyOf[p.from] = CurrencyOf[p.to]
  BY DEF PostingInv, OrderInv, OrderOf, SameCurrency
<1>3. \A u \in transactions : u.key # p.key
  BY KeyUnused
<1>4. Serial!Affordable(p, Serial!Balance(entries, p.from))
  <2>1. balance[c] = Balance(entries, p.from)
    BY DEF IInv, BalanceIsCurrent, Posting
  <2>2. Affordable(p, balance[c])
    BY DEF CreationOf
  <2> QED BY <2>1, <2>2, SameChecks, SameBalance
<1>5. Serial!AddRows(p, tx)
  BY RowsAdded
<1>6. Serial!Tell(c, Serial!Created(tx))
  <2>1. result[c] = Created(tx)
    BY DEF IInv, TypeOK, Answer, Created
  <2> QED BY <2>1, TellRefines, SameAnswers
<1>7. PICK t \in transactions' : t.id = tx
  <2>1. TransactionRow(p, tx) \in transactions'
    BY PostingInstalled DEF IInv, PostingInv
  <2>2. TransactionRow(p, tx).id = tx
    BY DEF TransactionRow
  <2> QED BY <2>1, <2>2
<1>8. request' = request
  BY DEF Install
<1> HIDE DEF p, tx
<1> QED BY <1>1, <1>2, <1>3, <1>4, <1>5, <1>6, <1>7, <1>8 DEF Serial!Post

LEMMA ReplayRefines ==
  ASSUME IInv, PostingInv, NEW c \in Call, Install(c), ReplayOf(c),
         \/ pc[c] = "commit" /\ Give(c, result[c])
         \/ pc[c] = "orphan" /\ UNCHANGED answer
  PROVE  Serial!Replay(c)
<1> DEFINE p == param[c]
<1>1. p \in Serial!Asked(request[c])
  BY StillAsked DEF Begun
<1>2. PICK t \in transactions : /\ t.key = p.key /\ SameArguments(p, t)
                                /\ result[c] = Replayed(t.id)
  BY DEF ReplayOf
<1>3. Serial!SameArguments(p, t)
  BY <1>2, SameChecks
<1>4. Serial!Tell(c, Serial!Replayed(t.id))
  BY <1>2, TellRefines, SameAnswers
<1>5. /\ UNCHANGED <<request, transactions, entries, outbox>>
      /\ reversed' = reversed \cup Serial!MarkedBy(p)
  BY ReplayInstalled DEF IInv, PostingInv, Target, Serial!MarkedBy, Install
<1> HIDE DEF p
<1> QED BY <1>1, <1>2, <1>3, <1>4, <1>5 DEF Serial!Replay

LEMMA InstallRefines ==
  ASSUME IInv, PostingInv, NEW c \in Call, Commit(c) \/ OrphanCommits(c)
  PROVE  Serial!Post(c) \/ Serial!Replay(c)
<1>1. /\ Install(c)
      /\ \/ pc[c] = "commit" /\ Give(c, result[c])
         \/ pc[c] = "orphan" /\ UNCHANGED answer
  BY DEF Commit, OrphanCommits
<1>2. \/ ReplayOf(c)
      \/ CreationOf(c) /\ result[c].outcome = "created"
  BY <1>1, InstallCases DEF IInv, PostingInv
<1> QED BY <1>1, <1>2, PostRefines, ReplayRefines

-----------------------------------------------------------------------------

LEMMA InitRefines == Init => Serial!Init
BY SameAnswers DEF Init, Serial!Init

LEMMA StepRefines ==
  IInv /\ PostingInv /\ [Next]_vars => [Serial!Next]_(Serial!vars)
<1> SUFFICES ASSUME IInv, PostingInv, [Next]_vars
             PROVE  Serial!Next \/ UNCHANGED Serial!vars
  OBVIOUS
<1>1. CASE UNCHANGED <<request, answer, database>>
  BY <1>1 DEF Serial!vars, Serial!rows
<1>2. ASSUME NEW c \in Call, Step(c)
      PROVE  Serial!Next \/ UNCHANGED Serial!vars
  <2>1. CASE Operation(c)
    BY <2>1, OperationRefines DEF Serial!Next
  <2>2. CASE LockFirst(c) \/ LockSecond(c) \/ CreateTransaction(c) \/ DuplicateKey(c)
             \/ Replay(c) \/ CheckBalance(c)
    BY <1>1, <2>2 DEF LockFirst, LockSecond, CreateTransaction, DuplicateKey, Replay,
                      CheckBalance
  <2>3. CASE RefuseCurrency(c) \/ RefuseMismatch(c) \/ RefuseBalance(c)
    BY <2>3, RefusalRefines DEF Serial!Next
  <2>4. CASE BalanceOverflow(c) \/ Failure(c)
    BY <2>4, FailureRefines DEF Serial!Next
  <2>5. CASE CreateDebit(c) \/ CreateCredit(c) \/ PostCredit(c) \/ PostDebit(c)
             \/ UpdateStatus(c) \/ OrphanRollsBack(c)
    BY <1>1, <2>5 DEF CreateDebit, CreateCredit, PostCredit, PostDebit, UpdateStatus,
                      OrphanRollsBack, Rollback
  <2>6. CASE Commit(c) \/ OrphanCommits(c)
    BY <2>6, InstallRefines DEF Serial!Next
  <2> QED BY <1>2, <2>1, <2>2, <2>3, <2>4, <2>5, <2>6 DEF Step, Statement, Orphan
<1>3. CASE UNCHANGED vars
  BY <1>1, <1>3
<1> QED BY <1>2, <1>3 DEF Next

(* Concurrent calls are serializable: whatever statements interleave, the  *)
(* committed rows and the answers change as if the operations ran one      *)
(* after the other, each at the moment its rows become visible.            *)
THEOREM Serializable == Spec => ImplementsBank
BY Postings, InitRefines, StepRefines, PTL DEF Spec, ImplementsBank, Serial!Spec
=============================================================================
