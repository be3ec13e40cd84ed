---------------------------- MODULE LedgerProofs ----------------------------
(***************************************************************************)
(* Proofs about Ledger, for every set of calls, workload and largest       *)
(* integer.                                                                *)
(***************************************************************************)
EXTENDS LedgerInvariant, TLAPS

USE DEF vars, database, sequences, session, locks

(* The parameters a service operation hands to the core have their type.   *)
LEMMA ParamsTyped ==
  ASSUME NEW r \in Request
  PROVE  /\ r.type = "transfer" /\ TransferRefusal(r) = NoError =>
              TransferParamsOf(r) \in TransferParams /\ TransferParamsOf(r).type # "reversal"
         /\ r.type = "deposit" /\ DepositRefusal(r) = NoError =>
              DepositParamsOf(r) \in TransferParams /\ DepositParamsOf(r).type # "reversal"
         /\ r.type = "withdrawal" /\ WithdrawalRefusal(r) = NoError =>
              WithdrawalParamsOf(r) \in TransferParams /\ WithdrawalParamsOf(r).type # "reversal"
         /\ r.type = "reversal" => \A t \in Transaction :
              ReversalParamsOf(r, t) \in TransferParams
<1>1. CASE r.type = "transfer"
  BY <1>1, AccountAssumption, MaxIntAssumption
     DEF Request, TransferRefusal, NoError, TransferParamsOf, TransferParams, TxType, NoId, Int64
<1>2. CASE r.type = "deposit"
  BY <1>2, AccountAssumption, SystemAccountAssumption, MaxIntAssumption
     DEF Request, DepositRefusal, NoError, DepositParamsOf, DepositCode, TransferParams, TxType, NoId, Int64
<1>3. CASE r.type = "withdrawal"
  BY <1>3, AccountAssumption, SystemAccountAssumption, MaxIntAssumption
     DEF Request, WithdrawalRefusal, NoError, WithdrawalParamsOf, WithdrawalCode, TransferParams, TxType, NoId, Int64
<1>4. CASE r.type = "reversal"
  BY <1>4 DEF Request, ReversalParamsOf, TransferParams, Transaction, TxType, Id
<1> QED BY <1>1, <1>2, <1>3, <1>4 DEF Request

USE DEF Goto, Give, ReleaseLocks, Discard

(* The fields of the rows staged by one call.                              *)
StagedRows ==
  [transactions : SUBSET Transaction, reversed : SUBSET Id,
   entries : SUBSET Entry, outbox : SUBSET Event]

LEMMA InitTyped == Init => TypeOK /\ SessionInv
<1> SUFFICES ASSUME Init PROVE TypeOK /\ SessionInv
  OBVIOUS
<1> USE DEF Init
<1>1. request \in [Call -> Request]
  BY WorkloadAssumption
<1>2. balance \in [Call -> Int64]
  BY MaxIntAssumption DEF Int64
<1>3. answer \in [Call -> Answer] /\ result \in [Call -> Answer]
  BY DEF Pending, Answer, NoId
<1>4. TypeOK
  BY <1>1, <1>2, <1>3 DEF TypeOK, Label, NothingStaged
<1>5. SessionInv
  BY DEF SessionInv, SessionOf, NoParams, Pending, Creating
<1> QED BY <1>4, <1>5

LEMMA StagedTyped ==
  ASSUME TypeOK, NEW c \in Call
  PROVE  /\ staged \in [Call -> StagedRows]
         /\ \A T \in SUBSET Transaction :
              [staged EXCEPT ![c].transactions = T] \in [Call -> StagedRows]
         /\ \A e \in Entry :
              [staged EXCEPT ![c].entries = @ \cup {e}] \in [Call -> StagedRows]
         /\ \A e \in Event :
              [staged EXCEPT ![c].outbox = @ \cup {e}] \in [Call -> StagedRows]
<1> USE DEF StagedRows
<1>1. staged \in [Call -> StagedRows] /\ staged[c] \in StagedRows
  BY DEF TypeOK
<1>2. ASSUME NEW T \in SUBSET Transaction
      PROVE  [staged EXCEPT ![c].transactions = T] \in [Call -> StagedRows]
  <2>1. [staged[c] EXCEPT !.transactions = T] \in StagedRows
    BY <1>1
  <2> QED BY <1>1, <2>1
<1>3. ASSUME NEW e \in Entry
      PROVE  [staged EXCEPT ![c].entries = @ \cup {e}] \in [Call -> StagedRows]
  <2>1. [staged[c] EXCEPT !.entries = @ \cup {e}] \in StagedRows
    BY <1>1
  <2> QED BY <1>1, <2>1
<1>4. ASSUME NEW e \in Event
      PROVE  [staged EXCEPT ![c].outbox = @ \cup {e}] \in [Call -> StagedRows]
  <2>1. [staged[c] EXCEPT !.outbox = @ \cup {e}] \in StagedRows
    BY <1>1
  <2> QED BY <1>1, <2>1
<1> QED BY <1>1, <1>2, <1>3, <1>4

(* A rollback or an installation changes nothing a type could be lost by.  *)
LEMMA RollbackTyped ==
  ASSUME NEW c \in Call, TypeOK, Rollback(c), sequences' = sequences, answer' \in [Call -> Answer]
  PROVE  TypeOK'
BY DEF Rollback, TypeOK, NothingStaged, Label

LEMMA RefusalTyped ==
  ASSUME NEW c \in Call, TypeOK, NEW error \in Refusal \cup {"internal"},
         Refuse(c, error), sequences' = sequences
  PROVE  TypeOK'
<1>1. answer' \in [Call -> Answer]
  BY DEF Refuse, Refused, TypeOK, Answer, NoId
<1> QED BY <1>1, RollbackTyped DEF Refuse

LEMMA InstallTyped ==
  ASSUME NEW c \in Call, TypeOK, Install(c), answer' \in [Call -> Answer]
  PROVE  TypeOK'
BY DEF Install, TypeOK, NothingStaged, Label

(* The error an operation refuses a request with is one of the service's.  *)
LEMMA RefusalsTyped ==
  ASSUME NEW r, NEW txs, NEW marked
  PROVE  {TransferRefusal(r), DepositRefusal(r), WithdrawalRefusal(r),
          ReversalRefusal(r, txs, marked)} \subseteq Refusal \cup {NoError}
BY DEF TransferRefusal, DepositRefusal, WithdrawalRefusal, ReversalRefusal, Refusal, NoError

LEMMA BeginTyped ==
  ASSUME NEW c \in Call, TypeOK, NEW refusal \in Refusal \cup {NoError}, NEW p,
         refusal = NoError => p \in TransferParams,
         Begin(c, refusal, p)
  PROVE  TypeOK'
<1>1. CASE refusal # NoError
  BY <1>1, RefusalTyped DEF Begin
<1>2. CASE refusal = NoError
  BY <1>2 DEF Begin, TypeOK, Label
<1> QED BY <1>1, <1>2

LEMMA TypeStep ==
  ASSUME TypeOK, SessionInv, NEW c \in Call, Step(c)
  PROVE  TypeOK'
<1> USE DEF Label
<1>r. request[c] \in Request
  BY DEF TypeOK
<1>1. CASE Transfer(c)
  BY <1>1, <1>r, BeginTyped, ParamsTyped, RefusalsTyped DEF Transfer
<1>2. CASE Deposit(c)
  BY <1>2, <1>r, BeginTyped, ParamsTyped, RefusalsTyped DEF Deposit
<1>3. CASE Withdraw(c)
  BY <1>3, <1>r, BeginTyped, ParamsTyped, RefusalsTyped DEF Withdraw
<1>4. CASE Reverse(c)
  <2>1. CASE ReversalRefusal(request[c], transactions, reversed) # NoError
    BY <1>4, <2>1, RefusalTyped, RefusalsTyped DEF Reverse
  <2>2. CASE ReversalRefusal(request[c], transactions, reversed) = NoError
    <3>1. PICK t \in transactions :
             /\ t.id = request[c].target
             /\ param' = [param EXCEPT ![c] = ReversalParamsOf(request[c], t)]
      BY <1>4, <2>2 DEF Reverse
    <3>2. t \in Transaction
      BY DEF TypeOK
    <3>3. param' \in [Call -> TransferParams \cup {NoParams}]
      BY <1>4, <1>r, <3>1, <3>2, ParamsTyped DEF Reverse, TypeOK
    <3>4. request[c].target \in Id
      BY <3>1, <3>2 DEF Transaction
    <3>5. rowLocks' \in [Call -> SUBSET Id]
      BY <1>4, <2>2, <3>4 DEF Reverse, TypeOK
    <3>6. /\ pc' \in [Call -> Label]
          /\ UNCHANGED <<request, balance, result, answer, staged, accountLocks,
                         database, sequences>>
      BY <1>4, <2>2 DEF Reverse, TypeOK
    <3> QED BY <3>3, <3>5, <3>6 DEF TypeOK
  <2> QED BY <2>1, <2>2
<1>5. CASE LockFirst(c)
  BY <1>5, AccountAssumption
     DEF LockFirst, LockAccount, First, LockOrder, SessionInv, SessionOf, TypeOK, TransferParams
<1>6. CASE LockSecond(c)
  BY <1>6, AccountAssumption
     DEF LockSecond, LockAccount, Second, LockOrder, SessionInv, SessionOf, TypeOK, TransferParams
<1>7. CASE RefuseCurrency(c) \/ RefuseMismatch(c) \/ RefuseBalance(c) \/ BalanceOverflow(c) \/ Abort(c)
  BY <1>7, RefusalTyped
     DEF RefuseCurrency, RefuseMismatch, RefuseBalance, BalanceOverflow, Abort, Refusal
<1>8. CASE CreateTransaction(c)
  <2>1. TransactionRow(param[c], txSeq') \in Transaction
    BY <1>8 DEF CreateTransaction, TransactionRow, Transaction, SessionInv, SessionOf, TypeOK, TransferParams, Id
  <2>2. result' \in [Call -> Answer]
    BY <1>8 DEF CreateTransaction, Created, Answer, TypeOK
  <2>3. {TransactionRow(param[c], txSeq')} \in SUBSET Transaction
    BY <2>1
  <2>4. staged' = [staged EXCEPT ![c].transactions = {TransactionRow(param[c], txSeq')}]
    BY <1>8 DEF CreateTransaction
  <2>5. staged' \in [Call -> StagedRows]
    BY <2>3, <2>4, StagedTyped
  <2>6. /\ pc' \in [Call -> Label] /\ txSeq' \in Nat
        /\ UNCHANGED <<request, param, balance, answer, locks, database, entrySeq, outboxSeq>>
    BY <1>8 DEF CreateTransaction, TypeOK
  <2> QED BY <2>2, <2>5, <2>6 DEF TypeOK, StagedRows
<1>9. CASE DuplicateKey(c)
  BY <1>9 DEF DuplicateKey, TypeOK
<1>10. CASE Replay(c)
  <2>1. result' \in [Call -> Answer]
    BY <1>10 DEF Replay, Replayed, Answer, TypeOK, Transaction, Id
  <2> QED BY <1>10, <2>1 DEF Replay, TypeOK, AfterTransfer
<1>11. CASE CheckBalance(c)
  BY <1>11 DEF CheckBalance, TypeOK
<1>12. CASE CreateDebit(c)
  <2>1. DebitEntry(param[c], result[c].transaction, entrySeq') \in Entry
    BY <1>12, MaxIntAssumption
       DEF CreateDebit, DebitEntry, Entry, SessionInv, SessionOf, Creating, TypeOK, TransferParams, Id, Int64
  <2>2. staged' \in [Call -> StagedRows]
    BY <1>12, <2>1, StagedTyped DEF CreateDebit
  <2>3. /\ pc' \in [Call -> Label] /\ entrySeq' \in Nat
        /\ UNCHANGED <<request, session, answer, locks, database, txSeq, outboxSeq>>
    BY <1>12 DEF CreateDebit, TypeOK
  <2> QED BY <2>2, <2>3 DEF TypeOK, StagedRows
<1>13. CASE CreateCredit(c)
  <2>1. CreditEntry(param[c], result[c].transaction, entrySeq') \in Entry
    BY <1>13, MaxIntAssumption
       DEF CreateCredit, CreditEntry, Entry, SessionInv, SessionOf, Creating, TypeOK, TransferParams, Id, Int64
  <2>2. staged' \in [Call -> StagedRows]
    BY <1>13, <2>1, StagedTyped DEF CreateCredit
  <2>3. /\ pc' \in [Call -> Label] /\ entrySeq' \in Nat
        /\ UNCHANGED <<request, session, answer, locks, database, txSeq, outboxSeq>>
    BY <1>13 DEF CreateCredit, TypeOK
  <2> QED BY <2>2, <2>3 DEF TypeOK, StagedRows
<1>14. CASE PostCredit(c)
  <2>1. CreditPosted(param[c], result[c].transaction, outboxSeq') \in Event
    BY <1>14, MaxIntAssumption
       DEF PostCredit, CreditPosted, Event, SessionInv, SessionOf, Creating, TypeOK, TransferParams, Id, Int64
  <2>2. staged' \in [Call -> StagedRows]
    BY <1>14, <2>1, StagedTyped DEF PostCredit
  <2>3. /\ pc' \in [Call -> Label] /\ outboxSeq' \in Nat
        /\ UNCHANGED <<request, session, answer, locks, database, txSeq, entrySeq>>
    BY <1>14 DEF PostCredit, TypeOK
  <2> QED BY <2>2, <2>3 DEF TypeOK, StagedRows
<1>15. CASE PostDebit(c)
  <2>1. DebitPosted(param[c], result[c].transaction, outboxSeq') \in Event
    BY <1>15, MaxIntAssumption
       DEF PostDebit, DebitPosted, Event, SessionInv, SessionOf, Creating, TypeOK, TransferParams, Id, Int64
  <2>2. staged' \in [Call -> StagedRows]
    BY <1>15, <2>1, StagedTyped DEF PostDebit
  <2>3. /\ pc' \in [Call -> Label] /\ outboxSeq' \in Nat
        /\ UNCHANGED <<request, session, answer, locks, database, txSeq, entrySeq>>
    BY <1>15 DEF PostDebit, TypeOK, AfterTransfer
  <2> QED BY <2>2, <2>3 DEF TypeOK, StagedRows
<1>16. CASE UpdateStatus(c)
  BY <1>16 DEF UpdateStatus, SessionInv, SessionOf, TypeOK
<1>17. CASE Commit(c)
  BY <1>17, InstallTyped DEF Commit, TypeOK
<1>18. CASE CommitTimeout(c)
  BY <1>18 DEF CommitTimeout, TypeOK, InternalError, Answer, NoId
<1>19. CASE OrphanCommits(c)
  BY <1>19, InstallTyped DEF OrphanCommits, TypeOK
<1>20. CASE OrphanRollsBack(c)
  BY <1>20, RollbackTyped DEF OrphanRollsBack, TypeOK
<1> QED
  BY <1>1, <1>2, <1>3, <1>4, <1>5, <1>6, <1>7, <1>8, <1>9, <1>10, <1>11, <1>12, <1>13,
     <1>14, <1>15, <1>16, <1>17, <1>18, <1>19, <1>20
     DEF Step, Statement, Operation, Orphan, Failure

-----------------------------------------------------------------------------
(* A step of one call leaves the session, the locks and the staged rows of *)
(* the other calls alone.                                                  *)
Untouched(d) ==
  /\ pc'[d] = pc[d] /\ param'[d] = param[d] /\ balance'[d] = balance[d]
  /\ result'[d] = result[d] /\ staged'[d] = staged[d]
  /\ accountLocks'[d] = accountLocks[d] /\ rowLocks'[d] = rowLocks[d]

LEMMA OthersUntouched ==
  ASSUME TypeOK, NEW c \in Call, Step(c), NEW d \in Call \ {c}
  PROVE  Untouched(d)
<1> USE DEF Untouched, TypeOK
<1>1. CASE Operation(c)
  BY <1>1 DEF Operation, Transfer, Deposit, Withdraw, Reverse, Begin, Refuse, Rollback
<1>2. CASE LockFirst(c) \/ LockSecond(c)
  BY <1>2 DEF LockFirst, LockSecond, LockAccount
<1>3. CASE RefuseCurrency(c) \/ RefuseMismatch(c) \/ RefuseBalance(c) \/ BalanceOverflow(c)
           \/ Failure(c)
  BY <1>3 DEF RefuseCurrency, RefuseMismatch, RefuseBalance, BalanceOverflow, Failure,
              Abort, CommitTimeout, Refuse, Rollback
<1>4. CASE CreateTransaction(c) \/ DuplicateKey(c) \/ Replay(c) \/ CheckBalance(c)
  BY <1>4 DEF CreateTransaction, DuplicateKey, Replay, CheckBalance
<1>5. CASE CreateDebit(c) \/ CreateCredit(c) \/ PostCredit(c) \/ PostDebit(c) \/ UpdateStatus(c)
  BY <1>5 DEF CreateDebit, CreateCredit, PostCredit, PostDebit, UpdateStatus
<1>6. CASE Commit(c) \/ Orphan(c)
  BY <1>6 DEF Commit, Orphan, OrphanCommits, OrphanRollsBack, Install, Rollback
<1> QED BY <1>1, <1>2, <1>3, <1>4, <1>5, <1>6 DEF Step, Statement

(* A call that ends keeps its session.                                     *)
LEMMA SessionEnds ==
  ASSUME TypeOK, NEW c \in Call, SessionOf(c), Goto(c, "done"), UNCHANGED session
  PROVE  SessionOf(c)'
BY DEF SessionOf, TypeOK, Unposted, Creating

LEMMA SessionStep ==
  ASSUME TypeOK, SessionInv, NEW c \in Call, Step(c)
  PROVE  SessionInv'
<1>1. ASSUME NEW d \in Call \ {c} PROVE SessionOf(d)'
  BY <1>1, OthersUntouched DEF Untouched, SessionInv, SessionOf
<1>2. SessionOf(c) /\ request[c] \in Request
  BY DEF SessionInv, TypeOK
<1> USE DEF SessionOf, Unposted, Creating, Label
<1>3. SessionOf(c)'
  <2>1. CASE Transfer(c)
    BY <1>2, <2>1, ParamsTyped, SessionEnds DEF Transfer, Begin, Refuse, Rollback, TypeOK
  <2>2. CASE Deposit(c)
    BY <1>2, <2>2, ParamsTyped, SessionEnds DEF Deposit, Begin, Refuse, Rollback, TypeOK
  <2>3. CASE Withdraw(c)
    BY <1>2, <2>3, ParamsTyped, SessionEnds DEF Withdraw, Begin, Refuse, Rollback, TypeOK
  <2>4. CASE Reverse(c)
    BY <1>2, <2>4, ParamsTyped, SessionEnds
       DEF Reverse, Refuse, Rollback, TypeOK, ReversalParamsOf, Transaction
  <2>5. CASE LockFirst(c) \/ LockSecond(c)
    BY <1>2, <2>5 DEF LockFirst, LockSecond, TypeOK
  <2>6. CASE RefuseCurrency(c) \/ RefuseMismatch(c) \/ RefuseBalance(c) \/ BalanceOverflow(c)
             \/ Abort(c)
    BY <1>2, <2>6, SessionEnds
       DEF RefuseCurrency, RefuseMismatch, RefuseBalance, BalanceOverflow, Abort, Refuse, Rollback
  <2>7. CASE CreateTransaction(c)
    BY <1>2, <2>7 DEF CreateTransaction, TypeOK, Created, Id
  <2>8. CASE DuplicateKey(c)
    BY <1>2, <2>8 DEF DuplicateKey, TypeOK
  <2>9. CASE Replay(c)
    BY <1>2, <2>9 DEF Replay, TypeOK, AfterTransfer
  <2>10. CASE CheckBalance(c)
    BY <1>2, <2>10 DEF CheckBalance, TypeOK
  <2>11. CASE CreateDebit(c) \/ CreateCredit(c) \/ PostCredit(c)
    BY <1>2, <2>11 DEF CreateDebit, CreateCredit, PostCredit, TypeOK
  <2>12. CASE PostDebit(c)
    BY <1>2, <2>12 DEF PostDebit, TypeOK, AfterTransfer
  <2>13. CASE UpdateStatus(c) \/ CommitTimeout(c)
    BY <1>2, <2>13 DEF UpdateStatus, CommitTimeout, TypeOK
  <2>14. CASE Commit(c) \/ Orphan(c)
    BY <1>2, <2>14, SessionEnds
       DEF Commit, Orphan, OrphanCommits, OrphanRollsBack, Install, Rollback
  <2> QED
    BY <2>1, <2>2, <2>3, <2>4, <2>5, <2>6, <2>7, <2>8, <2>9, <2>10, <2>11, <2>12, <2>13, <2>14
       DEF Step, Statement, Operation, Failure
<1> QED BY <1>1, <1>3 DEF SessionInv

-----------------------------------------------------------------------------
(* Locks.                                                                  *)

LEMMA LockCases ==
  ASSUME TypeOK, NEW c \in Call, Step(c)
  PROVE  \/ accountLocks' = accountLocks
         \/ accountLocks' = [accountLocks EXCEPT ![c] = {}]
         \/ \E a : LockAccount(c, a)
<1>1. CASE Operation(c)
  BY <1>1 DEF Operation, Transfer, Deposit, Withdraw, Reverse, Begin, Refuse, Rollback
<1>2. CASE LockFirst(c) \/ LockSecond(c)
  BY <1>2 DEF LockFirst, LockSecond
<1>3. CASE RefuseCurrency(c) \/ RefuseMismatch(c) \/ RefuseBalance(c) \/ BalanceOverflow(c)
           \/ Failure(c)
  BY <1>3 DEF RefuseCurrency, RefuseMismatch, RefuseBalance, BalanceOverflow, Failure,
              Abort, CommitTimeout, Refuse, Rollback
<1>4. CASE CreateTransaction(c) \/ DuplicateKey(c) \/ Replay(c) \/ CheckBalance(c)
  BY <1>4 DEF CreateTransaction, DuplicateKey, Replay, CheckBalance
<1>5. CASE CreateDebit(c) \/ CreateCredit(c) \/ PostCredit(c) \/ PostDebit(c) \/ UpdateStatus(c)
  BY <1>5 DEF CreateDebit, CreateCredit, PostCredit, PostDebit, UpdateStatus
<1>6. CASE Commit(c) \/ Orphan(c)
  BY <1>6 DEF Commit, Orphan, OrphanCommits, OrphanRollsBack, Install, Rollback
<1> QED BY <1>1, <1>2, <1>3, <1>4, <1>5, <1>6 DEF Step, Statement

(* No call takes a lock that another one holds.                            *)
LEMMA ExclusiveStep ==
  ASSUME TypeOK, Exclusive, NEW c \in Call, Step(c)
  PROVE  Exclusive'
<1>1. accountLocks \in [Call -> SUBSET Account]
  BY DEF TypeOK
<1>2. CASE accountLocks' = accountLocks
  BY <1>2 DEF Exclusive
<1>3. CASE accountLocks' = [accountLocks EXCEPT ![c] = {}]
  BY <1>1, <1>3 DEF Exclusive
<1>4. CASE \E a : LockAccount(c, a)
  <2>1. PICK a : /\ \A d \in Call \ {c} : a \notin accountLocks[d]
                 /\ accountLocks' = [accountLocks EXCEPT ![c] = @ \cup {a}]
    BY <1>4 DEF LockAccount
  <2>2. /\ accountLocks'[c] = accountLocks[c] \cup {a}
        /\ \A d \in Call \ {c} : accountLocks'[d] = accountLocks[d]
    BY <1>1, <2>1
  <2> QED BY <2>1, <2>2 DEF Exclusive
<1> QED BY <1>2, <1>3, <1>4, LockCases

LEMMA HoldsStep ==
  ASSUME TypeOK, LockInv, NEW c \in Call, Step(c), NEW d \in Call
  PROVE  HoldsOf(d)'
<1>1. CASE d # c
  BY <1>1, OthersUntouched DEF Untouched, LockInv, HoldsOf
<1>2. HoldsOf(c)
  BY DEF LockInv
<1> USE DEF HoldsOf, TypeOK, Label
<1>3. HoldsOf(c)'
  <2>1. CASE Operation(c)
    BY <2>1 DEF Operation, Transfer, Deposit, Withdraw, Reverse, Begin, Refuse, Rollback
  <2>2. CASE LockFirst(c)
    BY <2>2 DEF LockFirst, LockAccount
  <2>3. CASE LockSecond(c)
    BY <1>2, <2>3 DEF LockSecond, LockAccount, First, Second, LockOrder
  <2>4. CASE RefuseCurrency(c) \/ RefuseMismatch(c) \/ RefuseBalance(c) \/ BalanceOverflow(c)
             \/ Abort(c)
    BY <2>4 DEF RefuseCurrency, RefuseMismatch, RefuseBalance, BalanceOverflow,
                Abort, Refuse, Rollback
  <2>5. CASE CreateTransaction(c) \/ DuplicateKey(c) \/ Replay(c) \/ CheckBalance(c)
             \/ CommitTimeout(c)
    BY <1>2, <2>5 DEF CreateTransaction, DuplicateKey, Replay, CheckBalance, CommitTimeout,
                      AfterTransfer
  <2>6. CASE CreateDebit(c) \/ CreateCredit(c) \/ PostCredit(c) \/ PostDebit(c) \/ UpdateStatus(c)
    BY <1>2, <2>6 DEF CreateDebit, CreateCredit, PostCredit, PostDebit, UpdateStatus,
                      AfterTransfer
  <2>7. CASE Commit(c) \/ Orphan(c)
    BY <2>7 DEF Commit, Orphan, OrphanCommits, OrphanRollsBack, Install, Rollback
  <2> QED BY <2>1, <2>2, <2>3, <2>4, <2>5, <2>6, <2>7 DEF Step, Statement, Failure
<1> QED BY <1>1, <1>3

LEMMA LockStep ==
  ASSUME TypeOK, LockInv, NEW c \in Call, Step(c)
  PROVE  LockInv'
BY ExclusiveStep, HoldsStep DEF LockInv

-----------------------------------------------------------------------------
(* What happens to the rows: a step of c leaves them, discards the staged  *)
(* ones, stages one with the next id, or installs the staged ones.         *)
EntryFrame(c) ==
  /\ entrySeq' \in Nat /\ entrySeq' >= entrySeq
  /\ \/ entries' = entries /\ staged'[c].entries = staged[c].entries
     \/ entries' = entries /\ staged'[c].entries = {}
     \/ /\ entries' = entries
        /\ \E e : /\ staged'[c].entries = staged[c].entries \cup {e}
                  /\ e.id = entrySeq + 1 /\ e.id <= entrySeq'
     \/ entries' = entries \cup staged[c].entries /\ staged'[c].entries = {}

EventFrame(c) ==
  /\ outboxSeq' \in Nat /\ outboxSeq' >= outboxSeq
  /\ \/ outbox' = outbox /\ staged'[c].outbox = staged[c].outbox
     \/ outbox' = outbox /\ staged'[c].outbox = {}
     \/ /\ outbox' = outbox
        /\ \E e : /\ staged'[c].outbox = staged[c].outbox \cup {e}
                  /\ e.id = outboxSeq + 1 /\ e.id <= outboxSeq'
     \/ outbox' = outbox \cup staged[c].outbox /\ staged'[c].outbox = {}

TransactionFrame(c) ==
  /\ txSeq' \in Nat /\ txSeq' >= txSeq
  /\ \/ /\ transactions' = transactions
        /\ staged'[c].transactions \in {{}, staged[c].transactions}
     \/ /\ transactions' = transactions
        /\ ~InsertWaits(c) /\ \A t \in transactions : ~Collides(param[c], t)
        /\ \E t : /\ staged'[c].transactions = {t}
                  /\ t.key = param[c].key /\ t.id = txSeq + 1 /\ t.id <= txSeq'
     \/ transactions' = transactions \cup staged[c].transactions /\ staged'[c].transactions = {}

LEMMA RowsFramed ==
  ASSUME TypeOK, NEW c \in Call, Step(c)
  PROVE  EntryFrame(c) /\ EventFrame(c) /\ TransactionFrame(c)
<1> USE DEF EntryFrame, EventFrame, TransactionFrame, TypeOK
<1>1. CASE Operation(c)
  BY <1>1 DEF Operation, Transfer, Deposit, Withdraw, Reverse, Begin, Refuse, Rollback,
              NothingStaged
<1>2. CASE LockFirst(c) \/ LockSecond(c) \/ DuplicateKey(c) \/ Replay(c) \/ CheckBalance(c)
           \/ CommitTimeout(c)
  BY <1>2 DEF LockFirst, LockSecond, DuplicateKey, Replay, CheckBalance, CommitTimeout
<1>3. CASE RefuseCurrency(c) \/ RefuseMismatch(c) \/ RefuseBalance(c) \/ BalanceOverflow(c)
           \/ Abort(c) \/ OrphanRollsBack(c)
  BY <1>3 DEF RefuseCurrency, RefuseMismatch, RefuseBalance, BalanceOverflow, Abort,
              OrphanRollsBack, Refuse, Rollback, NothingStaged
<1>4. CASE CreateTransaction(c)
  <2> DEFINE t == TransactionRow(param[c], txSeq')
  <2>1. staged'[c] = [staged[c] EXCEPT !.transactions = {t}]
    BY <1>4 DEF CreateTransaction
  <2>2. /\ staged'[c].transactions = {t}
        /\ staged'[c].entries = staged[c].entries /\ staged'[c].outbox = staged[c].outbox
    BY <2>1
  <2>3. t.key = param[c].key /\ t.id = txSeq'
    BY DEF TransactionRow
  <2> HIDE DEF t
  <2>4. /\ UNCHANGED <<database, entrySeq, outboxSeq>> /\ txSeq' = txSeq + 1
        /\ ~InsertWaits(c) /\ \A u \in transactions : ~Collides(param[c], u)
    BY <1>4 DEF CreateTransaction
  <2> QED BY <2>2, <2>3, <2>4
<1>5. CASE CreateDebit(c) \/ CreateCredit(c)
  <2> DEFINE tx == result[c].transaction
  <2>a. /\ DebitEntry(param[c], tx, entrySeq').id = entrySeq'
        /\ CreditEntry(param[c], tx, entrySeq').id = entrySeq'
    BY DEF DebitEntry, CreditEntry
  <2>b. \/ staged'[c] = [staged[c] EXCEPT !.entries = @ \cup {DebitEntry(param[c], tx, entrySeq')}]
        \/ staged'[c] = [staged[c] EXCEPT !.entries = @ \cup {CreditEntry(param[c], tx, entrySeq')}]
    BY <1>5 DEF CreateDebit, CreateCredit
  <2>1. PICK e : staged'[c] = [staged[c] EXCEPT !.entries = @ \cup {e}] /\ e.id = entrySeq'
    BY <2>a, <2>b
  <2>2. /\ staged'[c].entries = staged[c].entries \cup {e}
        /\ staged'[c].transactions = staged[c].transactions
        /\ staged'[c].outbox = staged[c].outbox
    BY <2>1
  <2>3. UNCHANGED <<database, txSeq, outboxSeq>> /\ entrySeq' = entrySeq + 1
    BY <1>5 DEF CreateDebit, CreateCredit
  <2> QED BY <2>1, <2>2, <2>3
<1>6. CASE PostCredit(c) \/ PostDebit(c)
  <2> DEFINE tx == result[c].transaction
  <2>a. /\ DebitPosted(param[c], tx, outboxSeq').id = outboxSeq'
        /\ CreditPosted(param[c], tx, outboxSeq').id = outboxSeq'
    BY DEF DebitPosted, CreditPosted
  <2>b. \/ staged'[c] = [staged[c] EXCEPT !.outbox = @ \cup {DebitPosted(param[c], tx, outboxSeq')}]
        \/ staged'[c] = [staged[c] EXCEPT !.outbox = @ \cup {CreditPosted(param[c], tx, outboxSeq')}]
    BY <1>6 DEF PostCredit, PostDebit
  <2>1. PICK e : staged'[c] = [staged[c] EXCEPT !.outbox = @ \cup {e}] /\ e.id = outboxSeq'
    BY <2>a, <2>b
  <2>2. /\ staged'[c].outbox = staged[c].outbox \cup {e}
        /\ staged'[c].transactions = staged[c].transactions
        /\ staged'[c].entries = staged[c].entries
    BY <2>1
  <2>3. UNCHANGED <<database, txSeq, entrySeq>> /\ outboxSeq' = outboxSeq + 1
    BY <1>6 DEF PostCredit, PostDebit
  <2> QED BY <2>1, <2>2, <2>3
<1>7. CASE UpdateStatus(c)
  BY <1>7 DEF UpdateStatus
<1>8. CASE Commit(c) \/ OrphanCommits(c)
  BY <1>8 DEF Commit, OrphanCommits, Install, NothingStaged
<1> QED
  BY <1>1, <1>2, <1>3, <1>4, <1>5, <1>6, <1>7, <1>8 DEF Step, Statement, Failure, Orphan

(* Nothing staged, nothing wrong.                                          *)
LEMMA StagedNothing ==
  ASSUME NEW c \in Call, staged'[c] = NothingStaged
  PROVE  StagedOf(c)'
BY DEF StagedOf, NothingStaged

LEMMA StagedStep ==
  ASSUME TypeOK, SessionInv, LockInv, StagedInv, NEW c \in Call, Step(c), NEW d \in Call
  PROVE  StagedOf(d)'
<1>1. CASE d # c
  BY <1>1, OthersUntouched DEF Untouched, StagedInv, StagedOf
<1>2. StagedOf(c) /\ HoldsOf(c) /\ SessionOf(c)
  BY DEF StagedInv, LockInv, SessionInv
<1> USE DEF StagedOf, TypeOK, Unposted, Label
<1>3. StagedOf(c)'
  <2>1. CASE Operation(c)
    <3>1. staged'[c] = NothingStaged
      BY <1>2, <2>1
         DEF Operation, Transfer, Deposit, Withdraw, Reverse, Begin, Refuse, Rollback
    <3> QED BY <3>1, StagedNothing
  <2>2. CASE LockFirst(c) \/ LockSecond(c) \/ DuplicateKey(c) \/ Replay(c)
    <3>1. staged'[c] = NothingStaged
      BY <1>2, <2>2 DEF LockFirst, LockSecond, DuplicateKey, Replay
    <3> QED BY <3>1, StagedNothing
  <2>3. CASE RefuseCurrency(c) \/ RefuseMismatch(c) \/ RefuseBalance(c) \/ BalanceOverflow(c)
             \/ Abort(c) \/ OrphanRollsBack(c)
    <3>1. staged'[c] = NothingStaged
      BY <2>3 DEF RefuseCurrency, RefuseMismatch, RefuseBalance, BalanceOverflow,
                  Abort, OrphanRollsBack, Refuse, Rollback
    <3> QED BY <3>1, StagedNothing
  <2>4. CASE CheckBalance(c) \/ CommitTimeout(c)
    BY <1>2, <2>4 DEF CheckBalance, CommitTimeout
  <2>5. CASE CreateTransaction(c)
    <3>1. staged[c] = NothingStaged
      BY <1>2, <2>5 DEF CreateTransaction
    <3>2. staged'[c] = [staged[c] EXCEPT !.transactions = {TransactionRow(param[c], txSeq')}]
      BY <2>5 DEF CreateTransaction
    <3>3. /\ staged'[c].transactions = {TransactionRow(param[c], txSeq')}
          /\ staged'[c].entries = {} /\ staged'[c].outbox = {}
      BY <3>1, <3>2 DEF NothingStaged
    <3>4. pc'[c] = "getBalance" /\ param' = param /\ result'[c].transaction = txSeq'
      BY <2>5 DEF CreateTransaction, Created
    <3> QED BY <3>3, <3>4
  <2>6. CASE CreateDebit(c) \/ CreateCredit(c)
    <3> DEFINE tx == result[c].transaction
    <3>1. param[c].from \in accountLocks[c] /\ param[c].to \in accountLocks[c]
      BY <1>2, <2>6 DEF HoldsOf, CreateDebit, CreateCredit
    <3>2. /\ DebitEntry(param[c], tx, entrySeq').account = param[c].from
          /\ CreditEntry(param[c], tx, entrySeq').account = param[c].to
      BY DEF DebitEntry, CreditEntry
    <3>3. \/ staged'[c] = [staged[c] EXCEPT !.entries = @ \cup {DebitEntry(param[c], tx, entrySeq')}]
          \/ staged'[c] = [staged[c] EXCEPT !.entries = @ \cup {CreditEntry(param[c], tx, entrySeq')}]
      BY <2>6 DEF CreateDebit, CreateCredit
    <3>4. PICK e : /\ staged'[c] = [staged[c] EXCEPT !.entries = @ \cup {e}]
                   /\ e.account \in accountLocks[c]
      BY <3>1, <3>2, <3>3
    <3>5. /\ staged'[c].entries = staged[c].entries \cup {e}
          /\ staged'[c].transactions = staged[c].transactions
          /\ staged'[c].outbox = staged[c].outbox
      BY <3>4
    <3>6. pc'[c] \in {"createCredit", "postCredit"} /\ UNCHANGED <<param, result, accountLocks>>
      BY <2>6 DEF CreateDebit, CreateCredit
    <3> QED BY <1>2, <3>4, <3>5, <3>6
  <2>7. CASE PostCredit(c) \/ PostDebit(c)
    <3> DEFINE tx == result[c].transaction
    <3>1. param[c].from \in accountLocks[c] /\ param[c].to \in accountLocks[c]
      BY <1>2, <2>7 DEF HoldsOf, PostCredit, PostDebit
    <3>2. /\ DebitPosted(param[c], tx, outboxSeq').account = param[c].from
          /\ CreditPosted(param[c], tx, outboxSeq').account = param[c].to
      BY DEF DebitPosted, CreditPosted
    <3>3. \/ staged'[c] = [staged[c] EXCEPT !.outbox = @ \cup {DebitPosted(param[c], tx, outboxSeq')}]
          \/ staged'[c] = [staged[c] EXCEPT !.outbox = @ \cup {CreditPosted(param[c], tx, outboxSeq')}]
      BY <2>7 DEF PostCredit, PostDebit
    <3>4. PICK e : /\ staged'[c] = [staged[c] EXCEPT !.outbox = @ \cup {e}]
                   /\ e.account \in accountLocks[c]
      BY <3>1, <3>2, <3>3
    <3>5. /\ staged'[c].outbox = staged[c].outbox \cup {e}
          /\ staged'[c].transactions = staged[c].transactions
          /\ staged'[c].entries = staged[c].entries
      BY <3>4
    <3>6. pc'[c] \in {"postDebit", "updateStatus", "commit"} /\ UNCHANGED <<param, result, accountLocks>>
      BY <2>7 DEF PostCredit, PostDebit, AfterTransfer
    <3> QED BY <1>2, <3>4, <3>5, <3>6
  <2>8. CASE UpdateStatus(c)
    <3>1. /\ staged'[c].transactions = staged[c].transactions
          /\ staged'[c].entries = staged[c].entries /\ staged'[c].outbox = staged[c].outbox
      BY <2>8 DEF UpdateStatus
    <3>2. pc'[c] = "commit" /\ UNCHANGED <<param, result, accountLocks>>
      BY <2>8 DEF UpdateStatus
    <3> QED BY <1>2, <3>1, <3>2
  <2>9. CASE Commit(c) \/ OrphanCommits(c)
    <3>1. staged'[c] = NothingStaged
      BY <2>9 DEF Commit, OrphanCommits, Install
    <3> QED BY <3>1, StagedNothing
  <2> QED
    BY <2>1, <2>2, <2>3, <2>4, <2>5, <2>6, <2>7, <2>8, <2>9 DEF Step, Statement, Failure, Orphan
<1> QED BY <1>1, <1>3

-----------------------------------------------------------------------------
(* Ids.  Only the holder of an account's lock stages rows about it, so no  *)
(* row is installed below one that another call has staged.                *)

LEMMA EntryIdsStep ==
  ASSUME TypeOK, LockInv, StagedInv, EntryIds, NEW c \in Call, Step(c)
  PROVE  EntryIds'
<1> USE DEF EntryIds
<1>1. EntryFrame(c) /\ \A d \in Call \ {c} : staged'[d] = staged[d]
  BY RowsFramed, OthersUntouched DEF Untouched
<1>2. \A e \in entries : e.id \in Nat
  BY DEF TypeOK, Entry, Id
<1>3. \A d \in Call : \A e \in staged[d].entries : e.id \in Nat
  BY StagedTyped DEF StagedRows, Entry, Id
<1>4. entrySeq \in Nat /\ entrySeq' \in Nat
  BY <1>1 DEF TypeOK, EntryFrame
<1>5. \A d \in Call \ {c} : \A e \in staged[d].entries, f \in staged[c].entries :
        e.account # f.account
  BY DEF LockInv, Exclusive, StagedInv, StagedOf
<1>6. \A e \in entries' : e.id <= entrySeq'
  BY <1>1, <1>2, <1>3, <1>4 DEF EntryFrame
<1>7. ASSUME NEW d \in Call, NEW e \in staged'[d].entries
      PROVE  e.id <= entrySeq' /\ \A f \in entries' : f.account = e.account => f.id < e.id
  <2>1. CASE d = c
    BY <1>1, <1>2, <1>3, <1>4, <1>7, <2>1 DEF EntryFrame
  <2>2. CASE d # c
    BY <1>1, <1>2, <1>3, <1>4, <1>5, <1>7, <2>2 DEF EntryFrame
  <2> QED BY <2>1, <2>2
<1> QED BY <1>6, <1>7

LEMMA EventIdsStep ==
  ASSUME TypeOK, LockInv, StagedInv, EventIds, NEW c \in Call, Step(c)
  PROVE  EventIds'
<1> USE DEF EventIds
<1>1. EventFrame(c) /\ \A d \in Call \ {c} : staged'[d] = staged[d]
  BY RowsFramed, OthersUntouched DEF Untouched
<1>2. \A e \in outbox : e.id \in Nat
  BY DEF TypeOK, Event, Id
<1>3. \A d \in Call : \A e \in staged[d].outbox : e.id \in Nat
  BY StagedTyped DEF StagedRows, Event, Id
<1>4. outboxSeq \in Nat /\ outboxSeq' \in Nat
  BY <1>1 DEF TypeOK, EventFrame
<1>5. \A d \in Call \ {c} : \A e \in staged[d].outbox, f \in staged[c].outbox :
        e.account # f.account
  BY DEF LockInv, Exclusive, StagedInv, StagedOf
<1>6. \A e \in outbox' : e.id <= outboxSeq'
  BY <1>1, <1>2, <1>3, <1>4 DEF EventFrame
<1>7. ASSUME NEW d \in Call, NEW e \in staged'[d].outbox
      PROVE  e.id <= outboxSeq' /\ \A f \in outbox' : f.account = e.account => f.id < e.id
  <2>1. CASE d = c
    BY <1>1, <1>2, <1>3, <1>4, <1>7, <2>1 DEF EventFrame
  <2>2. CASE d # c
    BY <1>1, <1>2, <1>3, <1>4, <1>5, <1>7, <2>2 DEF EventFrame
  <2> QED BY <2>1, <2>2
<1> QED BY <1>6, <1>7

LEMMA TransactionIdsStep ==
  ASSUME TypeOK, TransactionIds, NEW c \in Call, Step(c)
  PROVE  TransactionIds'
<1> USE DEF TransactionIds
<1>1. TransactionFrame(c) /\ \A d \in Call \ {c} : staged'[d] = staged[d]
  BY RowsFramed, OthersUntouched DEF Untouched
<1>2. \A t \in transactions : t.id \in Nat
  BY DEF TypeOK, Transaction, Id
<1>3. \A d \in Call : \A t \in staged[d].transactions : t.id \in Nat
  BY StagedTyped DEF StagedRows, Transaction, Id
<1>4. txSeq \in Nat /\ txSeq' \in Nat
  BY <1>1 DEF TypeOK, TransactionFrame
<1>5. \A t \in transactions' : t.id <= txSeq'
  BY <1>1, <1>2, <1>3, <1>4 DEF TransactionFrame
<1>6. ASSUME NEW d \in Call, NEW t \in staged'[d].transactions PROVE t.id <= txSeq'
  BY <1>1, <1>2, <1>3, <1>4, <1>6 DEF TransactionFrame
<1> QED BY <1>5, <1>6

-----------------------------------------------------------------------------
(* Keys.  An insertion waits for the open ones of the same key, so no two  *)
(* open transactions and no committed one share it.                        *)
LEMMA KeyStep ==
  ASSUME TypeOK, StagedInv, TransactionIds, KeyInv, NEW c \in Call, Step(c)
  PROVE  KeyInv'
<1> USE DEF KeyInv, PostedOncePerKey
<1>1. TransactionFrame(c) /\ \A d \in Call \ {c} : staged'[d] = staged[d]
  BY RowsFramed, OthersUntouched DEF Untouched
<1>2. \A t, u \in staged[c].transactions : t = u
  BY DEF StagedInv, StagedOf
<1>3. \A t \in transactions : t.id \in Nat
  BY DEF TypeOK, Transaction, Id
<1>4. \A d \in Call : \A t \in staged[d].transactions : t.id \in Nat
  BY StagedTyped DEF StagedRows, Transaction, Id
<1>5. CASE /\ transactions' = transactions
           /\ staged'[c].transactions \in {{}, staged[c].transactions}
  BY <1>1, <1>5
<1>6. CASE /\ transactions' = transactions
           /\ ~InsertWaits(c) /\ \A t \in transactions : ~Collides(param[c], t)
           /\ \E t : /\ staged'[c].transactions = {t}
                     /\ t.key = param[c].key /\ t.id = txSeq + 1 /\ t.id <= txSeq'
  <2>1. PICK t : staged'[c].transactions = {t} /\ t.key = param[c].key /\ t.id = txSeq + 1
    BY <1>6
  <2>2. \A u \in transactions : t.key # u.key /\ t.id # u.id
    BY <1>3, <1>6, <2>1 DEF Collides, TransactionIds, TypeOK
  <2>3. \A d \in Call \ {c} : \A u \in staged[d].transactions : t.key # u.key /\ t.id # u.id
    BY <1>4, <1>6, <2>1 DEF InsertWaits, Collides, TransactionIds, TypeOK
  <2> QED BY <1>1, <1>6, <2>1, <2>2, <2>3
<1>7. CASE /\ transactions' = transactions \cup staged[c].transactions
           /\ staged'[c].transactions = {}
  BY <1>1, <1>2, <1>7
<1> QED BY <1>1, <1>5, <1>6, <1>7 DEF TransactionFrame

-----------------------------------------------------------------------------
(* Balances.  A call that posts holds its source account, so no other call *)
(* installs an entry of it: the balance read stays the balance.            *)
LEMMA BalanceStep ==
  ASSUME TypeOK, SessionInv, LockInv, StagedInv, BalanceIsCurrent, NEW c \in Call, Step(c)
  PROVE  BalanceIsCurrent'
<1>1. EntryFrame(c) /\ \A d \in Call \ {c} : Untouched(d)
  BY RowsFramed, OthersUntouched
<1>2. ASSUME NEW d \in Call \ {c}, Posting(d)'
      PROVE  balance'[d] = Balance(entries', param'[d].from)
  <2>1. Posting(d) /\ balance'[d] = balance[d] /\ param'[d] = param[d]
    BY <1>1, <1>2 DEF Untouched, Posting
  <2>2. param[d].from \in accountLocks[d]
    BY <2>1 DEF Posting, SessionInv, SessionOf, Unposted, Pending, LockInv, HoldsOf
  <2>3. \A e \in staged[c].entries : e.account # param[d].from
    BY <2>2 DEF LockInv, Exclusive, StagedInv, StagedOf
  <2>4. EntriesOf(entries', param[d].from) = EntriesOf(entries, param[d].from)
    BY <1>1, <2>3 DEF EntryFrame, EntriesOf
  <2>5. balance[d] = Balance(entries, param[d].from)
    BY <2>1 DEF BalanceIsCurrent
  <2> QED BY <2>1, <2>4, <2>5 DEF Balance
<1>3. ASSUME Posting(c)'
      PROVE  balance'[c] = Balance(entries', param'[c].from)
  <2> USE DEF TypeOK, Label
  <2>1. CASE CheckBalance(c)
    BY <2>1 DEF CheckBalance
  <2>2. CASE CreateDebit(c) \/ CreateCredit(c) \/ PostCredit(c) \/ PostDebit(c)
             \/ UpdateStatus(c) \/ CommitTimeout(c)
    BY <1>3, <2>2 DEF CreateDebit, CreateCredit, PostCredit, PostDebit, UpdateStatus,
                      CommitTimeout, Posting, BalanceIsCurrent
  <2>3. CASE CreateTransaction(c) \/ Replay(c)
    BY <1>3, <2>3 DEF CreateTransaction, Replay, Replayed, Posting
  <2>4. CASE LockFirst(c) \/ LockSecond(c) \/ DuplicateKey(c)
    BY <1>3, <2>4 DEF LockFirst, LockSecond, DuplicateKey, Posting,
                      SessionInv, SessionOf, Unposted, Pending
  <2>5. CASE Operation(c)
    BY <1>3, <2>5 DEF Operation, Transfer, Deposit, Withdraw, Reverse, Begin, Refuse, Rollback,
                      Posting, SessionInv, SessionOf, Unposted, Pending
  <2>6. CASE RefuseCurrency(c) \/ RefuseMismatch(c) \/ RefuseBalance(c) \/ BalanceOverflow(c)
             \/ Abort(c) \/ Orphan(c) \/ Commit(c)
    BY <1>3, <2>6 DEF RefuseCurrency, RefuseMismatch, RefuseBalance, BalanceOverflow, Abort,
                      Orphan, OrphanCommits, OrphanRollsBack, Commit, Install, Refuse, Rollback,
                      Posting
  <2> QED BY <2>1, <2>2, <2>3, <2>4, <2>5, <2>6 DEF Step, Statement, Failure
<1> QED BY <1>2, <1>3 DEF BalanceIsCurrent

-----------------------------------------------------------------------------
(* The invariant holds initially, and every step preserves it.             *)

LEMMA InvInit == Init => IInv
<1> SUFFICES ASSUME Init PROVE IInv
  OBVIOUS
<1>1. TypeOK /\ SessionInv
  BY InitTyped
<1>2. LockInv /\ StagedInv /\ BalanceIsCurrent
  BY DEF Init, LockInv, Exclusive, HoldsOf, StagedInv, StagedOf, NothingStaged,
         BalanceIsCurrent, Posting, Pending
<1>3. EntryIds /\ EventIds /\ TransactionIds /\ KeyInv
  BY DEF Init, EntryIds, EventIds, TransactionIds, KeyInv, PostedOncePerKey, NothingStaged
<1> QED BY <1>1, <1>2, <1>3 DEF IInv

LEMMA InvStep == IInv /\ [Next]_vars => IInv'
<1> SUFFICES ASSUME IInv, [Next]_vars PROVE IInv'
  OBVIOUS
<1>1. CASE Next
  <2>1. PICK c \in Call : Step(c)
    BY <1>1 DEF Next
  <2>2. TypeOK' /\ SessionInv' /\ LockInv' /\ StagedInv'
    BY <2>1, TypeStep, SessionStep, LockStep, StagedStep DEF IInv, StagedInv
  <2>3. EntryIds' /\ EventIds' /\ TransactionIds'
    BY <2>1, EntryIdsStep, EventIdsStep, TransactionIdsStep DEF IInv
  <2>4. KeyInv' /\ BalanceIsCurrent'
    BY <2>1, KeyStep, BalanceStep DEF IInv
  <2> QED BY <2>2, <2>3, <2>4 DEF IInv
<1>2. CASE UNCHANGED vars
  BY <1>2 DEF IInv, TypeOK, SessionInv, SessionOf, LockInv, Exclusive, HoldsOf, StagedInv,
              StagedOf, EntryIds, EventIds, TransactionIds, KeyInv, PostedOncePerKey,
              BalanceIsCurrent, Posting
<1> QED BY <1>1, <1>2

(* The inductive invariant holds in every reachable state.                 *)
THEOREM Invariant == Spec => []IInv
BY InvInit, InvStep, PTL DEF Spec

(* Every variable keeps its type: in particular the rows written are rows  *)
(* of the schema, and a balance read is an int64.                          *)
THEOREM TypeCorrect == Spec => []TypeOK
<1>1. IInv => TypeOK
  BY DEF IInv
<1> QED BY <1>1, Invariant, PTL

(* No matter how many calls carry one key, at most one transaction is      *)
(* posted under it.                                                        *)
THEOREM OncePerKey == Spec => []PostedOncePerKey
<1>1. IInv => PostedOncePerKey
  BY DEF IInv, KeyInv
<1> QED BY <1>1, Invariant, PTL

(* The balance a call has checked is the balance of its source account     *)
(* until the call has committed.                                           *)
THEOREM CheckedBalanceHolds == Spec => []BalanceIsCurrent
<1>1. IInv => BalanceIsCurrent
  BY DEF IInv
<1> QED BY <1>1, Invariant, PTL

(* The entries and the events of an account become visible in the order of *)
(* their ids.                                                              *)
THEOREM IdOrder == Spec => VisibleInIdOrder
<1> DEFINE InOrder ==
      /\ \A e \in entries' \ entries : \A f \in entries :
           f.account = e.account => f.id < e.id
      /\ \A e \in outbox' \ outbox : \A f \in outbox :
           f.account = e.account => f.id < e.id
<1>1. IInv /\ [Next]_vars => [InOrder]_vars
  <2> SUFFICES ASSUME IInv, NEW c \in Call, Step(c) PROVE InOrder
    BY DEF Next
  <2>1. EntryFrame(c) /\ EventFrame(c)
    BY RowsFramed DEF IInv
  <2> QED BY <2>1 DEF IInv, EntryFrame, EventFrame, EntryIds, EventIds
<1> QED BY <1>1, Invariant, PTL DEF Spec, VisibleInIdOrder
=============================================================================
