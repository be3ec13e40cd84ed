--------------------------- MODULE PostingProofs ---------------------------
(***************************************************************************)
(* Proofs about what the calls of Ledger post: PostingInv is preserved by  *)
(* every step that starts in a state of IInv, and the accounting           *)
(* properties of Ledger follow from it.  The last part is about sums of    *)
(* entries (Total), and what they say of balances: nobody overdraws.       *)
(***************************************************************************)
EXTENDS LedgerProofs, FiniteSetTheorems

USE DEF vars, database, sequences, session, locks, Goto, Give, ReleaseLocks, Discard

(* What a step of one call does not touch.                                 *)
LEMMA OthersUnanswered ==
  ASSUME TypeOK, NEW c \in Call, Step(c)
  PROVE  /\ request' = request
         /\ \A d \in Call \ {c} : answer'[d] = answer[d]
<1> USE DEF TypeOK
<1>1. CASE Operation(c)
  BY <1>1 DEF Operation, Transfer, Deposit, Withdraw, Reverse, Begin, Refuse, Rollback
<1>2. CASE LockFirst(c) \/ LockSecond(c) \/ CreateTransaction(c) \/ DuplicateKey(c)
           \/ Replay(c) \/ CheckBalance(c)
  BY <1>2 DEF LockFirst, LockSecond, CreateTransaction, DuplicateKey, Replay, CheckBalance
<1>3. CASE RefuseCurrency(c) \/ RefuseMismatch(c) \/ RefuseBalance(c) \/ BalanceOverflow(c)
           \/ Failure(c)
  BY <1>3 DEF RefuseCurrency, RefuseMismatch, RefuseBalance, BalanceOverflow, Failure,
              Abort, CommitTimeout, Refuse, Rollback
<1>4. CASE CreateDebit(c) \/ CreateCredit(c) \/ PostCredit(c) \/ PostDebit(c) \/ UpdateStatus(c)
  BY <1>4 DEF CreateDebit, CreateCredit, PostCredit, PostDebit, UpdateStatus
<1>5. CASE Commit(c) \/ Orphan(c)
  BY <1>5 DEF Commit, Orphan, OrphanCommits, OrphanRollsBack, Install, Rollback
<1> QED BY <1>1, <1>2, <1>3, <1>4, <1>5 DEF Step, Statement

(* The committed rows change only when a call at the end of its database   *)
(* transaction is committed.                                               *)
LEMMA OnlyInstalled ==
  ASSUME TypeOK, NEW c \in Call, Step(c)
  PROVE  UNCHANGED database \/ (pc[c] \in {"commit", "orphan"} /\ Install(c))
<1>1. CASE Operation(c)
  BY <1>1 DEF Operation, Transfer, Deposit, Withdraw, Reverse, Begin, Refuse, Rollback
<1>2. CASE LockFirst(c) \/ LockSecond(c) \/ CreateTransaction(c) \/ DuplicateKey(c)
           \/ Replay(c) \/ CheckBalance(c)
  BY <1>2 DEF LockFirst, LockSecond, CreateTransaction, DuplicateKey, Replay, CheckBalance
<1>3. CASE RefuseCurrency(c) \/ RefuseMismatch(c) \/ RefuseBalance(c) \/ BalanceOverflow(c)
           \/ Failure(c)
  BY <1>3 DEF RefuseCurrency, RefuseMismatch, RefuseBalance, BalanceOverflow, Failure,
              Abort, CommitTimeout, Refuse, Rollback
<1>4. CASE CreateDebit(c) \/ CreateCredit(c) \/ PostCredit(c) \/ PostDebit(c) \/ UpdateStatus(c)
  BY <1>4 DEF CreateDebit, CreateCredit, PostCredit, PostDebit, UpdateStatus
<1>5. CASE Commit(c) \/ Orphan(c)
  BY <1>5 DEF Commit, Orphan, OrphanCommits, OrphanRollsBack, Rollback
<1> QED BY <1>1, <1>2, <1>3, <1>4, <1>5 DEF Step, Statement

(* A call that goes on has just begun, or keeps its parameters and the     *)
(* transaction row it has locked.                                          *)
LEMMA GoesOn ==
  ASSUME TypeOK, NEW c \in Call, Step(c), pc'[c] # "done"
  PROVE  \/ Operation(c) /\ pc[c] = "start" /\ pc'[c] = "lockFirst"
         \/ Begun(c) /\ param' = param /\ rowLocks' = rowLocks /\ pc'[c] # "start"
<1> USE DEF TypeOK, Begun
<1>1. CASE Operation(c)
  BY <1>1 DEF Operation, Transfer, Deposit, Withdraw, Reverse, Begin, Refuse, Rollback
<1>2. CASE LockFirst(c) \/ LockSecond(c) \/ CreateTransaction(c) \/ DuplicateKey(c)
           \/ Replay(c) \/ CheckBalance(c)
  BY <1>2 DEF LockFirst, LockSecond, CreateTransaction, DuplicateKey, Replay, CheckBalance,
              AfterTransfer
<1>3. CASE RefuseCurrency(c) \/ RefuseMismatch(c) \/ RefuseBalance(c) \/ BalanceOverflow(c)
           \/ Failure(c)
  BY <1>3 DEF RefuseCurrency, RefuseMismatch, RefuseBalance, BalanceOverflow, Failure,
              Abort, CommitTimeout, Refuse, Rollback
<1>4. CASE CreateDebit(c) \/ CreateCredit(c) \/ PostCredit(c) \/ PostDebit(c) \/ UpdateStatus(c)
  BY <1>4 DEF CreateDebit, CreateCredit, PostCredit, PostDebit, UpdateStatus, AfterTransfer
<1>5. CASE Commit(c) \/ Orphan(c)
  BY <1>5 DEF Commit, Orphan, OrphanCommits, OrphanRollsBack, Install, Rollback
<1> QED BY <1>1, <1>2, <1>3, <1>4, <1>5 DEF Step, Statement

-----------------------------------------------------------------------------
(* The parameters are those of the request.                                *)

LEMMA RequestedBegins ==
  ASSUME TypeOK, NEW c \in Call, Operation(c), pc'[c] = "lockFirst", pc[c] = "start"
  PROVE  Requested(param'[c], request[c])
<1> USE DEF TypeOK, Requested, Begin, Refuse, Rollback
<1>1. CASE Transfer(c)
  BY <1>1 DEF Transfer
<1>2. CASE Deposit(c)
  BY <1>2 DEF Deposit
<1>3. CASE Withdraw(c)
  BY <1>3 DEF Withdraw
<1>4. CASE Reverse(c)
  BY <1>4 DEF Reverse, ReversalRefusal, NoError
<1> QED BY <1>1, <1>2, <1>3, <1>4 DEF Operation

LEMMA RequestStep ==
  ASSUME TypeOK, RequestInv, NEW c \in Call, Step(c)
  PROVE  RequestInv'
<1>1. transactions \subseteq transactions'
  BY OnlyInstalled DEF Install
<1>2. request' = request
  BY OthersUnanswered
<1>3. ASSUME NEW d \in Call, Begun(d)'
      PROVE  Requested(param[d], request[d])'
  <2>1. CASE d # c
    <3>1. Requested(param'[d], request[d])
      BY <1>3, <2>1, OthersUntouched DEF Untouched, RequestInv, Begun
    <3> QED BY <1>1, <1>2, <3>1 DEF Requested
  <2>2. CASE d = c
    <3>1. Requested(param'[d], request[d])
      BY <1>3, <2>2, GoesOn, RequestedBegins DEF RequestInv, Begun
    <3> QED BY <1>1, <1>2, <3>1 DEF Requested
  <2> QED BY <2>1, <2>2
<1> QED BY <1>3 DEF RequestInv

-----------------------------------------------------------------------------
(* A transfer is between two accounts; a reversal, and nothing else, names *)
(* a transaction that it undoes.                                           *)
LEMMA RequestedIsSound ==
  ASSUME TypeOK, NEW r \in Request, NEW p, Requested(p, r),
         \A t \in transactions : Sound(t.source, t.destination, t.type, t.reversalOf)
  PROVE  Sound(p.from, p.to, p.type, p.reversalOf)
<1> USE DEF Sound, NoId
<1>1. CASE r.type = "transfer" /\ TransferRefusal(r) = NoError /\ p = TransferParamsOf(r)
  BY <1>1 DEF TransferRefusal, TransferParamsOf, NoError
<1>2. CASE r.type = "deposit" /\ DepositRefusal(r) = NoError /\ p = DepositParamsOf(r)
  BY <1>2, SystemAccountAssumption DEF DepositRefusal, DepositParamsOf, NoError
<1>3. CASE r.type = "withdrawal" /\ WithdrawalRefusal(r) = NoError /\ p = WithdrawalParamsOf(r)
  BY <1>3, SystemAccountAssumption DEF WithdrawalRefusal, WithdrawalParamsOf, NoError
<1>4. CASE \E t \in transactions : p = ReversalParamsOf(r, t)
  <2>1. PICK t \in transactions : p = ReversalParamsOf(r, t)
    BY <1>4
  <2>2. /\ p.from = t.destination /\ p.to = t.source
        /\ p.type = "reversal" /\ p.reversalOf = t.id
    BY <2>1 DEF ReversalParamsOf
  <2>3. t.id # 0
    BY DEF TypeOK, Transaction, Id
  <2> QED BY <2>2, <2>3
<1> QED BY <1>1, <1>2, <1>3, <1>4 DEF Requested

(* The rows a call installs.                                               *)
LEMMA TransactionsInstalled ==
  ASSUME TypeOK, ShapeInv, NEW c \in Call, Step(c), NEW t \in transactions' \ transactions
  PROVE  /\ pc[c] \in {"commit", "orphan"} /\ Install(c)
         /\ CreationOf(c) /\ result[c].outcome = "created"
         /\ t = TransactionRow(param[c], result[c].transaction)
<1>1. pc[c] \in {"commit", "orphan"} /\ Install(c)
  BY OnlyInstalled
<1>2. t \in staged[c].transactions
  BY <1>1 DEF Install
<1> QED BY <1>1, <1>2 DEF ShapeInv, ShapeOf, Ending, ReplayOf, CreationOf

LEMMA SoundStep ==
  ASSUME TypeOK, RequestInv, SoundInv, ShapeInv, NEW c \in Call, Step(c)
  PROVE  SoundInv'
<1>1. ASSUME NEW t \in transactions' \ transactions
      PROVE  Sound(t.source, t.destination, t.type, t.reversalOf)
  <2>1. t = TransactionRow(param[c], result[c].transaction) /\ Begun(c)
    BY <1>1, TransactionsInstalled DEF Begun
  <2>2. /\ t.source = param[c].from /\ t.destination = param[c].to
        /\ t.type = param[c].type /\ t.reversalOf = param[c].reversalOf
    BY <2>1 DEF TransactionRow
  <2> QED BY <2>1, <2>2 DEF SoundInv
<1>2. \A t \in transactions' : Sound(t.source, t.destination, t.type, t.reversalOf)
  BY <1>1 DEF SoundInv
<1>3. ASSUME NEW d \in Call, Begun(d)'
      PROVE  Sound(param'[d].from, param'[d].to, param'[d].type, param'[d].reversalOf)
  <2>2. CASE d # c
    BY <1>3, <2>2, OthersUntouched DEF Untouched, SoundInv, Begun
  <2>3. CASE d = c /\ param' = param /\ Begun(c)
    BY <2>3 DEF SoundInv
  <2>4. CASE d = c /\ Operation(c) /\ pc[c] = "start" /\ pc'[c] = "lockFirst"
    BY <2>4, RequestedBegins, RequestedIsSound DEF SoundInv, TypeOK
  <2> QED BY <1>3, <2>2, <2>3, <2>4, GoesOn DEF Begun
<1> QED BY <1>2, <1>3 DEF SoundInv, Sound

(* A call that ends lets go of its locks, and of what it has staged.       *)
LEMMA Ends ==
  ASSUME TypeOK, NEW c \in Call, Step(c), pc'[c] = "done"
  PROVE  rowLocks'[c] = {} /\ accountLocks'[c] = {} /\ staged'[c] = NothingStaged
<1> USE DEF TypeOK, NothingStaged, Label
<1>1. CASE Operation(c)
  BY <1>1 DEF Operation, Transfer, Deposit, Withdraw, Reverse, Begin, Refuse, Rollback
<1>2. CASE LockFirst(c) \/ LockSecond(c) \/ CreateTransaction(c) \/ DuplicateKey(c)
           \/ Replay(c) \/ CheckBalance(c)
  BY <1>2 DEF LockFirst, LockSecond, CreateTransaction, DuplicateKey, Replay, CheckBalance,
              AfterTransfer
<1>3. CASE RefuseCurrency(c) \/ RefuseMismatch(c) \/ RefuseBalance(c) \/ BalanceOverflow(c)
           \/ Failure(c)
  BY <1>3 DEF RefuseCurrency, RefuseMismatch, RefuseBalance, BalanceOverflow, Failure,
              Abort, CommitTimeout, Refuse, Rollback
<1>4. CASE CreateDebit(c) \/ CreateCredit(c) \/ PostCredit(c) \/ PostDebit(c) \/ UpdateStatus(c)
  BY <1>4 DEF CreateDebit, CreateCredit, PostCredit, PostDebit, UpdateStatus, AfterTransfer
<1>5. CASE Commit(c) \/ Orphan(c)
  BY <1>5 DEF Commit, Orphan, OrphanCommits, OrphanRollsBack, Install, Rollback
<1> QED BY <1>1, <1>2, <1>3, <1>4, <1>5 DEF Step, Statement

-----------------------------------------------------------------------------
(* The locks on transactions to be reversed.                               *)

LEMMA TargetLocked ==
  ASSUME TypeOK, NEW c \in Call, Operation(c), pc[c] = "start", pc'[c] = "lockFirst",
         rowLocks[c] = {}
  PROVE  /\ rowLocks'[c] = Target(param'[c])
         /\ \A d \in Call \ {c} : rowLocks'[c] \cap rowLocks[d] = {}
         /\ rowLocks'[c] \cap reversed = {}
<1>1. CASE rowLocks' = rowLocks /\ param'[c].type # "reversal"
  BY <1>1 DEF Target
<1>2. CASE Transfer(c) \/ Deposit(c) \/ Withdraw(c)
  <2>1. rowLocks' = rowLocks
    BY <1>2 DEF TypeOK, Transfer, Deposit, Withdraw, Begin, Refuse, Rollback
  <2>2. param'[c].type # "reversal"
    BY <1>2 DEF TypeOK, Transfer, Deposit, Withdraw, Begin, Refuse, Rollback,
                TransferParamsOf, DepositParamsOf, WithdrawalParamsOf
  <2> QED BY <1>1, <2>1, <2>2
<1>3. CASE Reverse(c)
  <2>1. /\ ReversalRefusal(request[c], transactions, reversed) = NoError
        /\ rowLocks'[c] = {request[c].target}
        /\ \E t \in transactions : /\ t.id = request[c].target
                                   /\ param'[c] = ReversalParamsOf(request[c], t)
    BY <1>3 DEF TypeOK, Reverse, Refuse, Rollback
  <2>2. param'[c].type = "reversal" /\ param'[c].reversalOf = request[c].target
    BY <2>1 DEF ReversalParamsOf
  <2>3. request[c].target \notin reversed
    BY <2>1 DEF ReversalRefusal, NoError
  <2>4. \A d \in Call \ {c} : request[c].target \notin rowLocks[d]
    BY <1>3 DEF Reverse
  <2> QED BY <2>1, <2>2, <2>3, <2>4 DEF Target
<1> QED BY <1>2, <1>3 DEF Operation

LEMMA MarkStep ==
  ASSUME TypeOK, MarkInv, ShapeInv, NEW c \in Call, Step(c)
  PROVE  MarkInv'
<1> USE DEF MarkInv
<1>1. \A d \in Call \ {c} : Untouched(d)
  BY OthersUntouched
<1>2. \/ rowLocks'[c] = {} /\ pc'[c] = "done"
      \/ rowLocks'[c] = rowLocks[c] /\ Begun(c) /\ Begun(c)' /\ param'[c] = param[c]
      \/ /\ rowLocks'[c] = Target(param'[c]) /\ Begun(c)'
         /\ \A d \in Call \ {c} : rowLocks'[c] \cap rowLocks[d] = {}
         /\ rowLocks'[c] \cap reversed = {}
  BY Ends, GoesOn, TargetLocked DEF Begun
<1>3. \/ reversed' = reversed
      \/ reversed' = reversed \cup rowLocks[c] /\ rowLocks'[c] = {}
  <2>1. CASE pc[c] \in {"commit", "orphan"} /\ Install(c)
    <3>1. staged[c].reversed = rowLocks[c]
      BY <2>1 DEF ShapeInv, ShapeOf, Begun
    <3> QED BY <2>1, <3>1, Ends DEF Install, TypeOK
  <2> QED BY <2>1, OnlyInstalled
<1>4. \A d \in Call : rowLocks'[d] = IF Begun(d)' THEN Target(param'[d]) ELSE {}
  BY <1>1, <1>2 DEF Untouched, Begun
<1>5. \A d, e \in Call : d # e => rowLocks'[d] \cap rowLocks'[e] = {}
  BY <1>1, <1>2 DEF Untouched
<1>6. \A d \in Call : rowLocks'[d] \cap reversed' = {}
  BY <1>1, <1>2, <1>3 DEF Untouched
<1> QED BY <1>4, <1>5, <1>6 DEF Target

-----------------------------------------------------------------------------
(* The order of the account locks, and the comparison of the currencies.   *)
LEMMA OrderStep ==
  ASSUME TypeOK, OrderInv, NEW c \in Call, Step(c)
  PROVE  OrderInv'
<1>1. ASSUME NEW d \in Call \ {c} PROVE OrderOf(d)'
  BY <1>1, OthersUntouched DEF Untouched, OrderInv, OrderOf
<1>2. OrderOf(c)
  BY DEF OrderInv
<1> USE DEF OrderOf, TypeOK, Label
<1>3. OrderOf(c)'
  <2>1. CASE pc'[c] = "done"
    BY <2>1, Ends
  <2>2. CASE Operation(c) /\ pc'[c] # "done"
    BY <1>2, <2>2 DEF Operation, Transfer, Deposit, Withdraw, Reverse, Begin, Refuse, Rollback
  <2>3. CASE LockFirst(c)
    BY <1>2, <2>3 DEF LockFirst, LockAccount
  <2>4. CASE LockSecond(c)
    BY <1>2, <2>4 DEF LockSecond, LockAccount
  <2>5. CASE CreateTransaction(c) \/ DuplicateKey(c) \/ Replay(c) \/ CheckBalance(c)
             \/ CommitTimeout(c)
    BY <1>2, <2>5 DEF CreateTransaction, DuplicateKey, Replay, CheckBalance, CommitTimeout,
                      AfterTransfer
  <2>6. CASE CreateDebit(c) \/ CreateCredit(c) \/ PostCredit(c) \/ PostDebit(c) \/ UpdateStatus(c)
    BY <1>2, <2>6 DEF CreateDebit, CreateCredit, PostCredit, PostDebit, UpdateStatus,
                      AfterTransfer
  <2>7. CASE RefuseCurrency(c) \/ RefuseMismatch(c) \/ RefuseBalance(c) \/ BalanceOverflow(c)
             \/ Abort(c) \/ Commit(c) \/ Orphan(c)
    BY <2>1, <2>7 DEF RefuseCurrency, RefuseMismatch, RefuseBalance, BalanceOverflow, Abort,
              Commit, Orphan, OrphanCommits, OrphanRollsBack, Install, Refuse, Rollback
  <2> QED BY <2>1, <2>2, <2>3, <2>4, <2>5, <2>6, <2>7 DEF Step, Statement, Failure
<1> QED BY <1>1, <1>3 DEF OrderInv

-----------------------------------------------------------------------------
(* The rows a call has staged, statement by statement.                     *)

(* A row of the call's own is added, and every other column stays.         *)
LEMMA DebitStaged ==
  ASSUME TypeOK, ShapeInv, SessionInv, NEW c \in Call, CreateDebit(c)
  PROVE  ShapeOf(c)'
<1> DEFINE p == param[c]  tx == result[c].transaction
           e == DebitEntry(p, tx, entrySeq')
<1>1. /\ pc[c] = "createDebit" /\ pc'[c] = "createCredit"
      /\ UNCHANGED <<param, balance, result>>
      /\ staged'[c] = [staged[c] EXCEPT !.entries = @ \cup {e}]
  BY DEF CreateDebit, TypeOK
<1>2. CreationOf(c) /\ staged[c].reversed = {}
  BY <1>1 DEF ShapeInv, ShapeOf, Creating
<1>3. e = DebitEntry(p, tx, e.id)
  BY DEF DebitEntry
<1> HIDE DEF e
<1>4. staged[c].entries = {} /\ staged[c].outbox = {}
  BY <1>1, <1>2 DEF CreationOf, EntriesStaged, EventsStaged
<1>5. /\ staged'[c].transactions = staged[c].transactions
      /\ staged'[c].reversed = staged[c].reversed
      /\ staged'[c].entries = {e} /\ staged'[c].outbox = {}
  BY <1>1, <1>4 DEF TypeOK
<1>6. CreationOf(c)'
  BY <1>1, <1>2, <1>3, <1>5 DEF CreationOf, EntriesStaged, EventsStaged, Ending
<1> QED BY <1>1, <1>2, <1>5, <1>6 DEF ShapeOf, Creating, Ending

LEMMA CreditStaged ==
  ASSUME TypeOK, ShapeInv, EntryIds, NEW c \in Call, CreateCredit(c)
  PROVE  ShapeOf(c)'
<1> DEFINE p == param[c]  tx == result[c].transaction
           e == CreditEntry(p, tx, entrySeq')
<1>1. /\ pc[c] = "createCredit" /\ pc'[c] = "postCredit"
      /\ UNCHANGED <<param, balance, result>> /\ entrySeq' = entrySeq + 1
      /\ staged'[c] = [staged[c] EXCEPT !.entries = @ \cup {e}]
  BY DEF CreateCredit, TypeOK
<1>2. CreationOf(c) /\ staged[c].reversed = {}
  BY <1>1 DEF ShapeInv, ShapeOf, Creating
<1>3. e = CreditEntry(p, tx, e.id) /\ e.id = entrySeq'
  BY DEF CreditEntry
<1> HIDE DEF e
<1>4. PICK d \in staged[c].entries : staged[c].entries = {DebitEntry(p, tx, d.id)}
  BY <1>1, <1>2 DEF CreationOf, EntriesStaged
<1>5. d.id # e.id
  <2>1. d.id <= entrySeq /\ d.id \in Nat /\ entrySeq \in Nat
    BY DEF EntryIds, TypeOK, Entry, Id
  <2> QED BY <1>1, <1>3, <2>1
<1>6. staged[c].outbox = {}
  BY <1>1, <1>2 DEF CreationOf, EventsStaged
<1>7. /\ staged'[c].transactions = staged[c].transactions
      /\ staged'[c].reversed = staged[c].reversed
      /\ staged'[c].entries = staged[c].entries \cup {e} /\ staged'[c].outbox = {}
  BY <1>1, <1>6 DEF TypeOK
<1>8. staged'[c].entries = {DebitEntry(p, tx, d.id), CreditEntry(p, tx, e.id)}
  BY <1>3, <1>4, <1>7
<1>9. CreationOf(c)'
  BY <1>1, <1>2, <1>4, <1>5, <1>7, <1>8 DEF CreationOf, EntriesStaged, EventsStaged, Ending
<1> QED BY <1>1, <1>2, <1>7, <1>9 DEF ShapeOf, Creating, Ending

LEMMA CreditEventStaged ==
  ASSUME TypeOK, ShapeInv, NEW c \in Call, PostCredit(c)
  PROVE  ShapeOf(c)'
<1> DEFINE p == param[c]  tx == result[c].transaction
           e == CreditPosted(p, tx, outboxSeq')
<1>1. /\ pc[c] = "postCredit" /\ pc'[c] = "postDebit"
      /\ UNCHANGED <<param, balance, result>>
      /\ staged'[c] = [staged[c] EXCEPT !.outbox = @ \cup {e}]
  BY DEF PostCredit, TypeOK
<1>2. CreationOf(c) /\ staged[c].reversed = {}
  BY <1>1 DEF ShapeInv, ShapeOf, Creating
<1>3. e = CreditPosted(p, tx, e.id)
  BY DEF CreditPosted
<1> HIDE DEF e
<1>4. staged[c].outbox = {}
  BY <1>1, <1>2 DEF CreationOf, EventsStaged
<1>5. /\ staged'[c].transactions = staged[c].transactions
      /\ staged'[c].reversed = staged[c].reversed
      /\ staged'[c].entries = staged[c].entries /\ staged'[c].outbox = {e}
  BY <1>1, <1>4 DEF TypeOK
<1>6. CreationOf(c)'
  BY <1>1, <1>2, <1>3, <1>5 DEF CreationOf, EntriesStaged, EventsStaged, Ending
<1> QED BY <1>1, <1>2, <1>5, <1>6 DEF ShapeOf, Creating, Ending

LEMMA DebitEventStaged ==
  ASSUME TypeOK, ShapeInv, SessionInv, EventIds, NEW c \in Call, PostDebit(c)
  PROVE  ShapeOf(c)'
<1> DEFINE p == param[c]  tx == result[c].transaction
           e == DebitPosted(p, tx, outboxSeq')
<1>1. /\ pc[c] = "postDebit" /\ pc'[c] = AfterTransfer(p)
      /\ UNCHANGED <<param, balance, result>> /\ outboxSeq' = outboxSeq + 1
      /\ staged'[c] = [staged[c] EXCEPT !.outbox = @ \cup {e}]
  BY DEF PostDebit, TypeOK
<1>2. CreationOf(c) /\ staged[c].reversed = {} /\ result[c].outcome = "created"
  BY <1>1 DEF ShapeInv, ShapeOf, Creating, SessionInv, SessionOf
<1>3. e = DebitPosted(p, tx, e.id) /\ e.id = outboxSeq'
  BY DEF DebitPosted
<1> HIDE DEF e
<1>4. PICK k \in staged[c].outbox : staged[c].outbox = {CreditPosted(p, tx, k.id)}
  BY <1>1, <1>2 DEF CreationOf, EventsStaged
<1>5. k.id # e.id
  <2>1. k.id <= outboxSeq /\ k.id \in Nat /\ outboxSeq \in Nat
    BY DEF EventIds, TypeOK, Event, Id
  <2> QED BY <1>1, <1>3, <2>1
<1>6. /\ staged'[c].transactions = staged[c].transactions
      /\ staged'[c].reversed = staged[c].reversed
      /\ staged'[c].entries = staged[c].entries
      /\ staged'[c].outbox = staged[c].outbox \cup {e}
  BY <1>1 DEF TypeOK
<1>7. staged'[c].outbox = {DebitPosted(p, tx, e.id), CreditPosted(p, tx, k.id)}
  BY <1>3, <1>4, <1>6
<1>8. CreationOf(c)'
  BY <1>1, <1>2, <1>4, <1>5, <1>6, <1>7
     DEF CreationOf, EntriesStaged, EventsStaged, Ending, AfterTransfer
<1> QED BY <1>1, <1>2, <1>6, <1>8 DEF ShapeOf, Creating, Ending, AfterTransfer, Target

LEMMA TransactionStaged ==
  ASSUME TypeOK, StagedInv, NEW c \in Call, CreateTransaction(c)
  PROVE  ShapeOf(c)'
<1>1. /\ pc[c] = "createTransaction" /\ pc'[c] = "getBalance" /\ param' = param
      /\ result'[c].transaction = txSeq'
      /\ staged'[c] = [staged[c] EXCEPT !.transactions = {TransactionRow(param[c], txSeq')}]
  BY DEF CreateTransaction, TypeOK, Created
<1>2. staged[c] = NothingStaged
  BY <1>1 DEF StagedInv, StagedOf, Unposted
<1>3. /\ staged'[c].transactions = {TransactionRow(param[c], txSeq')}
      /\ staged'[c].reversed = {} /\ staged'[c].entries = {} /\ staged'[c].outbox = {}
  BY <1>1, <1>2 DEF NothingStaged
<1> QED BY <1>1, <1>3
        DEF ShapeOf, CreationOf, EntriesStaged, EventsStaged, Creating, Ending

LEMMA ReplayStaged ==
  ASSUME TypeOK, StagedInv, NEW c \in Call, Replay(c)
  PROVE  ShapeOf(c)'
<1>1. /\ pc[c] = "getTransaction" /\ pc'[c] = AfterTransfer(param[c])
      /\ UNCHANGED <<param, staged, transactions>>
      /\ \E t \in transactions : /\ t.key = param[c].key /\ SameArguments(param[c], t)
                                 /\ result'[c] = Replayed(t.id)
  BY DEF Replay, TypeOK
<1>2. staged[c] = NothingStaged
  BY <1>1 DEF StagedInv, StagedOf, Unposted
<1>3. /\ staged'[c].transactions = {} /\ staged'[c].reversed = {}
      /\ staged'[c].entries = {} /\ staged'[c].outbox = {}
  BY <1>1, <1>2 DEF NothingStaged
<1>4. ReplayOf(c)' /\ result'[c].outcome = "replayed"
  BY <1>1, <1>3 DEF ReplayOf, Replayed, SameArguments
<1> QED BY <1>1, <1>3, <1>4 DEF ShapeOf, Creating, Ending, AfterTransfer, Target

LEMMA StatusStaged ==
  ASSUME TypeOK, SessionInv, ShapeInv, NEW c \in Call, UpdateStatus(c)
  PROVE  ShapeOf(c)'
<1>1. /\ pc[c] = "updateStatus" /\ pc'[c] = "commit"
      /\ UNCHANGED <<param, balance, result, transactions>>
      /\ staged'[c] = [staged[c] EXCEPT !.reversed = {param[c].reversalOf}]
  BY DEF UpdateStatus, TypeOK
<1>2. ShapeOf(c) /\ param[c].type = "reversal"
  BY <1>1 DEF ShapeInv, SessionInv, SessionOf
<1>3. /\ staged'[c].transactions = staged[c].transactions
      /\ staged'[c].reversed = {param[c].reversalOf}
      /\ staged'[c].entries = staged[c].entries /\ staged'[c].outbox = staged[c].outbox
  BY <1>1 DEF TypeOK
<1>4. ReplayOf(c) => ReplayOf(c)'
  BY <1>1, <1>3 DEF ReplayOf, SameArguments
<1>5. CreationOf(c) => CreationOf(c)'
  BY <1>1, <1>3 DEF CreationOf, EntriesStaged, EventsStaged, Ending
<1> QED BY <1>1, <1>2, <1>3, <1>4, <1>5 DEF ShapeOf, Creating, Ending, Target

LEMMA ShapeStep ==
  ASSUME TypeOK, SessionInv, StagedInv, EntryIds, EventIds, ShapeInv, NEW c \in Call, Step(c)
  PROVE  ShapeInv'
<1>1. ASSUME NEW d \in Call \ {c} PROVE ShapeOf(d)'
  <2>1. transactions \subseteq transactions'
    BY OnlyInstalled DEF Install
  <2>2. Untouched(d) /\ ShapeOf(d)
    BY OthersUntouched DEF ShapeInv
  <2>3. ReplayOf(d) => ReplayOf(d)'
    BY <2>1, <2>2 DEF Untouched, ReplayOf
  <2>4. CreationOf(d) => CreationOf(d)'
    BY <2>2 DEF Untouched, CreationOf, EntriesStaged, EventsStaged
  <2> QED BY <2>2, <2>3, <2>4 DEF Untouched, ShapeOf
<1>2. ShapeOf(c)'
  <2>2. CASE \/ pc'[c] = "done"
             \/ pc[c] \in Unposted /\ pc'[c] \in Unposted /\ staged' = staged
    <3>1. staged'[c] = NothingStaged
      BY <2>2, Ends DEF StagedInv, StagedOf
    <3> QED BY <2>2, <3>1 DEF ShapeOf, NothingStaged, Unposted, Creating, Ending
  <2>3. CASE Operation(c) /\ pc'[c] # "done"
    <3>1. pc[c] = "start" /\ pc'[c] = "lockFirst" /\ staged' = staged
      BY <2>3 DEF Operation, Transfer, Deposit, Withdraw, Reverse, Begin, Refuse, Rollback,
                  TypeOK
    <3> QED BY <2>2, <3>1 DEF Unposted
  <2>4. CASE LockFirst(c) \/ LockSecond(c) \/ DuplicateKey(c)
    <3>1. pc'[c] \in Unposted /\ pc[c] \in Unposted /\ staged' = staged
      BY <2>4 DEF LockFirst, LockSecond, DuplicateKey, TypeOK, Unposted
    <3> QED BY <2>2, <3>1
  <2>5. CASE CheckBalance(c)
    <3>1. /\ pc[c] = "getBalance" /\ pc'[c] = "createDebit"
          /\ UNCHANGED <<param, result, staged>> /\ Affordable(param[c], balance'[c])
      BY <2>5 DEF CheckBalance, TypeOK
    <3>2. ShapeOf(c)
      BY DEF ShapeInv
    <3> QED BY <3>1, <3>2 DEF ShapeOf, CreationOf, EntriesStaged, EventsStaged, Creating, Ending
  <2>6. CASE CommitTimeout(c)
    <3>1. /\ pc[c] = "commit" /\ pc'[c] = "orphan"
          /\ UNCHANGED <<session, staged, transactions>>
      BY <2>6 DEF CommitTimeout, TypeOK
    <3>2. ShapeOf(c)
      BY DEF ShapeInv
    <3>3. ReplayOf(c) => ReplayOf(c)'
      BY <3>1 DEF ReplayOf
    <3> QED BY <3>1, <3>2, <3>3
            DEF ShapeOf, CreationOf, EntriesStaged, EventsStaged, Creating, Ending
  <2>7. CASE RefuseCurrency(c) \/ RefuseMismatch(c) \/ RefuseBalance(c) \/ BalanceOverflow(c)
             \/ Abort(c) \/ Commit(c) \/ Orphan(c)
    <3>1. pc'[c] = "done"
      BY <2>7 DEF RefuseCurrency, RefuseMismatch, RefuseBalance, BalanceOverflow, Abort,
              Commit, Orphan, OrphanCommits, OrphanRollsBack, Install, Refuse, Rollback, TypeOK
    <3> QED BY <2>2, <3>1
  <2>8. CASE CreateTransaction(c) \/ Replay(c) \/ UpdateStatus(c)
    BY <2>8, TransactionStaged, ReplayStaged, StatusStaged
  <2>9. CASE CreateDebit(c) \/ CreateCredit(c) \/ PostCredit(c) \/ PostDebit(c)
    BY <2>9, DebitStaged, CreditStaged, CreditEventStaged, DebitEventStaged
  <2>10. CASE Operation(c)
    BY <2>2, <2>3, <2>10
  <2> QED
    BY <2>4, <2>5, <2>6, <2>7, <2>8, <2>9, <2>10 DEF Step, Statement, Failure
<1> QED BY <1>1, <1>2 DEF ShapeInv

-----------------------------------------------------------------------------
(* Ids of entries and events: the next one is larger than all before.      *)

LEMMA FreshEntries ==
  ASSUME TypeOK, EntryIds, FreshInv, NEW c \in Call, Step(c),
         NEW d \in Call, NEW e \in staged'[d].entries
  PROVE  /\ \A f \in entries' : f.id # e.id
         /\ \A b \in Call \ {d} : \A f \in staged'[b].entries : f.id # e.id
<1>1. EntryFrame(c) /\ \A b \in Call \ {c} : staged'[b] = staged[b]
  BY RowsFramed, OthersUntouched DEF Untouched
<1>2. \A b \in Call : \A f \in staged[b].entries :
        f.id \in Nat /\ f.id <= entrySeq /\ \A g \in entries : g.id # f.id
  BY DEF TypeOK, Entry, Id, EntryIds, FreshInv
<1>3. \A f \in entries : f.id \in Nat /\ f.id <= entrySeq
  BY DEF TypeOK, Entry, Id, EntryIds
<1>4. \A a, b \in Call : a # b =>
        \A f \in staged[a].entries : \A g \in staged[b].entries : f.id # g.id
  BY DEF FreshInv
<1>5. entrySeq \in Nat
  BY DEF TypeOK
<1>6. CASE entries' = entries /\ staged'[c].entries \in {{}, staged[c].entries}
  BY <1>1, <1>2, <1>4, <1>6
<1>7. CASE /\ entries' = entries
           /\ \E f : staged'[c].entries = staged[c].entries \cup {f} /\ f.id = entrySeq + 1
  <2>1. PICK f : staged'[c].entries = staged[c].entries \cup {f} /\ f.id = entrySeq + 1
    BY <1>7
  <2>2. \A b \in Call : \A g \in staged[b].entries : g.id # f.id
    BY <1>2, <1>5, <2>1
  <2>3. \A g \in entries : g.id # f.id
    BY <1>3, <1>5, <2>1
  <2> QED BY <1>1, <1>2, <1>4, <1>7, <2>1, <2>2, <2>3
<1>8. CASE entries' = entries \cup staged[c].entries /\ staged'[c].entries = {}
  BY <1>1, <1>2, <1>4, <1>8
<1> QED BY <1>1, <1>6, <1>7, <1>8 DEF EntryFrame

LEMMA FreshEvents ==
  ASSUME TypeOK, EventIds, FreshInv, NEW c \in Call, Step(c),
         NEW d \in Call, NEW e \in staged'[d].outbox
  PROVE  /\ \A f \in outbox' : f.id # e.id
         /\ \A b \in Call \ {d} : \A f \in staged'[b].outbox : f.id # e.id
<1>1. EventFrame(c) /\ \A b \in Call \ {c} : staged'[b] = staged[b]
  BY RowsFramed, OthersUntouched DEF Untouched
<1>2. \A b \in Call : \A f \in staged[b].outbox :
        f.id \in Nat /\ f.id <= outboxSeq /\ \A g \in outbox : g.id # f.id
  BY DEF TypeOK, Event, Id, EventIds, FreshInv
<1>3. \A f \in outbox : f.id \in Nat /\ f.id <= outboxSeq
  BY DEF TypeOK, Event, Id, EventIds
<1>4. \A a, b \in Call : a # b =>
        \A f \in staged[a].outbox : \A g \in staged[b].outbox : f.id # g.id
  BY DEF FreshInv
<1>5. outboxSeq \in Nat
  BY DEF TypeOK
<1>6. CASE outbox' = outbox /\ staged'[c].outbox \in {{}, staged[c].outbox}
  BY <1>1, <1>2, <1>4, <1>6
<1>7. CASE /\ outbox' = outbox
           /\ \E f : staged'[c].outbox = staged[c].outbox \cup {f} /\ f.id = outboxSeq + 1
  <2>1. PICK f : staged'[c].outbox = staged[c].outbox \cup {f} /\ f.id = outboxSeq + 1
    BY <1>7
  <2>2. \A b \in Call : \A g \in staged[b].outbox : g.id # f.id
    BY <1>2, <1>5, <2>1
  <2>3. \A g \in outbox : g.id # f.id
    BY <1>3, <1>5, <2>1
  <2> QED BY <1>1, <1>2, <1>4, <1>7, <2>1, <2>2, <2>3
<1>8. CASE outbox' = outbox \cup staged[c].outbox /\ staged'[c].outbox = {}
  BY <1>1, <1>2, <1>4, <1>8
<1> QED BY <1>1, <1>6, <1>7, <1>8 DEF EventFrame

LEMMA FreshStep ==
  ASSUME TypeOK, EntryIds, EventIds, FreshInv, NEW c \in Call, Step(c)
  PROVE  FreshInv'
BY FreshEntries, FreshEvents DEF FreshInv

-----------------------------------------------------------------------------
(* What the end of a database transaction adds to the committed rows: the  *)
(* rows of a posting, or nothing but the status of a reversed transaction. *)

LEMMA PostingInstalled ==
  ASSUME TypeOK, ShapeInv, NEW c \in Call, pc[c] \in {"commit", "orphan"},
         Install(c), CreationOf(c)
  PROVE  LET p == param[c]  tx == result[c].transaction IN
         /\ transactions' = transactions \cup {TransactionRow(p, tx)}
         /\ reversed' = reversed \cup Target(p)
         /\ \E d, k : /\ d.id # k.id
                      /\ entries' = entries \cup {DebitEntry(p, tx, d.id), CreditEntry(p, tx, k.id)}
         /\ \E d, k : /\ d.id # k.id
                      /\ outbox' = outbox \cup {DebitPosted(p, tx, d.id), CreditPosted(p, tx, k.id)}
BY DEF Install, CreationOf, EntriesStaged, EventsStaged, ShapeInv, ShapeOf, Ending

LEMMA ReplayInstalled ==
  ASSUME TypeOK, ShapeInv, NEW c \in Call, pc[c] \in {"commit", "orphan"},
         Install(c), ReplayOf(c)
  PROVE  /\ UNCHANGED <<transactions, entries, outbox>>
         /\ reversed' = reversed \cup Target(param[c])
BY DEF Install, ReplayOf, ShapeInv, ShapeOf

LEMMA InstallCases ==
  ASSUME TypeOK, ShapeInv, NEW c \in Call, pc[c] \in {"commit", "orphan"}
  PROVE  \/ ReplayOf(c) /\ result[c].outcome = "replayed"
         \/ CreationOf(c) /\ result[c].outcome = "created"
BY DEF ShapeInv, ShapeOf, Ending

LEMMA RowDetermines ==
  ASSUME NEW p \in TransferParams, NEW tx
  PROVE  RowParams(TransactionRow(p, tx)) = p /\ TransactionRow(p, tx).id = tx
BY DEF RowParams, TransactionRow, TransferParams

(* The id of the transaction is new, and no row mentions it.               *)
LEMMA NewTransaction ==
  ASSUME TypeOK, KeyInv, WholeInv, NEW c \in Call, CreationOf(c)
  PROVE  /\ \A t \in transactions : t.id # result[c].transaction
         /\ \A e \in entries : e.transaction # result[c].transaction
         /\ \A e \in outbox : e.transaction # result[c].transaction
<1>1. TransactionRow(param[c], result[c].transaction) \in staged[c].transactions
  BY DEF CreationOf
<1>2. TransactionRow(param[c], result[c].transaction).id = result[c].transaction
  BY DEF TransactionRow
<1>3. \A t \in transactions : t.id # result[c].transaction
  BY <1>1, <1>2 DEF KeyInv
<1> QED BY <1>3 DEF WholeInv

(* What the end of a call adds to the ledger.                              *)
LEMMA EndOfPosting ==
  ASSUME IInv, PostingInv, NEW c \in Call, Step(c)
  PROVE  \/ UNCHANGED <<transactions, entries>>
         \/ /\ CreationOf(c) /\ pc[c] \in {"commit", "orphan"} /\ result[c].outcome = "created"
            /\ transactions' = transactions \cup {TransactionRow(param[c], result[c].transaction)}
            /\ entries' = entries \cup staged[c].entries
            /\ \E d, k : /\ d.id # k.id
                         /\ staged[c].entries =
                              {DebitEntry(param[c], result[c].transaction, d.id),
                               CreditEntry(param[c], result[c].transaction, k.id)}
<1> USE DEF IInv, PostingInv
<1>1. CASE UNCHANGED database BY <1>1
<1>2. CASE pc[c] \in {"commit", "orphan"} /\ Install(c)
  <2>1. CASE ReplayOf(c) BY <1>2, <2>1, ReplayInstalled
  <2>2. CASE CreationOf(c) /\ result[c].outcome = "created"
    <3>1. \E d, k : /\ d.id # k.id
                    /\ staged[c].entries =
                         {DebitEntry(param[c], result[c].transaction, d.id),
                          CreditEntry(param[c], result[c].transaction, k.id)}
      BY <1>2, <2>2 DEF CreationOf, EntriesStaged, Ending
    <3> QED BY <1>2, <2>2, <3>1 DEF Install, CreationOf
  <2> QED BY <1>2, <2>1, <2>2, InstallCases
<1> QED BY <1>1, <1>2, OnlyInstalled

LEMMA RowsUntouched ==
  ASSUME WholeInv, UNCHANGED <<transactions, entries, outbox>>
  PROVE  WholeInv'
<1>1. ASSUME NEW t, Whole(t) PROVE Whole(t)'
  <2>1. /\ {e \in entries' : e.transaction = t.id} = {e \in entries : e.transaction = t.id}
        /\ {e \in outbox' : e.transaction = t.id} = {e \in outbox : e.transaction = t.id}
    OBVIOUS
  <2> QED BY <1>1, <2>1 DEF Whole
<1> QED BY <1>1 DEF WholeInv

LEMMA WholeStep ==
  ASSUME TypeOK, SessionInv, KeyInv, ShapeInv, WholeInv, NEW c \in Call, Step(c)
  PROVE  WholeInv'
<1>1. CASE UNCHANGED <<transactions, entries, outbox>>
  BY <1>1, RowsUntouched
<1>2. CASE pc[c] \in {"commit", "orphan"} /\ Install(c) /\ CreationOf(c)
  <2>0. PICK p, tx, new : /\ p = param[c] /\ tx = result[c].transaction
                          /\ new = TransactionRow(p, tx)
    OBVIOUS
  <2>1. p \in TransferParams
    BY <1>2, <2>0 DEF SessionInv, SessionOf
  <2>2. RowParams(new) = p /\ new.id = tx
    BY <2>0, <2>1, RowDetermines
  <2>3. transactions' = transactions \cup {new}
    BY <1>2, <2>0, PostingInstalled
  <2>4. PICK d, k : entries' = entries \cup {DebitEntry(p, tx, d.id), CreditEntry(p, tx, k.id)}
    BY <1>2, <2>0, PostingInstalled
  <2>5. PICK dd, kk : outbox' = outbox \cup {DebitPosted(p, tx, dd.id), CreditPosted(p, tx, kk.id)}
    BY <1>2, <2>0, PostingInstalled
  <2> DEFINE D == DebitEntry(p, tx, d.id)   K == CreditEntry(p, tx, k.id)
             DD == DebitPosted(p, tx, dd.id)  KK == CreditPosted(p, tx, kk.id)
  <2>6. /\ D.transaction = tx /\ K.transaction = tx /\ D.id = d.id /\ K.id = k.id
        /\ DD.transaction = tx /\ KK.transaction = tx /\ DD.id = dd.id /\ KK.id = kk.id
    BY DEF DebitEntry, CreditEntry, DebitPosted, CreditPosted
  <2>7. D = DebitEntry(p, tx, D.id) /\ K = CreditEntry(p, tx, K.id)
    BY <2>6
  <2>8. DD = DebitPosted(p, tx, DD.id) /\ KK = CreditPosted(p, tx, KK.id)
    BY <2>6
  <2> HIDE DEF D, K, DD, KK
  <2>9. entries' = entries \cup {D, K} /\ outbox' = outbox \cup {DD, KK}
    BY <2>4, <2>5 DEF D, K, DD, KK
  <2>10. /\ \A t \in transactions : t.id # tx
         /\ \A e \in entries : e.transaction # tx
         /\ \A e \in outbox : e.transaction # tx
    BY <1>2, <2>0, NewTransaction
  <2>11. Whole(new)'
    <3>1. {e \in entries' : e.transaction = tx} = {D, K} /\ D \in entries' /\ K \in entries'
      BY <2>6, <2>9, <2>10
    <3>2. {e \in outbox' : e.transaction = tx} = {DD, KK} /\ DD \in outbox' /\ KK \in outbox'
      BY <2>6, <2>9, <2>10
    <3>3. \E x, y \in entries' :
            {e \in entries' : e.transaction = tx} = {DebitEntry(p, tx, x.id), CreditEntry(p, tx, y.id)}
      BY <2>7, <3>1
    <3>4. \E x, y \in outbox' :
            {e \in outbox' : e.transaction = tx} = {DebitPosted(p, tx, x.id), CreditPosted(p, tx, y.id)}
      BY <2>8, <3>2
    <3>5. \E x, y \in entries' : {e \in entries' : e.transaction = new.id} =
            {DebitEntry(RowParams(new), new.id, x.id), CreditEntry(RowParams(new), new.id, y.id)}
      BY <2>2, <3>3
    <3>6. \E x, y \in outbox' : {e \in outbox' : e.transaction = new.id} =
            {DebitPosted(RowParams(new), new.id, x.id), CreditPosted(RowParams(new), new.id, y.id)}
      BY <2>2, <3>4
    <3> QED BY <3>5, <3>6 DEF Whole
  <2>12. ASSUME NEW t \in transactions PROVE Whole(t)'
    <3>1. /\ {e \in entries' : e.transaction = t.id} = {e \in entries : e.transaction = t.id}
          /\ {e \in outbox' : e.transaction = t.id} = {e \in outbox : e.transaction = t.id}
      BY <2>6, <2>9, <2>10
    <3>2. Whole(t)
      BY DEF WholeInv
    <3> QED BY <2>9, <3>1, <3>2 DEF Whole
  <2>13. /\ \A e \in entries' : \E t \in transactions' : e.transaction = t.id
         /\ \A e \in outbox' : \E t \in transactions' : e.transaction = t.id
    BY <2>2, <2>3, <2>6, <2>9 DEF WholeInv
  <2> QED BY <2>3, <2>11, <2>12, <2>13 DEF WholeInv
<1> QED BY <1>1, <1>2, OnlyInstalled, InstallCases, ReplayInstalled

-----------------------------------------------------------------------------
(* Reversals.  The row lock keeps the target unmarked until the commit, so *)
(* no committed reversal can have the same target.                         *)

LEMMA ReversalStep ==
  ASSUME TypeOK, RequestInv, SoundInv, MarkInv, ShapeInv, ReversalUndoesOnce,
         NEW c \in Call, Step(c)
  PROVE  ReversalUndoesOnce'
<1>1. CASE transactions' = transactions /\ reversed \subseteq reversed'
  BY <1>1 DEF ReversalUndoesOnce
<1>2. CASE pc[c] \in {"commit", "orphan"} /\ Install(c) /\ CreationOf(c)
  <2>1. PICK p, new : p = param[c] /\ new = TransactionRow(p, result[c].transaction)
    OBVIOUS
  <2>2. /\ new.source = p.from /\ new.destination = p.to /\ new.amount = p.amount
        /\ new.type = p.type /\ new.reversalOf = p.reversalOf
    BY <2>1 DEF TransactionRow
  <2>3. transactions' = transactions \cup {new} /\ reversed' = reversed \cup Target(p)
    BY <1>2, <2>1, PostingInstalled
  <2>4. \A t \in transactions \cup {new} : t.type = "reversal" <=> t.reversalOf # NoId
    BY <1>2, <2>1, <2>2 DEF SoundInv, Sound, Begun
  <2>5. p.type = "reversal" => p.reversalOf \notin reversed
    BY <1>2, <2>1 DEF MarkInv, Begun, Target
  <2>6. \A t \in transactions : t.type = "reversal" => t.reversalOf \in reversed
    BY DEF ReversalUndoesOnce
  <2>7. ASSUME new.type = "reversal"
        PROVE  \E u \in transactions :
                 /\ u.id = new.reversalOf /\ u.type # "reversal" /\ u.id \in reversed'
                 /\ u.source = new.destination /\ u.destination = new.source
                 /\ u.amount = new.amount
    <3>1. Requested(p, request[c]) /\ p.type = "reversal"
      BY <1>2, <2>1, <2>2, <2>7 DEF RequestInv, Begun
    <3>2. PICK u \in transactions : u.type # "reversal" /\ p = ReversalParamsOf(request[c], u)
      BY <3>1 DEF Requested, TransferParamsOf, DepositParamsOf, WithdrawalParamsOf
    <3>3. /\ p.from = u.destination /\ p.to = u.source /\ p.amount = u.amount
          /\ p.reversalOf = u.id
      BY <3>2 DEF ReversalParamsOf
    <3>4. u.id \in reversed'
      BY <2>3, <3>1, <3>3 DEF Target
    <3> QED BY <2>2, <3>2, <3>3, <3>4
  <2>8. \A t \in transactions : t.type = "reversal" \/ new.type = "reversal" =>
          t.reversalOf # new.reversalOf
    BY <2>2, <2>4, <2>5, <2>6
  <2>9. ASSUME NEW t \in transactions', t.type = "reversal"
        PROVE  /\ \E u \in transactions' :
                    /\ u.id = t.reversalOf /\ u.type # "reversal" /\ u.id \in reversed'
                    /\ u.source = t.destination /\ u.destination = t.source
                    /\ u.amount = t.amount
               /\ \A u \in transactions' : u.reversalOf = t.reversalOf => u = t
    <3>1. CASE t = new
      BY <2>3, <2>7, <2>8, <2>9, <3>1
    <3>2. CASE t \in transactions
      BY <2>3, <2>8, <2>9, <3>2 DEF ReversalUndoesOnce
    <3> QED BY <2>3, <3>1, <3>2
  <2> QED BY <2>9 DEF ReversalUndoesOnce
<1> QED BY <1>1, <1>2, OnlyInstalled, InstallCases, ReplayInstalled

-----------------------------------------------------------------------------
(* Answers.                                                                *)

(* Parameters that stand for a request do what was asked; so does an       *)
(* earlier transaction with the same arguments.                            *)
LEMMA RequestedIsDone ==
  ASSUME TypeOK, NEW r \in Request, NEW p, Requested(p, r), NEW t,
         t.key = p.key, SameArguments(p, t)
  PROVE  Does(t, r) /\ p.key = r.key /\ p.type = r.type
<1> USE DEF SameArguments, Does
<1>1. CASE r.type = "transfer" /\ p = TransferParamsOf(r)
  BY <1>1 DEF TransferParamsOf
<1>2. CASE r.type = "deposit" /\ p = DepositParamsOf(r)
  BY <1>2 DEF DepositParamsOf
<1>3. CASE r.type = "withdrawal" /\ p = WithdrawalParamsOf(r)
  BY <1>3 DEF WithdrawalParamsOf
<1>4. CASE r.type = "reversal" /\ \E u \in transactions :
             u.id = r.target /\ p = ReversalParamsOf(r, u)
  <2>1. PICK u \in transactions : u.id = r.target /\ p = ReversalParamsOf(r, u)
    BY <1>4
  <2>2. /\ p.from = u.destination /\ p.to = u.source /\ p.amount = u.amount
        /\ p.key = r.key /\ p.type = "reversal"
    BY <2>1 DEF ReversalParamsOf
  <2> QED BY <1>4, <2>1, <2>2
<1> QED BY <1>1, <1>2, <1>3, <1>4 DEF Requested

(* What a call is told by a step.                                          *)
LEMMA AnswerGiven ==
  ASSUME TypeOK, NEW c \in Call, Step(c)
  PROVE  \/ answer'[c] = answer[c] /\ pc[c] \notin {"orphan", "done"}
            /\ pc'[c] \notin {"orphan", "done"}
         \/ answer'[c] = answer[c] /\ pc[c] = "orphan" /\ pc'[c] = "done"
         \/ answer'[c] = InternalError /\ pc'[c] = "orphan"
         \/ \E error \in Refusal \cup {"internal"} :
              answer'[c] = Refused(error) /\ pc'[c] = "done"
         \/ answer'[c] = result[c] /\ pc[c] = "commit" /\ Install(c) /\ pc'[c] = "done"
<1> USE DEF TypeOK
<1>1. CASE Operation(c)
  <2>1. \/ answer'[c] = answer[c] /\ pc[c] = "start" /\ pc'[c] = "lockFirst"
        \/ \E error \in Refusal : answer'[c] = Refused(error) /\ pc'[c] = "done"
    <3>1. CASE Transfer(c) \/ Deposit(c) \/ Withdraw(c)
      BY <3>1, RefusalsTyped DEF Transfer, Deposit, Withdraw, Begin, Refuse, Rollback
    <3>2. CASE Reverse(c)
      BY <3>2, RefusalsTyped DEF Reverse, Refuse, Rollback
    <3> QED BY <1>1, <3>1, <3>2 DEF Operation
  <2> QED BY <2>1
<1>2. CASE LockFirst(c) \/ LockSecond(c) \/ CreateTransaction(c) \/ DuplicateKey(c)
           \/ Replay(c) \/ CheckBalance(c)
  BY <1>2 DEF LockFirst, LockSecond, CreateTransaction, DuplicateKey, Replay, CheckBalance,
              AfterTransfer
<1>3. CASE RefuseCurrency(c) \/ RefuseMismatch(c) \/ RefuseBalance(c) \/ BalanceOverflow(c)
           \/ Abort(c)
  BY <1>3 DEF RefuseCurrency, RefuseMismatch, RefuseBalance, BalanceOverflow,
              Abort, Refuse, Rollback, Refusal
<1>4. CASE CreateDebit(c) \/ CreateCredit(c) \/ PostCredit(c) \/ PostDebit(c) \/ UpdateStatus(c)
  BY <1>4 DEF CreateDebit, CreateCredit, PostCredit, PostDebit, UpdateStatus, AfterTransfer
<1>5. CASE Commit(c) \/ Orphan(c) \/ CommitTimeout(c)
  BY <1>5 DEF Commit, Orphan, CommitTimeout, OrphanCommits, OrphanRollsBack, Install, Rollback
<1> QED BY <1>1, <1>2, <1>3, <1>4, <1>5 DEF Step, Statement, Failure

(* What a commit tells its client.                                         *)
LEMMA CreationTold ==
  ASSUME IInv, PostingInv, NEW c \in Call, pc[c] = "commit", Install(c), CreationOf(c)
  PROVE  \E t \in transactions' :
           /\ t.id = result[c].transaction /\ t.type = request[c].type
           /\ Does(t, request[c])
<1> DEFINE p == param[c]
<1>1. PICK t : t = TransactionRow(p, result[c].transaction)
  OBVIOUS
<1>2. /\ t.id = result[c].transaction /\ t.type = p.type /\ t.key = p.key
      /\ SameArguments(p, t)
  BY <1>1 DEF TransactionRow, SameArguments
<1>3. Requested(p, request[c]) /\ request[c] \in Request
  BY DEF PostingInv, RequestInv, Begun, IInv, TypeOK
<1>4. Does(t, request[c]) /\ p.type = request[c].type
  BY <1>2, <1>3, RequestedIsDone DEF IInv
<1>5. t \in transactions'
  BY <1>1, PostingInstalled DEF IInv, PostingInv
<1> QED BY <1>2, <1>4, <1>5

LEMMA ReplayTold ==
  ASSUME IInv, PostingInv, NEW c \in Call, pc[c] = "commit", ReplayOf(c)
  PROVE  \E t \in transactions : t.id = result[c].transaction /\ Does(t, request[c])
<1>1. PICK t \in transactions : /\ t.key = param[c].key /\ SameArguments(param[c], t)
                                /\ result[c] = Replayed(t.id)
  BY DEF ReplayOf
<1>2. Requested(param[c], request[c]) /\ request[c] \in Request
  BY DEF PostingInv, RequestInv, Begun, IInv, TypeOK
<1>3. Does(t, request[c])
  BY <1>1, <1>2, RequestedIsDone DEF IInv
<1> QED BY <1>1, <1>3 DEF Replayed

(* The part of AnswersAreTrue that is about one call.                      *)
ToldTrue(c) ==
  /\ answer[c].outcome \in {"created", "replayed"} =>
       \E t \in transactions : t.id = answer[c].transaction /\ Does(t, request[c])
  /\ answer[c].outcome = "created" =>
       \E t \in transactions : t.id = answer[c].transaction /\ t.type = request[c].type

AllToldTrue == \A c \in Call : ToldTrue(c)

NoneToldTwice ==
  \A c, d \in Call : c # d /\ answer[c].outcome = "created" => answer[d] # answer[c]

LEMMA TruthParts == AnswersAreTrue <=> NoneToldTwice /\ AllToldTrue
BY DEF AnswersAreTrue, NoneToldTwice, AllToldTrue, ToldTrue

(* An answer that is true stays true.                                      *)
LEMMA DoesStays ==
  ASSUME transactions \subseteq transactions', NEW t, NEW r \in Request, Does(t, r)
  PROVE  Does(t, r)'
<1>1. r.type \in {"transfer", "deposit", "withdrawal", "reversal"}
  BY DEF Request
<1>2. CASE r.type = "reversal"
  BY <1>2 DEF Does
<1>3. CASE r.type = "transfer"
  BY <1>3 DEF Does
<1>4. CASE r.type = "deposit"
  BY <1>4 DEF Does
<1>5. CASE r.type = "withdrawal"
  BY <1>5 DEF Does
<1> QED BY <1>1, <1>2, <1>3, <1>4, <1>5

LEMMA ToldTrueStays ==
  ASSUME TypeOK, request' = request, transactions \subseteq transactions',
         NEW d \in Call, ToldTrue(d), answer'[d] = answer[d]
  PROVE  ToldTrue(d)'
<1>1. PICK r \in Request : r = request[d] /\ r = request'[d]
  BY DEF TypeOK
<1>2. \A t : Does(t, r) => Does(t, r)'
  BY DoesStays
<1> QED BY <1>1, <1>2 DEF ToldTrue

LEMMA CommitToldTrue ==
  ASSUME IInv, PostingInv, NEW c \in Call, Step(c), pc[c] = "commit", Install(c),
         answer'[c] = result[c]
  PROVE  ToldTrue(c)'
<1>1. request' = request /\ transactions \subseteq transactions'
  BY OthersUnanswered, OnlyInstalled DEF Install, IInv
<1>2. PICK r \in Request : r = request[c] /\ r = request'[c]
  BY <1>1 DEF IInv, TypeOK
<1>3. \A t : Does(t, r) => Does(t, r)'
  BY <1>1, DoesStays
<1>4. CASE CreationOf(c)
  <2>1. PICK t \in transactions' :
          t.id = result[c].transaction /\ t.type = r.type /\ Does(t, r)
    BY <1>2, <1>4, CreationTold
  <2> QED BY <1>2, <1>3, <2>1 DEF ToldTrue
<1>5. CASE ReplayOf(c) /\ result[c].outcome = "replayed"
  <2>1. PICK t \in transactions : t.id = result[c].transaction /\ Does(t, r)
    BY <1>2, <1>5, ReplayTold
  <2> QED BY <1>1, <1>2, <1>3, <1>5, <2>1 DEF ToldTrue
<1> QED BY <1>4, <1>5, InstallCases DEF IInv, PostingInv

(* No other client has been told of the transaction a call creates.        *)
LEMMA CreationUntold ==
  ASSUME IInv, PostingInv, NEW c \in Call, CreationOf(c), NEW d \in Call,
         answer[d].outcome = "created"
  PROVE  answer[d].transaction # result[c].transaction
<1>1. \E t \in transactions : t.id = answer[d].transaction
  BY DEF PostingInv, AnswerInv, AnswersAreTrue
<1> QED BY <1>1, NewTransaction DEF IInv, PostingInv

LEMMA AnswerStep ==
  ASSUME IInv, PostingInv, NEW c \in Call, Step(c)
  PROVE  AnswerInv'
<1> USE DEF IInv
<1>1. /\ \A d \in Call \ {c} : answer'[d] = answer[d] /\ Untouched(d)
      /\ request' = request /\ transactions \subseteq transactions'
  BY OthersUnanswered, OthersUntouched, OnlyInstalled DEF Install
<1>2. NoneToldTwice /\ \A d \in Call : ToldTrue(d)
  BY TruthParts DEF PostingInv, AnswerInv, AllToldTrue
<1>3. \A d \in Call : /\ pc'[d] \notin {"orphan", "done"} => answer'[d] = Pending
                      /\ pc'[d] = "orphan" => answer'[d] = InternalError
  <2>1. /\ pc'[c] \notin {"orphan", "done"} => answer'[c] = Pending
        /\ pc'[c] = "orphan" => answer'[c] = InternalError
    BY AnswerGiven DEF PostingInv, AnswerInv
  <2> QED BY <1>1, <2>1 DEF PostingInv, AnswerInv, Untouched
<1>4. NoneToldTwice' /\ \A d \in Call : ToldTrue(d)'
  <2>1. CASE answer'[c] = answer[c]
    <3>1. answer' = answer
      BY <1>1, <2>1, TypeStep DEF TypeOK
    <3>2. \A d \in Call : ToldTrue(d)'
      BY <1>1, <1>2, <3>1, ToldTrueStays
    <3> QED BY <1>2, <3>1, <3>2 DEF NoneToldTwice
  <2>2. CASE answer'[c].outcome \notin {"created", "replayed"}
    <3>1. ToldTrue(c)'
      BY <2>2 DEF ToldTrue
    <3>2. \A d \in Call : ToldTrue(d)'
      BY <1>1, <1>2, <3>1, ToldTrueStays
    <3> QED BY <1>1, <1>2, <2>2, <3>2 DEF NoneToldTwice
  <2>3. CASE answer'[c] = result[c] /\ pc[c] = "commit" /\ Install(c)
    <3>1. \A d \in Call : ToldTrue(d)'
      BY <1>1, <1>2, <2>3, ToldTrueStays, CommitToldTrue
    <3>2. \A d \in Call \ {c} :
            /\ answer'[c].outcome = "created" => answer[d] # answer'[c]
            /\ answer[d].outcome = "created" => answer'[c] # answer[d]
      BY <2>3, CreationUntold, InstallCases DEF PostingInv
    <3> QED BY <1>1, <1>2, <3>1, <3>2 DEF NoneToldTwice
  <2>4. \A error \in Refusal \cup {"internal"} :
          Refused(error).outcome \notin {"created", "replayed"}
    BY DEF Refusal, Refused
  <2>5. InternalError.outcome \notin {"created", "replayed"}
    BY DEF InternalError
  <2>6. \/ answer'[c] = answer[c] \/ answer'[c].outcome \notin {"created", "replayed"}
        \/ answer'[c] = result[c] /\ pc[c] = "commit" /\ Install(c)
    BY <2>4, <2>5, AnswerGiven
  <2> QED BY <2>1, <2>2, <2>3, <2>6
<1>5. NoneToldTwice' /\ AllToldTrue'
  BY <1>4 DEF AllToldTrue
<1>6. AnswersAreTrue'
  BY <1>5, TruthParts, PTL
<1> QED BY <1>3, <1>6 DEF AnswerInv

-----------------------------------------------------------------------------
(* Together.                                                               *)

LEMMA PostingInit == Init => PostingInv
<1> SUFFICES ASSUME Init PROVE PostingInv
  OBVIOUS
<1> USE DEF Init
<1>1. RequestInv /\ SoundInv /\ MarkInv /\ OrderInv
  BY DEF RequestInv, SoundInv, MarkInv, OrderInv, OrderOf, Begun
<1>2. ShapeInv /\ FreshInv
  BY DEF ShapeInv, ShapeOf, Creating, Ending, FreshInv, NothingStaged
<1>3. WholeInv /\ ReversalUndoesOnce
  BY DEF WholeInv, ReversalUndoesOnce
<1>4. AnswerInv
  BY DEF AnswerInv, AnswersAreTrue, Pending
<1> QED BY <1>1, <1>2, <1>3, <1>4 DEF PostingInv

LEMMA PostingStutters ==
  ASSUME IInv, PostingInv, UNCHANGED vars
  PROVE  PostingInv'
<1> USE DEF PostingInv, Begun
<1>1. RequestInv' /\ SoundInv' /\ MarkInv' /\ OrderInv'
  BY DEF RequestInv, Requested, SoundInv, MarkInv, OrderInv, OrderOf
<1>2. ShapeInv'
  <2> SUFFICES ASSUME NEW c \in Call PROVE ShapeOf(c)'
    BY DEF ShapeInv
  <2>1. ReplayOf(c) => ReplayOf(c)'
    BY DEF ReplayOf
  <2>2. CreationOf(c) => CreationOf(c)'
    BY DEF CreationOf, EntriesStaged, EventsStaged
  <2> QED BY <2>1, <2>2 DEF ShapeInv, ShapeOf
<1>3. FreshInv' /\ ReversalUndoesOnce'
  BY DEF FreshInv, ReversalUndoesOnce
<1>4. WholeInv'
  BY RowsUntouched
<1>5. AnswerInv'
  <2>1. NoneToldTwice /\ AllToldTrue
    BY TruthParts DEF AnswerInv
  <2>2. NoneToldTwice' /\ AllToldTrue'
    BY <2>1, ToldTrueStays DEF IInv, NoneToldTwice, AllToldTrue
  <2>3. AnswersAreTrue'
    BY <2>2, TruthParts, PTL
  <2> QED BY <2>3 DEF AnswerInv
<1> QED BY <1>1, <1>2, <1>3, <1>4, <1>5

LEMMA PostingStep == IInv /\ PostingInv /\ [Next]_vars => PostingInv'
<1> SUFFICES ASSUME IInv, PostingInv, [Next]_vars PROVE PostingInv'
  OBVIOUS
<1>1. CASE Next
  <2>1. PICK c \in Call : Step(c)
    BY <1>1 DEF Next
  <2>2. RequestInv' /\ SoundInv'
    BY <2>1, RequestStep, SoundStep DEF IInv, PostingInv
  <2>3. MarkInv' /\ OrderInv'
    BY <2>1, MarkStep, OrderStep DEF IInv, PostingInv
  <2>4. ShapeInv' /\ FreshInv'
    BY <2>1, ShapeStep, FreshStep DEF IInv, PostingInv
  <2>5. WholeInv' /\ ReversalUndoesOnce'
    BY <2>1, WholeStep, ReversalStep DEF IInv, PostingInv
  <2>6. AnswerInv'
    BY <2>1, AnswerStep
  <2> QED BY <2>2, <2>3, <2>4, <2>5, <2>6 DEF PostingInv
<1>2. CASE UNCHANGED vars
  BY <1>2, PostingStutters
<1> QED BY <1>1, <1>2

(* The strengthened invariant of the postings holds in every behavior.     *)
THEOREM Postings == Spec => [](IInv /\ PostingInv)
<1>1. IInv /\ PostingInv /\ [Next]_vars => (IInv /\ PostingInv)'
  BY InvStep, PostingStep
<1> QED BY <1>1, InvInit, PostingInit, PTL DEF Spec

(* A committed transaction has exactly its debit and its credit entry, and *)
(* there is no other entry.                                                *)
THEOREM EntriesBalance == Spec => []DoubleEntry
<1>1. TypeOK /\ WholeInv => DoubleEntry
  <2> SUFFICES ASSUME TypeOK, WholeInv PROVE DoubleEntry
    OBVIOUS
  <2>1. ASSUME NEW t \in transactions
        PROVE  \E d, k \in entries :
                 /\ {e \in entries : e.transaction = t.id} = {d, k}
                 /\ d.account = t.source /\ d.amount = -t.amount
                 /\ k.account = t.destination /\ k.amount = t.amount
    <3>1. PICK d, k : {e \in entries : e.transaction = t.id} =
                        {DebitEntry(RowParams(t), t.id, d.id), CreditEntry(RowParams(t), t.id, k.id)}
      BY DEF WholeInv, Whole
    <3>2. PICK D, K : D = DebitEntry(RowParams(t), t.id, d.id)
                      /\ K = CreditEntry(RowParams(t), t.id, k.id)
      OBVIOUS
    <3>3. /\ D.account = t.source /\ D.amount = -t.amount
          /\ K.account = t.destination /\ K.amount = t.amount
      BY <3>2 DEF DebitEntry, CreditEntry, RowParams
    <3>4. {e \in entries : e.transaction = t.id} = {D, K}
      BY <3>1, <3>2
    <3>5. D \in entries /\ K \in entries
      BY <3>4
    <3> QED BY <3>3, <3>4, <3>5
  <2> QED BY <2>1 DEF WholeInv, DoubleEntry
<1> QED BY <1>1, Postings, PTL DEF IInv, PostingInv

(* A reversal returns the money of one transaction, which is not a         *)
(* reversal and is marked; no transaction is reversed twice.               *)
THEOREM ReversedOnce == Spec => []ReversalUndoesOnce
<1>1. PostingInv => ReversalUndoesOnce
  BY DEF PostingInv
<1> QED BY <1>1, Postings, PTL

(* A client is told of a creation or a replay only when the transaction    *)
(* exists and does what was asked, and no creation is told twice.          *)
THEOREM ToldTheTruth == Spec => []AnswersAreTrue
<1>1. PostingInv => AnswersAreTrue
  BY DEF PostingInv, AnswerInv
<1> QED BY <1>1, Postings, PTL

(* The events of a transaction announce its entries, one each.             *)
LEMMA TransactionAnnounced ==
  ASSUME SoundInv, WholeInv, NEW t \in transactions
  PROVE  /\ \A ev \in outbox : ev.transaction = t.id => \E e \in entries : Announces(ev, e)
         /\ \A e \in entries : e.transaction = t.id => \E ev \in outbox :
              /\ Announces(ev, e)
              /\ \A other \in outbox : Announces(other, e) => other = ev
<1> DEFINE p == RowParams(t)
<1>1. PICK d, k : {e \in entries : e.transaction = t.id} =
                    {DebitEntry(p, t.id, d.id), CreditEntry(p, t.id, k.id)}
  BY DEF WholeInv, Whole
<1>2. PICK dd, kk : {ev \in outbox : ev.transaction = t.id} =
                      {DebitPosted(p, t.id, dd.id), CreditPosted(p, t.id, kk.id)}
  BY DEF WholeInv, Whole
<1>3. PICK D, K, DD, KK :
        /\ D = DebitEntry(p, t.id, d.id) /\ K = CreditEntry(p, t.id, k.id)
        /\ DD = DebitPosted(p, t.id, dd.id) /\ KK = CreditPosted(p, t.id, kk.id)
  OBVIOUS
<1>4. /\ {e \in entries : e.transaction = t.id} = {D, K}
      /\ {ev \in outbox : ev.transaction = t.id} = {DD, KK}
  BY <1>1, <1>2, <1>3
<1>5. /\ D.transaction = t.id /\ D.account = t.source /\ D.amount = -t.amount
      /\ K.transaction = t.id /\ K.account = t.destination /\ K.amount = t.amount
  BY <1>3 DEF DebitEntry, CreditEntry, RowParams
<1>6. /\ DD.transaction = t.id /\ DD.account = t.source /\ DD.amount = -t.amount
      /\ DD.type = t.type /\ DD.counterparty = t.destination /\ DD.reversalOf = t.reversalOf
      /\ KK.transaction = t.id /\ KK.account = t.destination /\ KK.amount = t.amount
      /\ KK.type = t.type /\ KK.counterparty = t.source /\ KK.reversalOf = t.reversalOf
  BY <1>3 DEF DebitPosted, CreditPosted, RowParams
<1>7. Announces(DD, D) /\ Announces(KK, K)
  BY <1>5, <1>6 DEF Announces
<1>8. t.source # t.destination
  BY DEF SoundInv, Sound
<1>9. \A other \in outbox : /\ Announces(other, D) => other = DD
                            /\ Announces(other, K) => other = KK
  BY <1>4, <1>5, <1>6, <1>8 DEF Announces
<1>10. D \in entries /\ K \in entries /\ DD \in outbox /\ KK \in outbox
  BY <1>4
<1>11. ASSUME NEW ev \in outbox, ev.transaction = t.id
       PROVE  \E e \in entries : Announces(ev, e)
  BY <1>4, <1>7, <1>10, <1>11
<1>12. ASSUME NEW e \in entries, e.transaction = t.id
       PROVE  \E ev \in outbox : /\ Announces(ev, e)
                                 /\ \A other \in outbox : Announces(other, e) => other = ev
  BY <1>4, <1>7, <1>9, <1>10, <1>12
<1> QED BY <1>11, <1>12

(* Every entry has exactly one event, and every event announces an entry.  *)
THEOREM EntriesAnnounced == Spec => []OutboxMatchesLedger
<1>1. SoundInv /\ WholeInv => OutboxMatchesLedger
  BY TransactionAnnounced DEF WholeInv, OutboxMatchesLedger
<1> QED BY <1>1, Postings, PTL DEF PostingInv

-----------------------------------------------------------------------------
(* Calls that wait for each other.  Only finitely many calls have begun,   *)
(* so that one of those that wait for their second lock has the highest    *)
(* first one: nobody who waits can hold what that call waits for.          *)

Started == {c \in Call : pc[c] # "start"}

LEMMA FinitelyManyStarted == Spec => []IsFiniteSet(Started)
<1>1. Init => IsFiniteSet(Started)
  BY FS_EmptySet DEF Init, Started
<1>2. IInv /\ IsFiniteSet(Started) /\ [Next]_vars => IsFiniteSet(Started)'
  <2> SUFFICES ASSUME IInv, IsFiniteSet(Started), [Next]_vars PROVE IsFiniteSet(Started')
    OBVIOUS
  <2>1. CASE Next
    <3>1. PICK c \in Call : Step(c)
      BY <2>1 DEF Next
    <3>2. \A d \in Call \ {c} : pc'[d] = pc[d]
      BY <3>1, OthersUntouched DEF Untouched, IInv
    <3>3. Started' \subseteq Started \cup {c}
      BY <3>2 DEF Started
    <3>4. IsFiniteSet(Started \cup {c})
      BY FS_AddElement
    <3> QED BY <3>3, <3>4, FS_Subset
  <2>2. CASE UNCHANGED vars
    BY <2>2 DEF Started
  <2> QED BY <2>1, <2>2
<1> QED BY <1>1, <1>2, Invariant, PTL DEF Spec

(* A function into the naturals has a largest value on a finite set.       *)
LEMMA Highest ==
  ASSUME NEW S, IsFiniteSet(S), S # {}, NEW f, \A x \in S : f[x] \in Nat
  PROVE  \E x \in S : \A y \in S : f[y] <= f[x]
<1> DEFINE Above(x) == {y \in S : f[y] >= f[x]}
           T == {Above(x) : x \in S}
<1>1. IsWellFoundedOn(StrictSubsetOrdering(S), FiniteSubsetsOf(S))
  BY FS_StrictSubsetOrderingWellFounded
<1>2. T \subseteq FiniteSubsetsOf(S) /\ T # {}
  <2>1. \A x \in S : Above(x) \in SUBSET S
    OBVIOUS
  <2>2. \A x \in S : IsFiniteSet(Above(x))
    BY <2>1, FS_Subset
  <2> QED BY <2>1, <2>2 DEF FiniteSubsetsOf
<1>3. PICK U \in T : \A V \in T : <<V, U>> \notin StrictSubsetOrdering(S)
  <2> HIDE DEF T
  <2> QED BY <1>1, <1>2, WFMin
<1>4. PICK x \in S : U = Above(x)
  BY <1>3
<1>5. ASSUME NEW y \in S, f[y] > f[x] PROVE FALSE
  <2>1. Above(y) \subseteq Above(x) /\ x \in Above(x) /\ x \notin Above(y)
    BY <1>5
  <2>2. Above(y) \in T /\ Above(y) \in SUBSET S /\ Above(x) \in SUBSET S
    OBVIOUS
  <2>3. <<Above(y), Above(x)>> \in StrictSubsetOrdering(S)
    BY <2>1, <2>2 DEF StrictSubsetOrdering
  <2> QED BY <1>3, <1>4, <2>2, <2>3
<1> QED BY <1>5

LEMMA LocksAscend ==
  ASSUME TypeOK, SessionInv, SoundInv, NEW c \in Call, pc[c] = "lockSecond"
  PROVE  First(param[c]) \in Nat /\ Second(param[c]) \in Nat
         /\ First(param[c]) < Second(param[c])
<1>1. param[c] \in TransferParams /\ param[c].from # param[c].to
  BY DEF SessionInv, SessionOf, SoundInv, Sound, Begun
<1>2. param[c].from \in Nat /\ param[c].to \in Nat
  BY <1>1, AccountAssumption DEF TransferParams
<1> QED BY <1>1, <1>2 DEF First, Second, LockOrder

(* Whom a waiting call can wait for, if that one waits as well.            *)
LEMMA WaitsForAHolder ==
  ASSUME IInv, PostingInv, NEW c \in Call, NEW d \in Call, WaitsFor(c, d),
         pc[d] \in {"start", "lockFirst", "lockSecond", "createTransaction"}
  PROVE  \/ pc[d] # "start" /\ pc[c] = "start"
         \/ pc[d] = "createTransaction" /\ pc[c] \in {"lockFirst", "lockSecond"}
         \/ pc[d] = "lockSecond" /\ pc[c] = "lockFirst"
         \/ /\ pc[d] = "lockSecond" /\ pc[c] = "lockSecond"
            /\ First(param[d]) = Second(param[c])
<1>1. rowLocks[d] # {} => pc[d] # "start"
  BY DEF PostingInv, MarkInv, Begun
<1>2. accountLocks[d] # {} => /\ pc[d] \in {"lockSecond", "createTransaction"}
                              /\ pc[d] = "lockSecond" => accountLocks[d] = {First(param[d])}
  BY DEF PostingInv, OrderInv, OrderOf
<1>3. staged[d].transactions = {}
  BY DEF IInv, StagedInv, StagedOf, Unposted, NothingStaged
<1> QED BY <1>1, <1>2, <1>3 DEF WaitsFor

LEMMA NobodyWaitsInACircle ==
  ASSUME IInv, PostingInv, IsFiniteSet(Started)
  PROVE  NoWaitCycle
<1> SUFFICES ASSUME NEW waiting \in SUBSET Call, waiting # {},
                    \A c \in waiting : \E d \in waiting : WaitsFor(c, d)
             PROVE  FALSE
  BY DEF NoWaitCycle
<1>1. \A c \in waiting : pc[c] \in {"start", "lockFirst", "lockSecond", "createTransaction"}
  BY DEF WaitsFor
<1>2. \A c \in waiting : pc[c] # "createTransaction"
  BY <1>1, WaitsForAHolder
<1> DEFINE AtSecond == {c \in waiting : pc[c] = "lockSecond"}
<1>3. AtSecond = {}
  <2> SUFFICES ASSUME AtSecond # {} PROVE FALSE
    OBVIOUS
  <2> DEFINE f == [c \in AtSecond |-> First(param[c])]
  <2>1. \A c \in AtSecond : /\ First(param[c]) \in Nat /\ Second(param[c]) \in Nat
                           /\ First(param[c]) < Second(param[c])
    BY LocksAscend DEF IInv, PostingInv
  <2>2. IsFiniteSet(AtSecond)
    <3>1. AtSecond \subseteq Started
      BY DEF Started
    <3> QED BY <3>1, FS_Subset
  <2>3. PICK c \in AtSecond : \A d \in AtSecond : f[d] <= f[c]
    <3>1. \A c \in AtSecond : f[c] \in Nat
      BY <2>1
    <3> HIDE DEF f, AtSecond
    <3> QED BY <2>2, <3>1, Highest
  <2>4. PICK d \in waiting : WaitsFor(c, d)
    OBVIOUS
  <2>5. d \in AtSecond /\ First(param[d]) = Second(param[c])
    BY <1>1, <1>2, <2>4, WaitsForAHolder
  <2>6. f[d] = First(param[d]) /\ f[c] = First(param[c])
    BY <2>5
  <2>7. First(param[d]) <= First(param[c])
    BY <2>3, <2>5, <2>6
  <2>8. /\ First(param[c]) \in Nat /\ Second(param[c]) \in Nat
        /\ First(param[c]) < Second(param[c])
    BY <2>1
  <2> HIDE DEF f, AtSecond
  <2> QED BY <2>5, <2>7, <2>8
<1>4. \A c \in waiting : pc[c] = "start"
  BY <1>1, <1>2, <1>3, WaitsForAHolder
<1>5. \A c, d \in waiting : ~WaitsFor(c, d)
  BY <1>1, <1>4, WaitsForAHolder
<1> QED BY <1>5

(* No calls, however many, wait for each other in a circle: a lock that a  *)
(* call waits for is held by one that goes on.                             *)
THEOREM DeadlockFree == Spec => []NoWaitCycle
BY Postings, FinitelyManyStarted, NobodyWaitsInACircle, PTL

-----------------------------------------------------------------------------
(* Sums.  A sum over a set is defined by recursion on its subsets; what    *)
(* holds of it is shown by looking at a smallest set of which it does not. *)

LEMMA SmallestSet ==
  ASSUME NEW S, IsFiniteSet(S), NEW bad \in SUBSET (SUBSET S), bad # {}
  PROVE  \E T \in bad : IsFiniteSet(T) /\ \A U \in SUBSET T : U # T => U \notin bad
<1>1. IsWellFoundedOn(StrictSubsetOrdering(S), FiniteSubsetsOf(S))
  BY FS_StrictSubsetOrderingWellFounded
<1>2. \A T \in bad : IsFiniteSet(T) BY FS_Subset
<1>3. bad \subseteq FiniteSubsetsOf(S) BY <1>2 DEF FiniteSubsetsOf
<1>4. PICK T \in bad : \A U \in bad : <<U, T>> \notin StrictSubsetOrdering(S)
  BY <1>1, <1>3, WFMin
<1>5. ASSUME NEW U \in SUBSET T, U # T, U \in bad PROVE FALSE
  <2>1. <<U, T>> \in StrictSubsetOrdering(S) BY <1>5 DEF StrictSubsetOrdering
  <2> QED BY <1>4, <1>5, <2>1
<1> QED BY <1>2, <1>5

OneOf(s) == CHOOSE x \in s : TRUE

LEMMA OneOfIsIn == ASSUME NEW s, s # {} PROVE OneOf(s) \in s
BY DEF OneOf

SumsUp(f, S) ==
  f = [s \in SUBSET S |-> IF s = {} THEN 0 ELSE OneOf(s).amount + f[s \ {OneOf(s)}]]

LEMMA SumsUpTo ==
  ASSUME NEW f, NEW S, SumsUp(f, S), NEW s \in SUBSET S
  PROVE  f[s] = IF s = {} THEN 0 ELSE OneOf(s).amount + f[s \ {OneOf(s)}]
<1> DEFINE h == [t \in SUBSET S |-> IF t = {} THEN 0 ELSE OneOf(t).amount + f[t \ {OneOf(t)}]]
<1>1. f = h BY DEF SumsUp
<1>2. h[s] = IF s = {} THEN 0 ELSE OneOf(s).amount + f[s \ {OneOf(s)}] OBVIOUS
<1> HIDE DEF h
<1> QED BY <1>1, <1>2

LEMMA SumsAgree ==
  ASSUME NEW S, NEW T, IsFiniteSet(S), T \subseteq S, NEW f, NEW g, SumsUp(f, S), SumsUp(g, T)
  PROVE  f[T] = g[T]
<1> DEFINE bad == {U \in SUBSET T : f[U] # g[U]}
<1> SUFFICES ASSUME bad # {} PROVE FALSE OBVIOUS
<1>1. IsFiniteSet(T) BY FS_Subset
<1>2. PICK U \in bad : \A V \in SUBSET U : V # U => V \notin bad
  <2>1. bad \in SUBSET (SUBSET T) OBVIOUS
  <2> HIDE DEF bad
  <2> QED BY <1>1, <2>1, SmallestSet
<1>3. U \in SUBSET T /\ U \in SUBSET S BY <1>2
<1>4. CASE U = {}
  <2>1. f[U] = 0 /\ g[U] = 0 BY <1>3, <1>4, SumsUpTo
  <2> QED BY <1>2, <2>1
<1>5. CASE U # {}
  <2> DEFINE V == U \ {OneOf(U)}
  <2>1. V \in SUBSET U /\ V # U BY <1>5, OneOfIsIn
  <2>2. f[V] = g[V] BY <1>2, <1>3, <2>1
  <2>3. f[U] = OneOf(U).amount + f[V] BY <1>3, <1>5, SumsUpTo
  <2>4. g[U] = OneOf(U).amount + g[V] BY <1>3, <1>5, SumsUpTo
  <2> QED BY <1>2, <2>2, <2>3, <2>4
<1> QED BY <1>4, <1>5

LEMMA SumExists ==
  ASSUME NEW S, IsFiniteSet(S)
  PROVE  \E f : SumsUp(f, S)
<1> DEFINE bad == {T \in SUBSET S : ~\E f : SumsUp(f, T)}
           Sum(T) == CHOOSE f : SumsUp(f, T)
<1> SUFFICES ASSUME bad # {} PROVE FALSE OBVIOUS
<1>1. PICK T \in bad : IsFiniteSet(T) /\ \A U \in SUBSET T : U # T => U \notin bad
  <2>1. bad \in SUBSET (SUBSET S) OBVIOUS
  <2> HIDE DEF bad
  <2> QED BY <2>1, SmallestSet
<1>2. \A U \in SUBSET T : U # T => SumsUp(Sum(U), U) BY <1>1
<1> DEFINE h == [s \in SUBSET T |->
                   IF s = {} THEN 0
                   ELSE OneOf(s).amount + Sum(s \ {OneOf(s)})[s \ {OneOf(s)}]]
<1>3. ASSUME NEW r \in SUBSET T, r # T PROVE h[r] = Sum(r)[r]
  <2>1. SumsUp(Sum(r), r) BY <1>2, <1>3
  <2> HIDE DEF Sum
  <2>2. CASE r = {} BY <2>1, <2>2, SumsUpTo
  <2>3. CASE r # {}
    <3> DEFINE q == r \ {OneOf(r)}
    <3>1. q \in SUBSET r /\ q \in SUBSET T /\ q # T BY <1>3, <2>3, OneOfIsIn
    <3>2. Sum(r)[r] = OneOf(r).amount + Sum(r)[q] BY <2>1, <2>3, <3>1, SumsUpTo
    <3>3. h[r] = OneOf(r).amount + Sum(q)[q] BY <2>3
    <3>4. SumsUp(Sum(q), q) BY <1>2, <3>1
    <3>5. IsFiniteSet(r) BY <1>1, FS_Subset
    <3>6. Sum(r)[q] = Sum(q)[q]
      <4> HIDE DEF q
      <4> QED BY <2>1, <3>1, <3>4, <3>5, SumsAgree
    <3> QED BY <3>2, <3>3, <3>6
  <2> QED BY <2>2, <2>3
<1>4. ASSUME NEW s \in SUBSET T
      PROVE  h[s] = IF s = {} THEN 0 ELSE OneOf(s).amount + h[s \ {OneOf(s)}]
  <2>1. CASE s = {} BY <2>1
  <2>2. CASE s # {}
    <3>1. s \ {OneOf(s)} \in SUBSET T /\ s \ {OneOf(s)} # T BY <2>2, OneOfIsIn
    <3>2. h[s \ {OneOf(s)}] = Sum(s \ {OneOf(s)})[s \ {OneOf(s)}] BY <1>3, <3>1
    <3>3. h[s] = OneOf(s).amount + Sum(s \ {OneOf(s)})[s \ {OneOf(s)}] BY <2>2
    <3> QED BY <2>2, <3>2, <3>3
  <2> QED BY <2>1, <2>2
<1>5. SumsUp(h, T)
  <2>1. h = [s \in SUBSET T |-> h[s]] OBVIOUS
  <2> HIDE DEF h
  <2> QED BY <1>4, <2>1 DEF SumsUp
<1> QED BY <1>1, <1>5

LEMMA TotalSumsUp ==
  ASSUME NEW S, IsFiniteSet(S)
  PROVE  \E f : SumsUp(f, S) /\ Total(S) = f[S]
<1>1. Total(S) = (CHOOSE f : SumsUp(f, S))[S]
  BY DEF Total, MapThenSumSet, MapThenFoldSet, SumsUp, OneOf
<1> QED BY <1>1, SumExists

LEMMA TotalEmpty == Total({}) = 0
<1>1. PICK f : SumsUp(f, {}) /\ Total({}) = f[{}] BY TotalSumsUp, FS_EmptySet
<1> QED BY <1>1, SumsUpTo

LEMMA TotalWithout ==
  ASSUME NEW S, IsFiniteSet(S), S # {}
  PROVE  Total(S) = OneOf(S).amount + Total(S \ {OneOf(S)})
<1> DEFINE T == S \ {OneOf(S)}
<1>1. T \subseteq S /\ IsFiniteSet(T) BY FS_Subset
<1>2. PICK f : SumsUp(f, S) /\ Total(S) = f[S] BY TotalSumsUp
<1>3. PICK g : SumsUp(g, T) /\ Total(T) = g[T]
  <2> HIDE DEF T
  <2> QED BY <1>1, TotalSumsUp
<1>4. f[T] = g[T]
  <2> HIDE DEF T
  <2> QED BY <1>1, <1>2, <1>3, SumsAgree
<1>5. f[S] = OneOf(S).amount + f[T] BY <1>2, SumsUpTo
<1> QED BY <1>2, <1>3, <1>4, <1>5

LEMMA TotalInt ==
  ASSUME NEW S, IsFiniteSet(S), \A x \in S : x.amount \in Int
  PROVE  Total(S) \in Int
<1> DEFINE bad == {T \in SUBSET S : Total(T) \notin Int}
<1> SUFFICES ASSUME bad # {} PROVE FALSE OBVIOUS
<1>1. PICK T \in bad : IsFiniteSet(T) /\ \A U \in SUBSET T : U # T => U \notin bad
  <2>1. bad \in SUBSET (SUBSET S) OBVIOUS
  <2> HIDE DEF bad
  <2> QED BY <2>1, SmallestSet
<1>2. T # {}
  <2>1. Total(T) # 0 BY <1>1
  <2> HIDE DEF bad
  <2> QED BY <2>1, TotalEmpty
<1>3. OneOf(T) \in T BY <1>2, OneOfIsIn
<1>4. Total(T \ {OneOf(T)}) \in Int BY <1>1, <1>3
<1>5. Total(T) = OneOf(T).amount + Total(T \ {OneOf(T)}) BY <1>1, <1>2, TotalWithout
<1> QED BY <1>1, <1>3, <1>4, <1>5

(* The order of the summands does not matter.                              *)
LEMMA TotalAdd ==
  ASSUME NEW S, IsFiniteSet(S), \A x \in S : x.amount \in Int, NEW y \in S
  PROVE  Total(S) = Total(S \ {y}) + y.amount
<1> DEFINE bad == {T \in SUBSET S : \E x \in T : Total(T) # Total(T \ {x}) + x.amount}
<1> SUFFICES ASSUME bad # {} PROVE FALSE OBVIOUS
<1>1. PICK T \in bad : IsFiniteSet(T) /\ \A U \in SUBSET T : U # T => U \notin bad
  <2>1. bad \in SUBSET (SUBSET S) OBVIOUS
  <2> HIDE DEF bad
  <2> QED BY <2>1, SmallestSet
<1>2. PICK x \in T : Total(T) # Total(T \ {x}) + x.amount BY <1>1
<1> DEFINE z == OneOf(T)
<1>3. z \in T BY <1>2, OneOfIsIn
<1>4. Total(T) = z.amount + Total(T \ {z}) BY <1>1, <1>2, TotalWithout
<1> HIDE DEF z
<1>5. \A U \in SUBSET T : Total(U) \in Int
  <2> TAKE U \in SUBSET T
  <2>1. IsFiniteSet(U) /\ \A u \in U : u.amount \in Int BY <1>1, FS_Subset
  <2> QED BY <2>1, TotalInt
<1>6. x.amount \in Int /\ z.amount \in Int BY <1>3
<1>7. CASE x = z
  <2>1. Total(T \ {z}) \in Int BY <1>5
  <2> QED BY <1>2, <1>4, <1>6, <1>7, <2>1
<1>8. CASE x # z
  <2> DEFINE R == T \ {x, z}
  <2>1. (T \ {z}) \ {x} = R /\ (T \ {x}) \ {z} = R /\ R \in SUBSET T OBVIOUS
  <2>2. Total(T \ {z}) = Total(R) + x.amount
    <3>1. T \ {z} \notin bad /\ T \ {z} \in SUBSET S /\ x \in T \ {z} BY <1>1, <1>3, <1>8
    <3> QED BY <2>1, <3>1
  <2>3. Total(T \ {x}) = Total(R) + z.amount
    <3>1. T \ {x} \notin bad /\ T \ {x} \in SUBSET S /\ z \in T \ {x} BY <1>1, <1>3, <1>8
    <3> QED BY <2>1, <3>1
  <2>4. Total(R) \in Int BY <1>5, <2>1
  <2> HIDE DEF R
  <2> QED BY <1>2, <1>4, <1>6, <2>2, <2>3, <2>4
<1> QED BY <1>7, <1>8

LEMMA TotalWithOne ==
  ASSUME NEW S, IsFiniteSet(S), \A x \in S : x.amount \in Int, NEW y, y \notin S, y.amount \in Int
  PROVE  Total(S \cup {y}) = Total(S) + y.amount
<1>1. IsFiniteSet(S \cup {y}) /\ (S \cup {y}) \ {y} = S BY FS_AddElement
<1>2. \A x \in S \cup {y} : x.amount \in Int OBVIOUS
<1> QED BY <1>1, <1>2, TotalAdd

(* Sets that have the same ids and amounts have the same sum.              *)
LEMMA TotalMatches ==
  ASSUME NEW S, NEW T, IsFiniteSet(S), IsFiniteSet(T),
         \A x \in S : x.amount \in Int /\ \E y \in T : y.id = x.id /\ y.amount = x.amount,
         \A y \in T : y.amount \in Int /\ \E x \in S : y.id = x.id,
         \A x, z \in S : x.id = z.id => x = z,
         \A y, z \in T : y.id = z.id => y = z
  PROVE  Total(S) = Total(T)
<1> DEFINE Match(U) == {y \in T : \E x \in U : x.id = y.id}
           bad == {U \in SUBSET S : Total(U) # Total(Match(U))}
<1>1. Match(S) = T OBVIOUS
<1> SUFFICES ASSUME bad # {} PROVE FALSE BY <1>1
<1>2. PICK U \in bad : IsFiniteSet(U) /\ \A V \in SUBSET U : V # U => V \notin bad
  <2>1. bad \in SUBSET (SUBSET S) OBVIOUS
  <2> HIDE DEF bad
  <2> QED BY <2>1, SmallestSet
<1>3. U \in SUBSET S /\ Total(U) # Total(Match(U)) BY <1>2
<1>4. CASE U = {}
  <2>1. Match(U) = {} BY <1>4
  <2> QED BY <1>3, <1>4, <2>1
<1>5. CASE U # {}
  <2>1. PICK x \in U : TRUE BY <1>5
  <2>2. PICK y \in T : y.id = x.id /\ y.amount = x.amount BY <1>3
  <2> DEFINE V == U \ {x}
  <2>3. Match(V) = Match(U) \ {y} /\ y \in Match(U)
    <3>1. y \in Match(U) /\ y \notin Match(V) BY <1>3, <2>2
    <3>2. \A z \in Match(U) : z # y => z \in Match(V) BY <1>3, <2>2
    <3> QED BY <3>1, <3>2
  <2>4. Total(V) = Total(Match(V))
    <3>1. V \in SUBSET U /\ V # U /\ V \in SUBSET S BY <1>3
    <3> QED BY <1>2, <3>1
  <2>5. Total(U) = Total(V) + x.amount
    <3>1. \A z \in U : z.amount \in Int BY <1>3
    <3> QED BY <1>2, <3>1, TotalAdd
  <2>6. Total(Match(U)) = Total(Match(V)) + y.amount
    <3>1. IsFiniteSet(Match(U)) BY FS_Subset
    <3>2. \A z \in Match(U) : z.amount \in Int OBVIOUS
    <3>3. Total(Match(U)) = Total(Match(U) \ {y}) + y.amount
      <4> HIDE DEF Match, bad
      <4> QED BY <2>3, <3>1, <3>2, TotalAdd
    <3> QED BY <2>3, <3>3
  <2> QED BY <1>3, <2>2, <2>4, <2>5, <2>6
<1> QED BY <1>4, <1>5

LEMMA Remainder == ASSUME NEW m \in Nat, NEW w \in Nat \ {0}, m < w PROVE m % w = m
OBVIOUS

(* Numbers that fit an int64 are left alone.                               *)
LEMMA WrapFits ==
  ASSUME NEW n \in Int64
  PROVE  Wrap(n) = n
<1>1. MaxInt \in Nat BY MaxIntAssumption
<1> DEFINE m == n + MaxInt + 1
           w == 2 * (MaxInt + 1)
<1>2. n \in Int /\ m \in Nat /\ m < w /\ w \in Nat \ {0} BY <1>1 DEF Int64
<1>3. m % w = m
  <2> HIDE DEF m, w
  <2> QED BY <1>2, Remainder
<1> QED BY <1>1, <1>2, <1>3 DEF Wrap

-----------------------------------------------------------------------------
(* Overdrafts.                                                             *)

LEMMA FinitelyManyEntries == Spec => []IsFiniteSet(entries)
<1>1. Init => IsFiniteSet(entries) BY FS_EmptySet DEF Init
<1>2. IInv /\ PostingInv /\ IsFiniteSet(entries) /\ [Next]_vars => IsFiniteSet(entries)'
  <2> SUFFICES ASSUME IInv, PostingInv, IsFiniteSet(entries), NEW c \in Call, Step(c)
               PROVE  IsFiniteSet(entries')
    BY DEF Next
  <2> DEFINE p == param[c]
             tx == result[c].transaction
  <2>1. CASE UNCHANGED entries BY <2>1
  <2>2. ASSUME NEW d, NEW k, entries' = entries \cup {d, k} PROVE IsFiniteSet(entries')
    <3>1. IsFiniteSet(entries \cup {d}) BY FS_AddElement
    <3>2. entries' = (entries \cup {d}) \cup {k} BY <2>2
    <3> QED BY <3>1, <3>2, FS_AddElement
  <2>3. UNCHANGED entries
        \/ \E d, k : entries' = entries \cup {DebitEntry(p, tx, d.id), CreditEntry(p, tx, k.id)}
    BY EndOfPosting
  <2> QED BY <2>1, <2>2, <2>3
<1> QED BY <1>1, <1>2, Postings, PTL DEF Spec

(* How the balance of an account changes.                                  *)
LEMMA BalanceChanges ==
  ASSUME IInv, PostingInv, IsFiniteSet(entries), NEW c \in Call, Step(c), NEW a
  PROVE  \/ Balance(entries', a) = Balance(entries, a)
         \/ /\ CreationOf(c) /\ pc[c] \in {"commit", "orphan"} /\ result[c].outcome = "created"
            /\ TransactionRow(param[c], result[c].transaction) \in transactions'
            /\ \/ a = param[c].from /\ Balance(entries', a) = Balance(entries, a) - param[c].amount
               \/ a = param[c].to /\ Balance(entries', a) = Balance(entries, a) + param[c].amount
<1> USE DEF IInv, PostingInv
<1>1. CASE UNCHANGED entries BY <1>1
<1>2. ASSUME NEW p, p = param[c], NEW tx, NEW d, NEW k,
             CreationOf(c), pc[c] \in {"commit", "orphan"},
             entries' = entries \cup {DebitEntry(p, tx, d), CreditEntry(p, tx, k)},
             staged[c].entries = {DebitEntry(p, tx, d), CreditEntry(p, tx, k)}
      PROVE  \/ Balance(entries', a) = Balance(entries, a)
             \/ a = p.from /\ Balance(entries', a) = Balance(entries, a) - p.amount
             \/ a = p.to /\ Balance(entries', a) = Balance(entries, a) + p.amount
  <2> DEFINE D == DebitEntry(p, tx, d)
             K == CreditEntry(p, tx, k)
             E == EntriesOf(entries, a)
  <2>1. p \in TransferParams BY <1>2 DEF SessionInv, SessionOf
  <2>2. p.from # p.to BY <1>2 DEF SoundInv, Begun, Sound
  <2>3. p.amount \in Int BY <2>1, MaxIntAssumption DEF TransferParams
  <2>4. /\ D.account = p.from /\ D.amount = -p.amount
        /\ K.account = p.to /\ K.amount = p.amount
    BY DEF DebitEntry, CreditEntry
  <2>5. D \notin entries /\ K \notin entries BY <1>2 DEF FreshInv
  <2>6. /\ E \subseteq entries /\ IsFiniteSet(E)
        /\ \A e \in E : e.amount \in Int
    <3>1. E \subseteq entries BY DEF EntriesOf
    <3>2. \A e \in entries : e.amount \in Int BY DEF TypeOK, Entry, Int64
    <3> QED BY <3>1, <3>2, FS_Subset
  <2>7. EntriesOf(entries', a) = E \cup {e \in {D, K} : e.account = a}
    BY <1>2 DEF EntriesOf
  <2> HIDE DEF D, K, E
  <2>8. Total(E) = Balance(entries, a) /\ Balance(entries', a) = Total(EntriesOf(entries', a))
    BY DEF Balance, E
  <2>9. CASE a \notin {p.from, p.to}
    <3>1. EntriesOf(entries', a) = E BY <2>4, <2>7, <2>9
    <3> QED BY <2>8, <3>1
  <2>10. CASE a = p.from
    <3>1. EntriesOf(entries', a) = E \cup {D} BY <2>2, <2>4, <2>7, <2>10
    <3>2. D \notin E /\ D.amount \in Int BY <2>3, <2>4, <2>5, <2>6
    <3>3. Total(E \cup {D}) = Total(E) + D.amount BY <2>6, <3>2, TotalWithOne
    <3>4. Total(E) \in Int BY <2>6, TotalInt
    <3> QED BY <2>3, <2>4, <2>8, <2>10, <3>1, <3>3, <3>4
  <2>11. CASE a = p.to
    <3>1. EntriesOf(entries', a) = E \cup {K} BY <2>2, <2>4, <2>7, <2>11
    <3>2. K \notin E /\ K.amount \in Int BY <2>3, <2>4, <2>5, <2>6
    <3>3. Total(E \cup {K}) = Total(E) + K.amount BY <2>6, <3>2, TotalWithOne
    <3> QED BY <2>4, <2>8, <2>11, <3>1, <3>3
  <2> QED BY <2>9, <2>10, <2>11
<1> QED BY <1>1, <1>2, EndOfPosting

(* Whatever the calls, only a reversal takes the balance of a user from    *)
(* zero or more to below zero.                                             *)
THEOREM NobodyOverdraws == Spec => NoOverdraft
<1> DEFINE Kept == \A a \in User :
                     Balance(entries, a) >= 0 /\ Balance(entries', a) < 0 => Reverses(a)
<1>1. IInv /\ PostingInv /\ IsFiniteSet(entries) /\ [Next]_vars => [Kept]_vars
  <2> SUFFICES ASSUME IInv, PostingInv, IsFiniteSet(entries), NEW c \in Call, Step(c),
                      NEW a \in User, Balance(entries, a) >= 0, Balance(entries', a) < 0
               PROVE  Reverses(a)
    BY DEF Next
  <2> DEFINE p == param[c]
             tx == result[c].transaction
  <2> USE DEF IInv, PostingInv
  <2>1. Balance(entries, a) \in Int
    <3>1. IsFiniteSet(EntriesOf(entries, a)) BY FS_Subset DEF EntriesOf
    <3>2. \A e \in EntriesOf(entries, a) : e.amount \in Int
      BY DEF EntriesOf, TypeOK, Entry, Int64
    <3> QED BY <3>1, <3>2, TotalInt DEF Balance
  <2>2. /\ CreationOf(c) /\ pc[c] \in {"commit", "orphan"} /\ result[c].outcome = "created"
        /\ TransactionRow(p, tx) \in transactions'
        /\ \/ a = p.from /\ Balance(entries', a) = Balance(entries, a) - p.amount
           \/ a = p.to /\ Balance(entries', a) = Balance(entries, a) + p.amount
    <3>1. Balance(entries', a) # Balance(entries, a) BY <2>1
    <3> QED BY <3>1, BalanceChanges
  <2>3. p \in TransferParams BY <2>2 DEF SessionInv, SessionOf
  <2>4. MaxInt \in Nat /\ p.amount \in Nat /\ 0 < p.amount /\ p.amount <= MaxInt
    BY <2>3, MaxIntAssumption DEF TransferParams
  <2>5. a = p.from /\ Balance(entries', a) = Balance(entries, a) - p.amount
    BY <2>1, <2>2, <2>4
  <2>6. Affordable(p, balance[c]) BY <2>2 DEF CreationOf
  <2>7. balance[c] = Balance(entries, a) BY <2>2, <2>5 DEF BalanceIsCurrent, Posting
  <2>8. balance[c] \in Int64 BY DEF TypeOK
  <2>9. Wrap(balance[c] - p.amount) < 0
    <3>1. balance[c] - p.amount \in Int64 BY <2>1, <2>4, <2>7, <2>8 DEF Int64
    <3> QED BY <2>1, <2>4, <2>5, <2>7, <3>1, WrapFits
  <2>10. p.type = "reversal"
    <3>1. balance[c] - p.amount \in Int64 BY <2>1, <2>4, <2>7, <2>8 DEF Int64
    <3>2. Wrap(balance[c] - p.amount) = balance[c] - p.amount BY <3>1, WrapFits
    <3> QED BY <2>1, <2>4, <2>5, <2>6, <2>7, <3>2 DEF Affordable
  <2>11. TransactionRow(p, tx) \notin transactions
    <3>1. \A t \in transactions : t.id # tx BY <2>2, NewTransaction
    <3> QED BY <3>1 DEF TransactionRow
  <2> QED BY <2>2, <2>5, <2>10, <2>11 DEF Reverses, TransactionRow
<1> QED BY <1>1, Postings, FinitelyManyEntries, PTL DEF Spec, NoOverdraft
=============================================================================
