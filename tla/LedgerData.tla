----------------------------- MODULE LedgerData -----------------------------
(***************************************************************************)
(* The vocabulary of the ledger: accounts, API requests, the rows of the   *)
(* tables transactions, ledger_entries and outbox, and the pure functions  *)
(* the service computes from them.  The modules that have state, Ledger    *)
(* (one step per SQL statement) and Bank (one step per operation), share   *)
(* it.                                                                     *)
(***************************************************************************)
EXTENDS Integers, FiniteSets, FiniteSetsExt

CONSTANTS
  Account,        \* ids of the rows of accounts; nothing creates or deletes one
  User,           \* the accounts of type 'user'; the others are 'system'
  CurrencyOf,     \* the column currency
  SystemAccount,  \* <<channel, direction, currency>> -> account: the column code
  Key,            \* idempotency keys
  MaxInt          \* the largest int64 (a small number in the model)

ASSUME AccountAssumption ==
  /\ Account \subseteq Nat \ {0}
  /\ User \subseteq Account
  /\ DOMAIN CurrencyOf = Account

(* The seed data gives a code only to system accounts.                     *)
ASSUME SystemAccountAssumption ==
  \A code \in DOMAIN SystemAccount : SystemAccount[code] \in Account \ User

ASSUME MaxIntAssumption == MaxInt \in Nat \ {0}

-----------------------------------------------------------------------------
(* int64 arithmetic.  A difference computed by Go wraps around; SUM in the *)
(* database is a numeric, which either fits an int64 or fails to scan.     *)

Int64 == -(MaxInt + 1) .. MaxInt

Wrap(n) == ((n + MaxInt + 1) % (2 * (MaxInt + 1))) - (MaxInt + 1)

-----------------------------------------------------------------------------
(* Requests and what a service operation derives from them.                *)

NoId == 0            \* Go's nil reversalOf, and no transaction

TxType == {"transfer", "deposit", "withdrawal", "reversal"}

Channel == {"ATM", "BANK"}

(* What the handlers let through: the numbers are int64, the channel is    *)
(* one of the two, and any account or transaction id may be unknown.       *)
Request ==
       [type : {"transfer"}, from : Nat, to : Nat, amount : Int64, key : Key]
  \cup [type : {"deposit", "withdrawal"}, account : Nat, channel : Channel,
        amount : Int64, key : Key]
  \cup [type : {"reversal"}, target : Nat, key : Key]

TransferParams ==
  [from : Account, to : Account, amount : 1 .. MaxInt, type : TxType,
   key : Key, reversalOf : Nat]

NoParams ==           \* Go's zero value
  [from |-> NoId, to |-> NoId, amount |-> 0, type |-> "", key |-> "",
   reversalOf |-> NoId]

NoError == "none"

TransferRefusal(r) ==
  IF r.amount <= 0 THEN "ErrInvalidAmount"
  ELSE IF r.from = r.to THEN "ErrSameAccount"
  ELSE IF r.from \notin Account THEN "ErrSourceAccountNotFound"
  ELSE IF r.to \notin Account THEN "ErrDestinationAccountNotFound"
  ELSE IF ~({r.from, r.to} \subseteq User) THEN "ErrSystemAccountNotAllowed"
  ELSE NoError

DepositCode(r) == <<r.channel, "IN", CurrencyOf[r.account]>>

DepositRefusal(r) ==
  IF r.amount <= 0 THEN "ErrInvalidAmount"
  ELSE IF r.account \notin Account THEN "ErrDestinationAccountNotFound"
  ELSE IF r.account \notin User THEN "ErrInvalidDepositDestination"
  ELSE IF DepositCode(r) \notin DOMAIN SystemAccount THEN "ErrSystemAccountNotFound"
  ELSE NoError

WithdrawalCode(r) == <<r.channel, "OUT", CurrencyOf[r.account]>>

WithdrawalRefusal(r) ==
  IF r.amount <= 0 THEN "ErrInvalidAmount"
  ELSE IF r.account \notin Account THEN "ErrSourceAccountNotFound"
  ELSE IF r.account \notin User THEN "ErrInvalidWithdrawSource"
  ELSE IF WithdrawalCode(r) \notin DOMAIN SystemAccount THEN "ErrSystemAccountNotFound"
  ELSE NoError

(* Regression: a reversal may be reversed.                                 *)
ReversalRefusalOfAnyType(r, txs, reversed) ==
  IF \A t \in txs : t.id # r.target THEN "ErrTransactionNotFound"
  ELSE IF r.target \in reversed THEN "ErrReverseIncompletedTx"
  ELSE NoError

(* The committed rows txs and the set reversed of the ids whose status is  *)
(* 'reversed' decide whether a reversal may start.                         *)
ReversalRefusal(r, txs, reversed) ==
  IF \A t \in txs : t.id # r.target THEN "ErrTransactionNotFound"
  ELSE IF r.target \in reversed THEN "ErrReverseIncompletedTx"
  ELSE IF \E t \in txs : t.id = r.target /\ t.type = "reversal"
       THEN "ErrReverseReversalTx"
  ELSE NoError

TransferParamsOf(r) ==
  [from |-> r.from, to |-> r.to, amount |-> r.amount, type |-> "transfer",
   key |-> r.key, reversalOf |-> NoId]

DepositParamsOf(r) ==
  [from |-> SystemAccount[DepositCode(r)], to |-> r.account, amount |-> r.amount,
   type |-> "deposit", key |-> r.key, reversalOf |-> NoId]

WithdrawalParamsOf(r) ==
  [from |-> r.account, to |-> SystemAccount[WithdrawalCode(r)], amount |-> r.amount,
   type |-> "withdrawal", key |-> r.key, reversalOf |-> NoId]

(* A reversal moves the money of t back: the accounts swap roles.          *)
ReversalParamsOf(r, t) ==
  [from |-> t.destination, to |-> t.source, amount |-> t.amount,
   type |-> "reversal", key |-> r.key, reversalOf |-> t.id]

-----------------------------------------------------------------------------
(* Rows.  The status column of transactions is kept apart, as the set of   *)
(* the reversed ids, because it is the only column an UPDATE changes.      *)

Id == Nat \ {0}

Transaction ==
  [id : Id, source : Account, destination : Account, amount : 1 .. MaxInt,
   key : Key, type : TxType, reversalOf : Nat]

Entry == [id : Id, transaction : Id, account : Account, amount : Int64]

(* The payload of an outbox row; account is also its partition key.        *)
Event ==
  [id : Id, account : Account, transaction : Id, type : TxType, amount : Int64,
   counterparty : Account, reversalOf : Nat]

TransactionRow(p, id) ==
  [id |-> id, source |-> p.from, destination |-> p.to, amount |-> p.amount,
   key |-> p.key, type |-> p.type, reversalOf |-> p.reversalOf]

DebitEntry(p, tx, id) ==
  [id |-> id, transaction |-> tx, account |-> p.from, amount |-> -p.amount]

CreditEntry(p, tx, id) ==
  [id |-> id, transaction |-> tx, account |-> p.to, amount |-> p.amount]

(* Regression: the debit event goes to the destination.                    *)
DebitPostedAstray(p, tx, id) ==
  [id |-> id, account |-> p.to, transaction |-> tx, type |-> p.type,
   amount |-> -p.amount, counterparty |-> p.from, reversalOf |-> p.reversalOf]

DebitPosted(p, tx, id) ==
  [id |-> id, account |-> p.from, transaction |-> tx, type |-> p.type,
   amount |-> -p.amount, counterparty |-> p.to, reversalOf |-> p.reversalOf]

CreditPosted(p, tx, id) ==
  [id |-> id, account |-> p.to, transaction |-> tx, type |-> p.type,
   amount |-> p.amount, counterparty |-> p.from, reversalOf |-> p.reversalOf]

EntriesOf(entries, a) == {e \in entries : e.account = a}

Total(entries) == MapThenSumSet(LAMBDA e : e.amount, entries)

Balance(entries, a) == Total(EntriesOf(entries, a))

(* Regression: the amounts are not compared.                               *)
SameAccounts(p, t) == t.source = p.from /\ t.destination = p.to

(* The arguments of an operation match those of an earlier transaction.    *)
SameArguments(p, t) ==
  t.source = p.from /\ t.destination = p.to /\ t.amount = p.amount

(* Regression: either account may be a system account.                     *)
AffordableAtBoundary(p, balance) ==
  \/ Wrap(balance - p.amount) >= 0
  \/ ~({p.from, p.to} \subseteq User)
  \/ p.type = "reversal"

(* The check of the source balance, in int64 arithmetic.                   *)
Affordable(p, balance) ==
  \/ Wrap(balance - p.amount) >= 0
  \/ p.from \notin User
  \/ p.type = "reversal"

-----------------------------------------------------------------------------
(* What a client is told about its call.                                   *)

Refusal ==
  {"ErrInvalidAmount", "ErrSameAccount", "ErrSourceAccountNotFound",
   "ErrDestinationAccountNotFound", "ErrSystemAccountNotAllowed",
   "ErrInvalidDepositDestination", "ErrInvalidWithdrawSource",
   "ErrSystemAccountNotFound", "ErrTransactionNotFound",
   "ErrReverseIncompletedTx", "ErrReverseReversalTx", "ErrCurrencyMismatch",
   "ErrTransactionsMismatch", "ErrNotEnough"}

(* "badRequest" is what the handlers refuse without asking the service.    *)
Answer ==
  [outcome : {"pending", "created", "replayed", "internal", "badRequest"} \cup Refusal,
   transaction : Nat]

Pending == [outcome |-> "pending", transaction |-> NoId]
Created(id) == [outcome |-> "created", transaction |-> id]
Replayed(id) == [outcome |-> "replayed", transaction |-> id]
Refused(error) == [outcome |-> error, transaction |-> NoId]
InternalError == [outcome |-> "internal", transaction |-> NoId]
=============================================================================
