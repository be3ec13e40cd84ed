------------------------------- MODULE Handler -------------------------------
(***************************************************************************)
(* The HTTP handlers, in front of the calls of Ledger: the status a call   *)
(* is answered with, and a client that reads the balance of an account and *)
(* then its history, page after page, while the statements of the calls go *)
(* on.  A read is one database transaction whose only statement that       *)
(* depends on the calls is one SELECT.  Reads take no locks and write      *)
(* nothing, so one client stands for any number of them.                   *)
(***************************************************************************)
EXTENDS Ledger, Sequences

CONSTANTS
  Watched,        \* the account ids the client may ask for, existing or not
  DefaultLimit,   \* the entries of a page if the request does not say
  MaxLimit,       \* the most entries of a page
  LimitParam      \* what requests have under limit: <<>>, or <<an integer>>

ASSUME LimitAssumption ==
  /\ MaxLimit \in Nat \ {0} /\ DefaultLimit \in 1..MaxLimit
  /\ \A sent \in LimitParam : sent \in Seq(Int) /\ Len(sent) <= 1

VARIABLES
  walk,       \* where the client is in the history
  watched,    \* the account it asks for
  before,     \* the cursor of its next request, 0 for the first page
  page,       \* the page on its way to the client
  shown,      \* the entries the client has been shown
  heard,      \* the balance the client has been told, if it asked for it
  known       \* the transactions clients had been told of at the first page

reader == <<walk, watched, before, page, shown, heard, known>>
handlerVars == <<vars, reader>>

StatementEntry ==
  [id : Id, transaction : Id, amount : Int64, counterparty : User \cup {NoId},
   type : TxType, reversalOf : Nat]

NoPage == [entries |-> {}, next |-> 0]

ReaderTypeOK ==
  /\ walk \in {"new", "asking", "answered", "done", "refused"}
  /\ watched \in Watched
  /\ before \in Nat
  /\ page \in [entries : SUBSET StatementEntry, next : Nat]
  /\ shown \subseteq StatementEntry
  /\ heard \subseteq Int64 /\ Cardinality(heard) <= 1
  /\ known \subseteq Id

HandlerInit ==
  /\ Init
  /\ watched \in Watched
  /\ walk = "new" /\ before = 0 /\ page = NoPage
  /\ shown = {} /\ heard = {} /\ known = {}

-----------------------------------------------------------------------------
(* What a call is answered with.                                           *)

NotFound ==
  {"ErrSourceAccountNotFound", "ErrDestinationAccountNotFound",
   "ErrSystemAccountNotFound", "ErrTransactionNotFound", "ErrAccountNotFound"}

Unprocessable ==
  {"ErrNotEnough", "ErrCurrencyMismatch", "ErrSystemAccountNotAllowed",
   "ErrInvalidWithdrawSource", "ErrInvalidDepositDestination"}

Conflict ==
  {"ErrTransactionsMismatch", "ErrReverseIncompletedTx", "ErrReverseReversalTx"}

BadRequest == {"badRequest", "ErrInvalidAmount", "ErrSameAccount"}

(* Regression: an error that is not known is blamed on the request.        *)
ErrorStatusOrConflict(error) ==
  CASE error \in BadRequest -> 400
    [] error \in NotFound -> 404
    [] error \in Unprocessable -> 422
    [] OTHER -> 409

(* handleError.                                                            *)
ErrorStatus(error) ==
  CASE error \in BadRequest -> 400
    [] error \in NotFound -> 404
    [] error \in Unprocessable -> 422
    [] error \in Conflict -> 409
    [] OTHER -> 500

Status(a) ==
  CASE a.outcome = "created" -> 201
    [] a.outcome = "replayed" -> 200
    [] OTHER -> ErrorStatus(a.outcome)

-----------------------------------------------------------------------------
(* POST /transfers, /deposits, /withdrawals, /transactions/{id}/reversal.  *)

(* validate, of a request whose body could be read.                        *)
Valid(r) ==
  CASE r.type = "transfer" -> r.from > 0 /\ r.to > 0 /\ r.from # r.to /\ r.amount > 0
    [] r.type \in {"deposit", "withdrawal"} ->
         r.account > 0 /\ r.amount > 0 /\ r.channel \in Channel
    [] r.type = "reversal" -> TRUE

(* A request is answered before the service sees it: it is not valid, or   *)
(* what has arrived has no key or no readable body or id, which any client *)
(* may send.                                                               *)
TurnAway(c) ==
  /\ pc[c] = "start"
  /\ Goto(c, "done")
  /\ Give(c, Refused("badRequest"))
  /\ UNCHANGED <<request, session, staged, locks, database, sequences, reader>>

Serve(c) == Valid(request[c]) /\ Step(c) /\ UNCHANGED reader

-----------------------------------------------------------------------------
(* GET /accounts/{id}/balance.                                             *)

(* Regression: only what came in is summed up.                             *)
CreditsOf(a) == Total({e \in EntriesOf(entries, a) : e.amount > 0})

BalanceOf(a) == Balance(entries, a)

(* An account that does not exist is answered with 404; a sum that fits no *)
(* int64, with 500.                                                        *)
AccountBalance ==
  /\ walk = "new" /\ heard = {}
  /\ watched \in Account /\ BalanceOf(watched) \in Int64
  /\ heard' = {BalanceOf(watched)}
  /\ UNCHANGED <<walk, watched, before, page, shown, known, vars>>

-----------------------------------------------------------------------------
(* GET /accounts/{id}/transactions.                                        *)

ReadLimit(sent) == IF sent = <<>> THEN DefaultLimit ELSE sent[1]

ValidLimit(limit) == limit > 0 /\ limit <= MaxLimit

(* The service does not rely on that validation.                           *)
Clamped(limit) ==
  IF limit <= 0 THEN DefaultLimit ELSE IF limit > MaxLimit THEN MaxLimit ELSE limit

CounterpartyOfAny(e, t) ==    \* regression: whatever the type
  IF e.amount > 0 THEN t.source ELSE t.destination

(* The other account of the transaction, which only a transfer shows.      *)
Counterparty(e, t) ==
  IF t.type # "transfer" THEN NoId
  ELSE IF e.amount > 0 THEN t.source ELSE t.destination

Shown(e, t) ==
  [id |-> e.id, transaction |-> t.id, amount |-> e.amount,
   counterparty |-> Counterparty(e, t), type |-> t.type, reversalOf |-> t.reversalOf]

(* Regression: the entry of the cursor is shown again.                     *)
UpToCursor(id, cursor) == cursor = 0 \/ id <= cursor

BelowCursor(id, cursor) == cursor = 0 \/ id < cursor

(* The entries of the account below the cursor, the `limit' with the       *)
(* largest ids, each joined with its transaction.                          *)
GetAccountHistory(a, limit, cursor) ==
  LET below == {e \in EntriesOf(entries, a) : BelowCursor(e.id, cursor)}
      newest == {e \in below : Cardinality({f \in below : f.id > e.id}) < limit}
      joined(e) == {t \in transactions : t.id = e.transaction}
  IN  UNION {{Shown(e, t) : t \in joined(e)} : e \in newest}

(* Regression: a full page is taken for the last one.                      *)
NextCursorIfMore(rows, limit) ==
  IF Cardinality(rows) <= limit THEN 0
  ELSE CHOOSE id \in {r.id : r \in rows} : \A r \in rows : id <= r.id

(* The id of the last entry, if there may be more after it.                *)
NextCursor(rows, limit) ==
  IF Cardinality(rows) < limit THEN 0
  ELSE CHOOSE id \in {r.id : r \in rows} : \A r \in rows : id <= r.id

Told == {answer[c].transaction : c \in Call} \ {NoId}

(* A page is selected; a client that repeats the request for a page that   *)
(* was lost may be shown another one.                                      *)
AccountHistory ==
  /\ walk \in {"new", "asking"}
  /\ watched \in Account
  /\ \E sent \in LimitParam :
       LET limit == Clamped(ReadLimit(sent))
           rows == GetAccountHistory(watched, limit, before)
       IN  /\ ValidLimit(ReadLimit(sent))
           /\ page' = [entries |-> rows, next |-> NextCursor(rows, limit)]
  /\ walk' = "answered"
  /\ known' = IF before = 0 THEN Told ELSE known
  /\ UNCHANGED <<watched, before, shown, heard, vars>>

UnknownAccount ==
  /\ walk = "new" /\ watched \notin Account
  /\ walk' = "refused"
  /\ UNCHANGED <<watched, before, page, shown, heard, known, vars>>

(* The client takes the page, and asks for the next one if there is one.   *)
ReceivePage ==
  /\ walk = "answered"
  /\ shown' = shown \cup page.entries
  /\ before' = page.next
  /\ page' = NoPage
  /\ walk' = IF page.next = 0 THEN "done" ELSE "asking"
  /\ UNCHANGED <<watched, heard, known, vars>>

(* The read fails, takes too long, or the answer does not arrive: the      *)
(* client repeats the request.                                             *)
LosePage ==
  /\ walk = "answered"
  /\ page' = NoPage
  /\ walk' = "asking"
  /\ UNCHANGED <<watched, before, shown, heard, known, vars>>

-----------------------------------------------------------------------------

Reading == AccountBalance \/ AccountHistory \/ UnknownAccount \/ ReceivePage \/ LosePage

HandlerNext == (\E c \in Call : Serve(c) \/ TurnAway(c)) \/ Reading

HandlerSpec == HandlerInit /\ [][HandlerNext]_handlerVars

(* A client goes on to the end, and a page it asks for again and again     *)
(* arrives in the end; nothing else has to happen.                         *)
HandlerFairness ==
  /\ WF_handlerVars(AccountHistory \/ UnknownAccount)
  /\ SF_handlerVars(ReceivePage)

HandlerFairSpec == HandlerSpec /\ HandlerFairness

-----------------------------------------------------------------------------
(* Safety.                                                                 *)

(* The pages leave nothing out between the newest and the oldest entry     *)
(* they show, not even what was committed while the client was reading and *)
(* had its id drawn long before (service.go, AccountTransactionsHistory).  *)
WalkHasNoGap ==
  \A e \in EntriesOf(entries, watched) : \A r, s \in shown :
    r.id <= e.id /\ e.id <= s.id => \E q \in shown : q.id = e.id

(* A client that has read the history to its end has been shown every      *)
(* transaction of the account that anybody had been told of when it began, *)
(* its own above all, and the first one of the account as well             *)
(* (docs/architecture.md: a user sees an operation at once).               *)
OwnOperationIsShown ==
  walk = "done" => \A t \in transactions :
    t.id \in known /\ watched \in {t.source, t.destination} =>
      \E r \in shown : r.transaction = t.id

(* A balance the client was told before is the sum of the entries shown    *)
(* up to some entry: the two answers agree about the past, although they   *)
(* come from different database transactions.                              *)
BalanceMatchesHistory ==
  walk = "done" => \A b \in heard : \E cut \in {0} \cup {r.id : r \in shown} :
    b = Total({r \in shown : r.id <= cut})

(* A status of 400 to 499 is final: a call that was told one has posted    *)
(* nothing and holds nothing it might post.  Only 500 leaves that open.    *)
ClientErrorIsFinal ==
  \A c \in Call : answer[c] # Pending /\ Status(answer[c]) \in 400..499 =>
    /\ pc[c] = "done"
    /\ \A t \in transactions : result[c] # Created(t.id)

-----------------------------------------------------------------------------
(* The pages go down: an entry is shown once, and after all newer ones     *)
(* that are shown, also when a page was lost and asked for again.          *)
PagesDescend ==
  [][ReceivePage => \A r \in page.entries, s \in shown : r.id < s.id]_handlerVars

-----------------------------------------------------------------------------
(* A walk comes to its end, however many entries are added meanwhile.      *)
EveryWalkEnds == <>(walk \in {"done", "refused"})
=============================================================================
