---------------------------- MODULE HandlerProofs ----------------------------
(***************************************************************************)
(* Proofs about Handler.  A walk through the history shows a gapless       *)
(* stretch of entries, which grows downwards page by page: entries that    *)
(* are committed meanwhile come above it, because the ids of an account    *)
(* become visible in their order.  And a call that was refused has a       *)
(* transaction id, at most, that is never committed.                       *)
(***************************************************************************)
EXTENDS Handler, PostingProofs

LedgerInv == IInv /\ PostingInv

(* Entries are identified by their ids; transfers are between users.       *)
RowsInv ==
  /\ \A e, f \in entries : e.id = f.id => e = f
  /\ \A t \in transactions :
       t.type = "transfer" => t.source \in User /\ t.destination \in User

(* The id that a call has drawn for its transaction is used by no other.   *)
ResultOf(c) ==
  result[c].outcome = "created" =>
    /\ result[c].transaction <= txSeq
    /\ \A d \in Call \ {c} : \A t \in staged[d].transactions : t.id # result[c].transaction

ResultInv == \A c \in Call : ResultOf(c)

(* Only a call that has succeeded has told its client of a transaction.    *)
ToldInv ==
  \A c \in Call :
    answer[c].transaction # NoId => answer[c].outcome \in {"created", "replayed"}

StatementInv == LedgerInv /\ RowsInv /\ ResultInv /\ ToldInv /\ ClientErrorIsFinal

(* A row that is shown is that of an entry of the account.                 *)
IsRow(r) ==
  \E e \in EntriesOf(entries, watched), t \in transactions :
    e.transaction = t.id /\ r = Shown(e, t)

(* What has been shown has no gap, down to the cursor.                     *)
ShownInv ==
  /\ \A r \in shown : IsRow(r) /\ before <= r.id
  /\ \A e \in EntriesOf(entries, watched), s \in shown :
       before <= e.id /\ e.id <= s.id => \E q \in shown : q.id = e.id
  /\ before # 0 => \E r \in shown : r.id = before
  /\ before = 0 /\ walk # "done" => shown = {}
  /\ walk \in {"new", "refused", "done"} => before = 0

(* Neither has the page on its way, and it reaches from the cursor down to *)
(* the next one.                                                           *)
PageInv ==
  walk = "answered" =>
    /\ \A r \in page.entries : IsRow(r) /\ page.next <= r.id /\ BelowCursor(r.id, before)
    /\ page.next # 0 => \E r \in page.entries : r.id = page.next
    /\ \A e \in EntriesOf(entries, watched) :
         /\ page.next <= e.id /\ BelowCursor(e.id, before)
         /\ before = 0 => \E s \in page.entries : e.id <= s.id
         => \E q \in page.entries : q.id = e.id

(* The first page of the walk reaches up to an id.                         *)
BeganAbove(id) ==
  /\ walk = "answered" /\ before = 0 => \E s \in page.entries : id <= s.id
  /\ walk = "done" \/ before # 0 => \E s \in shown : id <= s.id

(* The walk began above every entry that was known then, ...               *)
KnownInv ==
  /\ \A id \in known : \E t \in transactions : t.id = id
  /\ \A e \in EntriesOf(entries, watched) : e.transaction \in known => BeganAbove(e.id)

(* ... and above the entries that make up a balance told before.           *)
UpTo(S, cut) == {x \in S : x.id <= cut}

HeardInv ==
  \A b \in heard : \E cut \in Nat :
    /\ b = Total(UpTo(EntriesOf(entries, watched), cut))
    /\ cut # 0 => /\ \E e \in EntriesOf(entries, watched) : e.id = cut
                  /\ BeganAbove(cut)

WalkInv == ReaderTypeOK /\ ShownInv /\ PageInv /\ KnownInv /\ HeardInv

HandlerInv == StatementInv /\ WalkInv

-----------------------------------------------------------------------------
(* A call that is turned away.                                             *)

USE DEF vars, database, sequences, session, locks, Goto, Give

LEMMA TurnedAway ==
  ASSUME LedgerInv, NEW c \in Call, TurnAway(c)
  PROVE  /\ pc[c] = "start" /\ pc' = [pc EXCEPT ![c] = "done"]
         /\ answer' = [answer EXCEPT ![c] = Refused("badRequest")]
         /\ UNCHANGED <<request, session, staged, locks, database, sequences>>
         /\ staged[c] = NothingStaged /\ result[c] = Pending
         /\ accountLocks[c] = {} /\ rowLocks[c] = {}
<1>1. pc[c] = "start" BY DEF TurnAway
<1>2. staged[c] = NothingStaged /\ result[c] = Pending
  BY <1>1 DEF LedgerInv, IInv, StagedInv, StagedOf, SessionInv, SessionOf, Unposted
<1>3. accountLocks[c] = {} /\ rowLocks[c] = {}
  BY <1>1 DEF LedgerInv, PostingInv, OrderInv, OrderOf, MarkInv, Begun
<1> QED BY <1>1, <1>2, <1>3 DEF TurnAway

LEMMA TurnAwayIInv ==
  ASSUME LedgerInv, NEW c \in Call, TurnAway(c)
  PROVE  IInv'
<1> USE TurnedAway DEF LedgerInv, IInv
<1>1. TypeOK'
  <2>1. Refused("badRequest") \in Answer BY DEF Refused, Answer, NoId
  <2>2. answer' \in [Call -> Answer] BY <2>1 DEF TypeOK
  <2>3. pc' \in [Call -> Label] BY DEF TypeOK, Label
  <2> QED BY <2>2, <2>3 DEF TypeOK
<1>2. \A d \in Call : pc'[d] = IF d = c THEN "done" ELSE pc[d] BY DEF TypeOK
<1>3. SessionInv'
  <2> SUFFICES ASSUME NEW d \in Call PROVE SessionOf(d)'
    BY DEF SessionInv
  <2>1. SessionOf(d) BY DEF SessionInv
  <2> QED BY <1>2, <2>1 DEF SessionOf, Unposted, Creating
<1>4. LockInv'
  <2>1. Exclusive' BY DEF LockInv, Exclusive
  <2>2. \A d \in Call : HoldsOf(d)' BY <1>2 DEF LockInv, HoldsOf
  <2> QED BY <2>1, <2>2 DEF LockInv
<1>5. StagedInv'
  <2> SUFFICES ASSUME NEW d \in Call PROVE StagedOf(d)'
    BY DEF StagedInv
  <2>1. StagedOf(d) BY DEF StagedInv
  <2> QED BY <1>2, <2>1 DEF StagedOf, Unposted
<1>6. EntryIds' /\ EventIds' /\ TransactionIds' BY DEF EntryIds, EventIds, TransactionIds
<1>7. KeyInv' BY DEF KeyInv, PostedOncePerKey
<1>8. BalanceIsCurrent' BY <1>2 DEF BalanceIsCurrent, Posting
<1> QED BY <1>1, <1>3, <1>4, <1>5, <1>6, <1>7, <1>8

LEMMA TurnAwayPostingInv ==
  ASSUME LedgerInv, NEW c \in Call, TurnAway(c)
  PROVE  PostingInv'
<1> USE TurnedAway DEF LedgerInv, PostingInv
<1>1. \A d \in Call : pc'[d] = IF d = c THEN "done" ELSE pc[d] BY DEF IInv, TypeOK
<1>2. RequestInv' /\ SoundInv' BY <1>1 DEF RequestInv, Requested, SoundInv, Begun
<1>3. MarkInv' /\ OrderInv'
  <2>1. MarkInv' BY <1>1 DEF MarkInv, Begun
  <2> QED BY <1>1, <2>1 DEF OrderInv, OrderOf
<1>4. ShapeInv'
  <2> SUFFICES ASSUME NEW d \in Call PROVE ShapeOf(d)'
    BY DEF ShapeInv
  <2>1. CASE d = c BY <1>1, <2>1 DEF ShapeOf, Creating, Ending, NothingStaged
  <2>2. CASE d # c
    <3>1. ShapeOf(d) /\ pc'[d] = pc[d] BY <1>1, <2>2 DEF ShapeInv
    <3>2. ReplayOf(d) => ReplayOf(d)' BY DEF ReplayOf
    <3>3. CreationOf(d) => CreationOf(d)' BY <3>1 DEF CreationOf, EntriesStaged, EventsStaged
    <3> QED BY <3>1, <3>2, <3>3 DEF ShapeOf
  <2> QED BY <2>1, <2>2
<1>5. FreshInv' BY DEF FreshInv
<1>6. WholeInv' BY RowsUntouched
<1>7. ReversalUndoesOnce' BY DEF ReversalUndoesOnce
<1>8. AnswerInv'
  <2>1. NoneToldTwice /\ AllToldTrue BY TruthParts DEF AnswerInv
  <2>2. answer'[c] = Refused("badRequest") /\ \A d \in Call \ {c} : answer'[d] = answer[d]
    BY DEF IInv, TypeOK
  <2>3. ToldTrue(c)' BY <2>2 DEF ToldTrue, Refused
  <2>4. AllToldTrue' BY <2>1, <2>2, <2>3, ToldTrueStays DEF IInv, AllToldTrue
  <2>5. NoneToldTwice' BY <2>1, <2>2 DEF NoneToldTwice, Refused
  <2>6. AnswersAreTrue' BY <2>4, <2>5, TruthParts, PTL
  <2> QED BY <1>1, <2>2, <2>6 DEF AnswerInv
<1> QED BY <1>2, <1>3, <1>4, <1>5, <1>6, <1>7, <1>8

LEMMA ServedLedgerInv ==
  ASSUME LedgerInv, NEW c \in Call, Serve(c)
  PROVE  LedgerInv'
<1>1. Next BY DEF Serve, Next
<1> QED BY <1>1, InvStep, PostingStep DEF LedgerInv

-----------------------------------------------------------------------------
(* What a refusal leaves behind.                                           *)

LEMMA ClientErrors ==
  ASSUME NEW a, Status(a) \in 400..499
  PROVE  a.outcome \notin {"created", "replayed", "internal", "pending"}
<1>1. a.outcome # "created" /\ a.outcome # "replayed" BY DEF Status
<1>2. Status(a) = ErrorStatus(a.outcome) BY <1>1 DEF Status
<1>3. a.outcome \in {"internal", "pending"} => ErrorStatus(a.outcome) = 500
  BY DEF ErrorStatus, BadRequest, NotFound, Unprocessable, Conflict
<1> QED BY <1>1, <1>2, <1>3

(* A call is over once; only the end of a database transaction changes the *)
(* committed rows.                                                         *)
LEMMA StepEnds ==
  ASSUME TypeOK, NEW c \in Call, Step(c)
  PROVE  /\ pc[c] # "done"
         /\ UNCHANGED database \/ Commit(c) \/ OrphanCommits(c)
<1>1. CASE Operation(c)
  BY <1>1 DEF Operation, Transfer, Deposit, Withdraw, Reverse, Begin, Refuse, Rollback
<1>2. CASE LockFirst(c) \/ LockSecond(c) \/ CreateTransaction(c) \/ DuplicateKey(c)
           \/ Replay(c) \/ CheckBalance(c)
  BY <1>2 DEF LockFirst, LockSecond, CreateTransaction, DuplicateKey, Replay, CheckBalance
<1>3. CASE RefuseCurrency(c) \/ RefuseMismatch(c) \/ RefuseBalance(c) \/ BalanceOverflow(c)
           \/ Failure(c)
  BY <1>3 DEF RefuseCurrency, RefuseMismatch, RefuseBalance, BalanceOverflow, Failure,
              Abort, CommitTimeout, Refuse, Rollback
<1>4. CASE CreateDebit(c) \/ CreateCredit(c) \/ PostCredit(c) \/ PostDebit(c) \/ UpdateStatus(c)
  BY <1>4 DEF CreateDebit, CreateCredit, PostCredit, PostDebit, UpdateStatus
<1>5. CASE Commit(c) \/ Orphan(c)
  BY <1>5 DEF Commit, Orphan, OrphanCommits, OrphanRollsBack, Rollback
<1> QED BY <1>1, <1>2, <1>3, <1>4, <1>5 DEF Step, Statement

(* A step keeps the result of its call, or is the insertion that draws the *)
(* id, or finds an earlier transaction.                                    *)
LEMMA ResultCases ==
  ASSUME TypeOK, NEW c \in Call, Step(c)
  PROVE  \/ result' = result
         \/ /\ result' = [result EXCEPT ![c] = Created(txSeq + 1)] /\ txSeq' = txSeq + 1
            /\ pc'[c] # "done"
         \/ /\ \E id : result' = [result EXCEPT ![c] = Replayed(id)]
            /\ pc'[c] # "done"
<1> USE DEF TypeOK
<1>1. CASE Operation(c)
  BY <1>1 DEF Operation, Transfer, Deposit, Withdraw, Reverse, Begin, Refuse, Rollback
<1>2. CASE LockFirst(c) \/ LockSecond(c) \/ DuplicateKey(c) \/ CheckBalance(c)
  BY <1>2 DEF LockFirst, LockSecond, DuplicateKey, CheckBalance
<1>3. CASE RefuseCurrency(c) \/ RefuseMismatch(c) \/ RefuseBalance(c) \/ BalanceOverflow(c)
           \/ Failure(c)
  BY <1>3 DEF RefuseCurrency, RefuseMismatch, RefuseBalance, BalanceOverflow, Failure,
              Abort, CommitTimeout, Refuse, Rollback
<1>4. CASE CreateDebit(c) \/ CreateCredit(c) \/ PostCredit(c) \/ PostDebit(c) \/ UpdateStatus(c)
  BY <1>4 DEF CreateDebit, CreateCredit, PostCredit, PostDebit, UpdateStatus
<1>5. CASE Commit(c) \/ Orphan(c)
  BY <1>5 DEF Commit, Orphan, OrphanCommits, OrphanRollsBack, Install, Rollback
<1>6. CASE CreateTransaction(c)
  BY <1>6 DEF CreateTransaction
<1>7. CASE Replay(c)
  BY <1>7 DEF Replay, AfterTransfer
<1> QED BY <1>1, <1>2, <1>3, <1>4, <1>5, <1>6, <1>7 DEF Step, Statement

LEMMA ServedResultInv ==
  ASSUME StatementInv, NEW c \in Call, Step(c)
  PROVE  ResultInv'
<1> USE DEF StatementInv, LedgerInv, IInv
<1>1. TransactionFrame(c) /\ \A d \in Call \ {c} : staged'[d] = staged[d] /\ result'[d] = result[d]
  BY RowsFramed, OthersUntouched DEF Untouched
<1>2. /\ txSeq \in Nat /\ txSeq' \in Nat /\ txSeq' >= txSeq
      /\ \A d \in Call : \A t \in staged[d].transactions : t.id \in Nat /\ t.id <= txSeq
      /\ \A d \in Call : result[d].transaction \in Nat
  BY <1>1 DEF TransactionFrame, TypeOK, TransactionIds, Transaction, Id, Answer
<1>3. \/ staged'[c].transactions \subseteq staged[c].transactions
      \/ \E t : staged'[c].transactions = {t} /\ t.id = txSeq + 1
  BY <1>1 DEF TransactionFrame
<1>4. ASSUME NEW d \in Call \ {c} PROVE ResultOf(d)'
  <2>1. ResultOf(d) BY DEF ResultInv
  <2>2. ASSUME result[d].outcome = "created"
        PROVE  \A t \in staged'[c].transactions : t.id # result[d].transaction
    BY <1>2, <1>3, <2>1, <2>2 DEF ResultOf
  <2>3. ASSUME result[d].outcome = "created", NEW b \in Call \ {c, d}
        PROVE  \A t \in staged'[b].transactions : t.id # result[d].transaction
    BY <1>1, <2>1, <2>3 DEF ResultOf
  <2>4. ASSUME result[d].outcome = "created" PROVE result[d].transaction <= txSeq'
    BY <1>2, <2>1, <2>4 DEF ResultOf
  <2> QED BY <1>1, <2>2, <2>3, <2>4 DEF ResultOf
<1>5. ResultOf(c)'
  <2>1. ResultOf(c) BY DEF ResultInv
  <2>2. CASE result' = result BY <1>1, <1>2, <2>1, <2>2 DEF ResultOf
  <2>3. CASE result' = [result EXCEPT ![c] = Created(txSeq + 1)] /\ txSeq' = txSeq + 1
    <3>1. result'[c].transaction = txSeq + 1 BY <2>3 DEF Created, TypeOK
    <3>2. \A d \in Call \ {c} : \A t \in staged'[d].transactions : t.id # txSeq + 1
      BY <1>1, <1>2
    <3>3. txSeq + 1 <= txSeq' BY <1>2, <2>3
    <3> QED BY <3>1, <3>2, <3>3 DEF ResultOf
  <2>4. CASE \E id : result' = [result EXCEPT ![c] = Replayed(id)]
    BY <2>4 DEF ResultOf, Replayed, TypeOK
  <2> QED BY <2>2, <2>3, <2>4, ResultCases
<1> QED BY <1>4, <1>5 DEF ResultInv

(* No call that has not posted its transaction shares its id with one      *)
(* that is committed.                                                      *)
LEMMA ResultUnused ==
  ASSUME LedgerInv, NEW c \in Call, pc[c] # "done", NEW t \in transactions
  PROVE  result[c] # Created(t.id)
<1> USE DEF LedgerInv, IInv, PostingInv
<1>1. CASE pc[c] \in Unposted BY <1>1 DEF SessionInv, SessionOf, Pending, Created
<1>2. CASE CreationOf(c) BY <1>2, NewTransaction DEF Created
<1>3. CASE result[c].outcome = "replayed" BY <1>3 DEF Created
<1>4. pc[c] \in Unposted \cup Creating \cup Ending
  BY DEF TypeOK, Label, Unposted, Creating, Ending
<1> QED BY <1>1, <1>2, <1>3, <1>4 DEF ShapeInv, ShapeOf

LEMMA ServedFinal ==
  ASSUME StatementInv, NEW c \in Call, Step(c)
  PROVE  ClientErrorIsFinal'
<1> USE DEF StatementInv, LedgerInv, IInv
<1> SUFFICES ASSUME NEW d \in Call, answer'[d] # Pending, Status(answer'[d]) \in 400..499
             PROVE  pc'[d] = "done" /\ \A t \in transactions' : result'[d] # Created(t.id)
  BY DEF ClientErrorIsFinal, Status, ErrorStatus
<1>1. answer'[d].outcome \notin {"created", "replayed", "internal", "pending"}
  BY ClientErrors
<1>2. CASE d # c
  <2>1. pc'[d] = pc[d] /\ result'[d] = result[d] /\ answer'[d] = answer[d]
    BY <1>2, OthersUntouched, OthersUnanswered DEF Untouched
  <2>2. pc[d] = "done" /\ \A t \in transactions : result[d] # Created(t.id)
    BY <2>1 DEF ClientErrorIsFinal
  <2>3. \A t \in transactions' : t \in transactions \/ t \in staged[c].transactions
    BY OnlyInstalled DEF Install
  <2>4. \A t \in staged[c].transactions : result[d] # Created(t.id)
    BY <1>2 DEF ResultInv, ResultOf, Created
  <2> QED BY <2>1, <2>2, <2>3, <2>4
<1>3. CASE d = c
  <2>1. CASE UNCHANGED database
    <3>1. \A t \in transactions : result[c] # Created(t.id) BY StepEnds, ResultUnused
    <3>2. pc'[c] = "done" /\ result' = result
      <4>1. pc'[c] = "done"
        <5>1. CASE answer'[c] = answer[c] /\ pc[c] \notin {"orphan", "done"}
          BY <1>1, <1>3, <5>1 DEF PostingInv, AnswerInv, Pending
        <5>2. CASE answer'[c] = InternalError BY <1>1, <1>3, <5>2 DEF InternalError
        <5> QED BY <5>1, <5>2, AnswerGiven
      <4> QED BY <4>1, ResultCases
    <3> QED BY <1>3, <2>1, <3>1, <3>2
  <2>2. CASE Commit(c)
    <3>1. answer'[c] = result[c] /\ pc[c] = "commit" BY <2>2 DEF Commit, TypeOK
    <3>2. result[c].outcome \in {"created", "replayed"}
      BY <3>1, InstallCases DEF PostingInv
    <3> QED BY <1>1, <1>3, <3>1, <3>2
  <2>3. CASE OrphanCommits(c)
    <3>1. answer'[c] = InternalError
      BY <2>3 DEF OrphanCommits, PostingInv, AnswerInv
    <3> QED BY <1>1, <1>3, <3>1 DEF InternalError
  <2> QED BY <2>1, <2>2, <2>3, StepEnds
<1> QED BY <1>2, <1>3

LEMMA ServedToldInv ==
  ASSUME StatementInv, NEW c \in Call, Step(c)
  PROVE  ToldInv'
<1> USE DEF StatementInv, LedgerInv, IInv
<1>1. \A d \in Call \ {c} : answer'[d] = answer[d] BY OthersUnanswered
<1>2. \/ answer'[c] = answer[c]
      \/ answer'[c].transaction = NoId
      \/ answer'[c] = result[c] /\ pc[c] = "commit"
  <2>1. InternalError.transaction = NoId /\ \A error : Refused(error).transaction = NoId
    BY DEF InternalError, Refused
  <2>2. \/ answer'[c] = answer[c]
        \/ answer'[c] = InternalError
        \/ \E error \in Refusal \cup {"internal"} : answer'[c] = Refused(error)
        \/ answer'[c] = result[c] /\ pc[c] = "commit"
    BY AnswerGiven
  <2> QED BY <2>1, <2>2
<1>3. pc[c] = "commit" => result[c].outcome \in {"created", "replayed"}
  BY InstallCases DEF PostingInv
<1> QED BY <1>1, <1>2, <1>3 DEF ToldInv

-----------------------------------------------------------------------------
(* What the ledger does under the eyes of a reader: rows are added, with   *)
(* larger ids for each account, and of new transactions.                   *)
Grows ==
  /\ transactions \subseteq transactions' /\ entries \subseteq entries'
  /\ \A e \in entries' \ entries :
       /\ \A f \in entries : f.account = e.account => f.id < e.id
       /\ \A t \in transactions : t.id # e.transaction

LEMMA LedgerGrows ==
  ASSUME LedgerInv, NEW c \in Call, Step(c)
  PROVE  Grows
<1> USE DEF LedgerInv, IInv, PostingInv
<1>1. CASE UNCHANGED <<transactions, entries>> BY <1>1 DEF Grows
<1>2. CASE CreationOf(c) /\ transactions \subseteq transactions'
           /\ entries' = entries \cup staged[c].entries
           /\ \E d, k : staged[c].entries =
                          {DebitEntry(param[c], result[c].transaction, d.id),
                           CreditEntry(param[c], result[c].transaction, k.id)}
  <2>1. \A e \in staged[c].entries : e.transaction = result[c].transaction
    BY <1>2 DEF DebitEntry, CreditEntry
  <2>2. \A t \in transactions : t.id # result[c].transaction BY <1>2, NewTransaction
  <2>3. \A e \in staged[c].entries, f \in entries : f.account = e.account => f.id < e.id
    BY DEF EntryIds
  <2> QED BY <1>2, <2>1, <2>2, <2>3 DEF Grows
<1> QED BY <1>1, <1>2, EndOfPosting

LEMMA ServedRowsInv ==
  ASSUME StatementInv, NEW c \in Call, Step(c)
  PROVE  RowsInv'
<1> USE DEF StatementInv, LedgerInv, IInv, PostingInv
<1>1. CASE UNCHANGED <<transactions, entries>> BY <1>1 DEF RowsInv
<1>2. ASSUME NEW p, p = param[c], NEW tx, NEW d, NEW k, d.id # k.id,
             pc[c] \in {"commit", "orphan"},
             transactions' = transactions \cup {TransactionRow(p, tx)},
             entries' = entries \cup staged[c].entries,
             staged[c].entries = {DebitEntry(p, tx, d.id), CreditEntry(p, tx, k.id)}
      PROVE  RowsInv'
  <2>1. \A e \in staged[c].entries, f \in entries : f.id # e.id BY DEF FreshInv
  <2>2. \A e, f \in staged[c].entries : e.id = f.id => e = f
    BY <1>2 DEF DebitEntry, CreditEntry
  <2>3. \A e, f \in entries' : e.id = f.id => e = f BY <1>2, <2>1, <2>2 DEF RowsInv
  <2>4. p.type = "transfer" => p.from \in User /\ p.to \in User
    <3>1. Requested(p, request[c]) BY <1>2 DEF RequestInv, Begun
    <3>2. p.type = "transfer" =>
            TransferRefusal(request[c]) = NoError /\ p = TransferParamsOf(request[c])
      BY <3>1 DEF Requested, DepositParamsOf, WithdrawalParamsOf, ReversalParamsOf
    <3>3. TransferRefusal(request[c]) = NoError =>
            request[c].from \in User /\ request[c].to \in User
      BY DEF TransferRefusal, NoError
    <3> QED BY <3>2, <3>3 DEF TransferParamsOf
  <2>5. \A t \in transactions' : t.type = "transfer" => t.source \in User /\ t.destination \in User
    BY <1>2, <2>4 DEF RowsInv, TransactionRow
  <2> QED BY <2>3, <2>5 DEF RowsInv
<1> QED BY <1>1, <1>2, EndOfPosting

LEMMA ServedStatementInv ==
  ASSUME StatementInv, NEW c \in Call, Serve(c)
  PROVE  StatementInv' /\ Grows
<1>1. Step(c) BY DEF Serve
<1> QED BY <1>1, ServedLedgerInv, ServedRowsInv, ServedResultInv, ServedToldInv, ServedFinal,
           LedgerGrows
        DEF StatementInv

LEMMA TurnedAwayStatementInv ==
  ASSUME StatementInv, NEW c \in Call, TurnAway(c)
  PROVE  StatementInv' /\ Grows
<1> USE TurnedAway DEF StatementInv
<1>1. LedgerInv' BY TurnAwayIInv, TurnAwayPostingInv DEF LedgerInv
<1>2. RowsInv' /\ Grows BY DEF RowsInv, Grows
<1>3. ResultInv' BY DEF ResultInv, ResultOf
<1>4. ClientErrorIsFinal'
  <2> SUFFICES ASSUME NEW d \in Call, answer'[d] # Pending, Status(answer'[d]) \in 400..499
               PROVE  pc'[d] = "done" /\ \A t \in transactions' : result'[d] # Created(t.id)
    BY DEF ClientErrorIsFinal, Status, ErrorStatus
  <2>1. CASE d = c BY <2>1 DEF LedgerInv, IInv, TypeOK, Pending, Created
  <2>2. CASE d # c BY <2>2 DEF LedgerInv, IInv, TypeOK, ClientErrorIsFinal
  <2> QED BY <2>1, <2>2
<1>5. ToldInv' BY DEF ToldInv, LedgerInv, IInv, TypeOK, Refused
<1> QED BY <1>1, <1>2, <1>3, <1>4, <1>5

LEMMA StatementStutters ==
  ASSUME StatementInv, UNCHANGED vars
  PROVE  StatementInv' /\ Grows
<1> USE DEF StatementInv
<1>1. LedgerInv' BY InvStep, PostingStep DEF LedgerInv
<1>2. RowsInv' /\ ResultInv' /\ ToldInv' /\ Grows
  BY DEF RowsInv, ResultInv, ResultOf, ToldInv, Grows
<1>3. ClientErrorIsFinal' BY DEF ClientErrorIsFinal, Status, ErrorStatus
<1> QED BY <1>1, <1>2, <1>3

-----------------------------------------------------------------------------
(* The walk, while the ledger grows.                                       *)

LEMMA RowsStay ==
  ASSUME Grows, watched' = watched, NEW r, IsRow(r)
  PROVE  IsRow(r)'
BY DEF IsRow, Grows, EntriesOf, Shown, Counterparty

(* A new entry of the account is above all that are or will be shown.      *)
LEMMA NewEntryAbove ==
  ASSUME Grows, TypeOK, NEW e \in EntriesOf(entries', watched), e \notin entries,
         NEW r, IsRow(r)
  PROVE  r.id \in Nat /\ r.id < e.id
<1>1. PICK f \in EntriesOf(entries, watched), t \in transactions :
        f.transaction = t.id /\ r = Shown(f, t)
  BY DEF IsRow
<1>2. f \in entries /\ f.account = e.account /\ f.id \in Nat /\ r.id = f.id
  BY <1>1 DEF EntriesOf, Shown, TypeOK, Entry, Id
<1> QED BY <1>2 DEF Grows, EntriesOf

LEMMA WalkGoesOn ==
  ASSUME StatementInv, StatementInv', Grows, WalkInv, UNCHANGED reader
  PROVE  WalkInv'
<1> USE DEF WalkInv, reader
<1>1. TypeOK /\ TypeOK' BY DEF StatementInv, LedgerInv, IInv
<1>2. ReaderTypeOK' BY DEF ReaderTypeOK, StatementEntry
<1>3. \A e \in EntriesOf(entries', watched) : e.id \in Nat /\ before \in Nat
  BY <1>1 DEF EntriesOf, TypeOK, Entry, Id, ReaderTypeOK
<1>4. ASSUME NEW e \in EntriesOf(entries', watched), e \in entries
      PROVE  e \in EntriesOf(entries, watched)
  BY <1>4 DEF EntriesOf
<1>5. ShownInv'
  <2>1. \A r \in shown : IsRow(r)' /\ before <= r.id BY RowsStay DEF ShownInv
  <2>2. ASSUME NEW e \in EntriesOf(entries', watched), NEW s \in shown,
               before <= e.id, e.id <= s.id
        PROVE  \E q \in shown : q.id = e.id
    <3>1. CASE e \in entries BY <1>4, <2>2, <3>1 DEF ShownInv
    <3>2. CASE e \notin entries
      <4>1. s.id \in Nat /\ s.id < e.id BY <1>1, <3>2, NewEntryAbove DEF ShownInv
      <4> QED BY <1>3, <2>2, <4>1
    <3> QED BY <3>1, <3>2
  <2> QED BY <2>1, <2>2 DEF ShownInv
<1>6. PageInv'
  <2> SUFFICES ASSUME walk = "answered" PROVE PageInv' BY DEF PageInv
  <2>1. \A r \in page.entries :
          IsRow(r) /\ IsRow(r)' /\ page.next <= r.id /\ BelowCursor(r.id, before)
    BY RowsStay DEF PageInv
  <2>2. ASSUME NEW e \in EntriesOf(entries', watched),
               page.next <= e.id, BelowCursor(e.id, before),
               before = 0 => \E s \in page.entries : e.id <= s.id
        PROVE  \E q \in page.entries : q.id = e.id
    <3>1. CASE e \in entries BY <1>4, <2>2, <3>1 DEF PageInv
    <3>2. CASE e \notin entries /\ before = 0
      <4>1. PICK s \in page.entries : e.id <= s.id BY <2>2, <3>2
      <4>2. s.id \in Nat /\ s.id < e.id BY <1>1, <2>1, <3>2, NewEntryAbove
      <4> QED BY <1>3, <4>1, <4>2
    <3>3. CASE e \notin entries /\ before # 0
      <4>1. PICK r \in shown : r.id = before BY <3>3 DEF ShownInv
      <4>2. before < e.id BY <1>1, <3>3, <4>1, NewEntryAbove DEF ShownInv
      <4> QED BY <1>3, <2>2, <3>3, <4>2 DEF BelowCursor
    <3> QED BY <3>1, <3>2, <3>3
  <2>3. page.next # 0 => \E r \in page.entries : r.id = page.next BY DEF PageInv
  <2>4. \A r \in page.entries :
          IsRow(r)' /\ page.next <= r.id /\ BelowCursor(r.id, before)
    BY <2>1
  <2> QED BY <2>2, <2>3, <2>4 DEF PageInv, BelowCursor
<1>7. KnownInv'
  <2>1. \A id \in known : \E t \in transactions' : t.id = id BY DEF KnownInv, Grows
  <2>2. ASSUME NEW e \in EntriesOf(entries', watched), e.transaction \in known
        PROVE  e \in EntriesOf(entries, watched)
    <3>1. PICK t \in transactions : t.id = e.transaction BY <2>2 DEF KnownInv
    <3>2. e \in entries BY <3>1 DEF Grows, EntriesOf
    <3> QED BY <1>4, <3>2
  <2> QED BY <2>1, <2>2 DEF KnownInv, BeganAbove
<1>8. HeardInv'
  <2> SUFFICES ASSUME NEW b \in heard
               PROVE  \E cut \in Nat :
                        /\ b = Total(UpTo(EntriesOf(entries', watched), cut))
                        /\ cut # 0 => /\ \E e \in EntriesOf(entries', watched) : e.id = cut
                                      /\ BeganAbove(cut)
    BY DEF HeardInv, BeganAbove
  <2>1. PICK cut \in Nat :
          /\ b = Total(UpTo(EntriesOf(entries, watched), cut))
          /\ cut # 0 => /\ \E e \in EntriesOf(entries, watched) : e.id = cut
                        /\ BeganAbove(cut)
    BY DEF HeardInv
  <2>2. EntriesOf(entries, watched) \subseteq EntriesOf(entries', watched)
    BY DEF Grows, EntriesOf
  <2>3. ASSUME NEW e \in EntriesOf(entries', watched), e.id <= cut
        PROVE  e \in EntriesOf(entries, watched)
    <3>1. CASE cut = 0
      <4>1. e.id # 0 BY <1>1 DEF EntriesOf, TypeOK, Entry, Id
      <4> QED BY <1>3, <2>3, <3>1, <4>1
    <3>2. CASE cut # 0
      <4>1. PICK f \in EntriesOf(entries, watched) : f.id = cut BY <2>1, <3>2
      <4>2. e \notin entries => cut < e.id BY <4>1 DEF Grows, EntriesOf
      <4> QED BY <1>3, <1>4, <2>3, <4>2
    <3> QED BY <3>1, <3>2
  <2>4. UpTo(EntriesOf(entries', watched), cut) = UpTo(EntriesOf(entries, watched), cut)
    BY <2>2, <2>3 DEF UpTo
  <2> QED BY <2>1, <2>2, <2>4
<1> QED BY <1>2, <1>5, <1>6, <1>7, <1>8

-----------------------------------------------------------------------------
(* What one page is, at the moment it is selected.                         *)

LEMMA FiniteEntries ==
  ASSUME StatementInv
  PROVE  IsFiniteSet(entries)
<1> USE DEF StatementInv, LedgerInv, IInv
<1>1. \A e \in entries : e.id \in 0..entrySeq
  BY DEF TypeOK, Entry, Id, EntryIds
<1>2. [e \in entries |-> e.id] \in Injection(entries, 0..entrySeq)
  BY <1>1 DEF Injection, IsInjective, RowsInv
<1>3. IsFiniteSet(0..entrySeq) BY FS_Interval DEF TypeOK
<1> QED BY <1>2, <1>3, FS_Injection

(* Rows that have ids of their own among those of a finite set.            *)
LEMMA FewerIds ==
  ASSUME NEW S, NEW T, IsFiniteSet(T),
         \A s \in S : \E t \in T : t.id = s.id,
         \A r, s \in S : r.id = s.id => r = s
  PROVE  IsFiniteSet(S) /\ Cardinality(S) <= Cardinality(T)
<1> DEFINE f == [s \in S |-> CHOOSE t \in T : t.id = s.id]
<1>1. \A s \in S : f[s] \in T /\ f[s].id = s.id OBVIOUS
<1>2. f \in Injection(S, T)
  <2>1. f \in [S -> T] BY <1>1
  <2>2. \A r, s \in S : f[r] = f[s] => r = s BY <1>1
  <2> HIDE DEF f
  <2> QED BY <2>1, <2>2 DEF Injection, IsInjective
<1> QED BY <1>2, FS_Injection

Below(cursor) == {e \in EntriesOf(entries, watched) : BelowCursor(e.id, cursor)}

Above(e, cursor) == {f \in Below(cursor) : f.id > e.id}

Newest(limit, cursor) ==
  {e \in Below(cursor) : Cardinality(Above(e, cursor)) < limit}

LEMMA BelowFacts ==
  ASSUME StatementInv, NEW cursor
  PROVE  /\ IsFiniteSet(Below(cursor))
         /\ \A e \in Below(cursor) : e.id \in Nat /\ e.id # 0 /\ e.id <= entrySeq
<1>1. Below(cursor) \subseteq entries BY DEF Below, EntriesOf
<1>2. \A e \in Below(cursor) : e.id \in Nat /\ e.id # 0 /\ e.id <= entrySeq
  BY <1>1 DEF StatementInv, LedgerInv, IInv, TypeOK, Entry, Id, EntryIds
<1> QED BY <1>1, <1>2, FiniteEntries, FS_Subset

(* The newest entries leave out nothing above one of them, ...             *)
LEMMA NewestIsTop ==
  ASSUME StatementInv, NEW limit \in Nat \ {0}, NEW cursor,
         NEW e \in Newest(limit, cursor), NEW f \in Below(cursor), e.id <= f.id
  PROVE  f \in Newest(limit, cursor)
<1>1. e \in Below(cursor) BY DEF Newest
<1>2. Above(f, cursor) \subseteq Above(e, cursor)
  <2>1. \A g \in Below(cursor) : g.id > f.id => g.id > e.id
    BY <1>1, BelowFacts
  <2> QED BY <2>1 DEF Above
<1>3. IsFiniteSet(Above(e, cursor)) /\ Above(e, cursor) \subseteq Below(cursor)
  BY BelowFacts, FS_Subset DEF Above
<1>4. Cardinality(Above(f, cursor)) <= Cardinality(Above(e, cursor))
  BY <1>2, <1>3, FS_Subset
<1>5. IsFiniteSet(Above(f, cursor)) BY <1>2, <1>3, FS_Subset
<1>6. Cardinality(Above(f, cursor)) \in Nat /\ Cardinality(Above(e, cursor)) \in Nat
  BY <1>3, <1>5, FS_CardinalityType
<1> QED BY <1>4, <1>6 DEF Newest

LEMMA HighestEntry ==
  ASSUME StatementInv, NEW cursor, NEW T \in SUBSET Below(cursor), T # {}
  PROVE  \E e \in T : \A f \in T : f.id <= e.id
<1> DEFINE id == [e \in T |-> e.id]
<1>1. IsFiniteSet(T) BY BelowFacts, FS_Subset
<1>2. \A e \in T : id[e] \in Nat BY BelowFacts
<1>3. \E e \in T : \A f \in T : id[f] <= id[e]
  <2> HIDE DEF id
  <2> QED BY <1>1, <1>2, Highest
<1> QED BY <1>3

(* ... have the newest of all among them, ...                              *)
LEMMA NewestBegins ==
  ASSUME StatementInv, NEW limit \in Nat \ {0}, NEW cursor, NEW e \in Below(cursor)
  PROVE  \E f \in Newest(limit, cursor) : e.id <= f.id
<1>1. PICK f \in Below(cursor) : \A g \in Below(cursor) : g.id <= f.id
  BY HighestEntry
<1>2. Above(f, cursor) = {}
  <2>1. \A g \in Below(cursor) : ~(g.id > f.id) BY <1>1, BelowFacts
  <2> QED BY <2>1 DEF Above
<1>3. Cardinality(Above(f, cursor)) = 0 BY <1>2, FS_EmptySet
<1> QED BY <1>1, <1>3 DEF Newest

(* ... and are all there are if there are less than the limit.             *)
LEMMA NewestAreAll ==
  ASSUME StatementInv, NEW limit \in Nat \ {0}, NEW cursor,
         Cardinality(Newest(limit, cursor)) < limit
  PROVE  Newest(limit, cursor) = Below(cursor)
<1> DEFINE T == Below(cursor) \ Newest(limit, cursor)
<1> SUFFICES ASSUME T # {} PROVE FALSE BY DEF Newest
<1>1. PICK e \in T : \A f \in T : f.id <= e.id BY HighestEntry
<1>2. Above(e, cursor) \subseteq Newest(limit, cursor)
  <2>1. \A f \in Below(cursor) : f.id > e.id => f \notin T
    BY <1>1, BelowFacts
  <2> QED BY <2>1 DEF Above
<1>3. IsFiniteSet(Newest(limit, cursor)) BY BelowFacts, FS_Subset DEF Newest
<1>4. /\ IsFiniteSet(Above(e, cursor))
      /\ Cardinality(Above(e, cursor)) <= Cardinality(Newest(limit, cursor))
  BY <1>2, <1>3, FS_Subset
<1>5. Cardinality(Above(e, cursor)) \in Nat /\ Cardinality(Newest(limit, cursor)) \in Nat
  BY <1>3, <1>4, FS_CardinalityType
<1>6. Cardinality(Above(e, cursor)) < limit BY <1>4, <1>5
<1> QED BY <1>1, <1>6 DEF Newest

(* A page has one row for each of the newest entries, and no other.        *)
LEMMA HistoryIs ==
  ASSUME NEW limit, NEW cursor
  PROVE  \A r : r \in GetAccountHistory(watched, limit, cursor) <=>
                  \E e \in Newest(limit, cursor), t \in transactions :
                    t.id = e.transaction /\ r = Shown(e, t)
<1> DEFINE Joined(e) == {Shown(e, t) : t \in {u \in transactions : u.id = e.transaction}}
<1>1. GetAccountHistory(watched, limit, cursor) =
        UNION {Joined(e) : e \in Newest(limit, cursor)}
  BY DEF GetAccountHistory, Newest, Below, Above
<1>2. \A e, r : r \in Joined(e) <=>
                  \E t \in transactions : t.id = e.transaction /\ r = Shown(e, t)
  OBVIOUS
<1> QED BY <1>1, <1>2

LEMMA RowsById ==
  ASSUME StatementInv, NEW r, NEW s, IsRow(r), IsRow(s), r.id = s.id
  PROVE  r = s
<1> USE DEF StatementInv, LedgerInv, IInv
<1>1. PICK e \in EntriesOf(entries, watched), t \in transactions :
        e.transaction = t.id /\ r = Shown(e, t)
  BY DEF IsRow
<1>2. PICK f \in EntriesOf(entries, watched), u \in transactions :
        f.transaction = u.id /\ s = Shown(f, u)
  BY DEF IsRow
<1>3. e = f BY <1>1, <1>2 DEF Shown, RowsInv, EntriesOf
<1>4. t = u BY <1>1, <1>2, <1>3 DEF KeyInv, PostedOncePerKey
<1> QED BY <1>1, <1>2, <1>3, <1>4

LEMMA PageRows ==
  ASSUME StatementInv, NEW limit \in Nat \ {0}, NEW cursor,
         NEW rows, rows = GetAccountHistory(watched, limit, cursor)
  PROVE  /\ \A r \in rows : /\ IsRow(r) /\ r \in StatementEntry
                            /\ \E e \in Newest(limit, cursor) : e.id = r.id
         /\ \A e \in Newest(limit, cursor) : \E r \in rows : r.id = e.id
         /\ IsFiniteSet(rows)
         /\ Cardinality(Newest(limit, cursor)) <= Cardinality(rows)
<1> USE DEF StatementInv, LedgerInv, IInv
<1> DEFINE top == Newest(limit, cursor)
<1>1. top \subseteq Below(cursor) /\ top \subseteq EntriesOf(entries, watched) /\ top \subseteq entries
  BY DEF Newest, Below, EntriesOf
<1>2. \A r \in rows : \E e \in top, t \in transactions : e.transaction = t.id /\ r = Shown(e, t)
  BY HistoryIs
<1>3. \A r \in rows : IsRow(r) BY <1>1, <1>2 DEF IsRow
<1>4. ASSUME NEW e \in top, NEW t \in transactions PROVE Shown(e, t) \in StatementEntry
  <2>1. e \in Entry /\ t \in Transaction BY <1>1 DEF TypeOK
  <2>2. Counterparty(e, t) \in User \cup {NoId} BY DEF Counterparty, RowsInv
  <2> QED BY <2>1, <2>2 DEF Shown, StatementEntry, Entry, Transaction
<1>5. \A r \in rows : r \in StatementEntry BY <1>2, <1>4
<1>6. \A r \in rows : \E e \in top : e.id = r.id BY <1>2 DEF Shown
<1>7. \A e \in top : \E r \in rows : r.id = e.id
  <2> SUFFICES ASSUME NEW e \in top PROVE \E r \in rows : r.id = e.id OBVIOUS
  <2>1. PICK t \in transactions : e.transaction = t.id
    BY <1>1 DEF PostingInv, WholeInv
  <2>2. Shown(e, t) \in rows BY <2>1, HistoryIs
  <2> QED BY <2>2 DEF Shown
<1>8. \A r, s \in rows : r.id = s.id => r = s BY <1>3, RowsById
<1>9. \A e, f \in top : e.id = f.id => e = f BY <1>1 DEF RowsInv
<1>10. IsFiniteSet(top) BY <1>1, BelowFacts, FS_Subset
<1> HIDE DEF top
<1>11. IsFiniteSet(rows) BY <1>6, <1>8, <1>10, FewerIds
<1>12. Cardinality(top) <= Cardinality(rows) BY <1>7, <1>9, <1>11, FewerIds
<1> QED BY <1>3, <1>5, <1>6, <1>7, <1>11, <1>12 DEF top

LEMMA LowestRow ==
  ASSUME NEW rows, rows # {}, IsFiniteSet(rows), NEW n \in Nat,
         \A r \in rows : r.id \in Nat /\ r.id <= n
  PROVE  \E r \in rows : \A s \in rows : r.id <= s.id
<1> DEFINE depth == [r \in rows |-> n - r.id]
<1>1. \A r \in rows : depth[r] \in Nat OBVIOUS
<1>2. \E r \in rows : \A s \in rows : depth[s] <= depth[r]
  <2> HIDE DEF depth
  <2> QED BY <1>1, Highest
<1> QED BY <1>2

(* What the client is told about a page: the rows reach down to the next   *)
(* cursor, and to the very first entry if there is none.                   *)
LEMMA PageSelected ==
  ASSUME StatementInv, NEW limit \in Nat \ {0}, NEW cursor,
         NEW rows, rows = GetAccountHistory(watched, limit, cursor),
         NEW next, next = NextCursor(rows, limit)
  PROVE  /\ rows \subseteq StatementEntry /\ next \in Nat
         /\ \A r \in rows : IsRow(r) /\ next <= r.id /\ BelowCursor(r.id, cursor)
         /\ next # 0 => \E r \in rows : r.id = next
         /\ \A e \in EntriesOf(entries, watched) :
              next <= e.id /\ BelowCursor(e.id, cursor) => \E q \in rows : q.id = e.id
         /\ \A e \in EntriesOf(entries, watched) :
              BelowCursor(e.id, cursor) => \E s \in rows : e.id <= s.id
<1> DEFINE top == Newest(limit, cursor)
<1>1. /\ \A r \in rows : IsRow(r) /\ r \in StatementEntry /\ \E e \in top : e.id = r.id
      /\ \A e \in top : \E r \in rows : r.id = e.id
      /\ IsFiniteSet(rows) /\ Cardinality(top) <= Cardinality(rows)
  BY PageRows
<1>2. \A r \in rows : r.id \in Nat /\ r.id # 0 BY <1>1 DEF StatementEntry, Id
<1>3. top \subseteq Below(cursor) /\ IsFiniteSet(top)
  BY BelowFacts, FS_Subset DEF Newest
<1>4. \A r \in rows : r.id <= entrySeq /\ BelowCursor(r.id, cursor)
  BY <1>1, <1>3, BelowFacts DEF Below
<1>5. Cardinality(rows) \in Nat /\ Cardinality(top) \in Nat
  BY <1>1, <1>3, FS_CardinalityType
<1>6. \A e \in EntriesOf(entries, watched) :
        BelowCursor(e.id, cursor) => \E s \in rows : e.id <= s.id
  BY <1>1, NewestBegins DEF Below
<1>7. CASE Cardinality(rows) < limit
  <2>1. next = 0 BY <1>7 DEF NextCursor
  <2>2. Cardinality(top) < limit BY <1>1, <1>5, <1>7
  <2>3. top = Below(cursor) BY <2>2, NewestAreAll
  <2> QED BY <1>1, <1>2, <1>4, <1>6, <2>1, <2>3 DEF Below
<1>8. CASE ~(Cardinality(rows) < limit)
  <2>1. rows # {} BY <1>5, <1>8, FS_EmptySet
  <2>2. entrySeq \in Nat BY DEF StatementInv, LedgerInv, IInv, TypeOK
  <2>3. PICK r \in rows : \A s \in rows : r.id <= s.id
    BY <1>1, <1>2, <1>4, <2>1, <2>2, LowestRow
  <2>4. next = CHOOSE id \in {s.id : s \in rows} : \A s \in rows : id <= s.id
    BY <1>8 DEF NextCursor
  <2>5. \E q \in rows : next = q.id /\ \A s \in rows : q.id <= s.id BY <2>3, <2>4
  <2>6. PICK q \in rows : next = q.id /\ \A s \in rows : q.id <= s.id BY <2>5
  <2>7. PICK f \in top : f.id = next BY <1>1, <2>6
  <2>8. ASSUME NEW e \in EntriesOf(entries, watched), next <= e.id, BelowCursor(e.id, cursor)
        PROVE  \E s \in rows : s.id = e.id
    <3>1. e \in Below(cursor) BY <2>8 DEF Below
    <3>2. e \in top BY <2>7, <2>8, <3>1, NewestIsTop
    <3> QED BY <1>1, <3>2
  <2> QED BY <1>1, <1>2, <1>4, <1>6, <2>6, <2>8
<1> QED BY <1>7, <1>8

-----------------------------------------------------------------------------
(* The steps of the reader.                                                *)

LEMMA ClampedLimit ==
  ASSUME NEW sent \in LimitParam, ValidLimit(ReadLimit(sent))
  PROVE  Clamped(ReadLimit(sent)) \in Nat \ {0}
<1>1. sent \in Seq(Int) /\ Len(sent) <= 1 BY LimitAssumption
<1>2. ReadLimit(sent) \in Int
  <2>1. CASE sent = <<>> BY <2>1, LimitAssumption DEF ReadLimit
  <2>2. CASE sent # <<>>
    <3>1. sent[1] \in Int BY <1>1, <2>2
    <3> QED BY <2>2, <3>1 DEF ReadLimit
  <2> QED BY <2>1, <2>2
<1> QED BY <1>2, LimitAssumption DEF ValidLimit, Clamped

(* Whoever has been told of a transaction will find it.                    *)
LEMMA ToldIsCommitted ==
  ASSUME StatementInv
  PROVE  Told \subseteq Id /\ \A id \in Told : \E t \in transactions : t.id = id
<1> USE DEF StatementInv, LedgerInv, IInv
<1> SUFFICES ASSUME NEW id \in Told PROVE id \in Id /\ \E t \in transactions : t.id = id
  OBVIOUS
<1>1. PICK c \in Call : id = answer[c].transaction /\ id # NoId BY DEF Told
<1>2. answer[c].outcome \in {"created", "replayed"} BY <1>1 DEF ToldInv
<1>3. \E t \in transactions : t.id = id
  BY <1>1, <1>2 DEF PostingInv, AnswerInv, AnswersAreTrue
<1> QED BY <1>3 DEF TypeOK, Transaction

LEMMA HistoryStep ==
  ASSUME StatementInv, WalkInv, AccountHistory
  PROVE  WalkInv'
<1> USE DEF WalkInv
<1>1. PICK sent \in LimitParam :
        LET limit == Clamped(ReadLimit(sent))
            rows == GetAccountHistory(watched, limit, before)
        IN  /\ ValidLimit(ReadLimit(sent))
            /\ page' = [entries |-> rows, next |-> NextCursor(rows, limit)]
  BY DEF AccountHistory
<1> DEFINE limit == Clamped(ReadLimit(sent))
           rows == GetAccountHistory(watched, limit, before)
           next == NextCursor(rows, limit)
<1>2. limit \in Nat \ {0} /\ page' = [entries |-> rows, next |-> next]
  BY <1>1, ClampedLimit
<1>3. page'.entries = rows /\ page'.next = next BY <1>2
<1>4. /\ walk \in {"new", "asking"} /\ walk' = "answered"
      /\ known' = IF before = 0 THEN Told ELSE known
      /\ UNCHANGED <<watched, before, shown, heard, vars>>
  BY DEF AccountHistory
<1>5. /\ rows \subseteq StatementEntry /\ next \in Nat
      /\ \A r \in rows : IsRow(r) /\ next <= r.id /\ BelowCursor(r.id, before)
      /\ next # 0 => \E r \in rows : r.id = next
      /\ \A e \in EntriesOf(entries, watched) :
           next <= e.id /\ BelowCursor(e.id, before) => \E q \in rows : q.id = e.id
      /\ \A e \in EntriesOf(entries, watched) :
           BelowCursor(e.id, before) => \E s \in rows : e.id <= s.id
  BY <1>2, PageSelected
<1> HIDE DEF limit, rows, next
<1>6. ReaderTypeOK'
  <2>1. page' \in [entries : SUBSET StatementEntry, next : Nat] BY <1>2, <1>5
  <2>2. known' \subseteq Id BY <1>4, ToldIsCommitted DEF ReaderTypeOK
  <2> QED BY <1>4, <2>1, <2>2 DEF ReaderTypeOK
<1>7. \A r : IsRow(r) => IsRow(r)' BY <1>4 DEF IsRow
<1>8. ShownInv' BY <1>4, <1>7 DEF ShownInv
<1>9. PageInv' BY <1>3, <1>4, <1>5, <1>7 DEF PageInv, BelowCursor
<1>10. \A e \in EntriesOf(entries, watched) :
         before = 0 \/ BeganAbove(e.id) => BeganAbove(e.id)'
  BY <1>3, <1>4, <1>5 DEF BeganAbove, BelowCursor
<1>11. KnownInv'
  <2>1. \A id \in known' : \E t \in transactions : t.id = id
    BY <1>4, ToldIsCommitted DEF KnownInv
  <2>2. CASE before = 0 BY <1>4, <1>10, <2>1, <2>2 DEF KnownInv
  <2>3. CASE before # 0 BY <1>4, <1>10, <2>1, <2>3 DEF KnownInv
  <2> QED BY <2>2, <2>3
<1>12. HeardInv'
  <2> SUFFICES ASSUME NEW b \in heard
               PROVE  \E cut \in Nat :
                        /\ b = Total(UpTo(EntriesOf(entries, watched), cut))
                        /\ cut # 0 => /\ \E e \in EntriesOf(entries, watched) : e.id = cut
                                      /\ BeganAbove(cut)'
    BY <1>4 DEF HeardInv
  <2>1. PICK cut \in Nat :
          /\ b = Total(UpTo(EntriesOf(entries, watched), cut))
          /\ cut # 0 => /\ \E e \in EntriesOf(entries, watched) : e.id = cut
                        /\ BeganAbove(cut)
    BY DEF HeardInv
  <2>2. cut # 0 => BeganAbove(cut)' BY <1>10, <2>1
  <2> QED BY <2>1, <2>2
<1> QED BY <1>6, <1>8, <1>9, <1>11, <1>12

LEMMA ReceiveStep ==
  ASSUME StatementInv, WalkInv, ReceivePage
  PROVE  WalkInv'
<1> USE DEF WalkInv
<1>1. /\ walk = "answered" /\ walk' = IF page.next = 0 THEN "done" ELSE "asking"
      /\ shown' = shown \cup page.entries /\ before' = page.next /\ page' = NoPage
      /\ UNCHANGED <<watched, heard, known, vars>>
  BY DEF ReceivePage
<1>2. /\ page.entries \subseteq StatementEntry /\ page.next \in Nat /\ before \in Nat
      /\ \A r \in page.entries \cup shown : r.id \in Nat
      /\ \A e \in EntriesOf(entries, watched) : e.id \in Nat
  BY DEF ReaderTypeOK, StatementEntry, Id, StatementInv, LedgerInv, IInv, TypeOK, Entry, EntriesOf
<1>3. /\ \A r \in page.entries : IsRow(r) /\ page.next <= r.id /\ BelowCursor(r.id, before)
      /\ page.next # 0 => \E r \in page.entries : r.id = page.next
      /\ \A e \in EntriesOf(entries, watched) :
           /\ page.next <= e.id /\ BelowCursor(e.id, before)
           /\ before = 0 => \E s \in page.entries : e.id <= s.id
           => \E q \in page.entries : q.id = e.id
  BY <1>1 DEF PageInv
<1>4. \A r : IsRow(r) => IsRow(r)' BY <1>1 DEF IsRow
<1>5. \A r \in shown : IsRow(r) /\ before # 0 /\ before <= r.id
  BY <1>1 DEF ShownInv
<1>6. ReaderTypeOK'
  <2>1. NoPage \in [entries : SUBSET StatementEntry, next : Nat] BY DEF NoPage
  <2> QED BY <1>1, <1>2, <2>1 DEF ReaderTypeOK
<1>7. ShownInv'
  <2>1. \A r \in shown : page.next <= r.id
    <3>1. page.next = 0 \/ page.next < before \/ before = 0 BY <1>3 DEF BelowCursor
    <3> QED BY <1>2, <1>5, <3>1
  <2>2. \A r \in shown' : IsRow(r)' /\ before' <= r.id BY <1>1, <1>3, <1>4, <1>5, <2>1
  <2>3. ASSUME NEW e \in EntriesOf(entries, watched), NEW s \in shown',
               page.next <= e.id, e.id <= s.id
        PROVE  \E q \in shown' : q.id = e.id
    <3>1. CASE s \in page.entries
      <4>1. BelowCursor(e.id, before) BY <1>2, <1>3, <2>3, <3>1 DEF BelowCursor
      <4> QED BY <1>1, <1>3, <2>3, <3>1, <4>1
    <3>2. CASE s \in shown /\ before <= e.id BY <1>1, <2>3, <3>2 DEF ShownInv
    <3>3. CASE s \in shown /\ ~(before <= e.id)
      <4>1. before # 0 /\ BelowCursor(e.id, before) BY <1>2, <1>5, <3>3 DEF BelowCursor
      <4> QED BY <1>1, <1>3, <2>3, <4>1
    <3> QED BY <1>1, <3>1, <3>2, <3>3
  <2>4. before' # 0 => \E r \in shown' : r.id = before' BY <1>1, <1>3
  <2> QED BY <1>1, <2>2, <2>3, <2>4 DEF ShownInv
<1>8. PageInv' BY <1>1 DEF PageInv
<1>9. \A id : BeganAbove(id) => BeganAbove(id)' BY <1>1 DEF BeganAbove
<1>10. KnownInv' BY <1>1, <1>9 DEF KnownInv
<1>11. HeardInv' BY <1>1, <1>9 DEF HeardInv
<1> QED BY <1>6, <1>7, <1>8, <1>10, <1>11

(* A balance is the sum of the entries up to the newest one.               *)
LEMMA BalanceUpTo ==
  ASSUME StatementInv
  PROVE  \E cut \in Nat :
           /\ BalanceOf(watched) = Total(UpTo(EntriesOf(entries, watched), cut))
           /\ cut # 0 => \E e \in EntriesOf(entries, watched) : e.id = cut
<1>1. Below(0) = EntriesOf(entries, watched) BY DEF Below, BelowCursor
<1>2. CASE EntriesOf(entries, watched) = {}
  <2>1. UpTo(EntriesOf(entries, watched), 0) = EntriesOf(entries, watched) BY <1>2 DEF UpTo
  <2> QED BY <2>1 DEF BalanceOf, Balance
<1>3. CASE EntriesOf(entries, watched) # {}
  <2>1. PICK e \in Below(0) : \A f \in Below(0) : f.id <= e.id
    BY <1>1, <1>3, HighestEntry
  <2>2. e.id \in Nat BY BelowFacts
  <2>3. UpTo(EntriesOf(entries, watched), e.id) = EntriesOf(entries, watched)
    BY <1>1, <2>1 DEF UpTo
  <2> QED BY <1>1, <2>2, <2>3 DEF BalanceOf, Balance
<1> QED BY <1>2, <1>3

LEMMA ReadingStep ==
  ASSUME StatementInv, WalkInv, Reading
  PROVE  StatementInv' /\ WalkInv'
<1>1. UNCHANGED vars
  BY DEF Reading, AccountBalance, AccountHistory, UnknownAccount, ReceivePage, LosePage
<1>2. StatementInv' BY <1>1, StatementStutters
<1>3. \A r : IsRow(r) /\ watched' = watched => IsRow(r)' BY <1>1 DEF IsRow
<1>4. CASE AccountBalance
  <2>1. /\ heard' = {BalanceOf(watched)} /\ BalanceOf(watched) \in Int64
        /\ UNCHANGED <<walk, watched, before, page, shown, known>>
    BY <1>4 DEF AccountBalance
  <2>2. heard' \subseteq Int64 /\ Cardinality(heard') <= 1 BY <2>1, FS_Singleton
  <2>3. ReaderTypeOK' BY <2>1, <2>2 DEF WalkInv, ReaderTypeOK
  <2>4. ShownInv' BY <1>1, <1>3, <2>1 DEF WalkInv, ShownInv
  <2>5. PageInv' BY <1>1, <1>3, <2>1 DEF WalkInv, PageInv
  <2>6. \A id : BeganAbove(id) <=> BeganAbove(id)' BY <2>1 DEF BeganAbove
  <2>7. KnownInv' BY <1>1, <2>1, <2>6 DEF WalkInv, KnownInv
  <2>8. HeardInv'
    <3>1. PICK cut \in Nat :
            /\ BalanceOf(watched) = Total(UpTo(EntriesOf(entries, watched), cut))
            /\ cut # 0 => \E e \in EntriesOf(entries, watched) : e.id = cut
      BY BalanceUpTo
    <3>2. \A id : BeganAbove(id)
      BY <1>4 DEF AccountBalance, WalkInv, ShownInv, BeganAbove
    <3> QED BY <1>1, <2>1, <2>6, <3>1, <3>2 DEF HeardInv
  <2> QED BY <1>2, <2>3, <2>4, <2>5, <2>7, <2>8 DEF WalkInv
<1>5. CASE UnknownAccount
  <2>1. walk = "new" /\ walk' = "refused" /\ UNCHANGED <<watched, before, page, shown, heard, known>>
    BY <1>5 DEF UnknownAccount
  <2>2. ReaderTypeOK' BY <2>1 DEF WalkInv, ReaderTypeOK
  <2>3. ShownInv' BY <1>1, <1>3, <2>1 DEF WalkInv, ShownInv
  <2>4. PageInv' BY <2>1 DEF WalkInv, PageInv
  <2>5. \A id : BeganAbove(id) => BeganAbove(id)' BY <2>1 DEF BeganAbove
  <2>6. KnownInv' BY <1>1, <2>1, <2>5 DEF WalkInv, KnownInv
  <2>7. HeardInv' BY <1>1, <2>1, <2>5 DEF WalkInv, HeardInv
  <2> QED BY <1>2, <2>2, <2>3, <2>4, <2>6, <2>7 DEF WalkInv
<1>6. CASE LosePage
  <2>1. /\ walk = "answered" /\ walk' = "asking" /\ page' = NoPage
        /\ UNCHANGED <<watched, before, shown, heard, known>>
    BY <1>6 DEF LosePage
  <2>2. NoPage \in [entries : SUBSET StatementEntry, next : Nat] BY DEF NoPage
  <2>3. ReaderTypeOK' BY <2>1, <2>2 DEF WalkInv, ReaderTypeOK
  <2>4. ShownInv' BY <1>1, <1>3, <2>1 DEF WalkInv, ShownInv
  <2>5. PageInv' BY <2>1 DEF WalkInv, PageInv
  <2>6. \A id : BeganAbove(id) => BeganAbove(id)' BY <2>1 DEF BeganAbove
  <2>7. KnownInv' BY <1>1, <2>1, <2>6 DEF WalkInv, KnownInv
  <2>8. HeardInv' BY <1>1, <2>1, <2>6 DEF WalkInv, HeardInv
  <2> QED BY <1>2, <2>3, <2>4, <2>5, <2>7, <2>8 DEF WalkInv
<1> QED BY <1>2, <1>4, <1>5, <1>6, HistoryStep, ReceiveStep DEF Reading

-----------------------------------------------------------------------------
(* The theorems.                                                           *)

LEMMA HandlerStart == HandlerInit => HandlerInv
<1> SUFFICES ASSUME HandlerInit PROVE HandlerInv OBVIOUS
<1>1. Init /\ IInv /\ PostingInv BY InvInit, PostingInit DEF HandlerInit
<1>2. transactions = {} /\ entries = {} /\ \A c \in Call : result[c] = Pending /\ answer[c] = Pending
  BY <1>1 DEF Init
<1>3. RowsInv BY <1>2 DEF RowsInv
<1>4. ResultInv /\ ToldInv BY <1>2 DEF ResultInv, ResultOf, ToldInv, Pending
<1>5. ClientErrorIsFinal BY <1>2 DEF ClientErrorIsFinal
<1>6. /\ watched \in Watched /\ walk = "new" /\ before = 0 /\ page = NoPage
      /\ shown = {} /\ heard = {} /\ known = {}
  BY DEF HandlerInit
<1>7. ReaderTypeOK
  <2>1. NoPage \in [entries : SUBSET StatementEntry, next : Nat] BY DEF NoPage
  <2>2. heard \subseteq Int64 /\ Cardinality(heard) <= 1 BY <1>6, FS_EmptySet
  <2> QED BY <1>6, <2>1, <2>2 DEF ReaderTypeOK
<1>8. ShownInv /\ PageInv /\ KnownInv /\ HeardInv
  BY <1>6 DEF ShownInv, PageInv, KnownInv, HeardInv
<1> QED BY <1>1, <1>3, <1>4, <1>5, <1>7, <1>8
        DEF HandlerInv, StatementInv, LedgerInv, WalkInv

LEMMA HandlerStep == HandlerInv /\ [HandlerNext]_handlerVars => HandlerInv'
<1> SUFFICES ASSUME HandlerInv, [HandlerNext]_handlerVars PROVE HandlerInv'
  OBVIOUS
<1> USE DEF HandlerInv
<1>1. CASE UNCHANGED handlerVars
  <2>1. UNCHANGED vars /\ UNCHANGED reader BY <1>1 DEF handlerVars
  <2> QED BY <2>1, StatementStutters, WalkGoesOn
<1>2. ASSUME NEW c \in Call, Serve(c) \/ TurnAway(c) PROVE HandlerInv'
  <2>1. StatementInv' /\ Grows BY <1>2, ServedStatementInv, TurnedAwayStatementInv
  <2>2. UNCHANGED reader BY <1>2 DEF Serve, TurnAway
  <2> QED BY <2>1, <2>2, WalkGoesOn
<1>3. CASE Reading BY <1>3, ReadingStep
<1> QED BY <1>1, <1>2, <1>3 DEF HandlerNext

(* The invariants of the ledger hold behind the handlers as well, and the  *)
(* walk of a reader keeps its own.                                         *)
THEOREM Reads == HandlerSpec => []HandlerInv
BY HandlerStart, HandlerStep, PTL DEF HandlerSpec

(* What a reader is given are statement entries with counterparties that   *)
(* are users, cursors and one balance.                                     *)
THEOREM ReaderTypeCorrect == HandlerSpec => []ReaderTypeOK
<1>1. HandlerInv => ReaderTypeOK BY DEF HandlerInv, WalkInv
<1> QED BY <1>1, Reads, PTL

(* A call that was told 400 to 499 has posted nothing, and never will.     *)
THEOREM RefusalIsFinal == HandlerSpec => []ClientErrorIsFinal
<1>1. HandlerInv => ClientErrorIsFinal BY DEF HandlerInv, StatementInv
<1> QED BY <1>1, Reads, PTL

(* The pages of a walk leave out no entry between two that they show,      *)
(* whatever is posted in between.                                          *)
THEOREM NothingSkipped == HandlerSpec => []WalkHasNoGap
<1>1. HandlerInv => WalkHasNoGap
  <2> SUFFICES ASSUME HandlerInv, NEW e \in EntriesOf(entries, watched),
                      NEW r \in shown, NEW s \in shown, r.id <= e.id, e.id <= s.id
               PROVE  \E q \in shown : q.id = e.id
    BY DEF WalkHasNoGap
  <2>1. ShownInv /\ ReaderTypeOK /\ TypeOK
    BY DEF HandlerInv, WalkInv, StatementInv, LedgerInv, IInv
  <2>2. before \in Nat /\ r.id \in Nat /\ e.id \in Nat
    BY <2>1 DEF ReaderTypeOK, StatementEntry, Id, TypeOK, Entry, EntriesOf
  <2>3. before <= r.id BY <2>1 DEF ShownInv
  <2>4. before <= e.id BY <2>2, <2>3
  <2> QED BY <2>1, <2>4 DEF ShownInv
<1> QED BY <1>1, Reads, PTL

(* A completed walk has shown every transaction of the account that anyone *)
(* had been told of when it began.                                         *)
THEOREM OwnOperationShown == HandlerSpec => []OwnOperationIsShown
<1>1. HandlerInv => OwnOperationIsShown
  <2> SUFFICES ASSUME HandlerInv, walk = "done", NEW t \in transactions, t.id \in known,
                      watched \in {t.source, t.destination}
               PROVE  \E r \in shown : r.transaction = t.id
    BY DEF OwnOperationIsShown
  <2>1. /\ ShownInv /\ KnownInv /\ TypeOK /\ RowsInv /\ Whole(t)
        /\ before = 0
    BY DEF HandlerInv, WalkInv, StatementInv, LedgerInv, IInv, PostingInv, WholeInv, ShownInv
  <2>2. PICK e \in EntriesOf(entries, watched) : e.transaction = t.id
    <3>1. PICK d, k : {e \in entries : e.transaction = t.id} =
                        {DebitEntry(RowParams(t), t.id, d.id), CreditEntry(RowParams(t), t.id, k.id)}
      BY <2>1 DEF Whole
    <3>2. /\ DebitEntry(RowParams(t), t.id, d.id) \in entries
          /\ CreditEntry(RowParams(t), t.id, k.id) \in entries
      BY <3>1
    <3>3. /\ DebitEntry(RowParams(t), t.id, d.id).account = t.source
          /\ DebitEntry(RowParams(t), t.id, d.id).transaction = t.id
          /\ CreditEntry(RowParams(t), t.id, k.id).account = t.destination
          /\ CreditEntry(RowParams(t), t.id, k.id).transaction = t.id
      BY DEF DebitEntry, CreditEntry, RowParams
    <3> QED BY <3>2, <3>3 DEF EntriesOf
  <2>3. PICK s \in shown : e.id <= s.id BY <2>1, <2>2 DEF KnownInv, BeganAbove
  <2>4. before <= e.id BY <2>1 DEF TypeOK, Entry, Id, EntriesOf
  <2>5. PICK q \in shown : q.id = e.id BY <2>1, <2>3, <2>4 DEF ShownInv
  <2>6. PICK f \in EntriesOf(entries, watched), u \in transactions :
          f.transaction = u.id /\ q = Shown(f, u)
    BY <2>1 DEF ShownInv, IsRow
  <2>7. f = e BY <2>1, <2>5, <2>6 DEF RowsInv, EntriesOf, Shown
  <2>8. q.transaction = t.id BY <2>2, <2>6, <2>7 DEF Shown
  <2> QED BY <2>8
<1> QED BY <1>1, Reads, PTL

(* A balance that a reader was told before it walked through the history   *)
(* is the sum of the entries it has been shown, up to one of them.         *)
THEOREM BalanceIsOfThePast == HandlerSpec => []BalanceMatchesHistory
<1>1. HandlerInv => BalanceMatchesHistory
  <2> SUFFICES ASSUME HandlerInv, walk = "done", NEW b \in heard
               PROVE  \E cut \in {0} \cup {r.id : r \in shown} : b = Total(UpTo(shown, cut))
    BY DEF BalanceMatchesHistory, UpTo
  <2> USE DEF HandlerInv, WalkInv
  <2>1. PICK cut \in Nat :
          /\ b = Total(UpTo(EntriesOf(entries, watched), cut))
          /\ cut # 0 => /\ \E e \in EntriesOf(entries, watched) : e.id = cut
                        /\ BeganAbove(cut)
    BY DEF HeardInv
  <2> DEFINE S == UpTo(shown, cut)
             T == UpTo(EntriesOf(entries, watched), cut)
  <2>2. \A e \in EntriesOf(entries, watched) : e \in entries /\ e.id \in Id /\ e.amount \in Int
    BY DEF StatementInv, LedgerInv, IInv, TypeOK, Entry, EntriesOf, Int64
  <2>3. \A r \in shown : IsRow(r) /\ r.id \in Id /\ r.amount \in Int
    BY DEF ShownInv, ReaderTypeOK, StatementEntry, Int64
  <2>4. \A r \in shown : \E e \in EntriesOf(entries, watched) : e.id = r.id /\ e.amount = r.amount
    BY <2>3 DEF IsRow, Shown
  <2>5. \A e \in T : \E r \in shown : r.id = e.id
    <3> SUFFICES ASSUME NEW e \in T PROVE \E r \in shown : r.id = e.id OBVIOUS
    <3>1. e \in EntriesOf(entries, watched) /\ e.id \in Nat /\ e.id <= cut /\ e.id # 0 /\ cut # 0
      BY <2>2 DEF UpTo, Id
    <3>2. PICK s \in shown : cut <= s.id BY <2>1, <3>1 DEF BeganAbove
    <3>3. before = 0 /\ s.id \in Nat BY <2>3 DEF ShownInv, Id
    <3>4. before <= e.id /\ e.id <= s.id BY <3>1, <3>2, <3>3
    <3> QED BY <3>1, <3>4 DEF ShownInv
  <2>6. \A x \in S : x.amount \in Int /\ \E y \in T : y.id = x.id /\ y.amount = x.amount
    BY <2>3, <2>4 DEF UpTo
  <2>7. \A y \in T : y.amount \in Int /\ \E x \in S : y.id = x.id
    BY <2>2, <2>5 DEF UpTo
  <2>8. \A x, z \in S : x.id = z.id => x = z
    BY <2>3, RowsById DEF UpTo
  <2>9. \A y, z \in T : y.id = z.id => y = z
    BY <2>2 DEF StatementInv, RowsInv, UpTo
  <2>10. IsFiniteSet(T)
    <3>1. T \subseteq entries BY <2>2 DEF UpTo
    <3> QED BY <3>1, FiniteEntries, FS_Subset
  <2>11. \A x \in S : \E y \in T : y.id = x.id BY <2>6
  <2> HIDE DEF S, T
  <2>12. IsFiniteSet(S) BY <2>8, <2>10, <2>11, FewerIds
  <2>13. Total(S) = Total(T) BY <2>6, <2>7, <2>8, <2>9, <2>10, <2>12, TotalMatches
  <2>14. CASE cut = 0 BY <2>1, <2>13, <2>14 DEF S, T
  <2>15. CASE cut # 0
    <3>1. PICK e \in EntriesOf(entries, watched) : e.id = cut BY <2>1, <2>15
    <3>2. e \in T BY <3>1 DEF T, UpTo
    <3>3. \E r \in shown : r.id = cut BY <2>5, <3>1, <3>2
    <3> QED BY <2>1, <2>13, <3>3 DEF S, T
  <2> QED BY <2>14, <2>15
<1> QED BY <1>1, Reads, PTL

(* A page shows only entries below all that were shown before it.          *)
THEOREM PagesGoDown == HandlerSpec => PagesDescend
<1>1. HandlerInv => (ReceivePage => \A r \in page.entries, s \in shown : r.id < s.id)
  <2> SUFFICES ASSUME HandlerInv, ReceivePage, NEW r \in page.entries, NEW s \in shown
               PROVE  r.id < s.id
    OBVIOUS
  <2>1. ShownInv /\ PageInv /\ ReaderTypeOK /\ walk = "answered"
    BY DEF HandlerInv, WalkInv, ReceivePage
  <2>2. r.id \in Nat /\ s.id \in Nat /\ before \in Nat
    BY <2>1 DEF ReaderTypeOK, StatementEntry, Id
  <2>3. before # 0 /\ before <= s.id /\ BelowCursor(r.id, before)
    BY <2>1 DEF ShownInv, PageInv
  <2> QED BY <2>2, <2>3 DEF BelowCursor
<1>2. []HandlerInv => PagesDescend BY <1>1, PTL DEF PagesDescend
<1> QED BY <1>2, Reads
=============================================================================
