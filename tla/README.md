# Equilibra in TLA+

Equilibra is a ledger. A REST API posts money transfers to PostgreSQL; every
posting also writes events to an outbox table; `relay` copies the outbox to a
Kafka topic; `notification` consumes the topic and shows each event to the
browsers of the account it is about. This directory holds TLA+ models of those
parts, the TLC configurations that check them, and proofs that TLAPS checks. All
definitions are translations of the Go and SQL source; `PROJECT.json` ("map")
names the lines behind each one.

Run anything with `tlc -workers 2 -config X.cfg M` and `tlapm M.tla`.

## Inventory

| component | state | operations | what is hard | what makes it correct |
|---|---|---|---|---|
| money transfer service (`internal/service`) | none of its own; one database transaction per call | Transfer, Deposit, Withdraw, Reverse; AccountBalance, AccountTransactionsHistory | calls interleave statement by statement; check-then-act on balances; retries under idempotency keys; int64 arithmetic | serializable; double entry; one posting per key; one reversal per transaction; no overdraft; true answers; no deadlock |
| storage (`internal/storage`) | PostgreSQL rows, row locks, unique indexes, sequences | WithTx and one method per query | commit timeout with an unknown outcome; rollback on every error path | all rows of a call or none; visibility in id order per account |
| schema (`migrations`), events (`internal/events`) | table and payload formats | - | unique indexes carry part of the protocol | see above |
| HTTP handlers (`internal/handler`) | none; a cursor in the hands of the client | four posting requests, the balance, the pages of the history | pages are separate database transactions over a growing ledger; ids are drawn long before they are visible; a request may be lost and repeated | no gap in a walk; one's own operations are shown; balance and history agree; a 4xx is final |
| outbox relay (`internal/relay`, `internal/publisher`) | advisory lock of a database transaction, a batch in memory, the producer's records in flight | one loop: lock, read, produce, mark, commit | several copies; session lost while producing; batch half sent; undecided commit | nothing marked that was not sent; order per account; every event sent |
| notification delivery (`consumer`, `processor`, `dedup`, publishing half of `pubsub`) | offsets of a consumer group; a key per event in Redis | poll, claim (lease), publish, mark, commit offsets | rebalances while a batch is handled; leases; calls with an unknown outcome; shutdown in the middle | nothing committed that was not handled; order per partition; repeats only after failures; every event notified |
| websocket hub (`hub`, `ws`, receiving half of `pubsub`) | clients per account, a buffer of 16 messages each, a close-once channel | Register, Unregister, Send, CloseAll; a goroutine per connection | Send works on a copy of the set; slow clients; shutdown | no gap while connected; order; what a client is told when it is closed is true; who is disconnected leaves |
| process entry points (`cmd`) | goroutines, requests in the HTTP servers, the signal, the shutdown and its deadline | serve, run, Shutdown, the deferred closes | parts that end first; a signal while requests run; a shutdown that takes too long; connections the server does not wait for | no half process; requests dropped only when the time of the shutdown is over; a clean exit has answered everything |
| configuration, deployment | - | - | - | not modelled |

The parts interact through the database (service and relay share the outbox
table), through the topic (relay and notification) and through a Redis channel
(copies of notification). No part calls another one directly.

## Modules

| module | models | role |
|---|---|---|
| `LedgerData` | requests, rows, the pure computations of the service | vocabulary of the next two |
| `Ledger` | concurrent calls, one action per SQL statement | the detailed specification of service and storage |
| `Bank` | one step per operation | what the operations promise together |
| `LedgerInvariant`, `LedgerProofs`, `PostingProofs` | | the two inductive invariants of `Ledger` and the theorems |
| `BankProofs` | | `Ledger` implements `Bank` |
| `Relay` | copies of the relay, the broker, failures | the detailed specification of the relay |
| `Handler` | statuses of answers; a client that reads balance and history while `Ledger` runs | composition of the handlers, the reads of the service and `Ledger` |
| `HandlerProofs` | | the inductive invariant of `Handler` and the theorems |
| `Feed` | a set of events that have reached the topic | what a reader of the topic who drops repeats sees |
| `RelayInvariant`, `RelayProofs` | | the inductive invariant of `Relay` and the theorems |
| `Notification` | copies of notification, Redis, the consumer group | delivery of events to the Redis channel |
| `Delivery` | what has been notified, and the offsets | what the consumer group promises together |
| `NotificationInvariant`, `NotificationProofs` | | the inductive invariants of `Notification` and the theorems |
| `Hub` | the hub, the subscriber, the goroutine of each connection | delivery from the Redis channel to the browsers |
| `HubProofs` | | the inductive invariant of `Hub` and the theorems |
| `Process` | the life of one process of any of the three programs | start, signal, shutdown and exit |
| `ProcessProofs` | | the inductive invariant of `Process` and the theorems |
| `MCLedger`, `MCHandler`, `MCRelay`, `MCNotification`, `MCHub`, `MCProcess` | | the instances TLC checks |

A definition marked *regression* is not part of the specification. It states a
bug that the definition after it could have had (a lock in request order, a
cursor instead of `published_at IS NULL`, SET instead of SETNX); each property
of the runs fails when one of them takes the place of its counterpart, which
shows that the property says something about the code ("mutants" in
`PROJECT.json`).

### Ledger

A call has a program counter over the statements of `Service.transfer` and of
the operation around it. Its uncommitted rows are in `staged[c]`; `Commit`
installs them and releases the locks in one step. What one open database
transaction can notice of another is modelled as it is under READ COMMITTED: row
locks (`accountLocks`, `rowLocks`), the wait for an uncommitted insertion of the
same idempotency key or `reversal_of` (`InsertWaits`), and sequences, which are
drawn outside of any transaction (`txSeq`, `entrySeq`, `outboxSeq`). `Abort`
stands for every error a statement may return, timeouts while waiting included;
`CommitTimeout` for a COMMIT whose outcome the client never learns, which is
settled later by `OrphanCommits` or `OrphanRollsBack`.

Abstractions, and why they are sound:

* accounts are never created or changed by this program, so the reads of
  immutable account rows are part of the first step of an operation;
* the id of a transaction is drawn when the insertion no longer waits; PostgreSQL
  draws it before. Only gaps differ: transaction ids are used to identify
  rows and nothing orders by them;
* the unique index on `reversal_of` that rejects an insertion is one of the
  errors of `Abort`;
* a call is one request. A client that retries is another call with the same
  request, which leaves the number and the moment of retries open;
* time stamps and currency columns are left out of the rows: the first decide
  nothing, the second is a function of the account.

`Bank` is the same interface with one step per operation: a call posts, replays,
is refused or fails, on the committed rows of one instant. `ImplementsBank`
says that `Ledger` implements it with the identity mapping on the committed
rows and the answers, so concurrent calls are serializable, also those whose
client was told of an internal error although the commit took effect.

### Handler

`Handler` EXTENDS `Ledger` with a client. A posting request is served as the
statements of its call (`Serve`), or turned away before the service sees it
(`TurnAway`), which any request may be: its headers or its body may be
unreadable. A request that is not `Valid` is always turned away. `Status` is what
`handleError` and `writeTransaction` make of the outcome.

A read is one database transaction; what it depends on is one SELECT, so it is
one action (`AccountBalance`, `AccountHistory`). The client may ask for the
balance first, then takes the history page by page, with a limit of its choice
each time, valid or not; a page that is lost or fails (`LosePage`) is asked for
again under the same cursor, and may then be another one. `shown` is all it has
been shown, `known` the transactions that clients had been told of when the first
page was selected. Because a page is a set of rows with their ids, and the
cursor is an id, the properties of a walk rest on the ids becoming visible in
order per account (`VisibleInIdOrder`, which is proved): with a call that reads
its accounts without locking them, `WalkHasNoGap` fails. Only users and accounts
that do not exist are asked for; an account of the system is read by the same
code. The currency and time stamps of an entry are left out, as in `Ledger`.

### Relay

A copy knows of its database session only what its statements tell it. So the
lock is modelled at the session (`locked`), not at the program counter:
`SessionLost` frees it while the copy is still producing, and the copy notices
at its next statement (`Disconnected`). A produce request that was given up
(`Fail`, `Crash`) moves to `late` and may arrive whole, in part (partition by
partition, or a prefix), or never. A COMMIT that timed out keeps the lock until
the database decides (`unsettled`). The broker keeps the order of the records of
one batch within a partition; nothing is assumed about the order of different
batches. A process that is started again is another member of `Copy`, since
nothing survives it. A turn that is skipped because another copy has the lock
changes nothing and is a stutter. `Post(t)` is the ledger's side: the events of
one database transaction appear at once, per account in the order of their ids
(this is `VisibleInIdOrder` of `Ledger`, which is proved), across accounts in
any order. The pause between batches and the metrics are not modelled.

`Feed` has two variables, the outbox and the set of events that have arrived;
`ImplementsFeed` is the refinement `feed <- Arrived`.

### Notification

`Topic` is a constant: what the relay has written, repeats included. All records of
an event are in one partition (`KeyAssumption`), because the relay sends it under
the key of its account each time (events.go, `Key`); without that a repeat in
another partition could be notified first, and the order of a partition would say
nothing about first notifications. A copy polls
any number of the next records of its partitions, which may interleave, and
handles them one by one as `Processor.Handle` does: claim with SETNX, on a used
key look at its value, publish, mark as done. Every call to Redis is a step of its
own and may return an error with or without effect. `Consumer.handle` repeats a
record until Handle returns nil, so an error leads back to `claim`, where the
copy finds the lease of its own first attempt and waits for it to expire. The end
of a batch commits what was handled; a commit that fails is only logged.
`Rebalance` takes a partition from a copy at any time, also in the middle of a
batch: the client does not block rebalances, so the former owner finishes what
it has polled, and its commit may rewind what the new owner has committed.
`Cancel` is SIGTERM, `Crash` a process that just ends. A SIGTERM that interrupts a
call after its effect, or the marking, is a failed call followed by `Cancel`.

`LeaseExpires` is free once nobody is at work on the event. While somebody is, it
means a copy that needed longer than `leaseTTL` (30 s) for two calls, and counts
as a fault, as does `DoneExpires` (an event that returns after `doneTTL`, 24 h).

`Delivery` has two variables, the events that have been notified and the
committed offsets. It says that events are notified for the first time in the
order of their partition and that an offset is committed only above finished
records; it lets a commit go back, as those of two owners
may. `ImplementsDelivery` is the refinement: copies, leases, rebalances and
failures are hidden.

### Hub

One process of notification. A critical section of the hub's mutex is one step,
since nothing inside waits; what runs outside of it is not: `Receive` copies the
clients of an account, `Offer` looks at one of them (in any order, as a Go map is
ranged over), and a client that is found full (`FindFull`) is unregistered in a
later step, while its goroutine may be emptying the buffer. Go's `select` takes
any branch that is ready, so a client whose `done` is closed may still be handed
a message (`Hand`) or be passed over, and its goroutine may still write one. `Disconnected`
is `closeOnce`. Messages are numbers; `written` is what a connection got,
`since` and `received` are history, to say what it should have got. `reason` is
what `disconnect` leaves in the client, and `told` what the goroutine reads later and
closes the connection with (`SeeDone`); in between the buffer may be emptied, a write
may fail, and others may come to disconnect the client. `Miss`
stands for what Redis pub/sub does not deliver and for envelopes that cannot be
read. CloseAll does not see a client that registers after it; the model allows
that, and `Process` says what becomes of such a client (finding 4).

### Process

One process, from the start of its goroutines to its exit, for each of the three
programs: `Parts` are the goroutines, `Plan` what the one that waits for the end
(`closer`) does then. A request passes from `Accept` through at most one database
transaction to `Answer`, or is upgraded to a websocket connection, which leaves
the server. `Return` is the errgroup, `Cancelled` its context. `EndShutdown`
returns nil if the server is idle and an error if the deadline, one for all
servers, has passed; ServeHTTP of a request that is cut off goes on. The
deferred closes of `run` come in their order: the signal is no longer watched,
then the pool waits for its connections, which is what pgxpool.Close promises
(`ConnectionsReleased`, an assumption about the library, not a result). A request may
still be running when the process exits with status 1; `DroppedOnlyWhenLate` says when.
api asks for the signal in a goroutine
(`Watch`): a signal before that kills the process. relay's and the consumer's
own work in the database and in Kafka is not repeated here; `Relay`, `Notification`
and `Hub` let it end or break off at any point.

## Runs

| run | bounds | states | shows |
|---|---|---|---|
| `ledger_calls` (`MCLedger.cfg`) | 4 calls, 3 user accounts in two currencies, 2 system accounts, `MaxInt` 3, workloads `EveryKind` | 641,000 | serializability (`ImplementsBank`), `TypeOK`, `DoubleEntry`, `OutboxMatchesLedger`, `PostedOncePerKey`, `ReversalUndoesOnce`, `BalanceIsCurrent`, `AnswersAreTrue`, `NoWaitCycle`, `NoOverdraft`, `VisibleInIdOrder`, `EveryCallEnds` |
| `ledger_key_reuse` | workload `KeyReuse` | - | finding 1 |
| `ledger_wraparound` | workload `Extremes` | - | finding 2 |
| `handler_reads` (`MCHandler.cfg`) | the ledger with 4 calls about one account, one of them undone or not valid; pages of at most 2 entries, limits valid and invalid, an account that does not exist | 411,000 | `ReaderTypeOK`, `WalkHasNoGap`, `OwnOperationIsShown`, `BalanceMatchesHistory`, `ClientErrorIsFinal`, `PagesDescend`, `EveryWalkEnds` |
| `relay_failover` (`MCRelay.cfg`) | 2 copies, batches of 2, 4 events of 3 transactions about 3 accounts in 2 partitions, 2 faults | 602,000 | `TypeOK`, `NothingLost`, `CopiesNeedFaults`, `ImplementsFeed`, `EveryEventPublished` |
| `relay_overlap` | 1 fault is enough | - | finding 3 |
| `notification_failover` (`MCNotification.cfg`) | 2 copies, 2 partitions, 4 records of which one is a repeat and one malformed, 1 rebalance, 2 faults, any number of shutdowns and failed commits | 3,790,000 | `TypeOK`, `CommittedIsNotified`, `NotifiedInOrder`, `RepeatsNeedFaults` (which is tight: a publish that fails with effect is repeated), `ImplementsDelivery` |
| `notification_liveness` | 3 records, one without an id, 1 fault | 277,000 | `EveryEventNotified` |
| `hub_safety` (`MCHub.cfg`) | 2 clients of an account, 5 messages of which one is for another account, buffers of 2 | 3,360,000 | `TypeOK`, `NoGapWhileConnected`, `WrittenInOrder`, `CloseReasonIsTrue` |
| `hub_liveness` | 2 clients, 3 messages, buffers of 1 | 407,000 | `DisconnectedLeaves`, `EveryMessageReaches` |
| `process_shutdown` (`MCProcess.cfg`) | each program, 3 requests to any of its servers | 848,000 | `TypeOK`, `CleanExitAnswersAll`, `DroppedOnlyWhenLate`, `NoHalfProcess` |
| `process_clients` | notification alone, 2 requests | - | finding 4 |

Why these bounds. The protocols of `Ledger` relate at most three calls to each
other (a holder, a waiter, a retry), and four calls, most of them over two accounts, reach every
statement with every kind of conflict: same accounts in both directions, same
key, same reversed transaction. `MaxInt` is 3 so that sums and differences reach
it: int64 is represented by `-(MaxInt+1)..MaxInt` with Go's wrapping, and the
workloads of `EveryDay` stay below. In `Handler` a full page, a page that is not
full and a last page that is full all occur with 3 entries and limits of 1 and 2.
In `Relay` the ids of two transactions
interleave, so that a row becomes visible below ids that were sent before;
batches of 2 cut transactions apart; two faults give two late batches that cross
each other and a third one that is live. In `Notification` two faults let one failure
meet another, and one rebalance from a running copy to have two
owners in the middle of the same records; shutdowns and rebalances from stopped
copies are not counted. In `Hub` an account gets more messages than a buffer
holds, and has two clients, so that Send is interrupted between them; the buffer of
16 is one of 2 or 1. In `Process` one request may be in each server, or all three
in one of them. Copies are symmetric and are declared so in
`notification_failover`, where only invariants and the refinement are checked.

Deadlock is not checked in runs of models that end: a call is one request, a walk
reaches the last page, the topic is finite, a process exits (`EveryCallEnds`,
`EveryWalkEnds`, `EveryEventNotified`, `EveryMessageReaches` and `NoHalfProcess` say how it
ends). A relay never comes to an end by itself: `relay_failover` checks for deadlock.

Fairness. `Ledger`: a call whose next statement is possible executes it in the
end (goroutines are scheduled, PostgreSQL grants a free lock), and the database
settles a COMMIT it was sent. `Relay`: a copy that runs goes on with its loop,
the broker appends what it is sent, a COMMIT is settled; no late batch needs to
arrive and no lock attempt needs to win against another copy. `Notification`: a
copy that runs goes on, a lease nobody works under expires, the group gives the
partitions of a stopped copy to another one; commits of offsets need not
succeed. `Hub`: a goroutine that can go on does (a write ends with its timeout at
the latest), and CloseAll follows the signal; no message has to come in and no
connection has to end by itself. `Handler`: a client goes on asking, and a page
it asks for again and again arrives in the end (the only strong fairness, since
a lost page takes the request back to its beginning); no call has to get on.
`Process`: goroutines are scheduled, the deadline of a shutdown passes, a database
transaction ends at the latest with the timeout of its rollback; no request has to
come in or to be answered, no connection has to end. No failure is ever required.

## Findings

1. *A replayed reversal marks its target* (`ReversedHasReversal`, service.go:328).
   A reversal whose key was used by an earlier transfer of the same money the same
   way is replayed by the core, which compares accounts and amount only; Reverse
   then sets the status of its target to 'reversed' though nothing was moved.
2. *The balance check wraps* (`NoDeeperOverdraft`, service.go:412). For a user with
   a negative balance, which a reversal can cause, `balanceFrom-amount` wraps for
   amounts close to the largest int64, and the withdrawal is posted.
   `NoOverdraft` shows that nothing of the kind happens from a balance of zero or
   more.
3. *Two copies of the relay may send at once* (`OneBatchAtATime`, relay.go:86), for
   the lock ends with the database session and the producer does not look at it.
   docs/architecture.md:100 says only one copy handles batches at a time. What the
   sentence is there for, the order of events, holds all the same:
   `ImplementsFeed` is checked and proved with overlapping copies.
4. *A browser may be cut off without a word* (`ConnectionsClosed`,
   cmd/notification/main.go:155). CloseAll disconnects the clients registered at
   that moment; one that connects between CloseAll and Shutdown, or whose goroutine
   has not yet seen that it is disconnected, is not waited for, as Shutdown does not
   wait for connections that were upgraded. main.go:148 says the connections
   are closed first.

## Proofs

Every invariant, action property and refinement of a run that passes is a theorem,
for any value of the constants that the ASSUMEs of the modules allow: any number of
calls, copies, clients, requests and faults, any workload, topic and channel, any size
of batches, pages and buffers. No property is assumed of a variable. Each argument
below is an inductive invariant; the runs' instances were checked for it with TLC
before it was proved.

`LedgerProofs`: `TypeOK`, `PostedOncePerKey`, `BalanceIsCurrent` and
`VisibleInIdOrder`. None of them is inductive alone. `IInv` (module
`LedgerInvariant`) adds

* what a call knows at each statement (`SessionInv`): the parameters are known
  from the first lock on, the result between insertion and end;
* the locks (`LockInv`): no account is locked twice, and from the insertion on a
  call holds both accounts. So while a call works with a balance it has read,
  or with ids it has drawn, no other call can commit entries of these accounts:
  `BalanceIsCurrent`;
* the staged rows (`StagedInv`): they are about accounts the call holds, and its
  transaction row is the one of its parameters;
* ids (`EntryIds`, `EventIds`, `TransactionIds`): staged rows have been drawn from
  the counters, after every committed row of the same account. A commit
  therefore adds, for each account, only larger ids: `VisibleInIdOrder`;
* keys (`KeyInv`): a key is unique over committed *and* staged rows, because an
  insertion waits for a staged one: `PostedOncePerKey`.

`PostingProofs`: what the calls are for. `PostingInv`, inductive relative to `IInv`,
says that the parameters are those of the request (`RequestInv`), which rows exactly are
staged at each statement (`ShapeInv`), that ids are used once (`FreshInv`) and that a
committed transaction has its two entries and its two events (`WholeInv`):
`DoubleEntry`, `OutboxMatchesLedger`, `AnswersAreTrue`. `MarkInv` says that a call that
reverses has its target locked, unmarked, until it commits: `ReversalUndoesOnce`. For
`NoWaitCycle`: only finitely many calls have started (an invariant of its own). In a
circle, nobody could wait at the insertion, so all wait for locks; of those that wait
for their second account, the one whose first account is the highest waits for an
account above it, which none of them holds. `NoOverdraft` is about sums. `Total` is a
recursive function over subsets, and the induction theorems of the library cannot be
used, so a statement about it is proved by its smallest counterexample: among finite
sets there is one (`WFMin`), and taking one entry away leads to a smaller one. In this
way `Total` of a finite set is shown to exist, to be an integer, and to add up over
disjoint sets, so a commit changes a balance by the entries it installs. The balance
that was compared is current (`BalanceIsCurrent`), the comparison did not wrap from zero
or more (`WrapFits`), hence the theorem `NobodyOverdraws`.

`BankProofs`: `ImplementsBank`. A call takes effect in `Bank` when its rows are
installed; every other step is a stutter or an answer that leaves the rows alone. By
`PostingInv` the rows that are installed are the rows `Bank` posts, for the committed
state of that moment: the balance is current, the key still unused, the target of
a reversal still unmarked.

`RelayProofs`: `TypeOK`, `NothingLost`, `CopiesNeedFaults` and the refinement
`ImplementsFeed`. `IInv` (module `RelayInvariant`) is a property of *sets* of events:
a set is gapless if every row about an account that precedes a member is a member
too or has arrived. A batch is gapless because it is a prefix of the unmarked rows and
marked rows have arrived; it stays gapless when rows are added (they come with
larger ids per account) and when events arrive, in order, from this batch or any
other. So every batch on its way, timely or late, can only announce the next
event of an account, whatever else is under way. That needs no lock at all: the
advisory lock saves repetitions, not the order. How many, is counted by `CopiesInv`:
the copies of an event that have arrived, those a copy of the relay sends or is
about to send, and those that are late, are together at most the faults, plus one
if nobody can read the event from the outbox any more.

`NotificationProofs`: `TypeOK`, `CommittedIsNotified`, `NotifiedInOrder`,
`RepeatsNeedFaults` and the refinement `ImplementsDelivery`. `IInv` (module
`NotificationInvariant`) says of each owner, present or past, that what precedes a
record it has polled is finished or polled by it too, so that the record at hand is the
first of its partition that is not finished. Then a commit covers only finished
records, and a first notification is the next one of its partition, for which the
events must keep to one partition (`KeyAssumption`). `LeaseInv` counts: the
publications of an event, and the copies that are about to publish it, are at most the
faults, plus one while its key is marked or under a lease of somebody at work.

`HubProofs`: `TypeOK`, `NoGapWhileConnected`, `WrittenInOrder`,
`CloseReasonIsTrue`. What a client was handed, together with the message that Send is
about to hand it (the client is in `targets` or `slow`), is an increasing sequence below
the next message (`OfferInv`), and a client that stays is registered (`ClientInv`), so
Send's copy of the set has it. An increasing sequence that has the numbers meant for the
client is all it was meant to get, in order and once; that is how
`NoGapWhileConnected` states it. For the close reasons, `ReasonInv` and `CutInv` are
inductive relative to that: a client that Send found full and unregisters is, at that
moment, one that has been handed everything except the message at hand (`SlowIsCutShort`,
from `NoGapWhileConnected`); it is out of Send's reach from then on, so what comes in
later is above the message it lost (`StaysCutShort`). A client whose write fails in the
meantime may lack a message in the middle, but its goroutine has left the loop and
tells nothing.

`ProcessProofs`: `TypeOK`, `CleanExitAnswersAll`, `DroppedOnlyWhenLate`. A server
that is no longer in the plan of the shutdown accepts nothing and has answered
everything, unless the shutdown itself has run out of time (`ClosedInv`): the failure of
another part, even of the server, does not matter. Unless api has failed to listen, a
process that exits has gone through the whole plan (`ExitInvariant`). Unless a part has
failed, nothing ends or is closed before the signal (`SignalInv`).

`HandlerProofs`: `ReaderTypeOK`, `WalkHasNoGap`, `OwnOperationIsShown`,
`BalanceMatchesHistory`, `ClientErrorIsFinal`, `PagesDescend`. The invariants of
the ledger hold behind the handlers as well. What a walk has shown, and what a page
on its way adds, has no gap down to the cursor (`ShownInv`, `PageInv`). Entries that are
committed meanwhile come above all of it, because the ids of an account become visible
in order (`VisibleInIdOrder`): the stretch stays gapless, the walk has begun above
what was known then (`KnownInv`), and a balance told before it stays the sum of the
entries up to an id that the walk has begun above (`HeardInv`, with the sums of
`PostingProofs`). For a 4xx: a call that was refused has posted nothing, and an id it
may have drawn belongs to no other call (`ResultInv`).

Only model-checked: the liveness properties (`EveryCallEnds`, `EveryWalkEnds`,
`EveryEventPublished`, `EveryEventNotified`, `DisconnectedLeaves`,
`EveryMessageReaches`, `NoHalfProcess`), because fairness is stated with ENABLED, which
is beyond the prover. What the four findings violate has no theorem, of course.

## Not modelled

* routing, JSON, headers, the wording of errors, logging and metrics: no control
  depends on them, except that what cannot be read is turned away (`TurnAway`), and
  that malformed payloads and missing event ids are cases of `Notification`. The
  health check has no state;
* the wiring in `main` and `run` before the goroutines start (an error there ends
  the process before anything has happened), and a second signal;
* the size of the connection pool: a statement that waits for a connection is one
  that has not been executed yet;
* configuration, running the migrations, deployment: no behavior of the program's
  own logic;
* the health of Redis, Kafka and PostgreSQL themselves: they lose nothing they
  have acknowledged.

## Plan

`Pipeline`, the composition of the abstract specifications (`Bank`'s outbox, `Feed`,
`Delivery` and what `Hub` promises): a posting is notified, in order per account.
The interfaces between the parts are there already: the outbox in `Post` of `Relay`
(`VisibleInIdOrder`), the topic in `Notification` (`ImplementsFeed`), the Redis channel in
`Hub` (`ImplementsDelivery`). Its theorem follows from the refinements, which are proved.
