# fraud-guard in TLA+

fraud-guard takes transactions from a RabbitMQ queue, decides on each of them
under the fraud rules of a PostgreSQL table, stores transaction and decision,
and then acknowledges the message.  This directory specifies that, checks it
with TLC on small instances and proves the central facts with TLAPS for all
instances.  Paths in this file are relative to the repository (`crates/...`).

## The system

| Part | Source | State | Operations |
|---|---|---|---|
| AMQP task | `api/src/amqp/amqp_consumer.rs` | channel, consumer stream, where it is in its loop, backoff | declare, bind and consume, parse, take or reject a delivery, call the handler, carry out ack commands, back off and reconnect, be aborted |
| Consumer actor | `app/src/actors/consumer.rs` | `pending` tags, the command channel | `StartConsuming`, `StoreDelivery`, `AckMessage`, `on_stop` |
| Engine actor | `app/src/actors/engine.rs` | the snapshot of the rules | `UpdateRules`, `EvaluateTransactionRequest` |
| Sink actor | `app/src/actors/sink.rs` | none | `PersistResults` |
| Sink store | `storage/src/postgres/sink_repo.rs`, `storage/migrations` | two tables | `insert_transaction_and_decision`: up to three attempts, each one database transaction |
| Fraud rules | `domain/src/rule.rs`, `transaction.rs`, `decision.rs` | none | `validate`, `is_active_at`, `evaluate` |
| Rules cache | `app/src/rules_cache.rs`, `storage/src/postgres/rule_repo.rs` | the rules table | reload every interval, tell the engine |
| main | `app/src/main.rs` | how far startup or shutdown is | connect, load, spawn, start, ctrl-c, stop the actors one by one |
| Configuration | `app/src/config.rs` | none | read the environment |
| Other repositories | `transaction_repo.rs`, `decision_repo.rs` | the same two tables | two inserts and the history query, which nothing calls yet |

A delivery goes round in a circle: broker -> AMQP task -> (`StoreDelivery` to the
consumer, `EvaluateTransactionRequest` to the engine) -> engine ->
`PersistResults` -> sink -> store -> `AckMessage` -> consumer -> ack command ->
AMQP task -> broker.  Every arrow is a bounded queue, every send waits for room,
and a delivery is known all the way round by its delivery tag only.

What is hard about it, and what therefore has a property (the full list, with
lines, is under `hazards` in `PROJECT.json`):

* tags are used after the channel they belong to is gone;
* a circle of bounded queues can fill up;
* the tag must be known before the result about it returns;
* a tag settled twice closes the channel under everything in flight;
* a crash, or a shutdown, between any two of the steps;
* a COMMIT whose answer is lost, and what failed attempts leave at the server;
* rules read at one time, applied at another, to transactions of a third;
* the reload task, the consumer stream and the retry loop have to end, go on,
  or give up without anyone watching them;
* a handshake of six calls that may be cut short after any of them, on a broker
  where others declare and delete;
* a start that may fail after any step, with part of the tasks running;
* a message without a timestamp that is another transaction at each delivery.

## Modules

| Module | Models |
|---|---|
| `Messages` | the messages of the actors and the ack commands |
| `Broker` | external: the queue, its dead-letter queue and the one channel |
| `Mailboxes` | external: kameo actors, bounded mailboxes and the stop signal |
| `Pipeline` | the AMQP task, the three actors and main, on top of the above |
| `Delivery` | what the publisher of a message is owed: the abstract pipeline |
| `PipelineProofs`, `SettlementProofs`, `TrackingProofs`, `TagProofs` | proofs about `Pipeline`: types and shutdown; what is settled and the refinement of `Delivery`; that nothing is forgotten; tags and wait cycles on one connection |
| `Connection` | `run_consumer` with its backoff, and the handshake call by call |
| `Startup` | configuration, database, first load, actors and reload task, on top of `Connection` |
| `StartupProofs` | proofs about `Startup` and `Connection` |
| `Ledger` | what `SinkRepository` promises: the abstract store |
| `SinkStore` | `PostgresSinkRepository`, which implements `Ledger` |
| `SinkStoreProofs` | proofs about `SinkStore`, among them the refinement |
| `Rules` | rules, verdicts and decisions as operators |
| `Engine` | rules table, reload task and the engine's snapshot |
| `EngineProofs` | proofs about `Engine` |
| `Transactions` | the payload of a delivery, the transaction made of it, the tables behind the other repositories |
| `TransactionsProofs` | proofs about `Transactions` |
| `MCPipeline`, `MCEngine`, `MCTransactions` | instances for TLC, and a broker that keeps its order |

### Pipeline

One action is what a process does between two awaits; a handler that waits in
the middle is split there, and what it carries across the wait is in `hold`
(actors) or `hand` (the AMQP task).  `box` are the mailboxes, `commands` the ack
command channel, `pending` is `ConsumerActor.pending`, `task` says which await
the AMQP task is at, `abort` that `AmqpConsumer::stop` was called, `main` how far
the shutdown is.  A `job` carries, besides the tag, which message and which
connection it stems from; the code does not have that, and no guard reads it
where the code could not.  `crossed` and `erred` are history variables for the
properties.  What the engine decides and how storing works is left to the other
modules: storing succeeds, or fails with or without the rows being there
(`InsertFails`), which is what `SinkStore` shows an Err to mean.  Nothing in the
pipeline reads the tables back, so a commit that comes late is not told from one
that comes at once.  `UpdateRules` only takes a place in the engine's mailbox for
a while and is in `Engine` instead.

Choices made in the abstraction: `ready` is a set, so requeued messages may come
in any order (RabbitMQ puts them back near the head of the queue; every order it
can produce is among those checked); the handshake up to `basic_consume` is one
step that succeeds or fails, and the sleep is over at any time (`Wake`): both are
`Connection`'s subject.  A `tell` to an actor that has taken its stop signal but not finished may
succeed or fail.  An ack or nack on a dead channel is an error the code discards;
one of an unknown tag closes the channel.  When a connection is lost after the
broker has cancelled the consumer, the model lets the task notice and reconnect;
a stream that has ended would not even tell it that.

### Delivery

The specification of the whole, without queues, tags, channels or processes: a
message is stored, any number of times; its handling or storing fails, any
number of times; and at most once it is settled, by an ack if it is stored, by
dead-lettering if it cannot be read or has failed.  The one way out is named:
`Mistake` settles any message, and records it in `stray`.  `Pipeline` implements
it with the database for `stored`, the dead-letter queue for `dead` and
`crossed` for `stray` (`KeepsDelivery`).  The mapping is on variables the
program has, but for the two history variables; every other step of the
pipeline, a crash included, leaves the five alone.  What the refinement says
beyond the invariants is that nothing is settled twice: a message that was
acked or dead-lettered never comes back into the queue.

### Connection and Startup

In `Connection` each call of `connect_and_consume` is a step, answered if the
broker can be reached and has what the call is about; otherwise the Err leads to
the sleep.  The broker goes away and comes back; someone may delete the exchange
or the dead-letter queue; and the work queue may have been made by someone else,
without the dead-letter arguments, which `queue_declare` refuses until it is
removed.  `backoff` is `run_consumer`'s, in seconds.  Its reset to 1 is in the Ok
arm, and `connect_and_consume` has no way to return Ok, so no action resets it.

`Startup` has the awaits of `main` up to the service, each of which ends the
process with its Err; the task of `Connection` begins with the actors, and the
reload task is spawned last.  `RULES_REFRESH_INTERVAL_SECS=0` is a valid
configuration that makes `tokio::time::interval` panic; with `panic = "abort"`
in the release profile this ends the process, after it has begun to consume.
The environment is the process's own: a change of it counts from the next start
on.  Shutdown is in `Pipeline`.

### SinkStore and Ledger

`phase` is the statement the call is at, `mine` its session, and `session` what
the server knows of each session: the rows inserted but not committed, and
whether a COMMIT has reached it.  A failed attempt, or a crash, leaves the
session as it is.  The server later aborts it, or still carries out a COMMIT
that was on its way; meanwhile an INSERT of the same key waits.  `Ledger` has an
entry per transaction, made once, and an Ok only for a transaction with an entry,
not necessarily with the contents of the request: a second message with the same
`transaction_id` is answered Ok and dropped (`ON CONFLICT DO NOTHING`).  One
caller is modelled because the sink actor handles one message at a time;
several instances of the program on one database are not.

### Rules and Engine

`Rules` translates the query, `is_active_at`, `validate`, `evaluate` and the
three decisions; reasons and codes in texts are left out, a Review lists the
rules themselves.  JSON params are a record with the field the rule's type asks
for, or without it.  In `Engine` the table changes and time passes at any moment,
a load and the telling of it are separate steps, and rules and transactions share
the engine's mailbox.  The loop over the rules awaits each of them, so an
evaluation takes a step per rule, on the rules the engine has at that step;
`work` is what the handler has in its locals meanwhile.  That no `UpdateRules`
comes in between is due to the actor alone, which handles one message at a time
(`Handles`).  With every load its time and the table it was made from
are kept as history, for `DecisionJustified`.  That the engine waits for the sink
within a handler is `Pipeline`'s business: here its step may just come later.

### Transactions

The text of an account or an id is what it means and whether it is spelled as the
program would spell it: a padded account and a UUID in another form are not.
`AccountId::new` trims and keeps the trimmed text, UUIDs are parsed, and the
history query compares texts.  Currencies are spelled out: `CurrencyOf` are the
arms of `FromStr` and `CurrencyText` those of `Display`, two tables that have to
agree.  A timestamp that is missing or that chrono cannot hold becomes the time
of the delivery.  `Request` is what `parse_delivery` returns, `RowOf` the row an
INSERT makes of it, `ReadBack` what the history query makes of that row.  A
delivery that does not parse changes nothing here; that it is nacked is in
`Pipeline`.  `Store` is a delivery that goes all the way to the sink store, whose ON CONFLICT DO
NOTHING keeps the first row; `InsertTransaction` and `StoreDecision` are the
repositories' own inserts, which fail on a key that is there, or a foreign key
that is not.  A failed statement changes nothing and is no action.

## Runs

| Run | Question | Bounds | Distinct states |
|---|---|---|---|
| `pipeline_safety` | six invariants and `Delivery` under every fault | 3 messages (one does not parse), mailboxes of 3, commands of 2, one connection per process | 0.9 M |
| `pipeline_reconnect` | what survives reconnection, `Delivery` included | the same, two connections, failed inserts and lost connections | 5.0 M |
| `pipeline_progress` | what it takes to wait in a circle; nothing else holds up a message or the shutdown; nothing is refused before it | 4 messages pushed in order, all queues of 1, failed inserts and ctrl-c | 229 k |
| `sink_store` | tables paired, `Ledger` implemented, the call returns | 2 transactions, 2 contents, 2 sessions | 127 k |
| `engine_decides` | decisions are justified | 6 rows, 3 transactions, mailbox of 2, 2 moments, 1 edit | 2.5 M |
| `engine_refresh` | rules in order, catching up, ending | 3 rows, 1 transaction, mailbox of 2, 3 moments, 1 edit | 78 k |
| `startup` | consuming only under rules and with a dead-letter path, the backoff, and getting there | intervals unset, 0, 30 or not a number, 1 change of environment or database, 1 deletion | 78 k |
| `transactions` | one row, read back as received, and found | 8 payloads of 2 ids and all currencies, 3 moments | 318 |
| `stale_ack` | finding 1 | 3 messages pushed in order, 2 connections, no fault but lost connections | violated |
| `wait_cycle` | finding 2 | 4 messages, all queues of 1 | violated |
| `stream_end` | finding 3 | 1 message | violated |
| `backoff_reset` | finding 4 | as `startup` | violated |

Why these are enough: two messages that parse already meet in every queue and
order, a third is rejected beside them; crash and restart need no bound, as
only broker and database survive them.  One connection per process separates the
facts that hold from those finding 1 breaks; two are the fewest in which a tag
is given out again.  In `pipeline_safety` and `pipeline_reconnect` the queues
hold what is in flight, so that order is explored and not waiting; in
`pipeline_progress` they are as small as can be, so that every send may have to
wait, and the four messages are enough for finding 2's wait cycle: it comes about
in this run, before ctrl-c and after it, and with as few as the three unsettled
deliveries that `BlocksOnlyUnderBacklog` allows.  The process really stops then,
so this run does not check for deadlock: the liveness properties say instead that
everything goes on unless there is such a cycle.  Two sessions are one for the attempt and one left behind; the proof
covers more.  In `startup` one change suffices for every start to fail for one
reason and succeed after, as the initial environment, database and broker are
arbitrary; one deletion can hit between any two calls; after seven failures the
wait stays what it is (`Enough`).  In `transactions` the payloads are one of
each currency, in two pairs that share an id, with and without a timestamp and in
plain and odd spellings, and one of each kind that does not parse; three moments are the fewest with
two adjoining windows on either side of a delivery.  Symmetry over the messages that parse is used in runs without
liveness.  `engine_*` turn off the deadlock check: when engine and reload task
have ended, nothing is left to do.  In `Pipeline` the states in which nothing is
left to do are spelled out (`AtRest`), and any other state without a step is an
error.

### Properties

* `AckedIsPersisted`, `DeadLetteredForCause`: what the broker is told about a
  message is true of that message.  With more than one connection they hold but
  for the messages in `crossed`: `SettledOnOwnResult`.
* `AckNeverIgnored`: the order of the two tells in `handle_transaction` gets the
  tag into `pending` before the result arrives.
* `CommandsAreSettleable`: no command is about to close the channel.
* `NoDeliveryForgotten`: each delivery the open channel waits for has something
  on its way to settle it.
* `DecisionsStoredAtExit`: consumer, engine, sink is the order in which nothing
  is lost.
* `RefusesOnlyWhenStopping`: before ctrl-c a full mailbox makes the task wait and
  no delivery that parses is dead-lettered for want of an actor.  After it some
  are: the task goes on taking deliveries until its abort takes effect.
  (`DeadLetteredForCause` counts that as a failed handling.)
* `NoWaitCycle` is what finding 2 breaks.  `BlocksOnlyUnderBacklog` says what it
  takes: at least `CommandCap + 2` deliveries taken and not settled, which a
  prefetch limit would exclude.  `EverySettled`, `ShutdownCompletes`: nothing but
  such a cycle keeps a message from being settled, or main from its exit.
* `KeepsDelivery`: the pipeline implements `Delivery`.
* `ConsumesUnderRules`, `DeadLetterReady`, `BackoffCounts`, `RefresherGuards`:
  what a start and a handshake, interrupted anywhere, have established by the
  time it matters; `Serves`: in a world that is in order they come to their end.
* `FirstStays`: redelivery at another time changes nothing; `FoundByAccount`,
  `HistoryFaithful`, `WindowsJoin`: what is stored is read back as what was
  received, once, by its account, however it was spelled.
* `PairedRows`, `KeepsLedger`, `CallReturns` for the store.
* `DecisionJustified`, `SnapshotsInOrder`, `CatchesUp`, `RefresherEnds` for the
  rules.

Each property of a passing run has a mutant of the code (listed in
`PROJECT.json`) that violates it.

### Findings

1. `stale_ack`.  Commands and results carry the delivery tag only, and outlive
   the channel it was given out on.  m1 is acked; m2 is stored and its Ack(2)
   queued when the connection is lost; m2 comes again with tag 1 and m3 with
   tag 2; the task carries out Ack(2) on the new channel, and m3 is acknowledged
   before anybody has looked at it.  If the process then stops, the transaction
   is lost.  The run lets the broker keep its order (`OrderedSpec` in
   `MCPipeline`), as RabbitMQ does with one consumer.
2. `wait_cycle`.  The AMQP task waits for room in the consumer's mailbox, the
   consumer for room in the command channel, which the task empties only in its
   select loop.  No prefetch is set, so a backlog is enough: 100 deliveries in
   the command channel, one in each pair of hands, and 32 whose `StoreDelivery`
   and `AckMessage` fill the mailbox of 64, 134 in all.  The last place may
   also be taken by the stop signal, and then ctrl-c does not end the process.
   `pipeline_progress` has the same queues, goes into such cycles, and shows that
   nothing else holds anything up.
3. `stream_end`.  When the broker cancels the consumer the stream yields None.
   The select branch is disabled, the loop goes on waiting for commands, and the
   `else` branch needs a closed command channel, whose sender the consumer actor
   holds.  The reconnection announced for this case does not happen.
4. `backoff_reset`.  The log line "Consumer disconnected, reconnecting in 5s" and
   the reset of the backoff are in an arm that is never taken.  A connection that
   has worked for days is reopened only after the wait that all failures since
   the start of the process add up to, up to a minute.  What holds instead is
   `BackoffCounts`.

### Fairness

`Pipeline`: tokio runs every task that can make progress, so each process's
steps are weakly fair; `select!` picks among its ready branches at random, so
stream and commands are fair each for itself.  The broker pushes what it has and
a connection succeeds if tried again and again (strong fairness of `Connect`).
No fault is fair.  `SinkStore`: the call and its sleep go on, and the server ends
every session left behind, at the latest when it finds the connection dead (the
code sets no statement timeout, so this is what it relies on).  `Engine`: the
interval ticks and loads do not fail for ever (strong fairness of
`LoadSucceeds`, as failures may alternate with successes); a waiting tell gets
the next place in the mailbox, since senders queue in order (strong fairness of
`Tell`, as transactions take places too).  `Startup`: each task of a process that
can go on does, the sleep of the backoff ends, and a process that has failed is
started again (weak fairness of each).  Nothing says that broker, database or
environment get better; `Serves` is about the behaviours in which they do.

## Proofs

Every invariant, action property and refinement of the passing runs is a theorem.
They hold for every value of the constants, from the named assumptions in the
modules: capacities are positive, `Parsable` is a subset of `Msgs`, the bounds
are numbers, the amounts of transactions and rules are integers, the times in
the payloads are times of the clock.  What a theorem assumes beyond that is in
its ASSUME: `MaxConn = 1` for the five that commands left over from an
earlier connection (finding 1) break.

`Pipeline`, in four modules that build on each other:

* `PipelineProofs`: `TypeCorrect` (`Spec => []TypeOK`).  The inductive invariant
  `TypeInv` adds to `TypeOK` that the task's state fits its hand (`HandInv`):
  without it `TellStore` could send a mail without a job.  And `NoDecisionLost`:
  an actor stops only between two messages (`NoneHeld`); main comes to the sink
  only after the engine has stopped (`SinkLast`); so the sink's stop signal is,
  and stays, the last message of its mailbox (`StopLast`).
* `SettlementProofs`: `OwnResult`, and from it `AckAfterCommit` and
  `DeadLetterCause` for `MaxConn = 1`.  The inductive invariant follows a result
  round the circle: every mail that says Ok or Ack is about a stored message,
  every one that says Err or Nack about one that failed (`Justified`), and every
  job is about a message that parsed and, on the open connection, also in the
  AMQP task's hand, names the message that has its tag (`Placed`).  So a command
  for it settles just that message, while only one of an earlier connection can
  hit another, which `crossed` records.  `SettledInv` adds what has been settled
  so far.  With a single connection no command is of an earlier one and `crossed`
  stays empty; a crash starts with empty queues.
  Then the refinement `PipelineKeepsDelivery`, for any number of connections: a
  message is in one place, in the queue, under one unsettled tag of the open
  channel, or gone (`OnePlace`), so whatever is settled is settled for the first
  time; and commands are acks and nacks (`CommandsOnly`).  Drained commands are
  `Ack`, `DeadLetter`, `Mistake` or nothing, a rejected delivery is `DeadLetter`,
  a failing handler `Refuse`, or `Fail` if its channel is gone, and the two
  outcomes of storing are `Store` and `Fail`.
* `TrackingProofs`: `NothingForgotten`, for any number of connections.  That
  something carries the tag is not inductive: the consumer drops an AckMessage
  of a tag that is not pending, and the result of an older channel can take out
  a tag that has been given out again.  The invariant `AllFollowed` therefore
  follows a delivery only where its tag will be known: with the engine or the
  sink as long as the tag is pending or its Store mail is in the consumer's
  mailbox; in the AckMessage, if that Store mail comes before it; or in a command.
  Whoever takes the tag out of `pending` makes a command of it, whichever
  delivery it was meant for, so the follower changes but there is always one.
  And `RefusedInShutdown`: until ctrl-c no actor has stopped or been asked to
  (`NoStops`), so no tell of the task fails.
* `TagProofs`: `ResultsAreHeeded`, `CommandsDoNoHarm` and `BacklogBlocks`,
  for `MaxConn = 1`.  No tag is in two places (`Unique`): a handler only moves
  it, and the task gives the engine one that was nowhere (`HandFresh`).  So the
  open channel waits for every tag on its way (`TagsAwaited`), whoever settles
  one settles it for the first time, and the consumer knows each tag until its
  own AckMessage is handled (`TagsKnown`).  A circle of waiting processes has to
  go through the consumer, which waits for the task; then the commands, the
  consumer's hold and the task's hand are `CommandCap + 2` different tags, and no
  tag on its way or in the task's hand is settled, also after the channel has
  broken (`WayUnsettled`).  So the task has taken as many deliveries that are not
  settled: 102 in the code.  Finding 2 needs still more, as the mailbox has to be
  full too; the theorem counts no Store mails.

The other components:

* `SinkStoreProofs`: `RowsArePaired`, the types and the refinement
  `StoreKeepsLedger`.  The inductive invariant `StoreInv` says what each session
  holds uncommitted: at most one row, of a key no table and no other session has
  (`SessionInv`), and in pairs once a COMMIT may be on its way; and how far the
  call's own session is in each phase (`CallInv`).  A COMMIT carried out is then
  `Record` or a stutter, and the Ok is `Confirm`.
* `StartupProofs`: `TaskRunsUnderRules`, `DeadLetterQueueReady`,
  `BackoffFollowsFailures` and the types.  The inductive invariant says what main
  has established at each step (`Established`), what the handshake has
  (`Declared`), and that the task sleeps only after a failure (`Counted`), since
  the delay is that of the failures before.
* `EngineProofs`: `RulesNeverGoBack`, `DecisionsAreJustified` and the types.
  Snapshot, mailbox from its head on, and reload task hold loads in the order of
  their age (`InOrder`), so what the engine takes next is never older than what
  it has.  In the middle of an evaluation the engine has the rules it began with,
  and has collected just those that trigger among the ones it has been through,
  in their order (`PicksFrom`, in `WorkInv`); at the end of the loop that is what
  the load calls for.
* `TransactionsProofs`: `RowsAreFound`, `RowsReadBack`, `FirstRowStays`,
  `HistoriesJoin` and the types.  A row comes only from a message that parses,
  under an id that has none (`RowsInv`); its currency is read back because
  `FromStr` inverts `Display` (`CurrencyReadsBack`), its accounts because they
  were stored trimmed (`AccountReadsBack`).  A history is a list of the rows of a
  window, oldest first; the two windows have no row in common, and all rows of
  the one are older.

Only model-checked: liveness (`EverySettled`, `ShutdownCompletes`, `CallReturns`,
`CatchesUp`, `RefresherEnds`, `RefresherGuards`, `Serves`), as fairness and
ENABLED are beyond the prover; and the four findings, which are counterexamples.

## Not modelled

* Logging and the texts of reasons and errors.
* The time between the commit of a row and its reading, to the microsecond:
  PostgreSQL truncates the nanoseconds of a timestamp that was made up by the
  process.  No property compares times that closely.
* A ctrl-c before its handler is in place: the process ends like a killed one,
  which `Startup` has.
* The Ok arm of `run_consumer`: it cannot be reached (finding 4).
* `delivery_mode` and the like, which are the publisher's; the programs that
  publish are tests.
* Several instances of the program on one queue or one database.
* A work queue deleted during the handshake by someone with the right to;
  `Pipeline` has it deleted under a consumer, as a cancellation.

## Plan

Done: `Pipeline`, `SinkStore` implementing `Ledger`, `Rules` and `Engine`;
`Pipeline` implementing `Delivery`; `Connection`, `Startup` and `Transactions`;
proofs of all their invariants, action properties and refinements.

Left: the sharp bound of the wait cycle, which counts the mails in the consumer's
mailbox as well (`BacklogBlocks` gives 102 deliveries, the deadlock needs 134); and a composition in which the pipeline's store is
`SinkStore` with several instances of the program on one database.
