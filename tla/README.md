# Verification of blokli-client

TLA+ models of the Rust client for Blokli's GraphQL API, TLC configurations
that check them on small instances, and TLAPS proofs of their main invariants
for every instance. `PROJECT.json` maps every definition to the lines it stands
for and lists runs, mutants, findings, hazards and theorems. Paths below are
relative to the repository.

## 1. The system

A `BlokliClient` sends GraphQL queries and mutations, one HTTP request each, and
keeps subscriptions alive over server-sent events. The subscriptions hold most of
the state; queries and transactions hold the locals of a call, but the index and
the chain move on between its requests.

| Component | State | Operations | Talks to |
|---|---|---|---|
| Health tracker (`client/src/health.rs`) | status, counters, instants, the `lagging` flag, start of the outage | `connected`, `transport_activity`, `data_update`, `problem`, `lagging`, `caught_up`, `reject`, `stalled`, `end`, drop | called by the hub under its lock; the application reads the latest snapshot, kept behind a mutex |
| Subscription hub: slots and supervisors (`client/src/client/subscription_hub.rs`) | slot entries, their `isolated` and `resync` marks, weak tokens of the running tasks, a generation counter in a watch channel | `register`, `deregister`, `request_resync`, `isolate`, `ensure_supervisors`, `run_supervisor` with `prepare`, `drive` and `wait_before_reconnect`, `end_connected` | application threads (polling streams), one task per connection, all through one mutex |
| Hub: delivery (`deliver`, `poll_next`, `resume_after`) | a bounded channel and an atomic flag per slot, the resume cursor | deliver, drop, drain, move away, replay | a task and a consumer on different threads, without the mutex |
| Hub: dispatch (`dispatch`, `route`) | locals of a frame in progress | route a frame by alias, deliver its parts, feed the health, isolate what fails | the health of all slots on the connection |
| Combined documents (`build_connection` and the text functions) | none | rewrite several operations into one document | `prepare` |
| Reconnect delays (`next_malformed_event_delay`, `rejected_retry_delay`, config) | the last delays, the debounce, the stall deadline | double up to a limit, wait, gather changes, mark stalled | `run_supervisor`, `drive`, `prepare`, `wait_before_reconnect` |
| Subscription API (`subscriptions.rs`, `mod.rs`) | none | variables of an operation, shared or dedicated hub, cursor of the channel graph | hub |
| Queries (`queries.rs`) | the shared HTTP client; requests, cursor and block of a call | check, build, send, pages, join by safe | HTTP, Blokli's index |
| Transactions (`transactions.rs`) | locals of a call | submit in three ways, track until a final status or a timeout | HTTP, a dedicated hub, the chain |
| Answers (`api/v1/graphql/`, `errors.rs`) | none | the union of an operation and what each member becomes | queries, transactions |
| Selectors (`api/v1/mod.rs`) | none | what a caller selects, as variables and as filters | queries, subscriptions, the test client |
| Inspector (`inspector/src`) | locals of a command | options to selectors, the overview of a node, interruption | the client |
| Test client (`client/testing/mod.rs`) | an in-memory chain state behind a lock, broadcast channels | queries, subscriptions, mutations that simulate transactions | tests of other crates |
| Test server, integration fixtures, build | | fixtures | |

How the parts interact: the first poll of a stream registers a slot. Some thread
finds that a connection has slots and no task, takes its token and spawns one.
The task waits until the set of slots is stable, builds a document with one
alias per slot, opens the request and drives it. Every change of the slots is
published in a watch channel, *after* the lock is released; tasks that see a
change decide whether their document still fits. A slot whose part of a frame
fails, or whose consumer lost events, is moved to a connection and task of its
own. Ended slots lose their entry, which drops a sender of their channel; the
stream ends when the last sender is gone.

What is hard here, and why each component is right or wrong:

* Supervisors: a task exits exactly while a subscription registers; a change is
  made under the lock and published outside it; tasks die with their runtime.
  *Right if* no registered slot is left without a task, no stale connection
  sleeps through a change, requested replays come, unused connections close.
* Delivery: the queue drops while the consumer drains it; the flag and the queue
  are separate; the cursor moves with the consumer. *Right if* a gap is visible,
  a visible gap is repaired, and nothing else is ever missing.
* Dispatch: the shared connection dispatches a frame while slots of it move,
  leave, or are fed by their own connections. *Right if* one slot's refusal is
  told to it, once, and ends by its own traffic only.
* Test client: every stream is a copy of the state and the broadcasts heard
  since; transactions change the state and broadcast under one lock, other
  callers do not. *Right if* a stream that hears all shows the state, and a
  transaction that failed left no trace.
* Connection: delays double and are reset by different signs of life, a wait may
  end early, several documents become one. *Right if* a server that refuses is
  not asked faster than it should be, silence is told within a bound, and each
  subscription gets the answer to its own document.
* Queries: the index grows between the pages of a listing and between the
  requests that are joined. *Right if* an answer is what the index held at one
  block since the call, a join leaves nothing out that was there all the time, and
  the call ends.
* Transactions: an answer is lost, a submission is deduplicated, tracking gives up.
  *Right if* what the caller is told agrees with the chain, and a refusal means
  that nothing is out.
* Health: the status answers to calls in any order. *Right if* a lag is never
  hidden, the counters and the outage are those of the current outage, a refusal
  is yielded once per episode, an end is final.

The hazards with their lines, and the properties that cover each, are listed in
`PROJECT.json` under `hazards`.

## 2. Modules

| Module | Models |
|---|---|
| `HealthTracker` | the record `SubscriptionHealth` and the methods of `HealthTracker`, as pure operators on it |
| `Health` | one tracker, driven by every call the hub can make, over time |
| `Supervision` | which task drives which connection |
| `Delivery` | how the events of one subscription reach its consumer |
| `Feed` | abstract specification: the consumer sees every change in order |
| `Dispatch` | what one frame does to all subscriptions of a connection; composes the trackers of `HealthTracker` with queues, moves and resynchronisation |
| `TestClient` | the in-memory client for tests: transactions, streams, trackers |
| `Documents` | the documents of subscriptions, and the one that the hub combines them into: operators |
| `Connection` | one supervisor in time: its documents, delays, debounce and stall deadline; composes `Documents` |
| `Selection` | what a caller selects, in its four forms: options of the inspector, selectors, variables, filters of the test client: operators |
| `Answers` | the unions of answers, their errors, and what the client makes of each: operators |
| `Reads` | abstract specification: a query answers with what the index held |
| `Queries` | every query of the client, request by request, against an index that grows; composes `Selection` and `Answers` |
| `Transactions` | submission and tracking by callers that may be interrupted; composes `Answers` |
| `MCSupervision`, `MCDispatch`, `MCTestClient`, `MCConnection`, `MCQueries` | symmetry for TLC; the keys, documents, worlds, questions and fixtures of the instances |
| `HealthProofs`, `SupervisionProofs`, `DeliveryProofs`, `DispatchProofs`, `TestClientProofs`, `TransactionsProofs`, `QueriesProofs`, `ConnectionProofs` | theorems |

The four hub modules cut the same file along different planes, so that each
stays small enough to check: `Supervision` has the tasks and locks and nothing
of the events, `Delivery` every atomic step between a task and one consumer,
`Dispatch` several slots and the parts of a frame, `Connection` the time and the
documents of one task. What one abstracts another takes apart.

### HealthTracker and Health

An operator per method. `SaturatingInc` stands for `saturating_add` with the
width of the counter as a constant (`MaxFailures`, `MaxConnections`), so the end
of the range is reached. `Instant` is a natural number or `Never` for the
`Option`s that are `None`. `Health` lets the hub call the methods in every order
it can; `Tick` is the clock. History variables (`workingAt`, `brokenAt`,
`aliveSince`) are not read by any action; they say when the subscription last
showed a sign of life while it worked and when it was first seen broken.

### Supervision

An action is one critical section of the hub's mutex or one step of a task
between two awaits. `pc[s]` is where the supervisor of scope `s` is; `"off"`
means that the weak token in the state does not upgrade. `toPublish` and
`toEnsure` hold callers between the lock and the rest of `publish_generation`
and `ensure_supervisors`, `moving` those between the two halves of
`request_resync`. The watch channel is `notified`: receivers with an unseen
change. The `biased` select of `drive` is the guard `s \notin notified` of
`ItemArrives`; its mutant drops it. `carried` is the snapshot a task works with,
and at the same time the senders it keeps alive (`StreamEnds` waits for them).
`Faults` says what may go wrong: documents that cannot be built, requests that
cannot be opened, payloads that move a slot, runtimes that are dropped. `Slow`
limits which consumers may let their queue fill. `lost` becomes true when tasks
die with their runtime and false when anyone calls `ensure_supervisors`: until
then the code has no task that could notice, and the properties say so. A
dedicated hub is one slot that never isolates and is left to `Delivery`.
`StaleConnectionIsWoken` excepts one case (`EndedByFormer`): `end_connected` and a
request that cannot be built end slots without publishing, so a slot that moved
and is then ended by its former connection leaves its own connection in `drive`,
with no slot in the hub and nothing to wake it, until the stream is dropped.

### Delivery and Feed

The server numbers its changes. A connection brings them in order from where it
started: after the cursor (`"log"`, the channel graph), from the beginning
(`"history"`), or the latest value (`"state"`). Entries without a cursor, which
the graph sends at the start of a snapshot, are left out. `hand` is the event a
task is delivering, `step` how far `deliver` is on the shared connection (queue
found full; flag set; health told), `consumer` how far `poll_next` is (event
taken; cursor advanced; queue found empty; flag swapped; `resync` set; moved).
Rebuilds and failures happen at any time; backoff is abstracted. That a task
hears of `resync` is taken from `Supervision`
(`StaleConnectionIsWoken`, `ResyncHonoured`) as the fairness of its steps.
With `Dedicated` the hub has this subscription only, `deliver` always waits, and
the run shows that `Delivery` implements `Feed`.

### Dispatch

A frame is what it says under each alias (`absent`, `null`, `good`, `bad`), the
aliases with errors of their own, and whether there are errors of no alias.
`Routed` is `route` followed by the one read of the live slots; `work` holds the
locals of `dispatch` while it goes through the parts. Shared and own connections
do so at the same time. What one part does (delivery, health, isolation) is one
step; `Delivery` and `Supervision` take those apart. A refusal whose error has
to wait for room on an own connection is one step when there is room. There is
no clock (`Now`), so any deadline may have passed (`DeadlinePasses`).
`ConnectionFails` stands for transport errors and for frames that do not parse
or are void. All slots are registered from the start.

### TestClient

`state` is `BlokliTestState` as a table of collections: accounts, channels,
safes, services, service types, the balances and allowances (one collection, for
they are treated alike), and the two that have one entry. `active` is
`active_txs`. An absent entry has the value `Absent`, so that "removed" is a
value like others, and a consumer is the table it rebuilds. `Events` is the
difference that `simulate_tx_execution` broadcasts: which entries, what counts
as a change of them, in which order of kinds, how many times. Accounts have a
part that is announced (`safe`, which stands for the safe and the addresses) and
one that is not (`rest`).

The mutator is the user's closure: `Mutated` lets it fail in two ways or return
any state within the bounds. `Execute` is the critical section under the write
lock, `Subscribe` the one under the read lock, `Activate` the activation that
some streams make after it, `WriteTicketParams` and `BroadcastTicketParams` the
two halves of `update_price_and_win_prob`. The channel is external
(`async_broadcast`): a message is kept until its slowest live receiver took it,
hence one inbox per stream and `Room` for all. The sleeps of
`submit_and_confirm_transaction` and `track_transaction` come before anything is
read, so both are one step.

`excuse` is history: for each stream and key, why the last change of that key
will not show, if it will not. The properties say which excuses each kind of
stream may have; no excuse, no difference. Handles are clones: whether
`use_internal_txs` is on is chosen per submission.

### Documents and Connection

A document is a sequence of tokens, and a string literal is one token, whatever it
holds; `string_literal_len` is what makes it one. Two variants take a literal for
a bracket or a reference, as code that goes by characters would. `BuildConnection`
is `build_connection`; `AnswerTo` and `OwnAnswer` are Blokli: what it answers
under an alias of the combined document, and what it would have answered the
slot's own. `WellFormed` is what cynic writes: an operation with the variables it
is given, and no prefix yet. `Connection` assumes it of every subscription whose document
can be split; one that cannot be split stops its supervisor.

`Connection` is `run_supervisor` of one scope: `pc` is where it waits
(`"debounce"` is the inner wait of `prepare`), `timer` and `patience` what is left
of the wait, `delays` the two that double. Steps of the supervisor are taken
before time passes: `Tick` is enabled only when it waits or reads its stream,
which is the `biased` select again. A supervisor that a slot moved to starts in
`"wait"`, with the delay its cause asks for. The health of a slot is reduced to
what it shows and how long it has been silent; one that moves here may bring any
silence up to the threshold (`Arrivals`). A connection of one subscription
(`Waits`) awaits `send`: in `"delivering"` and, for the error of a refusal, in
`"telling"` it watches neither changes nor the stall deadline, and time passes
for as long as the consumer likes or until it is gone. `resync` is the request
for a replay that makes an own connection reconnect. `past` is history: why the
last wait began, when, whether a subscription joined since, how many failures in
a row. There is one supervisor per behaviour; a slot that moves away leaves it.

### Selection, Answers, Queries and Reads

`Selection` has each selector four times, as the project has it: the options of
the command line (`AccountArgs`, `ChannelArgs`, ...), the selector, the variables
of the operation (`AccountVariables`, ...), the filter of the test client
(`AccountMatches`, ...; `DoubleOperations` are the operations that have one). Key ids keep their width: `AsI32` and `AsU32` are the casts.
Options that the command line requires are not enforced by the model, which tries
every combination. `Answers` has the union of every operation with its errors,
and in `SchemaUnions` the schema that the client is written for.

In `Queries`, `call[c]` has the requests of a query still to send, in flight and
answered; `Following` says what a reply leads to: the next page at the block of
the first, the safe and its accounts behind a filter by safe, the second and
third round of the inspector's overview. `client` is `query_client`, a cell that
several callers may fill at once and another task may have filled before. Blokli
(`Selected`, `ReplyTo`) is external: it selects the items that meet every
variable given, and its pages end with its index; for a server that always returns
another cursor the code has no bound. `Reads` is what a caller may rely on, and `Queries` implements it
(`ImplementsReads`).

What the module assumes of its constants: a question is an operation with a
selector of its type (`WellFormed`; the types of `api/v1/mod.rs` and `queries.rs`
admit no other); a state of the index has finitely many items, key ids within the
schema's `Int`, no channel from a node to itself, one safe at an address (the code
takes the first of a reply, `queries.rs:26`), and services with ids of their own
(`WorldOk`); and a key id, once given, stays with its chain key (`KeysStay`). The
last is about Blokli, whose ids are rows of its index: a join and the overview ask
by key id in a later request for what an earlier one named, and could mix up two
nodes otherwise. `MaxInt` is at least 1, and `Null` is no number.

### Transactions

`flight[c]` is the submission of a caller and then the answer to it, whether the
caller still waits for it or not; `tracked` and `chain` are Blokli's status and
what the network did. Blokli and the chain are external, and may do whatever the
unions and statuses of `txs.rs` can express: refuse, deduplicate, fail before or
after the broadcast, answer in a way a newer Blokli might. Tracking sees the
current status at any time, as the dedicated subscription delivers it (`Feed`);
every status it passes over in between does not matter to it.

## 3. Runs

| Run | Checks | Shows |
|---|---|---|
| `Health` | `TypeOK`, `LagIsVisible`, `FailuresCountTheOutage`, `RecoveryReportsTheOutage` | the tracker is right under every sequence of calls |
| `Supervision` | `TypeOK`, `NoOrphan`, `StaleConnectionIsWoken` | no slot without a task, no stale connection without a wake-up (one case excepted) |
| `SupervisionLive` | `Served`, `ResyncHonoured`, `SharedConnectionCloses` | what must happen does |
| `SupervisionTermination` | `EndedStreamTerminates`, violated | finding 1 |
| `Delivery` | `TypeOK`, `ShownLagIsFlagged`, `OnlyDropsAreMissing`, `GapIsShown` | a slow consumer loses only what was dropped, and it shows; a shown lag has its flag up or its repair begun |
| `DeliveryDedicated` | `ImplementsFeed` | a dedicated subscription sees everything in order |
| `DeliveryLag` | `LagEndsInReconnect`, violated | finding 2 |
| `Dispatch` | `TypeOK`, `ToldOncePerRefusal`, `RefusalEndsByOwnTraffic` | refusals stay between a slot and its own traffic |
| `TestClient` | `TypeOK`, `LockedStreamsMissNothing`, `OtherStreamsMissOnlyTheGap`, `TicketParamsSettle`, `ToldOnceAndTruly`, `NoTransactionLost`, `RevertLeavesNoTrace` | what each stream of the test client may miss and what submissions leave behind |
| `Queries` | `TypeOK`, `DoubleAgrees`, `ErrorsToldApart`, `OptionsRestrict`, `ImplementsReads`, `CallsEnd` | answers are of one block or joined from later ones, the test client selects the same accounts, channels, services and safes, errors and options keep their meaning, calls end |
| `Transactions` | `TypeOK`, `RefusedMeansNotBroadcast`, `IdsAreTracked`, `VerdictsAgree`, `TrackingDecides` | callers are told the truth about transactions, and tracking ends with any final status |
| `Connection` | `TypeOK`, `DocumentsCombine`, `SilenceIsTold`, `RetriesArePaced` | each subscription gets its own answer, silence is told within a bound (but while `send` waits for a consumer), retries keep their pace |

`Connection` checks for deadlock: its time never stops. The other runs say
`CHECK_DEADLOCK FALSE`: those systems may stop, because counters are bounded,
every consumer may leave, or nothing is left to deliver or to ask.

Bounds, and why they are enough:

* `Health`: time up to 4 with a threshold of 2 leaves room for an outage, a
  recovery and a second outage, each with or without a stall; counters saturate
  at 2, so the last value, the one before and the reset are all met.
* `Supervision`: two subscriptions are the least that share a connection, move
  apart and leave one of them stale in the other's document. Slots are never
  registered twice (identifiers are not reused), so two slots bring three scopes.
  `MaxStale` is 0 there and 1 in `SupervisionLive`, which keeps a leaver in the
  document; the constant in the code is only compared with a count.
  `SupervisionLive` restricts faults and slow consumers, because a fault ends the
  obligations that the liveness properties state, and runs without symmetry,
  which is not sound for liveness.
* `Delivery`: a queue of two can be full, half drained and empty; four changes
  are two beyond it, so an event can be dropped and later ones queued before and
  after. One loss or malformed payload on top. The proofs lift all three bounds
  for the safety properties.
* `Dispatch`: two slots, a queue of one, three inputs (frames, refusals,
  failures or silences): enough for a refusal on the shared connection, one on
  the own connection and one frame between or after them. Keepalives,
  acceptances and ends of connections are not bounded.

* `TestClient`: two streams of the same collection (streams of different ones
  share nothing but the lock), channels of capacity 1, two calls that change the
  state, each of at most two entries. That is a change before and one after any
  step of a stream, an overflow by one transaction or by two, an entry put in the
  place of another, a channel with one account missing, a transaction refused by
  one collection after it changed another, and two racing updates. The theorems
  lift the bounds on streams, capacities, transactions, updaters and calls, for any
  fixture. What a mutation may touch stays as it is in `Mutations`, but the proofs
  use only that a mutator returns a state.

* `Queries`: one caller, for callers share nothing but the HTTP client, and
  another task that may fill the cell first (`Elsewhere`). An index of up to three
  blocks, out of three worlds in any order, so that entries appear, change and go
  between any two requests; pages of one entry, so that a listing of three has
  three pages; `MaxInt` is 7, so that key id 9 wraps; an overview asks for one
  account at a time, which gives the index most time to change in between. The
  questions are one of each kind of operation and filter.
* `Transactions`: two callers with the same intent or with two, which is what
  deduplication needs; every mode, status and failure. The proofs lift the bounds
  for the safety properties.
* `Connection`: one subscription that resumes and two whose documents have a
  variable of the same name, one with literals that look like a bracket and a
  reference; ids join in order, as the code gives them. Every delay is one or two
  ticks and the limit three, so that a delay doubles, is cut and stays; one
  setting never restarts. `MaxQuiet` (7) is more than the bound in `SilenceIsTold`
  can be with three slots and restarts; longer silences are not told apart, and
  no more than three failures in a row, by which time the delay is at its limit.

Fairness: `SupervisionLive` and `SupervisionTermination` assume that threads are
scheduled (each caller and each task takes its next step), that consumers keep
polling once they started to, and that delays pass. `Delivery` assumes the same
of its two tasks and its consumer. In `Queries` a request that was built is sent, and is answered or fails (the HTTP
client has a timeout); in `Transactions` a submission is answered or fails, and
tracking gets the status there is. It is weak fairness throughout. Nothing else is
assumed of the server: no event need arrive, no connection need fail or end,
and no consumer need come or leave. Tokio schedules woken tasks, sleeps end, and
a poll that returned `Pending` is woken by the channel it waits on; a consumer
that stops polling is outside any promise of the program and appears as a queue
that stays full.

Every property of a passing run has a mutant in `PROJECT.json`: a definition
changed the way a plausible bug would, under which TLC finds the property
violated.

## 4. Findings

1. *A stream that ended may not terminate* (`subscription_hub.rs:612`, against
   `mod.rs:86`). With restarts off, a slot moves to its own connection, whose
   response ends. The entry is removed, but the targets of the shared connection
   still hold a clone of the sender, and nothing makes that connection rebuild.
2. *A lag can go unnoticed by its consumer* (`subscription_hub.rs:346` and
   `699-702`, against `health.rs:165-167`). `try_send` finds the queue full; the
   consumer drains it and looks at the flag; then the flag is set. No reconnect
   follows until another event is taken. `ShownLagIsFlagged` says what holds: the
  health shows a lag only while the flag is up or a repair has begun.

Disagreements between the code and its documentation that need no run to see:

* A lagging subscription that stalled stays `Stalled` while traffic arrives
  (`health.rs:311`), though the doc of `Stalled` says that nothing does (`110-111`).
* The cursor of the channel graph passes changes that were dropped
  (`subscription_hub.rs:252-261`): the replay after a lag starts behind the gap,
  against `subscriptions.rs:179-180`. A refusal is noted as told before its error
  is queued, and a full queue loses it (`subscription_hub.rs:1043`, against
  `health.rs:118`). `OnlyDropsAreMissing` and `ToldOncePerRefusal` say what holds
  all the same.
* Mutations that remove anything are not allowed by `testing/mod.rs:317`, but the
  checks (`1424-1459`) compare counts, so one entry may take the place of another,
  and safes are not checked at all. `OtherStreamsMissOnlyTheGap` admits the stale
  entries that follow (`"removed"`).
* A subscription to channels ignores the safe of its selector
  (`graphql/channels.rs:63-68`, against `api/v1/mod.rs:189-190`), also for the
  inspector's `subscribe channels --safe-address`; `OptionsRestrict` excepts it.
* `query_services` accepts a selector of all services, as does the inspector
  without an option, where the docs ask for a type or a node
  (`api/v1/mod.rs:255-258`, `inspector/src/queries.rs:117`).
* The inspector's two addresses of a module are required and exclude each other
  (`inspector/src/queries.rs:95-105`).
* The union of `channels` lacks the `InvalidAddressError` that the schema has
  (`ErrorsToldApart` excepts it).
* Where the test client differs from the client, and `DoubleAgrees` claims nothing:
  it answers `query_accounts` without a filter, and `query_channels` likewise, where
  the client refuses to ask; it answers `NoData` to redeemed statistics by node
  (`testing/mod.rs:896-898`), of an unknown safe (`878-880`) and to a balance or an
  allowance that was not set (`828-866`), and invents statistics of zero, and a
  count of zero, where it has none (`853-854`, `884-894`); it ignores the token of a
  balance (`836`); it predicts the address of a module by a hash of its own
  (`925-933`); of Curvy it has no events and no data (`689-813`). Of
  `query_channel_stats` the number of channels is compared, their balance is not.
* A dedicated or own connection waits in `send` for a consumer that does not take
  its events (`subscription_hub.rs:694-697`), and the stall deadline is only watched
  between events: a subscription whose queue is full may show that all is well for
  as long as nobody reads it. `SilenceIsTold` excepts that wait.
* `submit_and_confirm_transaction` returns the receipt without a look at its
  status: `VerdictsAgree` claims for it only that the transaction went out.

Races in the models without a run: between the
two critical sections of `end_connected` a slot may move away and still be
ended, and a payload that the shared connection holds while a slot moves can be
delivered behind the replay of its own connection. Not in the list of hazards, which
keeps to what matters most: an end that `Drop` reports over another reason
(`health.rs:497`, excluded by `EndIsFinal`), a document that cannot be built ending
slots that moved away meanwhile (`subscription_hub.rs:746`), a receiver that is
created after the first change (`532`), `request_resync` reaching `tokio::spawn`
without a check for a runtime (`274`), and, in the test client, a selector by safe
that filters with old accounts (`testing/mod.rs:1073`) and a listing of live
services under two locks (`1004`).

## 5. Proofs

TLAPS proves each listed theorem for every value of the constants; assumptions
are the named ASSUMEs of the modules (finite sets of slots, positive capacity,
thresholds and bounds that are natural numbers, a `Null` that is none of the
values, those of section 2 for `Queries`, and well-formed documents for `Connection`),
which TLC evaluates in the runs. There are no further assumptions, but for the four
theorems about combined documents, whose hypotheses are about the arguments of
`BuildConnection`: that the documents can be combined, and that they are well-formed,
or what follows from it (`PartsApart`): root fields refer to variables which are given,
and texts are sequences of tokens without a prefix.

* `HealthProofs`: `TypeCorrect`; `LagStaysVisible`, `FailuresCounted`,
  `RecoveriesAreHonest`, and two that no run repeats, `RefusalsYieldedOnce`,
  `EndIsFinal`. Lemmas state what
  each method does to a well-typed tracker; the invariant adds to the properties
  how the start of the outage relates to the history (a recovery is honest only
  if `outageSince` lies between the last sign of work and the first sight of
  trouble all the time, not just when it is reported).
* `SupervisionProofs`: `TypeCorrect`, `NoneForgotten`, `NoWakeupLost`, for any
  finite number of subscriptions. `NoOrphan` is inductive with the types: every
  action that could orphan a slot leaves a call of `ensure_supervisors` owed.
  `StaleConnectionIsWoken` is not; `IInv` adds that only polled slots are
  registered and that the connection of a moved slot carries that slot alone, so
  that its document goes stale by a requested replay or because its slot is gone.
  The stream of such a slot was dropped, which is published, or its former
  connection ended it, which is not: that case the property excepts.
* `DeliveryProofs`: `TypeCorrect`, `LagIsFlagged`, `OnlyDropsMissing`, for every
  capacity, number of changes and number of losses. `LagInv` adds that a task
  delivers only while it is connected, and that between the flag and the health
  the flag is up or its repair has begun. Neither says that a raised flag is looked
  at again (finding 2). `OrderInv` says where the changes are:
  what the consumer got, what is queued, held, in hand of a task or still to
  come on a line follow each other, with nothing but dropped changes between.
  `DedicatedIsFeed` is the safety half of `ImplementsFeed`: under the refinement
  mapping, every step of `Delivery` with `Dedicated` is one of `Feed` or a stutter; like the
  run, it leaves out subscriptions that restart at the latest value (`"state"`).
* `DispatchProofs`: `TypeCorrect`, `RefusalsToldOnce`, `RefusalsEndByOwnTraffic`,
  for any number of subscriptions and frames. The first rests on `ToldIsRefused`:
  whoever was told and has shown no sign of life since has a tracker that says
  `Rejected`, for which no refusal is news. The second needs `WorkInOrder`: what
  is left of a frame belongs to slots of the document that have not failed in it,
  and nothing is left of a frame that is done. What a report does to a tracker
  is stated by lemmas about the methods it calls.

* `TestClientProofs`, for any fixture and number of transactions, streams and
  changes. `TrackedOnce`, `RevertIsWhole`: `IInv` says that a transaction that still
  waits to be tracked was told to nobody and will tell the truth; a mutator may take
  client transactions out of `active_txs` but not invent their outcome. `NoneLost`:
  `Counted` compares the cardinalities of what is active, what was told and what was
  submitted, step by step, since no action says which transaction took the place of
  which. `TypeCorrect`, `LockedComplete`, `OthersMissTheGap`, `ParamsSettle`: the
  invariant `StreamsInv` says of every open stream that each difference between
  what it will show and the state has a reason that this kind of stream may have
  (`Allowed`), or that an update of the ticket parameters is still to be broadcast
  (`Announced`). What a stream will show of a key is decided by the last event of that
  key in its inbox, which takes the fold out of the argument (`ReplayShows`,
  `TailShows`). `EventsReport` says what of a change is broadcast, `AcceptedFits` what of
  it fits, and `ApplyExcuses` and `BroadcastHeard` put the two together.

* `TransactionsProofs`: `TypeCorrect`, `RefusedNotBroadcast`, `IdsTracked`,
  `VerdictsTrue`, for any callers and intents. `IInv` relates four places: a
  submission that Blokli has not handled is unknown everywhere (`AnswerOk`); a
  refusal in flight leaves it so for ever, and a success names a tracked
  transaction of the same intent; a final status fits the chain (`MonitorOk`); and
  what a caller was told rests on an answer or on a final status (`CallOk`). It is
  stronger than the properties because the caller may be gone, or late, when Blokli
  and the chain move. `ReceivedTells` and `VerdictTells` say what the client makes
  of every member and every status; the six ways of Blokli to handle a submission
  share one lemma (`HandlingKeeps`), and so do the five steps of a caller
  (`ReachingKeeps`).
* `QueriesProofs`, for any callers, questions, states of the index and page size.
  `AccountsSelected`, `ChannelsSelected`, `ServicesSelected`: for items and selectors
  of any content and key ids of any width, the variables of a selector fit what the
  filters of the test client match; they rest on `CastsInvert`, the two casts of key
  ids being inverse to each other. `TypeCorrect` is by an invariant that adds that a
  call which asks has found a client, so that nobody can put another in its place.
  The rest is built on one invariant, `Asking`: of every call that asks, it says
  what was asked, answered and is left, by the kind of the query. A listing has the
  pages up to its cursor, at the block of the first, whatever came after
  (`PageIsPrefix`, `PagesReply`); a join by safe has its channels, then the safe, then
  the accounts of some of its nodes (`JoinReply`, `JoinEnds`); an overview is before its
  source, among the three requests about it, or among the accounts at the other ends
  (`OverviewSends`, `OverviewGrows`, `OverviewReply`). From it follow
  `AgreesWithDouble` (with `DoubleSelects`: at one block the client and the test
  client select the same accounts, channels, services and safes) and `KeepsItsPromise`, the refinement `ImplementsReads`:
  `NextSeen` maps every step of `Queries` to a step of `Reads` or a stutter.
  `ErrorsApart` goes through the unions of all root fields, and `OptionsNeverLost`
  through all commands of the inspector: which selector its options become, which
  variables the selector, and that what is given stays. There the code takes the
  first branch that fits, so the models use IF chains where branches overlap.
* `ConnectionProofs`, for any finite set of subscriptions, any documents and any
  delays. `TypeCorrect`, with `Covering`: as long as no change is pending, the
  snapshot that a document is made of has all that live. `RetriesPaced`: `Backoff` ties
  the delays to the failures in a row, of which the code keeps no count, and
  `Pacing` says that what is left of a wait makes up for what is owed; powers of two
  double because subsets do (`PowerDoubles`, by `FS_SUBSET`). `SilenceTold`: `Silence`
  gives every live subscription that looks fine a budget of silence, the threshold,
  one restart, and one gathering for each change that a supervisor gathered anew; no
  bound holds without counting those, because each change reopens the debounce. That
  is for a shared connection (`Watched`); one of a single subscription (`Attended`)
  gathers nothing (`Alone`), and owes the threshold and one wait except while it
  delivers (`OwnSilence`), a time that has no bound and that the property excepts.
  `PartMeansTheSame`, `VariablesStayApart`, `TargetIsOwnName` say what combining does to
  the part of one slot, `CarriedAlike` what Blokli makes of the whole document, and
  `DocumentsCombined` that every open connection was asked for with such a document.
  `WellFormed` is what is assumed of a document that can be split
  (`DocumentsAssumption`): words, definitions in brackets that balance, a selection to
  the end, and that Blokli accepts it on its own. From there, in four steps:
  `PartsOfOperation` and `PartsApart` show that `split_document` cuts such a document
  where Blokli sees its parts, whatever its literals hold; `FlattenHolds` is an
  induction over a concatenation (by the least number that a property fails for,
  `LeastNatural`), with which `FlattenParts` says where each slot's tokens are, the
  slots being in ascending order (`IdsInOrder`); `BalancedFlatten` that definitions
  one after the other still end at the bracket that closes them, so that Blokli
  sees the selection where `build_connection` put it; and `DefinitionsFound`,
  `FieldsFound` that each alias, definition and reference of the whole is that of
  one slot, from which acceptance (`CombinedChecked`) and the answers
  (`CombinedAnswer`) follow.

Only model-checked: the liveness properties (`Served`, `ResyncHonoured`,
`SharedConnectionCloses`, `GapIsShown`, `CallsEnd`, `TrackingDecides`) and the liveness
half of `ImplementsFeed`, since fairness and ENABLED are out of the prover's reach.
Every invariant and every action property of the runs has a theorem.

## 6. Not modelled

* Characters: documents are tokens, and addresses, hashes and keys are values; the
  functions that spell or parse them (`Hex32`, `Uint64`, hexadecimal prefixes) are
  left out, but for the error that a value does not parse.
* The fields of items, which conversions copy one by one, `Display`, logging, the
  tables and JSON that the inspector prints, and the wording of errors.
* The SSE client's own backoff between its own retries, HTTP, TLS and headers.
* Of the test client: two queries that write a default value, selectors of streams
  that look at values (the status or the safe of a channel), simulated policy
  refusals, and the getters of the state. Mutators do not rewrite the status of
  active transactions, and hidden updates leave them alone.
* The SSE test server, the integration tests and the build: fixtures.
* The server: modelled from how the code uses it, as far as its replay, its
  selection and its answers go.
* Panics, poisoned locks (the code recovers the guard), and polling a stream
  outside a Tokio runtime after it was registered inside one.

## 7. What could be added

* The composition of `Connection` with `Supervision`: several supervisors in time.
* The health that an application sees as an abstract specification, implemented by
  `Dispatch`.
