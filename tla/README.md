# faststream-azure-servicebus in TLA+

A verification development of the Azure Service Bus broker for FastStream in
`src/src/faststream_azure_servicebus`.  The specifications are translated from
the code; the Azure SDK, asyncio/anyio and FastStream's base classes are modelled
as this code uses them.  TLC checks small instances, TLAPS proves the main
safety properties for every value of the constants.

## 1. Inventory

| part (source) | state | operations | talks to |
|---|---|---|---|
| `ServiceBusReplyReceiver` (`publisher/reply.py`) | `_receiver`, `_task`, `_running`, `_waiters` (correlation id -> future), `_start_lock` | `start`, `register`, `unregister`, `stop`, the task `_receive_replies`, `_dispatch` | client of the connection, reply queue, callers of `request` |
| `ServiceBusProducer` (`publisher/producer.py`) | `_connected`, `_reply_receivers` | `connect`, `disconnect`, `publish`, `publish_batch`, `request`, `_pack` | sender cache, reply receivers |
| `ServiceBusConnectionState` (`configs/state.py`) | `_client`, `_connected`, `_senders`, `_senders_lock`, a lock in each entry, `_probes` | `connect`, `disconnect`, `sender`, `_get_sender_entry`, `ping`, `register_probe` | SDK client and senders |
| `ServiceBusSubscriber` (`subscriber/usecase.py`) | `running`, `_receiver`, `_renewer`, `_read_lock`, tasks | `start`, `stop`, `_consume`, `_get_msgs`, `get_one`, iteration | queue, lock renewer, handlers, acknowledgement middleware |
| `ServiceBusConcurrentSubscriber` (same file) | buffer and workers of `ConcurrentMixin` | `consume_one` | the same |
| `ServiceBusMessage` (`message.py`) | `_receiver`, `committed` | `ack`, `nack`, `reject`, `defer`, `renew_lock`, `_settle` | receiver that holds the lock |
| subscriber configuration (`subscriber/config.py`, `factory.py`) | - | policy, receive mode, validation | subscriber |
| `ServiceBusBroker` (`broker/broker.py`, `configs/broker.py`) | `_connection` | `start`, `stop`, `publish*`, `request`, `ping` | all of the above |
| publishers and commands (`response.py`, `publisher/usecase.py`, `fake.py`) | defaults | destination and default resolution | producer |
| `TestServiceBusBroker` (`testing.py`) | - | routing of messages to subscribers in memory | subscribers |
| parser, destinations, registration, logging, AsyncAPI, telemetry | - | conversion and wiring | - |

What is hard here is asyncio: every `await` is a point where another task may
run, a timeout or a cancellation may strike, and where `broker.stop()` and
`broker.start()` may close and replace what the suspended task holds.  Locks of
the service expire while handlers run, calls fail after they took effect, and
messages are delivered again.  The list of hazards with their lines is in
`PROJECT.json`; what makes each part correct:

* reply receiver: every request gets exactly one outcome, its own; no entry, link
  or request is lost in the races of reply, timeout, link error and stop;
* sender cache: one sender per entity, none lost, none used by two publishes at
  once, no deadlock with disconnect, none outlives its connection;
* subscriber: one handler per worker, on a message that is its own, messages settled as
  their handlers ended, every message settled in the end, no task and no link left by a
  stop that `graceful_timeout` does not cut short;
* settlement: the first verb on the delivery that holds the lock decides;
* batches: in order, unmixed, all or a prefix, as few as possible;
* workers: no message twice on one link while its lock is renewed, the buffer released
  by stop;
* broker: a stop that runs to its end leaves nothing open whatever came before, except
  tasks whose handlers outlast `graceful_timeout`; a start after it serves everybody;
* publishing: the ways to publish make the same command, correlation ids survive a
  chain of handlers, and the test broker routes and settles as the service would.

## 2. Modules

| module | models | abstract specification / proofs |
|---|---|---|
| `RequestReply` | what `broker.request` promises its callers | abstract |
| `ReplyReceiver`, `MCReplyReceiver` | `reply.py`, `request`, `disconnect`, the reply queue | implements `RequestReply`; `ReplyReceiverProofs` |
| `SenderCache`, `MCSenderCache` | the senders of `configs/state.py`, publishes through them | `SenderCacheProofs` |
| `Subscriber`, `MCSubscriber` | `subscriber/usecase.py` with one worker, or with callers of `get_one` and iterations; settlement by policy; the queue | `SubscriberProofs` |
| `SubscriberConfig` | `subscriber/factory.py`, `subscriber/config.py` | - |
| `ConcurrentSubscriber`, `MCConcurrentSubscriber` | the same with several workers, made by `SubscriberConfig` | `ConcurrentSubscriberProofs` |
| `Settlement`, `MCSettlement` | `message.py` | `SettlementProofs` |
| `BatchPublish`, `MCBatchPublish` | `publish_batch`, `_pack` | `BatchPublishProofs` |
| `Lifecycle`, `MCLifecycle` | `connect`, `start`, `stop`, `ping` of `broker.py` over subscribers, reply receivers, connection and credential | composes the outer states of the modules above; `LifecycleProofs` |
| `Destinations` | `schemas/destination.py` | - |
| `Publishing` | `response.py`, `publisher/`, the publish methods of `broker.py` | `TestBrokerProofs` |
| `Parser` | `parser.py` | `TestBrokerProofs` |
| `TestBroker`, `MCTestBroker` | `testing.py` and `registrator.py`, running `Publishing` and `Parser` | `TestBrokerProofs` |

`ConcurrentSubscriber` EXTENDS `SubscriberConfig`; `TestBroker` EXTENDS `Parser`,
which EXTENDS `Publishing`, `SubscriberConfig` and `Destinations` in turn.

An action is what one task does between two awaits that can really suspend;
taking a free asyncio lock does not suspend, so it is part of the action that
takes it.  Actions are named for the operation they belong to; each definition's
lines are in the `map` of `PROJECT.json`.  Operators `Mut...` are plausible bugs
of the operator below them and appear in no specification: replacing the operator
by its mutant must break the property the mutant is listed for.

### ReplyReceiver

`broker` follows `ServiceBusBroker.stop` through its awaits: `join` the receive
task, `close` the receiver, `disconnect` the client.  `loop` is the program
counter of `_receive_replies`.  `pc[r]` is the caller: `publishing`, `waiting` for
the future, `unwinding` after its cancellation, then an outcome; `waiters`, `future` and `answer`
are `_waiters` and the futures.  `Receive(S)` locks any set of queued replies,
`Complete` is the service's side of `complete_message`, `Dispatch` what follows it
here.  `LinkFails` is any other exception; if it strikes after the service has
completed the reply, the reply is `lost` (`Vanished`).  `LockExpires` is the return of a reply to
the queue.  `StopBegins` cancels the task wherever it is; a task cancelled before
its first step never runs its `finally`.  `Id` gives each request its correlation
id, so requests may share one.  `receiver` is a string and not a Boolean only
because the SMT backend of the prover handles that better.

### SenderCache

`client` and `origin[s]` number the connections, `cache` is `_senders`,
`holder[s]` the lock of an entry, `disc` where `disconnect` is.  `Publish` covers
the fast path and the path under a free `_senders_lock`; `PublishWaits` and
`GetsSendersLock` the path where the lock is busy, with the second look at the
table.

### Subscriber

Every `start()` uses a new task of `Tasks` and opens a new link.  `sub` follows
`stop()`: waiting for `_read_lock`, draining handlers, closing.  `waiting[w]` is `w`
with those ahead of it in the queue of `_read_lock`, which is fair: with an unfair
lock `stop` could starve.
`NextMessage` is one turn of the `for` loop of `_get_msgs`: `consume()` drops the
message when `running` is off, the parser attaches the receiver of that moment.
`Registers` is `_register_for_renewal`: `renewing` has the messages whose locks the
renewer keeps, from their turn until `RenewalEnds` (`max_lock_renewal_duration`), a
settlement or the end of `stop()`.  Messages behind it in the fetch lose their locks
(`LockExpires`), and `TakenElsewhere` is another consumer that gets and settles what is
free again: the handler then runs on a message that is not its own any more.  `excused`
has the tasks to which that happened; everybody else `HandlesItsOwn`.
`HandlerEnds` picks the verb of the acknowledgement policy, `Settle` applies it if
the attached link is open and the lock is still held; `SettleFails` is every other error
of the SDK, after which the message stays locked and registered.  With `SlowStop` one stop may
reach `graceful_timeout` while a fetch or a handler is going on.

`calls` says whether the subscriber has handlers.  Without them there is no consume
task: the tasks are callers of `get_one` and iterations, which take `_read_lock`
themselves, do not look at `running`, keep their messages as long as they like and
settle them with any verb or none.

### SubscriberConfig and ConcurrentSubscriber

`CreateSubscriber` validates the arguments and derives policy, receive mode and
renewal, or is `SetupError`.  `ConcurrentSubscriber` starts from the subscribers it
makes for the `Scenarios` of a run.  `<<m, n>>` is the n-th delivery of message `m`;
`at` follows it from the fetched batch into the buffer, to the permit, through the
handler.  The buffer and the permits belong to the subscriber, the consume and serve
tasks to a start: what the buffer holds when a stop ends is met by the next start.
A message is renewed from `consume_one` on, until it is settled or `RenewalEnds`:
`max_lock_renewal_duration` also runs while it waits in the buffer or for a permit, and
`lapsed` has the copies that met its end.  A settlement may fail and leave the message
locked until then.  When the last delivery of an entity is given back, the message is
dead-lettered.  `faults` bounds how often something goes wrong: a stop that times out, a renewal
that ends under a waiting or running copy, a settlement that fails.

### Settlement

One message and its deliveries, numbered; `committed[d]` is the flag of the
`ServiceBusMessage` of delivery `d`.  `Call` is a method up to its await,
`Settles`, `LockLost` and `SettleFails` the ways the SDK answers.  Calls come in any order
and number on any delivery so far: the handler's, those of tasks it started and
the policy's, also after the lock was lost.

### BatchPublish

A message is its size, `Init` chooses the lists.  A batch is the messages `from..to`
of a list with the size that the SDK counts; a round of `_pack` is `Add` or
`Overflow`, its end `Packed`.  `Cuts` is the reference definition, over the prefix
sums `Total`: all ways to cut a list into pieces that fit.

### Lifecycle

`call` is the await that `start()` or `stop()` is at; `start()` may fail after any
number of subscribers and `stop()` be cancelled at any await of its own, after which
either is called again; `cut` says that one was and that none has run to its end since.
A subscriber is drained, or `graceful_timeout` ends the wait (`DrainTimesOut`): its tasks stay and
it is in `late`.  `running` decides whether such a task ends at the head of its loop
(`LeftTaskEnds`) or goes on, also after the next start.
Clients are numbered: `receiver`, `reply`, `probe`, `open` and `credentials` name the
client they came from, so that a stale one shows.  What happens inside a subscriber,
a reply receiver and the sender table is left to their modules.

### Destinations, Publishing, Parser, TestBroker

Names are sequences of the parts they were concatenated from, so that prefixes of
routers work as in the code; a value that AMQP turns into bytes says so, and
`Transfer` does it.  `TestBroker` runs an application: `stack` holds the open calls
from the code of the test through producer, handler and publisher, `exception` what
unwinds it: an error, or the n-th open call whose `fail_after` is over.  `sent` and
`deliveries` record what happened to each message.  The targets of a message are a
set, taken in the order in which their paths were registered (`Before`), as from
the dictionary in `_route`.  `WithFakes` adds a subscriber for each publisher nobody serves;
applications are those whose declarations were accepted (`ApplicationsAssumption`).

## 3. Runs

| run | instance | what it shows |
|---|---|---|
| `replies` | 2 requests with own ids, one reply each, 2 faults, ambiguous completions, 2 connections | `NoWaiterLeaks`, `OutstandingIsServed`, `NoLeakedLink`, `StopFailsOutstanding`, `AnswerIsOwn`, `FuturesSettleOnce`; liveness `QueuedReplyEndsTheWait`, `StopEndsTheWait`; refinement `ImplementsRequestReply` |
| `senders` | 3 publishes, 2 entities, 2 connections | `OpenSenderIsCached`, `SendsAreSerialised`; liveness `WaitingPublishEnds`, `DisconnectCompletes` |
| `consume` | 2 messages, 2 starts, prefetch 2, renewed locks, another consumer, one slow stop, one failed settlement or renewal that ends; or 3 calls of start, `get_one` and `__aiter__` | `OneHandlerAtATime`, `StopEndsTheLoop`, `HandlesItsOwn`, `SettledAsHandled`; liveness `EveryMessageIsSettled`, `StopReleasesTheBatch` |
| `workers` | 2 messages of up to 2 deliveries, 2 workers, 2 starts; without renewal, or with it and one fault | `NoDuplicateOnALink`, `StopEndsTheWork`; liveness `EveryMessageIsSettled`, `StopReleasesMessages` |
| `settlement` | 3 calls, 2 deliveries | `FirstVerbSettles` |
| `batches` | 2 calls, all lists of up to 4 messages, limit 2 | `SentInOrder`, `BatchesNotInterleaved`, `FewestSends` |
| `lifecycle` | 2 subscribers, 2 reply queues with a request each, 2 clients, 2 starts | `StopReleasesEverything`, `StartedIsServed`, `PingTellsUp`; liveness `StopCompletes` |
| `testbroker` | 2 applications (a pipeline with replies, a fan-out over a topic below a router), 2 calls, batches of 2 | `RoutedAsByTheService`, `CompletedMeansDone`, `CorrelationFollows` |

`replies`, `senders`, `consume`, `workers` and `settlement` also check `TypeOK`.
`TypeOK` of `BatchPublish` and `Lifecycle` is proved and takes no run.

Bounds.  `MaxStarts`, `MaxClients` and the number of `Tasks` allow a stop and a
restart, after which every part is back in a state it has been in; `MaxCalls` allows
either two callers over one start, one waiting for the lock behind `stop()`, or one
over two starts.  `MaxFaults` (and `faults` of a scenario) allows one failed settlement or
renewal that ends under a handler: it takes one to free a message that another task or
consumer gets; the renewal of a message that nobody handles always ends.  Two requests
are needed for one to take what belongs to the other; the second fault is needed
for an error during the recovery from the first.  A redelivered reply takes the
part of a second reply to a request.  Three publishes: two that race for the sender of one
entity and one that keeps the lock of the table busy for another.  Two messages
fill a fetch; the second delivery of a message is the one that may meet the first; three calls settle, overtake and come late.  Lists of four messages have every
pattern of full, overfull and last batch for a limit of two.  Under the test broker
a second call comes from inside a handler that the first one reached.  No run checks for
deadlock: a system whose calls have ended and whose broker is stopped rests.

Fairness.  `FairSpec` of each module assumes that the event loop runs ready
tasks, that awaited SDK calls end (a fetch within `max_wait_time`), that handlers end (in
`Lifecycle`, that `graceful_timeout` ends the wait for them), that the service returns
expired locks and that renewals end after their time.
It does not assume that publishes succeed, that responders answer, that callers
time out, settle or go on with an iteration, or that anyone starts or stops the broker.  `Subscriber` and
`ConcurrentSubscriber` need strong
fairness of the fetch: a fetch that could return a message again and again does so, although it may
fail now and then.  The loop's own sleeps (`BackoffEnds`) end because timers do.
`Lifecycle` assumes only that the awaits of a stop end; requests may wait for ever.
`TestBroker` has no liveness property: its calls may run without bound in a handler.

### Where the code disagrees with what is said of it

Each run checks one property, quoted from the repository, that TLC finds violated.

| run | what happens |
|---|---|
| `find_shared_id_stop` | `unregister` removes the waiter by id: the cleanup of an answered request removes the waiter of the next request with that id, which neither its reply nor `stop()` finds any more |
| `find_stale_sender` | a publish while `disconnect` awaits the close of the client caches a sender of that client, and the next connection goes on using it |
| `find_two_handlers` | `graceful_timeout` strikes while a fetch holds `_read_lock`: the consume task is not cancelled and after a restart two loops receive, two handlers run |
| `find_ack_first_workers` | `ACK_FIRST` given to the broker reaches a subscriber with two workers, which the factory refuses when the policy is given to the subscriber: the message of a handler that fails is gone |

Met while modelling and not given a run:

* a graceful stop drops the rest of a receive-and-delete fetch (`usecase.py:178`) and
  `committed` stays set when the settlement fails (`message.py:69`), so that a second
  `ack()` does nothing;
* `reply.py:139` calls a reply with a lost lock "already gone", though it is queued
  again and will come a second time (the loop copes: it finds no waiter then);
* `message.py:132` logs that the broker will redeliver the message also when the
  policy's `ack` follows a `defer()`, after which it does not;
* `start()` after a `stop()` that was cancelled finds `_connection` set, connects to
  nothing and starts its subscribers over a client that may be closed;
* a message of the SDK given to `publish` is changed in place, and `request` with one
  ignores the correlation id and `reply_to` of the command (`parser.py:149-153`);
* an iteration that meets `stop()` ends with an `AttributeError` on `None`;
* under the test broker a subscriber of a topic that fails keeps the message from the
  subscriptions after it, and `request` to a topic reaches the first one only.

## 4. Proofs

TLAPS checks, for every value of the constants that satisfies the named
assumptions (ids are a function on requests, null values are not members, bounds
are naturals):

* `ReplyReceiverProofs`.  `TypeCorrect` and `LinkSafety` rest on `Base`, which adds
  to the types which states of `loop` and `broker` go together (a stopped broker has no task,
  a task being cancelled has a broker that joins it): without that, a step of the loop could
  reopen a link after stop.  `WaiterSafety` and `SettleOnce` hold for shared ids
  too: an entry of the table always belongs to a call that is active and pending
  or done in time.  `OutcomeSafety`, `AnswerSafety` and `Refinement` assume
  `UniqueIds`, without which they are false (`find_shared_id_stop`), as does
  `ServedSafety` (a registered caller has a receive task or a stop to answer it): then
  an active call without an outcome is the entry of its id (`OutcomeInv`), and a
  resolved future holds a reply to its own request (`AnswerInv`).  The refinement is
  a case per action: each step is one step of `RequestReply` or a stutter.
* `SenderCacheProofs`.  `TypeCorrect`; `TableSafety`: open senders are cached and the
  senders still to close are the open cached ones, so that the table does not change under the
  iteration of `disconnect`.  Its inductive form `TableInv` is
  exact: while `disconnect` is closing, the open senders are the ones it has left to
  close, and at every other time they are the ones in the table.  `LockSafety`: the
  holder of a lock is inside the sender.
* `SettlementProofs`.  `TypeCorrect` and `FirstVerb`, by the invariant that a call
  which waits for the SDK is the one recorded in `committed`, unless it defers.
* `SubscriberProofs`.  The inductive invariant says who holds `_read_lock`
  (`LockInv`), that `tracked` has every consume task that has not ended and a
  subscriber without handlers has none (`TrackedInv`), that a task's message is
  apart from the rest of its fetch (`BatchInv`), that what is about to be completed
  was handled (`VerbInv`), and that a task which is not excused has a message that is
  registered and locked for it (`RenewInv`).  From it: `TypeCorrect`; `HandlerSafety` for
  `OneHandlerAtATime`, counting tasks through `tracked`; `StopSafety`;
  `OwnMessageSafety` for `HandlesItsOwn`, where `TurnRenews` and `TakenIsKept` say what a turn
  of the loop does to the renewer; `SettlementSafety`; and
  `FetchSafety`, that two tasks never fetch at once.  `PromptStopsKeepOneHandler`
  assumes `~SlowStop`: the receiver then never has two handlers, restarts included,
  which `find_two_handlers` refutes with one slow stop.
* `ConcurrentSubscriberProofs`, for any arguments that `create_subscriber` takes.
  `ConfInv` is what its validation leaves: at least one permit, and renewal only of messages that
  are locked.  `LinkInv` ties every open link to the
  receiver of the subscriber, `CopiesInv` deliveries to their count, `OwnerInv` says that
  only the last delivery of a message holds its lock, and `RenewInv` that with renewal a
  copy that did not lapse holds it from the fetch on: two copies on one link would both
  be the last one, hence `DuplicateSafety` (`NoDuplicateOnALink`).
  `StopSafety` follows from `TasksInv`, `FetchSafety` from `LockInv`.
* `BatchPublishProofs`, for lists of any length.  `PackOf`: the batches of `_pack`
  follow each other from the first message to the one before the current batch, each
  with the weight of its messages.  `BlockOf`: what the service has of a call is one block in
  list order, which a sending call continues.  `GreedyOf`: every way to cut the list
  so that the pieces fit has cut at least as often as `_pack` by the end of its last full
  batch; `Overflow` keeps it because a piece that
  held the whole batch and the next message would not fit.  Hence
  `OrderSafety`, `InterleaveSafety` and `PackIsOptimal` (`FewestSends`).  Prefix sums
  are a recursive function: that it is the sum (`TotalIs`) goes by a least
  counterexample, `Smallest`, from the well-foundedness of the naturals.
* `LifecycleProofs`.  `StopInv` says what `stop()` is past stays released however
  often it was cancelled or timed out before, `ServeInv` what a connection promises as long as no
  stop was cut short, `ClientInv` that there is one client, which every part names or none.
  `TypeCorrect`, `ReleaseSafety`, `ServiceSafety`, `PingSafety`, and `OneClient`: at most the current client and
  its credential are ever open.
* `TestBrokerProofs`.  About operators: `TestMessagesLookReal`: for
  a command with text headers, the message of the test broker parses to the same headers, identifiers
  and subject as the one that `encode_message` makes and AMQP carries; the headers
  come back because decoding undoes what the wire does to keys and values.
  `PublishingPathsAgree`: `publish()` of a publisher and the publisher as a
  decorator resolve destination, headers, `reply_to` and options alike.

  About the steps of `TestBroker`, for every application, `MaxCalls` and `MaxBatch`.  Its
  state is a stack of calls of any depth, a sequence of messages and one of deliveries, which refer
  to each other by number.  `ShapeInv` is the type invariant and what it needs: every
  call has one of three forms, and names a message, a delivery and a subscriber that
  exist; each handler's call is right above the call that delivers to it, and of the
  same message; and all the subscribers that `Init` makes, the fake ones of publishers too, consume a named
  queue or subscription (a recursive function over the registered ones, whose values
  are found by a least counterexample).  For each action one lemma (`PublishesDoes`, `BuildsDoes`, ...)
  says which calls stay, which message or delivery is added and what is
  marked; the proofs of `ShapeInv` and of the three others use these and not the actions.
  * `CorrelationInv` adds to `CorrelationFollows` the ids that are on their way: of the
    command of a reply that is being published, of the replies still to publish and of the
    answer that a handler holds.  A response that names no id gets that of the message
    handled, which is a message below on the stack: hence `Correlation`.
  * `RouteInv`: until `_route` is done with a message, the targets left and the
    subscribers that got it are together the targets it found and have none in common;
    no message is delivered twice to a subscriber.  Of the subscribers that consume one
    entity exactly one is a target (`TargetFor`: the first of a queue, the last of a
    path; two subscriptions have two paths, because topics and subscriptions have
    names: `PathsDiffer`).  Hence `RoutedAsInService`.
  * `DoneInv`: the messages made for a delivery, the one its handler is publishing and
    the replies left are at least the publishers of its subscriber; of the messages made, all
    but the one above on the stack are routed; of the deliveries of a message that is being
    routed, all but the one above on the stack ended well; and nothing of this is
    claimed of the innermost call once it raised, as `Unwinds` takes it away.  When a
    handler's call ends well all of it is done: hence `CompletedWasDone`, and
    `FailuresReachTheTest`: a publish that returned succeeded in every handler it reached, and
    so did the publishes of their results.  That no two calls are of one delivery is part of it.

Only model-checked: the liveness properties `QueuedReplyEndsTheWait`, `StopEndsTheWait`,
`WaitingPublishEnds`, `DisconnectCompletes`, `EveryMessageIsSettled` (twice),
`StopReleasesTheBatch`, `StopReleasesMessages` and `StopCompletes`, because fairness and
ENABLED are outside the prover.  Every other property of a passing run is a theorem.  The
refinement proof covers the safety specification of `RequestReply`, which has no fairness.

## 5. Not modelled

* Inside `ReplyReceiver` one reply queue; several are in `Lifecycle`.
* Two calls of `start()` or `stop()` of a broker at the same time, and a handler that stops its
  own subscriber (`StopConsume`).
* The cancellation of a subscriber's `stop()` by its caller is in `Lifecycle`, not in
  `Subscriber`; `graceful_timeout` is in both.
* Retries inside the SDK, which are part of a call here; sizes are units.
* `renew_lock` called by a handler; the verbs that a handler calls itself, outside
  `Settlement`: in the other modules the policy settles.
* `message_id` and header values other than text in the message that the test broker
  builds; no property is about them.
* Custom parsers, decoders and codecs; `include_router` and the route classes of
  `router.py`, which FastStream merges.
* Telemetry, logging, AsyncAPI, re-exports: no state of the broker.

## 6. Plan

Every safety property that a passing run checks is proved.  What is left to say about
the code, in this order:

* of the consume task, that a stop which runs to its end leaves no message of its batch
  unhandled and unsettled, as a safety theorem of `Subscriber` that needs no fairness;
* a link from `Lifecycle`, where a subscriber is one step of `stop()`, to `Subscriber`,
  where that step is a protocol.
