# Virgil Spring Boot Starter in TLA+

Virgil lets an operator look at a RabbitMQ dead letter queue from Spring Boot
Admin: see its size, list its messages, drop one or all of them, republish one.
RabbitMQ has no operation to look at a message or to pick one out of a queue.
The starter gets both by fetching messages without acknowledging them,
acknowledging the one it was asked for, and closing the connection so that the
broker puts the others back. This directory models that protocol, checks it on
small instances with TLC, and proves its main properties with TLAPS for any
number of threads, queues and messages. It also models what stands around the
protocol: the tab an operator works in, the configuration the operations look
up, and the settings that expose the endpoints to the tab.

Java paths below are relative to
`src/main/java/com/indeed/virgil/spring/boot/starter/`.

## The system

| Part | State it keeps | Operations | Talks to |
|---|---|---|---|
| `services/MessageOperator` | none between calls; a call keeps its handler (list, flags) | `getQueueSize`, `getMessages`, `dropMessages`, `ackCertainMessage`, `republishMessage` | cache, configuration, naming, broker |
| `services/RabbitMqConnectionService` | three thread-local maps: binder to connection factory, admin, template | `getReadAmqpAdmin`, `getReadRabbitTemplate`, `destroyReadConnection` | configuration, broker |
| `services/DefaultMessageConverter`, `MessageConverterService`, `util/VirgilMessageUtils` | a digest per thread | `mapMessage`, `generateFingerprint` | |
| `config/VirgilPropertyConfig` | queues and binders read at start-up; each queue remembers the binder it found last | `getQueueProperties`, `getBinderProperties`, `getQueueNames` | |
| `config/VirgilPropertiesEnvironmentPostProcessor` | none | exposes the endpoints at start-up | Spring environment |
| `endpoints/*` | none | one per operation, and the list of queues | `MessageOperator`, configuration |
| user interface (`src/npm/custom/src`) | per view: queue list, current queue, size, listed messages | list, drop, republish, drop all, switch queue | endpoints, by asynchronous requests |
| RabbitMQ (external) | queues, deliveries, connections | get, ack, publish, purge, declare, close | |

The servlet container runs calls on many threads at once. In the process they
share only the queue settings, which every lookup writes (the maps are
thread-local); but they share the queue: each fetch hides a message from
everyone else until the fetching call is over. A view is a single thread of
JavaScript, but its handlers are asynchronous: each sends a request and goes on
when the answer comes, with whatever the view holds by then.

What is hard here:

* **Interleaving.** Two scans of one queue split its messages between them; a
  purge misses what a scan holds; the size leaves it out.
* **Partial failure.** A scan can end by a conversion error, a broken
  connection or a failing broker call at every step, with messages fetched and
  frames sent. Republishing acknowledges before it publishes.
* **Unconfirmed frames.** Acknowledgements and publications have no answer and
  are lost with the connection.
* **Stale state.** Queue size read once, ids recomputed at each fetch, cached
  admins and templates; in the view, answers stored under a queue that is no
  longer selected, and rows of messages that are gone.
* **Ordering.** Answers overtake each other on their way to the view; property
  sources hide each other.
* **Retries.** A click whose request failed at the view may still take effect
  when the next one is under way.
* **Liveness.** Everything fetched must come back, however the call ends, and
  every handler of the view must end.

What makes each part correct: the cache closes exactly the connection a call
fetched by and never another thread's, and leaks none; the operator gives back
everything it was not asked to remove, removes only what was asked for, and
answers truthfully; ids let a later call find the message; a lookup of the
configuration never mixes two brokers; the user interface shows the list and the
size of the queue it says it shows, and removes nothing its users did not click;
what users set in their own configuration stays in force.

## Modules

| Module | What it is |
|---|---|
| `Connections` | the set of connection factories and the absent one |
| `RabbitMqConnectionService` | the connection cache; its operators are the steps `MessageOperator` is built from, and `ConnSpec` is the cache called in any order |
| `VirgilMessages` | ids and fingerprints as functions of a delivery |
| `RabbitMQ` | the broker as the code uses it (external) |
| `MessageOperator` | the five operations on threads, composed with the cache and the broker |
| `DeadLetterQueue` | the abstract specification: requests, and the messages they remove or copy |
| `MessageSearch` | what a call is bound to find: `MessageOperator` with a memory of what was there when the size was read |
| `VirgilUI` | the views: handlers, requests in flight, and answers chosen freely |
| `VirgilConsole` | the views over the queues: requests are served by threads that do what `DeadLetterQueue` allows |
| `VirgilPropertyConfig` | the lookups of queues and binders, by threads that share the result |
| `VirgilEnvironment` | the post-processor over the property sources |
| `EndpointService` | the URLs the view asks for; no state |
| `VirgilExtension` | from property sources to the endpoints that serve the view's requests |
| `MC...` of each | instances for TLC |
| `RabbitMqConnectionService_proofs`, `MessageOperator_proofs`, `MessageOperatorDelivery_proofs`, `MessageOperatorAnswers_proofs`, `VirgilPropertyConfig_proofs`, `VirgilUI_proofs`, `VirgilConsole_proofs`, `VirgilExtension_proofs` | theorems |

Two chains connect them. `MessageOperator` composes the cache, the naming and the
broker and implements `DeadLetterQueue`; `VirgilConsole` composes the views with
`DeadLetterQueue` and implements `VirgilUI`. So what is proved of the console
holds of views over the real operations, as far as the two abstractions agree
(the answers: see `VirgilConsole`). `VirgilExtension` composes the post-processor
and the URLs, on either side of Spring Boot Admin. `VirgilPropertyConfig` stands
alone: it shows why `MessageOperator` may take the results of lookups as
constants.

Operators commented as a *slip* are deliberately wrong variants of the
definition that follows them. No specification uses them: they are what the
properties are tested against.

### RabbitMqConnectionService

`cachingConnectionFactoryLookup`, `amqpAdminLookup` and `rabbitTemplateLookup`
are the fields of that name; an entry that is not in the map is `NoFactory`. An
admin or a template is represented by the factory it wraps.
`GetConnectionFactory`, `GetAmqpAdmin`, `GetRabbitTemplate` and
`DestroyConnectionsByName` are the methods; `DestroyWithoutTemplate` is the
exit of the last one by the `NullPointerException` of line 149.
A new factory is any one that no map and no open connection refers to, so
`Factories` bounds only how many are alive. `connected` is the one addition: a
`CachingConnectionFactory` connects when first used and disconnects in
`destroy()`.

### RabbitMQ

`msgs` is the history of messages that ever reached a queue; the position is
the identity and the age. A message that still exists is `ready`, `unacked` on a
connection, or `orphaned` (unacked on a connection that broke, until the broker
notices). `wire` holds, per connection, the acknowledgements and publications
the broker has not read. `BasicGet` takes the oldest ready message, an orderly
close first lets the broker read the frames (the guard of `Finally`) and then
returns what is unacked, marked as redelivered; `BreakConnections` loses the
frames. Frames of one connection are read in the order they were written, also
when they were written on two of its channels.

### MessageOperator

A thread is at a step `pc`: `idle`, `size` (about to read the queue size),
`template` (before the loop of drop and republish), `purge`, `loop` (about to
fetch), `ack`, `send`, `finally`, `unwind` (the finally block, with an
exception propagating), `returned` (about to write the response). `call` is the
request, `left` the iterations left in the loop, `held` the message that
matched, `done` the handler's `messageFound` or `messageRepublished`,
`dlqMessages` the list of a listing, `reply` what the operation returned
(`error` stands for an exception), `acked` what the call acknowledged.

The steps are as fine as the broker can see: one broker call per action, with
the local computation that follows it. `SizeRead` is `getQueueSize` and the
choice of what to do next; `ListMessage`, `SkipMessage`, `MatchMessage` and
`ConversionFails` are the outcomes of one `doInRabbit` after its `basicGet`,
`GetNothing` the one without a message; `Ack` and `Send` the two calls that
follow a match, which `AckOnClosedChannel` and `ExecuteFails` may replace by an
exception; `Finally` is `destroyReadConnection`. `Restart` loses everything in
the process; nothing is persisted.

Only the factory of the admin is used by a size, but admin, template and cache
share it (`SameFactory`), so a size leaves open the connection that the next
scan of the thread uses.

### DeadLetterQueue

What the endpoints promise, without connections or deliveries: a message stays
until a request being served names it (its id, in its queue) or purges its
queue; a message appears by dead-lettering or as a copy, with the route of the
request's queue, of a message a republishing request names. Removal and copy
are separate steps, and a purge may remove only part of a queue: nothing
stronger holds. `MessageOperator` maps onto it with `queue <- Present` (ready,
unacked or orphaned alike) and `pending <- call`.

### MessageSearch

The program keeps no record of what it misses, so the property about it needs a
history variable, which takes no part in what happens. `owed[w]` is set when
the size has been read: the messages then ready, of the id asked for (or any, to
list), whose place in the queue (`PlaceOf`, counting what other threads have
fetched) is within that size. A message is struck off when another thread
fetches it. `OwedIsFound` says what remains is found. The bound on the place is
exact: a size leaves out what others have fetched, those messages come back in
front of the ones behind them, and the loop, which runs as often as the size
said, ends that much too early.

### VirgilUI

`mounted`, `availableQueues`, `currentQueueId`, `queueSize` and `dlqMessages` are
the values of a view in `custom.vue`. They are declared twice there, as
properties and as data; Vue lets the properties win, whose defaults are the
same, and `$set` assigns them, so there is one value of each name. A listed row
and a size carry the queue they were answered for. That is a history the
properties look at and the program does not have.

`handler[c]` is what an asynchronous function waits for: its view, the endpoint,
the queue it put into the request and the row it was clicked on. `Calls` bounds
how many wait at the same time. Each handler is cut at its `await`s:
`OnDropMessage`, `OnRepublishMessage`, `OnGetAllDLQMessages`,
`OnDropAllDLQMessages`, `Mount` and `Select` (the watcher, which runs in the
tick of the selection) are the parts up to the first; `SuccessArrives`,
`FailureArrives`, `MessagesArrive`, `DropAllArrives`, `QueuesArrive` and
`SizeArrives` what follows. A handler that asks for the size again
(`GetQueueSize`) keeps its call, and takes the queue that is selected *then*.
`QueuesArrive` is the whole rest of `mounted`: the queues are stored, the next
line throws. The answer to "Drop All Items" is not looked at. No handler catches
anything, so a failed request (`Rejected`) changes nothing; that of the size of
no queue always fails, its URL ending where the key should be.

`before` records which requests of the same view were sent earlier and still
wait; only `Ordered` uses it. `Patient`, `Ordered` and `Faulty` are modes of an
instance: whether users wait for an answer before they act again; whether answers
come in the order of requests; whether requests can fail, for any reason, a
message that cannot be converted among them (`ConsoleAssumption`). The program
ensures none of the three. What is said of the list and the size without them
therefore names the cause of what can go wrong: `WrongListHasCause`,
`WrongSizeHasCause` and, over the queues, `StaleSizeHasCause` start from a view
that is right, let anything happen, and list the steps that may leave it wrong.
Every other step, all that the handlers do themselves included, keeps it right or
asks again. `RemovesOnlyClicked` needs users who wait, and `SizeIsOfCurrentQueue`
answers in order.

### VirgilConsole

Each call of a view is served by a thread of the same name. `Begin` is the
request reaching its endpoint, `Work` one change of the queues that
`DeadLetterQueue` allows to that request, `Finish` the answer, `Receive` the view
going on with it. `clicked` remembers the row a request comes from and `took`
whether it removed something. A request that failed at the view (`Rejected`, while
`pending` stands) is still served, and may remove its message later; the call is
not used again before that is over. An answer that does not get through (`Lose`)
becomes an error on its way. `Restart` ends everything in service.

`Answers` states what `MessageOperator` answers, coarsely: a size counts at most
what is in the queue, and exactly that when no other request is at work and
nothing fails; a listing shows messages of the queue, within the limit; success
means that something was removed, unless acknowledgements can be lost, and
failure that nothing was. These are `SizeIsTotal`, `ListedIsThere`,
`CallAccounting` and `SuccessMeansGone` of `MessageOperator` seen from outside,
all of them theorems for any number of threads. When something fails, the
messages a listing has collected can be gone before it is answered, for the
broken connection has given them to others (`Listable`).

### VirgilPropertyConfig

`readBinderProperties` is the field of the `QueueProperties` object of each queue,
which every thread shares. `getQueueProperties` is cut between its two setters,
which assign the same field. That this does no harm has one reason only: both
look up the binder by `readBinderName`. `Republish` is the use of the field in
`MessageOperator`, at any time after the lookup of that thread, with lookups of
other threads between.

### VirgilEnvironment, EndpointService, VirgilExtension

`sources` are the property sources, those that win first; `GetProperty`,
`Consolidated`, `Unmapped` and `VirgilSource` are the steps of
`postProcessEnvironment`. A text stands for what it lists. A property that is a
YAML list has other names (`Indexed`), which `getProperty` does not find.
`EndpointService` has the functions of that file over URLs as sequences of
segments. `VirgilExtension` adds what others do with the result, modelled from
how the starter relies on it: Spring reads a property from the first source that
has it under either name (`Written`), exposes what is included and not excluded,
and Spring Boot Admin registers the instance with the endpoints that the
actuator index links to, which has no usable link for `get-queue-size` because
of the parameter in its path. `IsEnabled` is the condition of `index.js`, and
`Served` which endpoints a request of the view reaches.

## Runs

Payload `p1` has no AMQP message id, `p2` and `p3` have the same one. All
instances republish to a queue of the application, except where said.

| Run | Instance | What it shows |
|---|---|---|
| `drop` | 2 threads, listing and dropping, 2 messages, failures | `IdleHoldsNothing`, `AckedWereNamed`, `CallAccounting`, refinement of `DeadLetterQueue` |
| `republish` | 2 threads, republishing and purging, 2 messages, failures | `CallAccounting` and the refinement, with acknowledgement and publication failing apart |
| `steady` (`MCMessageSearch`) | 2 threads, 2 queues, sizes, listings and republishing, 3 payloads, no failures | `SuccessMeansGone`, `CopyPerRemoval`, `ListedIsThere`, `OwedIsFound`: what holds only while the broker stays up; `SizeIsTotal` for a thread that has the queue to itself |
| `paths` | 1 thread, all operations, 4 queue keys (unknown, undeclared, on an undefined binder), an unconvertible payload, limits -1, 0, 1, 3 | `ListingIsPrefix`; `IdleHoldsNothing` on every exit, hence `DropAllEmptiesQueue` |
| `live` | 2 threads, listing and dropping, 1 message, failures | the connection cache under all of it (`SameFactory`, `Confined`, `NoLeak`); `EveryCallReturns`, `HeldMessagesComeBack` |
| `views` | 1 view whose user does not wait, 3 requests at once, none fails, answers in order; under fairness | `SizeIsOfCurrentQueue`, `EveryHandlerEnds`, `SelectedSizeIsShown` |
| `console_busy` | 1 view whose user does not wait, 2 requests at once, 2 queues, 2 messages of one id that may arrive in one of them at any time; answers in any order, failures, late requests, restarts | `StaleSizeHasCause`, `WrongListHasCause`, `WrongSizeHasCause` |
| `console` | 1 view whose user waits, 2 calls, 2 queues, 2 messages of one id, failures, late requests and restarts | type, `RemovesOnlyClicked`; the view implements `VirgilUI` (`UISpec`) |
| `exposure` | every pair of two property sources out of 148: include, list, exclude, probe, and mappings of `drop-message`, `get-queues` and `get-queue-size` | `TextSettingsSurvive`, `OverridesKept`, `RequestsArrive`, `TabIsOffered` |
| `shared_config` | 2 threads, 3 queues, 2 binders and an undefined one | type, `ExchangeIsOfReadBinder` |

The two remaining runs look for a violation and find it; each is a statement of
the documentation that the code does not meet:

| Run | Statement | What happens |
|---|---|---|
| `listed_ids_stable` | the id lets a caller reference the message in the queue later (`DefaultMessageConverter` 59-60) | the fingerprint covers the redelivered flag, which the first listing raises; dropping a message by the id shown then answers failure |
| `republishes_one` | "Republish 1 message at a time" (README 128) | the loop goes on after a match and republishes every message with that id |

Other statements hold only under the condition that their property names, or not
at all. The first group fails when the run or the property is changed as the
last column says:

| Statement | Property and run | What breaks it |
|---|---|---|
| "Drop all messages in the queue" (`MessageOperator` 128) | `DropAllEmptiesQueue`, `paths` | a second thread, without `Alone(w)`: a purge leaves what another thread has fetched |
| "Display total count of messages in queue" (README 124) | `SizeIsTotal`, `steady`; `SizeIsOfCurrentQueue`, `views` | without `Alone(w)`: the count leaves out what another thread has fetched; in the view, answers out of order (`Ordered = FALSE`): the older of two sizes stays |
| true "if the message was found and ack'd" (`MessageOperator` 372) | `SuccessMeansGone`, `steady` | failures: the acknowledgement is lost with the connection after the flag was set |
| success or failure of a drop tells whether the message is there (`MessageOperator` 371-372) | `OwedIsFound`, `steady` | without the bound on the place: the loop stops early when another thread had messages out as the size was read; with failures: a broken connection puts what was fetched back in front, and the loop spends its fetches on it again |
| "clear dlqMessages" for the queue selected (`custom.vue` 209) | `WrongListHasCause`, `console_busy` | a listing asked for before the switch arrives after it and fills the list of the new queue; its buttons then send ids of the old queue with the key of the new one. This is the one exception that the property allows |
| the size shown is that of the queue whose name is shown (`custom.vue` 24-25) | `WrongSizeHasCause`, `console_busy` | the size of the queue left arrives last, or the request for the new one fails: the two exceptions |
| users can override a mapping (`VirgilPropertiesEnvironmentPostProcessor` 72) | `RequestsArrive`, `exposure` | `get-queues` mapped elsewhere alone: the guessed path of a size is served by nothing, as the property says (`GuessIsRight`); both mapped alike, it works |

The second group needs no run; the model shows each at first sight:

* "setting first queue" (`custom.vue` 221): `QueuesArrive` selects none, for
  `mounted` throws before it does, `currentQueueId` being no variable in scope.
* "@return List of messages" (`MessageOperator` 91): a listing of an empty queue
  without a positive limit makes no template and ends in
  `FinallyWithoutTemplate`, an exception. The tab asks for 200 and gets an
  empty list.
* "Showing top 200 messages" (`custom.vue` 26) depends on the size alone, and
  nothing is listed before "Get Items".
* User-specified endpoints are added to (`VirgilPropertiesEnvironmentPostProcessor`
  78): `GetProperty` does not find those of a YAML list, and the new source then
  hides them.
* "we will disable `republish`" without `republishBinderName` (README 111-112):
  nothing reads it.

### Bounds

`MaxMsgs` bounds the messages that arrive and the requests to republish
(`Request`, `Arrive`); a republish in progress may exceed it by its copies. Two
messages are the least with a message to skip and one to find, and with a
second match; two threads the least with a rival. A scan of `n` messages takes
`n` iterations of the same step, so longer queues repeat steps that two
messages already contain. Two factories per run let both threads be connected;
a restarted thread gets a fresh one. The failure runs split the operations in
two pairs (listing with dropping, republishing with purging) to stay within
minutes; `steady` and `paths` mix them otherwise, and the theorems cover all
operations together. `steady` has a second queue because `Alone` is about a rival
that is scanning another one; two messages in one queue and a rival that lists it
are what ends a loop too early. One binder is connected in each run; that two binders of
one thread do not share a factory is proved (`Confined`). The safety runs with
two threads use the symmetry of threads and factories, the two of the console that
of calls; the runs with liveness use none.

Two queues are the least with a switch, and three requests at once are a size, a
second one behind it and a listing or a removal between or after them. A view
whose user waits has one request in flight; the second call of `console` lets
the user click again while a request that failed at the view is still served,
which is also what a second user would do to the queue. The theorems about the
views and the console hold for any number of users. In `console_busy` two requests
at once are an overtaken size with the one that overtakes it, or a listing with the
switch it arrives after; the third actor is whoever lets messages arrive. `Limit` is
2 instead of 200: `Answers` uses it only as a bound on a listing, and what it does
to one is checked in `paths`. `views` has one size and one row id, for its properties ask
whose size is shown; in the console `Sizes` is whatever `MaxMsgs` messages can
count. Both messages of the console have the same
id, which is the case in which a wrong one could be taken; they may be in one
queue or in two. Two property sources are the least in which one hides another,
and each property is absent, a text, a number or a list; the path that a size is
guessed from and the one it is served at are moved alone, together and apart. Queue keys have one
segment: see below. `VirgilPropertyConfig` has one queue of each kind (both
binders, no republish binder, an undefined binder) and an unknown key; `sent`
grows no further than the combinations of these.

### Fairness

`FairSpec` assumes that a thread that can take a step of its call eventually
does (servlet threads are scheduled, and blocking broker calls have been given
their outcome as separate actions), that the broker reads what was sent to it,
and that it notices broken connections (heartbeats). It does not assume that
requests come, that messages arrive, or that anything fails or stops failing.
`EveryCallReturns` needs that `Operator(w)` is enabled whenever a call is
running: an orderly close waits for the broker, which fairness makes read, and
every other step is enabled at once.

`UIFairSpec` assumes of each request that its answer or its failure comes in the
end, which is what HTTP with `EveryCallReturns` behind it gives, and runs the
handler that waits (the event loop). Users need not do anything.
`SelectedSizeIsShown` holds for users who do not wait only because the answers
come in order: otherwise a size of the queue left can come last.

## Proofs

All theorems hold for arbitrary sets of threads, binders, queues, payloads,
factories, views, calls and settings, any `MaxMsgs`, and with failures unless
said. They rest only on the named assumptions of the modules: the configured
maps have the types their names suggest, the absent values are not among the
present ones, the console's rows have the ids that messages can have. Theorems
that need more say so in their statement: `~Failures`, `OneThread`,
`RepublishOnly`, `Patient`, and for the tab that no two endpoints share a path and
that keys have one segment (`PathsArePlain`, `KeysArePlain`). Only
`RemovesOnlyClicked` needs `Patient`; what is proved of the list and the size in a
view holds for users who click at any time, answers in any order and failures. The
runs named above are instances of each.

* **Cache** (`RabbitMqConnectionService_proofs`). `ConnInv` is
  `ConnTypeOK /\ SameFactory /\ Confined /\ NoLeak`. The parts need each other:
  that the close destroys the right connection (`NoLeak`) needs the template to
  wrap the cached factory (`SameFactory`), and that one entry can be cleared
  without harm to another needs `Confined`. Every getter reduces to one fact
  (`CachingKeepsConnInv`): the three maps are updated at one entry, with the
  cached factory or a fresh one.
* **Calls** (`MessageOperator_proofs`). `IInv` adds to the cache and broker
  invariants what is true of a thread at each step (`ThreadOK`): a scanning
  thread has a configured, declared queue; a loop has iterations left; the
  message held, and everything acknowledged, has the id and the queue of the
  request. `AckedWereNamed` alone is not inductive: between `MatchMessage` and
  `Ack` the fact lives in `held`. Each action of a thread is shown to keep its
  own part and to leave the others' locals alone (`Kept`), and
  `KeptKeepsIInv` concludes for all of them. `UsesConnectionCache` shows that
  the operator uses the cache only as `ConnSpec` allows.
* **Deliveries** (`MessageOperatorDelivery_proofs`). `HoldInv`: every unacked
  delivery and every unread frame belongs to a thread in the middle of a scan,
  over that thread's own template, and the frame acknowledges or copies what
  that thread's request names. A step of a thread preserves it because the
  thread keeps what it owns or leaves nothing behind (`Keeps`) and what is new
  is its own (`Adds`). `IdleHoldsNothing` follows.
* **Answers** (`MessageOperatorAnswers_proofs`). With every failure:
  `CallAccounting` is strengthened by saying at which steps the flag and the
  acknowledgements agree (`Accounts`; between acknowledgement and publication
  they do not).
  With `~Failures` and any number of threads: `SuccessMeansGone`. `GoneInv` says
  that a message is in one place only (`Apart`), and that an acknowledged one is
  gone or still unacked on a connection of its scanning thread with the frame on
  the way (`AckedGoes`); the close waits for that frame, so nothing gives the
  message back.
  Also with `~Failures` and any number of threads: `SizeIsTotal` and
  `DropAllEmptiesQueue`, since by `HoldInv` whatever of a queue is not ready has a
  thread that scans it (`AloneSeesAll`); and `ListedIsThere`, whose invariant says
  that everything collected so far is still unacked on the thread's connection,
  once (`KeepsListed`): the only frames on that connection are those of its one
  owner, and a call that lists acknowledges nothing.
  So does `OwedIsFound`. `OwedMessage` says of a message still owed that it is ready
  with no more messages before it than fetches are left (`Ahead`, `Reach`), or
  fetched by this call and then listed or acted on. `Ahead` counts what others
  have out, so that their fetching and giving back adds nothing to it, and what
  arrives or is copied comes behind; each fetch of the call itself takes one of
  `Ahead` away or the message. A loop that ends with nothing found has no fetch
  left, and so nothing owed.
  With `RepublishOnly`: `CopyPerRemoval`. `Balance` counts, for each payload, the
  messages whose removal is certain (gone, or with their acknowledgement on the
  way) against the copies made, the publications on the wires and the threads
  about to publish; every step moves one from one count to the next. It needs
  that a thread acknowledges a message it has not acknowledged before
  (`HeldIsNew`) and that a publication makes one copy (`OneCopy`).
  With `~Failures` and one thread: `ListingIsPrefix`. Its invariant `Listing` says
  of a listing in the making that it shows all that is fetched, that all that is ready comes after it, and that
  what it shows and what is left to fetch are within the limit.
* **Refinement** (the end of `MessageOperatorDelivery_proofs`).
  `Spec => ImplementsDeadLetterQueue`. Fetching, skipping, closing, breaking and
  requeueing map to stuttering; purging to `RemoveAll`; the broker reading an
  acknowledgement or a publication to `RemoveNamed` or `Republish` of the
  thread that `HoldInv` finds behind the frame.
* **Configuration** (`VirgilPropertyConfig_proofs`). `ExchangeIsOfReadBinder`
  needs only that every value a setter stores for a queue is the binder that its
  `readBinderName` leads to: then no order of the setters of any number of
  threads matters.
* **Views** (`VirgilUI_proofs`). `WrongListIsExplained` and `WrongSizeIsExplained`
  assume nothing of users or answers. Each goes through the steps of a view from a
  state in which it is right: a handler that goes on changes its own view only
  (`AnswerGoesOn`), a switch clears the list and asks for the size, a handler of
  a button sends the selected queue (`StartedIsRight`); a size of the selected
  queue that is asked for stays asked for until it arrives or fails
  (`SizeStillComes`). What remains are the causes.
  For patient users `PatientInv` says besides that a view has at most one
  handler waiting (`OneAtATime`) and that this one asks for the queue still
  selected (`AsksForCurrent`); it serves `RemovesOnlyClicked`.
* **Console** (`VirgilConsole_proofs`). `ConsoleInv` says that a request in
  service asks for what its view is waiting for (`RequestsFit`), that an answer on
  its way is one `VirgilUI` allows (`AnswersFit`), and that the queues hold no more
  than they may (`MessagesFit`). Every step is then one of `VirgilUI` or leaves the
  views alone: `Spec => UISpec`. `PatientInv` carries over, and with it the queue
  of every request in service is that of the row clicked (`ClickedFit`), which
  gives `RemovesOnlyClicked` also for requests that failed at the view and are
  served late.
  `StaleSizeHasCause` assumes nothing of users, answers or failures. `StaleInv` adds
  that the operation served is that of the endpoint the view waits for, and that what
  `took` records belongs to a request in service (`ServedFit`). Then a change that
  a request of the view makes to the queue is followed by an answer after which the
  view asks for the size again (`Refreshes`), and no step but those of `GoesStale`
  takes that away.
* **Settings and tab** (`VirgilExtension_proofs`). For any contents of the users'
  two property sources and any base URL. The post-processor puts one source in
  front of those of the users, which stay as they were (`Prepended`): what is
  read there is what the users wrote and what the starter appended to it
  (`TextSettingsSurvive`), and the names it leaves alone are read behind it
  (`OverridesKept`). `TabInv` adds that the endpoints are on the include list and
  that the links registered are those of the endpoints exposed: `TabIsOffered`.
  For `RequestsArrive`, every endpoint has one of its paths (`PathHeld`), every
  request asks for its `Target` below the base and every endpoint is served at its
  `Place`, and no two places are one. Target and place are the same path but for
  a size, where they are if `GuessIsRight`; and if not, the target is nobody's place.
  Nothing is assumed of which paths users move.

Only model-checked are liveness (`EveryCallReturns`, `HeldMessagesComeBack`,
`EveryHandlerEnds`, `SelectedSizeIsShown`), which is beyond TLAPS, and
`SizeIsOfCurrentQueue`, which holds only with the ordered answers of the `views`
run; `WrongSizeIsExplained` is the theorem in its place. Every other safety
property of the passing runs is a theorem.

## Not modelled

* The digest and the text of the properties. The fingerprint is taken as
  injective on what goes into it. A header whose value prints differently in
  each delivery (a byte array) would make ids unstable for that reason too.
* Body truncation, headers and bodies shown, logging, response envelopes.
* `getReadBindingKey` and `getDefaultQueue`, which nothing calls.
* A queue key with a slash or another character that a URL gives a meaning to:
  `EndpointService` puts keys into the URL as they are. Nothing in the repository
  promises that such keys work.
* Boot's own default exposure (`health`, `info`), which ends when the include
  property is set; property sources added after the post-processor has run;
  registration of an instance by probing its endpoints instead of reading its
  index.
* The reads of `QueueProperties` by a thread whose own lookup is not over: every
  use follows the lookup in its thread.
* The end of a container thread. Its thread-local maps go with it, and a
  connection that a size or a purge left open then stays open with no owner.
  `NoLeak` is about threads that live on.
* What a view does without a queue: after `mounted` has thrown, its buttons
  send an empty queue key. The model has these requests (`NoQueue`), but no
  property says what they should do.
* Leaving a view while its handlers wait. They go on with a view nobody looks
  at; the next visit is another view.
* Bean wiring, data classes, build scripts (`vue.config.js` and the other
  configuration of the tool chain, the generated resources), the example
  application: no behaviour of their own.

## Plan

Done: every component with behaviour, the two compositions, and the safety
properties of the runs as theorems. What could be added is a `DeadLetterQueue`
that also answers its requests, so that one theorem says of `MessageOperator`
what `Answers` of `VirgilConsole` now takes from four.
