# RIManager: specification, model checking and proofs

RIManager is a C++17 library that a printer's firmware links in.  Device code
sets data items (temperature, door state, toner level, ...); the library stores
them, derives *capabilities* and *facades* from them ("print ready", "operation
ready") and notifies subscribers through callbacks and mailboxes.  It is a small
program with up to eight threads, and almost everything that can go wrong in it
is a matter of order.

The repository holds several revisions of the library, each a complete tree.
They differ where it matters (what a snapshot is, who locks what, which setter
checks what, how a route is found), so all of them are modelled:

| name in the models | tree | what is special about it |
| --- | --- | --- |
| "top" | `core/`, `products/`, `include/` | the tree under development, by `README.md`; product printer_a |
| "755" | `Rev755_FW/RIManager/` | partitions are registered, a snapshot holds all its locks; product bil |
| "0818" | `old_0818/` | a router thread in front of the routes; snapshots travel with the events; `RIM_Unsubscribe` |
| "0820" | `old_0820/` | no router; one snapshot for all capabilities of a change; `RIM_Unsubscribe` |
| "0820_FW", "744" | `0820_FW/`, `Rev744_FW/` | the public API only; the library it is linked with is not in the repository |

Where revisions run the same code, one definition stands for all of them, and
the rest is an action or an operator of its own with the revision in its name
or in its guard.  What is said below without a revision is about the top tree.

Paths below are relative to the repository's root.

## 1. Inventory

```
 application threads                one pair of threads per route
 RIM_SetXxx --> AdapterDispatcher --> storeQueue --> DataStoreWorker
                                                        |  domainStore
                                                        v
                                     capabilityQueue --> CapabilityWorker
                                                        |  domainStore
                                                        v
                     publisherQueue (one) --> PublisherWorker --> mailboxes --> RIM_GetNotification
                                                        |
                                                        v
                                     callbackQueue --> CallbackWorker --> callbacks
```

The earlier revisions:

```
 0818  RIM_SetXxx --> storeQueue --> DataStoreWorker (router) --> storeQueue[route]
       --> DataStoreDispatcher[route] --(id, snapshot of everything)--> capabilityQueue[route]
       --> CapabilityWorker[route] --> publisherQueue --> ... as above
 0820  RIM_SetXxx --> storeQueue[route] --> DataStoreWorker[route] --(id)--> capabilityQueue[route]
       --> CapabilityWorker[route] (one snapshot for all capabilities) --> publisherQueue --> ...
```

Components talk through queues (`EventQueue`) and through one shared store
(`PartitionStorageRegistry`, a lock per partition; in 0818 and 0820
`DomainStorageRegistry` with one mutex, and a `CapabilityStore` with none).
Nothing is persisted and there is no network; failures are refused calls, full
mailboxes, dropped pushes and the order of the lifecycle calls.

| component | state | operations | what makes it correct |
| --- | --- | --- | --- |
| EventQueue | list of events, `shutdown_`, a condition variable | Push, TryPop, WaitAndPop, WaitAndPopFor, Shutdown | no wake-up is lost although notifications are sent outside the mutex; Shutdown releases everyone |
| queue policies | none (they edit the queue's list) | Insert of Fifo, Coalescing, Priority, PriorityCompression | compression keeps the latest event of an item, and never all notifications of a target |
| AdapterDispatcher | none | Dispatch | an accepted value goes to the queue of its item's route |
| RouteProvider, RouteExecutor | queues and workers per route, `stopped_` | Initialize, Find, Start, Stop | one item, one route, one order |
| DataStoreWorker | the item in hand, `running_` | loop, Process, start, stop | store before announcing; the last value wins |
| partition storage, snapshots | value per item and domain | Store, Find, Build | a snapshot is torn across domains; a later evaluation must repair it |
| CapabilityWorker and managers | evaluation under way, `running_` | loop, Process, Evaluate, publish, start, stop | no derived value is left behind its inputs; every change is published |
| PublisherWorker, PublishManager, rate limiter | last notify times, due conditions | loop, Publish, ProcessPeriodic, Run, Stop | nobody misses the last change, unless it was rate-limited; rates are kept |
| PeriodicNotifyManager | next time per subscription | Register, GetDueConditions, UpdateNextTime | never early, no drift, catches up |
| subscriptions, mailboxes, receiver | store, registry, bounded queues | RIM_Subscribe, RIM_GetNotification | overflow does not lose the last change |
| CallbackWorker | notification in hand, `running_` | loop, Run, Stop | the last change is reported |
| public API | `g_context` | RIM_Create, Start, Stop, Destroy, SetXxx, GetXxx | every order of calls leaves no thread behind and returns |
| product maps | tables from the product definition | DataDomainMap, RequiredDomains, Dependents, ResolveRoute | the maps agree with each other; one space of partition numbers keeps three kinds of ids apart |
| product validation | none | ValidateProductDefinition | what it accepts, the maps can be built from |
| binary values | the entry's buffer and hash | BinaryEntry::Set, GetBinaryInfo, IdentityDiff | the store owns its bytes; colliding hashes and a buffer in use lose no value |
| accessors | none | typed reads | a value is read as the type it was written as |
| 755: partition storage, SnapshotBuilder | registered partitions, shared locks of a snapshot | FindMutable, Build | a snapshot is one cut; locks are taken in ascending order, each once; every partition is registered |
| 755: product bil | structs kept as bytes | setters and getters per struct, the builders of PRODUCT_STATE, SUPPLY_STATUS, PRINT_JOB_STATUS | a fault that was set is shown |
| 0818: router, DataStoreDispatcher, StoreInputQueue | items between two queues | loop, Process | the router reorders nothing and loses nothing |
| 0818, 0820: CapabilityManager, CapabilityStore | evaluation under way, change set | Evaluate, publish | a capability is not left behind although the snapshot is no cut; one thread in the store |
| 0818, 0820: RoutePipeline, RouteExecutor | workers and queues of a route | Start, Stop | the reversed stop order leaves no thread |
| 0818, 0820: SubscriptionManager | subscription, condition, callback | RIM_Unsubscribe | at most the call under way is made |
| 0820_FW, 744: firmware API | `g_context` | setters and getters of every type | the value last accepted is read |

The behaviours that are hard here: two workers of two routes evaluating one
capability; values read under one lock and used under another; three kinds of
compression that each drop something; a caller's buffer that is read long after
the call; a subscription that exists before its
callback does; clocks against queue waits; `RIM_Stop`/`RIM_Start` sequences
against flags that are only ever set; snapshots that are older than their event;
and setters that check against setters that do not.  `PROJECT.json` lists every such hazard
at its line with the properties that guard it.

## 2. The modules

| module | models | correspondence |
| --- | --- | --- |
| `QueuePolicies` | `QueuePolicy.hpp`, `QueueFactory.hpp` | the four Insert policies as operators on sequences |
| `EventQueue` | `EventQueue.hpp` | critical sections, notifications, waits, timeouts and spurious wake-ups, as separate steps |
| `PathMaps`, `PathMaps755` | | the maps of a product as the data path takes them, and what it needs of them |
| `Pipeline` | Dispatch, DataStoreWorker, CapabilityWorker and the managers, storage, snapshots | one action per critical section; `storePc` and `capabilityPc` are the threads' program points |
| `PipelineProperties` | | what the data path guarantees |
| `ChangeFeed` | | abstract specification of the data path: an item that was stored stays dirty until the publisher looks at it afterwards |
| `ProductDefinition` | a product's tables, `ValidateProductDefinition` | one operator per table |
| `ProductMaps` | the maps derived from a product definition | folds over the definition's tables |
| `EarlierProducts` | the tables of the other revisions: validation, routes by name, domain and dependency maps | one operator per check and map, with the revision's number |
| `ProductContext` | ProductContext's constructor, `RouteProvider::Initialize`, snapshots, reads and writes by partition number and id, in four revisions | validate, build, then any sequence of complete writes |
| `ProductContextProperties` | | what an accepted definition guarantees |
| `TypedStore` | | abstract specification of the storage: data, capabilities and facades are three name spaces |
| `ValueStore` | RIM_SetXxx, Dispatch's type check, Process, `PartitionStorage::Store` and RIM_GetXxx on typed values and bytes | one action per read of a byte, comparison and store |
| `ValueStoreProperties` | | what RIM_GetXxx returns, in terms of what RIM_SetXxx was given |
| `Publisher` | RIM_Subscribe and RIM_Unsubscribe to callback and mailbox, in four revisions | one action per critical section; time in ticks |
| `PublisherProperties` | | what subscribers may rely on |
| `Lifecycle` | the four lifecycle calls against every worker thread, in four revisions | a call is a list of steps (`todo`) that the application's thread works off |
| `EarlierPath` | the data path of 0818 and 0820 | as `Pipeline`: one action per critical section, and `registryLock` for the registry's mutex |
| `EarlierPathProperties` | | the promises of `PipelineProperties`, kept by other means |
| `Path755` | the data path of 755: registered partitions, SnapshotBuilder's locks | `Pipeline`'s actions, with `locks`, and the steps that differ |
| `RimApi` | setters, getters and struct calls of 0818, 0820, 755 and the firmware trees, lifecycle calls, and the workers in between | a call is a step; a refused call is none |
| `BilProduct` | the capability builders of bil | one operator per builder, over abstracted structs |
| `RimApiProperties` | | what RI_SUCCESS of a setter promises |
| `MCPipeline`, `MCPublisher`, `MCEventQueue`, `MCLifecycle`, `MCProductContext`, `MCValueStore`, `MCEarlierPath`, `MCPath755`, `MCRimApi` | | the instances TLC checks |
| `QueueLemmas` | | lemmas about the policies |
| `PipelineProofs`, `ValueStoreProofs`, `PublisherProofs`, `LifecycleProofs`, `EarlierPathProofs`, `RimApiProofs`, `ProductContextProofs` | | the theorems about those modules; `PipelineProofs` also has those about `Path755` and `EventQueue` |

`Pipeline`, `Publisher`, `EventQueue`, `EarlierPath` and `RimApi` use
`QueuePolicies`; `Path755` extends `Pipeline`, so that what 755 leaves as it is
is not written twice; `Pipeline` is
composed with its abstract specification in `PipelineProperties`
(`Feed == INSTANCE ChangeFeed WITH ...`), and `MCPipeline` takes the maps of its
instance from the tables of a small product through `ProductMaps`: an ASSUME
compares the two.  `ProductContext` builds the same maps from every small
definition and is composed with `TypedStore` in the same way.  `Pipeline` and
`Path755` take a product's maps as constants and assume of them what `PathMaps`
and `PathMaps755` define; the property `MapsAgree` of `ProductContext` includes
that the maps it computed are such (`Path == INSTANCE PathMaps755 WITH ...`), so
that what the data path assumes is what the constructor establishes.  `ValueStore` refines the values that `Pipeline` keeps abstract:
`Pipeline` has all threads and notifications, `ValueStore` all types and bytes.

**The data path.**  A step takes one lock once.  `DataStoreWorker::Process` is
four steps: pop, find the old value and diff, store, push to the capability
queue.  `CapabilityManager::Evaluate` is a read per domain for the snapshot,
then build and diff (whose Find takes a lock), then store; the notification is
pushed in a further step.  So every race the locks leave open is in the model: another
thread may store between the reads of one snapshot, between the diff and the
store, and between the store and the notification.  `accepted` and `published`
are history variables: the last value set for an item, and its value when the
publisher last took a notification of it.

**The publisher.**  A subscriber stands for one `RIM_Subscribe` call, which
registers in up to three places one after the other, so it can be notified half
way.  The publisher's work on one notification is as many steps as the code has
critical sections: the limiter, which stamps the change with the time; the choice
of recipients, which takes whoever is subscribed by then; and each delivery.
For a periodic one, `Find` comes first instead of the limiter.  `RIM_Subscribe`
reads the clock for its condition before it registers it.  Between any two of these
the clock and all other threads may move.  A notification carries no value: the subscriber reads the current one when
it is called or takes a message.  `told` remembers which version it read.  The
lookup of a callback and the call are two steps, as the code copies the
callback under its lock and calls it outside.  `GetSubscriptions` filters the
store in its order; the model says so by naming the one list with the matching
subscribers in that order, which a proof can use without induction over the
store.  `RIM_Unsubscribe` of the old
revisions removes in three steps, and the limiter there looks a target up by
its number (`LimiterKey`).  A behaviour follows one `plan`: a revision, who
subscribes to what, and how often what changes.  No custom delivery handler is
ever installed (`SetCustomDeliveryHandler` has no caller), so a Custom
subscription gets nothing.

**The queue.**  The mutex is held without a break except while a consumer
waits, so a critical section is a step; `notify_one` and `notify_all` come later
and are steps of their own.  A woken or timed-out consumer does not hold the
mutex yet: anyone may run before it looks again.

**The lifecycle.**  Each worker is a flag `running`, a thread with a program
point, and a queue with its `shutdown` flag; what flows is a number of items.  The route workers return from
`stop()` at once if they do not run, the publisher and the callback worker shut
their queue in any case; `RouteExecutor::Stop` does its work only the first
time; the route workers leave their loop when a queue is shut and empty, the
other two test `running_` again.  In 0818 a router feeds the routes, and in both
old revisions a route stops its CapabilityWorker first and shuts that worker's
queue even when it never ran.  All of these differences are in the model,
since the behaviour of a restart depends on them.  A call of the API is
unfolded as far as its components; the first step of a route (`EnterRoute`)
unfolds what `RouteExecutor` or `RoutePipeline` does for it, where it also
reads `stopped_`.

**The product.**  A definition is a record of tables.  A domain's name is the one
name of the library that is a `const char*`, so the model gives it a text and an
address; a data item points at a domain object.  `ValidateProductDefinition` is
called by the product's test, not by `RIM_Create`: a definition goes from
"written" to "accepted" or "rejected", and only an accepted one is built.  From
then on a step is one complete write of a data item, a capability or a facade.
What a builder finds is modelled per revision: snapshots by partition (top), by
RIMId (755), of everything (0818), of the domains an event needs (0820).

**Values and bytes.**  A value is a type tag, the union member that was written,
its content and a size.  A binary content is a pointer: to the application's
buffer or to the storage's entry.  `RIM_SetBinary` queues the pointer; the
DataStoreWorker reads the application's bytes up to three times (hash, memcmp,
copy), one byte per step, while the application may write any byte between any
two steps.  That covers every mixture a concurrent read can return.  The
buffer stays allocated: a caller that frees it is outside the model.

**The earlier data paths.**  In 0818 and 0820 a worker looks its DomainStorage up
under the registry's mutex and then writes without it, while `GetAll` copies the
storages one after the other under that mutex: the model has the lookup, the
write and every copy as separate steps.  In 0818 the snapshot is taken by the
dispatcher and queued with the id, in 0820 the CapabilityWorker takes it.
`RawSet` are the items whose setter goes past the dispatcher.
`DependentCapabilities` is the one list of an item's capabilities in the order of the
product's table, given as a set of one sequence.

**The path of 755.**  `Path755` is `Pipeline` with a variable `locks`: Build takes
the shared locks of all its storages in ascending order, then copies, then lets
them go; a store waits for the locks of its storage.  The reads that are one step
each in `Pipeline` are still one step each here, so that `SnapshotIsOneCut` is a
consequence of the locks and not of the grain.

**The API.**  In `RimApi` a value is a type and data.  What the setters of the
revisions check differs call by call (which of them go through the dispatcher,
which compare a size), so there is a setter action and a getter operator per type
and revision.  Workers take one item per step; the threads' own interleavings
are in `EarlierPath` and `Path755`.  The library under the firmware's API is an
external store that keeps, per item, what it is given.

### Mutants

Each property is paired in `PROJECT.json` with a definition that is the same
code with a plausible bug in it (a notification only for an empty queue,
notify_one in place of notify_all, a coalescing queue that keeps the oldest, a
join that does not wait, a limiter that remembers the wrong time), written just
before the definition it mutates and marked "Mutant".  TLC finds the property
violated when it is put in place.  No specification uses them.

## 3. What is checked

| run | properties | instance |
| --- | --- | --- |
| `event_queue` | NobodySleepsOverEvents, NobodySleepsThroughShutdown, EventuallyDrained, ShutdownReleases | 2 producers, 2 consumers (one with timeout), FIFO, 4 pushes, repeated Shutdown |
| `pipeline` | TypeOK, LastWriteWins, NoChangeSwallowed, NeverLeftStale, FeedsPublisher (refinement of ChangeFeed), EventuallySettles | 3 data items, 2 capabilities, 1 facade, 2 routes, 3 values set |
| `publisher` | InformedUnlessLimited, NotifiedAtLimitedRate, PeriodicNeverEarly, PeriodicOnGrid, SilentOnceUnsubscribed, EventuallyInformed, PeriodicCatchesUp | 12 plans on four revisions: up to 2 subscribers, 3 changes, 4 ticks, a mailbox of one message, an interval of 0 |
| `publisher_shared_ids` | TargetsAreIndependent (violated) | the plan with a shared number, on 0818 and 0820 |
| `lifecycle` | NeverTerminates, NoThreadOutlivesContext, QuietAfterStop, EveryCallReturns, StartedMeansServed | 1 route, any order of 6 calls (top), 4 (0820), 3 (0818, 755), values set meanwhile |
| `product_context` | NeverAborts, QueuedOnItsRoute, MapsAgree, SnapshotsMatchAccessors, ImplementsTypedStore | 10,504 definitions on four revisions: up to 2 domains, routes, items and capabilities, a facade or a pipeline, valid or not, with ids shared by the kinds |
| `product_domain_names` | DomainNamesUnique (violated) | the same for top, and two literals with equal text that the linker keeps apart |
| `product_capability_route` | NeverAborts (violated) | definitions of 0820 whose capability may name a route that does not exist |
| `value_store` | NoReinterpretation, LastValueRead, StoredBytesStay | a double that is normalized, a bool, an int without diff, bytes; 3 routes, 3 calls, 3 bytes written |
| `earlier_paths` | LastWriteWins, NoChangeSwallowed, NeverLeftStale, OneThreadInCapabilityStore | 0818 and 0820: 3 data items in 2 domains, 2 capabilities (one names an item twice), 2 routes, an unknown id, 3 values set |
| `path_755` | SnapshotIsOneCut, LocksAscend, NeverLeftStale | 3 data items in 2 domains, 2 capabilities, 1 facade, 2 routes, 2 values set |
| `rim_api` | AcceptedIsRead, StaysReadable, FaultIsShown | five revisions: 5 items of printer_a with every type of setter, 6 structs of bil; 3 accepted values (2 in the firmware), any lifecycle calls |

In words, the properties worth a second look:

- **LastWriteWins.**  At every moment the last value the application set for an
  item is the last one queued for it, else the one in its DataStoreWorker's
  hands, else the one stored.  So it is neither coalesced away nor overtaken.
- **NoChangeSwallowed, FeedsPublisher.**  Compression drops notifications, and a
  notification is pushed after the store.  Still, as long as an item differs
  from what it was when the publisher last took a notification of it, another
  one is on its way.
- **NeverLeftStale.**  A derived item whose data all arrive by one route is
  never behind its inputs unless the evaluation that will correct it is already
  scheduled.  The restriction is what the code gives: with inputs on two routes
  two CapabilityWorkers may evaluate the item at once, the one with the older
  snapshot may store last, and nothing evaluates it again until an input
  changes.  In printer_a every capability and facade has a home route.
- **InformedUnlessLimited.**  A subscriber that has not looked since the last
  change has something on its way that will make it look; a full mailbox and a
  callback looked up too early are covered.  The one exception is a change that
  the rate limiter held back: it is never announced later.  The property says
  precisely when that may be.
- **NotifiedAtLimitedRate.**  The limiter stamps a change before its recipients are
  chosen, so a subscription stored in between is notified of a change older than
  itself, and again as little as a tick later.  The intervals are therefore
  counted from the time stamp of the first notification (`chosenAt`); counted from
  when the subscription was stored, two notifications are free and every further one
  is paid for.  With only one free the property is false of the code: TLC finds the
  interleaving.
- **NobodySleepsOverEvents.**  While a consumer sleeps there are at most as many
  events as threads that are awake or have still to notify.
- **SilentOnceUnsubscribed.**  RIM_Unsubscribe does not wait for the callback
  thread, which may have looked the callback up.  After it returned there is one
  more call at most, whatever is queued, and no condition is left behind by the
  publisher that found it due just before.
- **SnapshotIsOneCut, LocksAscend** (755).  What a snapshot holds is what was
  stored at one moment; this is what taking all locks before the first copy is
  for.  The price is that the order of the locks matters: two snapshots that
  lock in different orders, with a writer waiting between them, can wait in a
  circle, and a domain named twice is locked twice by one thread.  Build sorts,
  and the map of a capability's domains skips repetitions.  A facade's domains
  are as many as the capabilities its table names, and nothing rejects a
  table that names one twice: the theorem has to exclude it.
- **NeverLeftStale** (0818, 0820).  A snapshot may mix moments, and in 0818 it ages in
  a queue.  What saves the capability is that the store comes before the
  snapshot: one that misses a value is followed by the snapshot of that value's
  own event.
- **AcceptedIsRead.**  Once nothing of an item is on its way, the getter of the type
  that was last accepted for it returns that value.  It holds in the revisions
  whose setters do not check, because the store writes the type with the
  data; there a later call of another type's setter changes what can be read,
  which **StaysReadable** excludes for 0820 and 755.
- **QuietAfterStop.**  After `RIM_Stop` nothing is published and no callback
  runs.  In a context that was not restarted no worker is left at all.  After
  stop and start the second stop passes over the route workers (`stopped_`
  stays set), and the property does not claim that they are gone;
  **NoThreadOutlivesContext** and **NeverTerminates** show that the destructors
  join them before their queues are freed.

- **ImplementsTypedStore.**  One `PartitionStorageRegistry` holds everything under
  (partition, id), and ids of the three kinds are the same small numbers.  The
  partition numbers must therefore be disjoint, and they come from two countings:
  data partitions from the items' domains, the others after the length of the
  domain table.  They are disjoint because validation makes every item's domain
  one of the table, and a name stands for one object.
- **QueuedOnItsRoute.**  Queues are made per route name, routes are found per id.
  Validation rejects a repeated name but not a repeated id: the first route with
  the id is then the route of everything, for the queues as for the publisher.
- **LastValueRead.**  When a route is at rest, RIM_GetXxx returns what the item was
  last set to.  For bytes this needs the application to have left its buffer
  alone since that call, and nothing else: earlier values that were queued with
  the same pointer, a hash that collides, or a buffer that was overwritten
  between two calls do no harm.
- **StoredBytesStay.**  What readers see changes only when a DataStoreWorker stores
  the item: the stored pointer is to the entry's own copy.

### What was found

`product_domain_names`: `ValidateProductDefinition` compares domain names by
address.  The lambda it gives to `HasDuplicate` for the domains
(`ProductDefinition.cpp:212`) returns `DomainDefinition::name`, a `const char*`,
so `==` compares pointers; the other tables return `string_view`s or ids.  The
comment above it says "Domain uniqueness", and the test `RejectDuplicateDomain`
(`test/unit/product/ProductDefinitionTest.cpp:44`) expects two domains with one
name to be rejected; it passes as long as the compiler merges the two equal
literals of that file.  The run's counterexample is a definition whose literals
are not merged.

`publisher_shared_ids`: in old_0818 and old_0820 `NotificationRateLimiter` looks
up the last notification by `target.id` alone
(`old_0818/core/publisher/include/NotificationRateLimiter.hpp:31`), and data
items and capabilities are numbered from the same small numbers.  A change of a
capability is held back, and never announced, because a data item was notified.
The test `DifferentTargetCanNotify` of that revision expects targets not to block
each other and tries two capabilities; the later revisions look up type and id,
and have a test for it.  `SharedNumberPlan("top")` is in the passing run.

`product_capability_route`: `RouteProvider::Initialize` of old_0820 asserts that
the route of every capability is found
(`old_0820/core/common/src/RouteProvider.cpp:60`), and the validation of that
revision does not look at the routes of capabilities.  The passing run
`product_context` keeps 0820's capabilities on routes that exist.

### Bounds, and why they are enough

- `pipeline`, `MaxDispatches = 3`: the shortest way to hurt order, compression or staleness
  needs two values of one item and one of another; the third gives each a
  predecessor.  Everything except the number of calls is unbounded: queues grow
  as the code lets them.
- `pipeline`, two routes: no action involves three, and the mixed queue kinds (Buffered and
  Coalescing, in both places) and three compressions all occur.
- `Kelvin`: values are classes.  The temperature's normalization shifts its
  values, so that a stored temperature is never the 0 an absent one reads as.
- `MailboxLimit = 1`: overflow happens on the second message (1000 in the code).
- `publisher`: intervals of 1 and 2 ticks in at most 4: due, early, late, late by
  two intervals, and a third notification at the limiter's rate all occur.  A subscriber shares a plan only with one it can
  disturb: they meet in the queues, the limiter and the conditions of a target.
  Two periodic subscriptions share a target in one plan.  Changes are bounded in every
  plan: a stream of them that never ends is not in the instance.
  `MaxDelivered = 5` is more than any plan delivers outside the interval of 0.
- `MaxPushes = 4` with two consumers and two producers: more events than threads.
  In the library a queue has a single consumer; two make the class's promise
  visible.
- `MaxCalls`: for top 6, create, start, stop, start, stop, destroy; for the others
  what differs from top, 4 (create, start, stop, start) and 3 (create, start and
  a stop or a destruction).  `MaxQueued = 1`: a
  worker may find its queue empty or not; how many items there are does not matter
  to a lifecycle call.  Instances with two routes were checked with four calls:
  the routes are handled one after the other by the same steps.
- Product definitions: two rows in a table are enough for any duplicate, any
  order, and any clash of two numbers; a third domain ("X") is in no table.
  Routes vary in one family of definitions and storage in the other, since
  nothing connects the two.
- `earlier_paths`, `MaxSets = 3`, as in `pipeline`.  `path_755`, `MaxDispatches = 2`:
  a writer on each route against a snapshot that is being copied; the rest of the
  path is Pipeline's.
- `rim_api`: three accepted values let a value of a wrong type come between two
  right ones.  The firmware's external store has one queue, where two do.  Structs have size 2,
  or 1 when they are too short; arrays have one element, except that bil's
  builders look for an element with a property, so more elements add nothing.
- `MaxSize = 2` bytes of `{0, 1}` with the sum modulo 2 as hash: `<<0, 1>>` and
  `<<1, 0>>` collide.  `MaxCalls = 3`, `MaxWrites = 3`: a stored value, two
  more queued or in hand, and every byte rewritten and restored.
- Deadlock is not checked where the system may rest: the application may stop
  setting values, changing targets or calling, and nothing follows a rejected
  product definition.  `event_queue` checks it.

### Fairness

The runs `pipeline`, `publisher` and `lifecycle` use `FairSpec`, `event_queue` uses
`FairQueueSpec`.
Weak fairness is assumed of the library's own threads and of nothing else: a
worker that can take a step takes it.  They are `std::thread`s that block only in
their queue (a wait that ends when an event comes, by `EventQueue`'s properties)
and on locks held for a bounded time.  For the publisher and the lifecycle this
includes that a callback returns; for the lifecycle, that it does not itself call
`RIM_Stop` or `RIM_Destroy`, which would make its thread join itself.  Nothing
is assumed of the application, the clock, timeouts or spurious wake-ups, and in
`EventQueue` a worker is only required to come back for the next event while
the queue is not shut down.

### Things the models made plain

No comment, document or test of the repository contradicts what follows, so
they are observations, not findings:

- a value set after `RIM_Stop` is reported as `RI_SUCCESS` and lost (`AdapterDispatcher.cpp:53`);
- a context cannot be restarted: its queues stay shut, its callback and publisher
  threads spin, and its second `RIM_Stop` leaves the route workers alone;
  `RIM_Destroy` and `RIM_Create` give a context that works;
- `RIM_Stop` before the first `RIM_Start` shuts the publisher's queue, not the
  routes': the context will store and never notify;
- two periodic subscriptions of one target are each notified by both conditions;
- the last change inside a rate limiter's interval is not announced;
- a periodic subscription with an interval of 0 is due in every turn of the
  publisher's loop, which then never waits; changes still get through
  (EventuallyInformed);
- in 755 a struct of the wrong size is accepted by `RIM_SetBinary` and passed over
  by bil's builders, which keep the rest of the state;
- the CapabilityStore of 0818 and 0820 is safe only while all capabilities are on
  one route, as printer_a's are; `RIM_GetCapability` reads it from the application's
  thread;
- two routes with one id are accepted by the validation, and the second is never used;
- no setter of the API has the type of StapleLevel (`kUInt32`): every call for it
  is refused by Dispatch's type check;
- the pointer that `RIM_GetBinary` returns is into the storage, and is good only
  until the item is stored again.

## 4. What is proved

`PipelineProofs` proves, for every product, any number of routes, items and
calls, and every interleaving:

| theorem | states |
| --- | --- |
| `TypeCorrect` | `Spec => []TypeOK` |
| `StaysOnRoute` | `Spec => []OnRoute` |
| `LastWriteNeverLost` | `Spec => []LastWriteWins` |
| `ImplementsFeed` | `Spec => FeedsPublisher` |
| `NothingSwallowed` | `Spec => []NoChangeSwallowed` |
| `NeverStale` | `Spec => []NeverLeftStale` |
| `StoredBeforeNotified` | `Spec => []NotifiedIsReadable` |
| `RefinesPipeline` | `Spec755 => Spec` |
| `NeverStale755` | `Spec755 => []NeverLeftStale` |
| `LocksInOrder` | `NamedOnce` implies `Spec755 => []LocksAscend` |
| `OneCut` | `Spec755 => SnapshotIsOneCut` |

The assumptions are those of `Pipeline`: ids do not clash, the maps of a product
have their types and mean what they say (`MapAssumption`), a build gives a
value.  TLC evaluates all of them on the instances, and `MCPipeline` that the
maps as the code computes them satisfy them there; `MapsAgreeInAll`, below, proves
of every accepted product that its maps do.

The argument goes in layers.

1. `QueueLemmas`: what RemoveAt, InsertAt and the four policies do to a sequence,
   without induction.  The ones that carry the weight: `RouteInsertIds` (a push
   adds exactly its own id), `RouteInsertLast` (the last event of an id after a
   push is the pushed one, or the same as before), `TailLast` and `HeadLast`
   (popping the last event of an id leaves none), and
   `CompressionKeepsTargets` (whatever is compressed, the targets queued after a
   push are those before and the pushed one).
2. `TypeOK` is inductive: it contains what each program point holds (a worker
   that evaluates has something to evaluate, one that stores has a value).
3. `OnRoute` is inductive given `TypeOK`.  It is needed for the next one: only if
   nobody else handles an item is its order the order of one queue.
4. `LastWriteWins` is inductive given the two.  It had to be stated over the
   queue, the hands and the store together: "the store has the last value when
   the queue is empty" alone is not inductive, for it says nothing of a value
   in the worker's hands.
5. `ImplementsFeed`: under the mapping `dirty <- {i : Pending(i)}` every step of
   the path is a Change, a Look or a stutter.  Each kind of step has a lemma
   that says how it changes `Pending`.
6. `NothingSwallowed` and `StoredBeforeNotified` follow from the refinement
   alone: they are invariants of `ChangeFeed` carried back.
7. `NeverStale` adds three things to the types and the routes.  Every target a
   worker evaluates rests on an item of its own route (`TargetsOnRoute`), so nobody
   else evaluates a target with a home route.  A worker that waits has no targets
   (`IdleHasNoTarget`).  And being up to date is not enough: while the worker
   has `t` in hand, what it gathered for `t`, or decided to store, must be
   current *even if the stored value happens to be right*, or another change is
   still to be announced (`CurrentOf`).  Without that, a worker with an old
   snapshot could store an old value over a right one.
8. `RefinesPipeline`: a step of 755's path is a step of `Pipeline` or takes a
   lock, because every storage a worker looks for is registered (`AllRegistered`,
   from `DomainAssumption`: partition numbers as ProductContext gives them, again by
   `MapsAgreeInAll`).  All
   theorems of `Pipeline` hold of 755 by it; `NeverStale755` is the one a run of
   755 checks.
9. `LocksInOrder` and `OneCut` rest on `LocksOK`: the locks of a thread are the
   first ones of its snapshot's `LockOrder`; it has all of them as soon as it has
   copied one storage, and none when it copies nothing; and what it has copied is
   still what is stored, since a writer of a copied storage would have to wait
   (`WriteKeepsCopies`).  That sorting loses no storage and ascends is proved from
   ranks (`RanksDiffer`, `EveryRankIsTaken`: an injection between finite sets of the
   same size is onto), without induction; for this `LockOrder` says which place
   each number gets and does not use a recursive sort.

`ValueStoreProofs` proves, for every table of items, any routes and policies,
buffers of any size, any number of calls and writes, and **every** function as
the hash:

| theorem | states |
| --- | --- |
| `TypeCorrect` | `Spec => []TypeOK` |
| `NeverReinterpreted` | `Spec => []NoReinterpretation` |
| `BytesAreOwned` | `Spec => StoredBytesStay` |
| `LastValueIsRead` | `Spec => []LastValueRead` |

Its assumptions: the two buffers are two (`Entry` is neither `Caller` nor null),
null is no value, and `DefinitionAssumption`, which every table of the
repository meets and `ValidateProductDefinition` does not check: an item is set as
the type it is stored as, and only doubles are converted.  Where it fails,
`DataStoreWorker::Process` writes the stored type over the tag of a value of
another type.

1. `ValueInv` is the conjunction of `TypeOK`, `QueueInv`, `WorkerInv` and
   `StorageInv`, inductive together: a value in a queue or in hand has its
   item's type in the tag and in the union and points at the caller's buffer; a
   stored one points at its entry; a worker that hashes or compares looks at a
   stored entry of the same size.  One lemma per action.  `NeverReinterpreted` is a
   part of it.
2. `ContentsAreStored`: under `ValueInv` what a getter returns is a function of
   the storage alone.  `BytesAreOwned` follows, as only `Store` changes the
   storage, and only of the item in hand.
3. `Latest` says where the last value of an item is: last of its id in the
   queue, else in the worker's hand, with what was read so far a prefix of what the
   caller's buffer holds, else in the storage.  It is inductive given
   `ValueInv`.  The step that uses no property of the hash at all is
   `LatestCompare`: a worker stops only when the bytes it read are those stored.

The last part of `PipelineProofs` proves of `EventQueue`, for any number of
producers and consumers, either policy and any number of pushes:

| theorem | states |
| --- | --- |
| `EventQueueTypeCorrect` | `QueueSpec => []QueueTypeOK` |
| `SleepersAreReleased` | `QueueSpec => []NobodySleepsThroughShutdown` |
| `NoWakeUpIsLost` | `QueueSpec => []NobodySleepsOverEvents` |

The second is a count: if anyone sleeps, events are at most threads awake plus
threads that owe a notification.  It is inductive by itself, given the types.
A push adds one event at most and one debt (`RouteInsertLength`: a coalescing
push may add none), a pop takes an event and a thread that was awake, or one
that never slept; a notification turns a debt into a thread awake unless nobody
sleeps any more.  Producers and consumers are assumed finite, for there are
cardinalities.

`PublisherProofs` proves, for every set of plans, of subscriptions, targets,
intervals and limits, and the four revisions a plan may name:

| theorem | states |
| --- | --- |
| `PublisherTypeCorrect` | `Spec => []TypeOK` |
| `EveryChangeAnnounced` | `Spec => []InformedUnlessLimited` |
| `RateIsLimited` | `Spec => []NotifiedAtLimitedRate` |
| `NeverEarly` | `Spec => []PeriodicNeverEarly` |
| `NoDrift` | `Spec => []PeriodicOnGrid` |
| `AtMostOneLateCall` | `Spec => []SilentOnceUnsubscribed` |

The assumptions are `PublisherAssumption`: plans are plans, a mailbox holds at
least one message, subscribers are finitely many (a list of those that match
must exist).  One inductive invariant, `IInv`, carries five of the six:

1. `RegistryOK`: how far the call of a subscriber has come decides where it is
   registered (store, conditions, callbacks), in all three removing steps of
   `RIM_Unsubscribe` as well.
2. `WorkerOK`: what the publisher thread holds between two steps.  Those it still
   delivers to asked for the message's target and trigger, nobody is in the
   list twice, and a condition found due is still due (or is gone): between
   GetDueConditions and UpdateNextTime nobody else moves a next time forward.
3. `CallbackOK`: whoever has left has had a call, or is in the callback thread's
   hands for one, but not both.
4. `LimiterOK`: an entry of the limiter is the time at which a target with that
   key last passed.  `PassedNow`: while the recipients of a change are being chosen,
   that entry is still the change's own time stamp.
5. `RateOK`, `GridOK`, `EarlyOK`: the counts.  "At most one notification per
   interval" says nothing of a subscriber the thread is about to deliver to, so each
   count has a second half for those: what was delivered has been paid for with
   intervals *up to the last pass* (or up to the next time of the condition), and one
   more is paid for already when the subscriber is among the recipients, or when a
   change of its target has passed and they are still to be chosen (`Granted`).  A
   subscription's count starts with the time stamp of the change it is first chosen
   for, which `PassedNow` makes the limiter's last; the count from when it was
   stored starts one notification later, since the second one's time stamp is no
   older than the subscription.

`InformedUnlessLimited` is inductive on top of `IInv`.  Both of its halves bear
on a step of the limiter: a change it lets pass is on its way to all who are
subscribed when its recipients are chosen, one it holds back makes the exception
true.

`LifecycleProofs` proves, for any number of routes, calls and queued items, and
the four revisions:

| theorem | states |
| --- | --- |
| `LifecycleTypeCorrect` | `Spec => []TypeOK` |
| `NoTermination` | `Spec => []NeverTerminates` |
| `NoneOutlivesContext` | `Spec => []NoThreadOutlivesContext` |
| `QuietOnceStopped` | `Spec => []QuietAfterStop` |

The assumptions (`LifecycleAssumption`) are that a route is named once and that
the workers are different workers.  The inductive invariant is about what is
left of the call being made (`todo`):

1. `EndOK`: a worker whose destructor is still to come has ended, or a stop of it
   comes before the destructor; the same holds for all workers before the
   context is reset.  "A stop of it" depends on `stopped_`: the destructor of a route
   always stops its workers, `RouteExecutor::Stop` only the first time (`Stops`).
2. `RunningOK`: a thread whose `running_` is clear is about to be joined, so no step
   of a start meets it (a start would assign to a joinable `std::thread`).  This
   is where the check `if (running_) return` of every start is needed, and
   `JoinOK`: nothing comes between the shutdown of a queue and the join.
3. `PhaseOK`, `QuietOK`: after `RIM_Stop` whatever may still run is bound to stop
   in what is left of the call; `QuietAfterStop` is that for an empty `todo`.
4. Each kind of step replaces the first step of `todo` by some others (`Spliced`)
   or makes it a call; a lemma per kind says what that does to each part of the
   invariant, so that order of the steps within a call is used in one place only.

`EarlierPathProofs` proves, for either revision, every product definition, any
routes, policies and compression table, and any number of sets:

| theorem | states |
| --- | --- |
| `EarlierPathTypeCorrect` | `Spec => []TypeOK` |
| `LastWriteCrossesQueues` | `Spec => []LastWriteWins` |
| `NothingSwallowedEarlier` | `Spec => []NoChangeSwallowed` |
| `NeverLeftStaleEarlier` | `Spec => []NeverLeftStale` |
| `StoreIsPrivate` | `Spec => []OneThreadInCapabilityStore`, for a product with `OneHome` |

The assumptions are `ItemAssumption` (ids do not clash, the tables have their types
and a capability is listed once, though it may name an item more than once) and `FunctionAssumption` (a
build gives a value).  `OneHome`, that some route carries all items that
capabilities require, is a hypothesis of the last theorem alone, for the code
has no such rule: it holds in printer_a, and on the instance TLC checks.

1. `PathInv` is what is inductive on its own.  Beside the types: each route's
   threads handle items of their route only (`OnRoute`); an item that will not
   be announced is already stored with its value (`SilentStores`: a store
   between compare and write would break it, and only `OnRoute` excludes one); what a
   worker has still to evaluate requires its event's item (`TargetsDepend`); the
   registry's mutex is held by a thread that takes a snapshot, in 0818 a
   dispatcher, in 0820 a worker (`LockHeld`); what a dispatcher of 0818 has copied
   of its own route is what is stored (`OwnDataCurrent`).
2. Most steps concern another thread or another variable.  One lemma per
   variable says which steps leave it alone (`OthersDoNotStore`, ...`MoveStore`,
   ...`MoveCapability`, ...`Copy`, ...`Queue`), and the proofs about a property look
   only at the steps that are left.
3. `LastWriteWins` is inductive in the form it has: a layer (`inputQueue`, the
   router's hands, the route's queue, the store's hands and the storage) says
   something only when the layers before it have nothing of the item.
4. `NoChangeSwallowed`: `SilentStores` gives that a store that changes something
   is announced, `UnannouncedStays` that it gets to the publisher's queue.
5. `NeverLeftStale` is not inductive.  `Fresh` is: in 0818 *behind* every queued event
   of an item that `c` requires there is one with a current snapshot, or a
   dispatcher is about to push one (`LastIn`, with `RouteInsertLastIn` and
   `TailLastIn` for the queue); and a worker that has `c` in hand has a current
   snapshot or is taking one, or there is another event, whether or not the
   kept value is right at the moment.  An old event in 0818's queue may well
   put an old value in the CapabilityStore: the point is that a newer one is
   behind it.
6. `StoreIsPrivate`: a thread inside the store has a target, hence
   (`TargetsDepend`) an event some capability requires, hence (`OnRoute`) is the
   thread of the one route.

`RimApiProofs` proves, for the five revisions, every product (ids, declared
types, routes, policies), every data that may be given and every
normalization of it, and any number of sets:

| theorem | states |
| --- | --- |
| `ReadsBack` | `Spec => []AcceptedIsRead` |
| `StoredIsReadable` | `Spec => []StaysReadable` |
| `FaultReachesApplication` | `Spec => []FaultIsShown` |

The assumptions are `RimApiAssumption` (an item has a route if and only if it has a
type, bil's items and the error list are items, null is neither an item nor a
type) and `BilAssumption` (null is no product state).  Nothing is assumed of the
data: the fields of a struct are looked at by the builders and by nobody else.

1. `ApiStep` reduces the forty-odd calls of the five revisions to a life cycle
   call, or one of two things a setter does: `ArriveStep`, into StoreInputQueue,
   with a value nobody compared with the declared type, or `EnqueueStep`, into
   the store queue of the route, with a value of the declared type.  Which of the two
   follows from the revision, once `PushAs` and `DispatchAs` are read: in
   0818 a setter that dispatches still pushes into StoreInputQueue.
2. `ApiInv` is inductive.  Its types say more than types: every event in the store
   queue of a route is of an item of that route, and in 0820 and 755 every value,
   queued or stored, has its item's type (`ValuesOf`): with `Idle`
   (nothing is stored without a context) that is `StaysReadable`.  `Latest` follows the last accepted value through
   the one or two queues, as long as the context is open; `ShutOnce` is why that
   never comes back: `shut` is cleared by a new context only, because a second
   stop finds `stopped_` set.
3. `Evaluated` is for 755: a capability with something stored is what its builder
   makes of the storage, or a changed id it requires is still in
   CapabilityInputs.  A store that IdentityDiff calls no change must therefore
   leave the stored value exactly as it was; it does, for type and data are all
   there is of a value.  `BuildRequired`: the builders look at no item that they
   do not require, so that changes of others need no evaluation.

`ProductContextProofs` proves, for any set of product definitions, tables of
any length with any contents, valid or not, the four revisions and any writes:

| theorem | states |
| --- | --- |
| `Spec_IInv` | `Spec => []IInv` |
| `RouteOfQueues` | `Spec => []QueuedOnItsRoute` |
| `AbortsUnrouted` | `Spec => []OnlyUnrouted` |
| `NoneAborts` | `CapabilitiesRouted` implies `Spec => []NeverAborts` |
| `MapsAgreeInAll` | `Spec => []MapsAgree` |
| `SnapshotsAgree` | `Spec => []SnapshotsMatchAccessors` |
| `ImplementsThreeNameSpaces` | `Spec => ImplementsTypedStore` |

The assumption (`ProductAssumption`) is what C++ gives: tables are arrays of rows, a
data item's row and a route's are objects, 0818 and 0820 have no facades, and a
domain is one `inline constexpr` object, so that two items whose domains have the same
name point at the same one.  That validation succeeds is not assumed: what does not
pass it is never built.  `CapabilitiesRouted` says that the definitions 0820
accepts name existing routes for their capabilities.  The code does not check it, and
the run `product_capability_route` shows what happens then; `AbortsUnrouted` holds
without it and says that this is the only way to abort.

1. The maps are folds over the definition's tables.  What such a fold computes is
   found without an induction rule: a fold of the community modules is a
   function on the sets of positions, chosen by its equation; `FoldExists` gives one
   that satisfies it, so that the chosen one does, and `...Run` turns it into the
   sequence of intermediate results.  A statement about the results then holds of
   all positions because the set of those for which it holds contains 0 and the
   successor of each (`UpTo`: otherwise there would be a least one outside).
   `DependentsMembers`, `RequiredByAllUnique`, `RequiredDomainsMembers` and
   `DataDomainMapRight` are what comes out: who is listed, and that domains are
   numbered 1, 2, ... without a gap.
2. `FindDataDomainIdBound`: a definition that passes validation has at least as many
   domains in its table as its items use, so that no number of a data partition
   exceeds the length of the table: an injection between finite sets.  It is
   what keeps data apart from the capabilities and facades that are numbered behind the
   table, and the place where a domain that items use and the table lacks would do
   harm.
3. `ContextRight` collects this for the three ways the revisions compute their
   maps (`ContextOfRight`, `Context755Right`, `EarlierContextRight`), and
   `FacadesRight` the rest for those with facades.
4. `IInv` adds `StoresRight`: a partition holds no item but those whose partition it is.
   Without it a snapshot of several partitions might meet an item of
   another kind with the same id first; with it, an item that is found at all is found
   in its own (`DataHome`, `CapabilityHome`).  `SnapshotsAgree` is that for each
   revision's order of search.
5. `PathFits` puts the maps in the form that `Pipeline` and `Path755` take them in, an
   item being its kind with its id, and proves their assumptions of them.
6. `ImplementsThreeNameSpaces`: a complete write changes what the accessors read of
   its own key and of no other (`StoreIsWrite`, `StoreEarlierIsWrite`), because keys have
   partitions or ids of their own; building a library writes nothing.

Some theorems state properties that no run lists: `OnRoute` and
`NotifiedIsReadable` of `Pipeline`, which follow from the proofs at hand, and the
type invariants of `ValueStore`, `EventQueue`, `Publisher`, `Lifecycle` and
`EarlierPath`, which are
part of the invariants, as `OnlyUnrouted` is of `ProductContext`'s.  A capability whose data
arrive by two routes (`TonerRequired = TRUE` in `MCPipeline`) is covered by the
proof of `ImplementsFeed`, not by a run.

Only checked by TLC are the liveness properties (EventuallyDrained,
ShutdownReleases, EventuallySettles, EventuallyInformed, PeriodicCatchesUp,
EveryCallReturns, StartedMeansServed): reasoning with fairness is out of the proof
system's reach.  Every safety property that a passing run checks is also stated by a
theorem.

## 5. What is not modelled

- The bytes behind a pointer.  `RIM_GetBinary` returns one into the storage, and how
  long a reader may use it is not modelled.  A snapshot holds them as well: 755's
  copies a binary item as a pointer into `BinaryEntry::buffer`, and bil's
  `TryGetStruct` (`products/bil/CapabilityItem/CapabilityBuilders.cpp:46`) copies the bytes
  after `Build` has released its locks, when a worker may be storing the next value.
  **SnapshotIsOneCut** is a cut of the items, not of the bytes a builder reads later,
  and `RimApi` lets a builder read a struct whole.  Nor is a caller modelled
  that frees the buffer it gave to `RIM_SetBinary`.
- `SubscriberMailboxManager::GetMailbox` reads and extends an `unordered_map`
  without the mutex that the class has.  What an unlocked map does is up to the
  library; the model has every mailbox from the start.
- `ExecuteOnce` of the workers and of RouteExecutor: a single-threaded variant
  for tests.
- `SnapshotStorage` and `AccessorFacade` of 0818: only tests use them.
- `PrinterA_GetCapability` (a pointer into the CapabilityStore) and a reader of
  that store while it changes.
- The library core that 0820_FW and 744 are linked with: it is not in the
  repository.  `ProductDefinition.cpp` of those trees checks tables for it.
- `test_product` of 755: tables for tests; its scalars are in the instance of
  `rim_api`.
- What nothing in the code promises: a derived item evaluated on two routes at once
  may keep the older result; how often two periodic subscriptions of one target are
  notified by each other's conditions; a target whose route does not exist, whose
  notifications are dropped.
- Statistics, versions, overflow counters and logging; the 64-bit and string values
  that no product uses and the API cannot set.
- The skeleton product (a template), tests, tools and samples.

## 6. Plan

Done, in this order: queue policies, the data path and its proofs, the
publisher, the condition variable, the lifecycle, product definitions, values
and bytes and their proofs; then the other revisions: data paths, publisher and
lifecycle, definitions and lookups, public API and bil; then the proofs about
the publisher, the condition variable, the lifecycle, the earlier data paths, 755's
data path, the public API, of `NeverLeftStale`, and the definitions with their
maps and lookups.

1. An abstract mailbox/callback service that `Publisher` implements, and a
   refinement that lets `Pipeline` and `Publisher` be composed over the shared
   publisher queue.
2. The link `PathFits` makes for RIManager and 755, from an accepted product to
   the assumptions of `Pipeline` and `Path755`, for `EarlierPath` as well: 0818
   and 0820 validate less, so its `ItemAssumption` is their products' own.
