----------------------------- MODULE EarlierPath -----------------------------
(***************************************************************************)
(* The data path of the two earlier revisions the repository keeps,        *)
(* old_0818 and old_0820.  They differ from RIManager (module Pipeline) in *)
(* what their threads share and when they look at it:                      *)
(*                                                                         *)
(*   0818  application -> storeQueue -> DataStoreWorker (the router)       *)
(*           -> storeQueue[route] -> DataStoreDispatcher[route]            *)
(*           -> (snapshot of everything, id) -> capabilityQueue[route]     *)
(*           -> CapabilityWorker[route] -> publisherQueue                  *)
(*   0820  application -> storeQueue[route] -> DataStoreWorker[route]      *)
(*           -> id -> capabilityQueue[route]                               *)
(*           -> CapabilityWorker[route], which takes one snapshot for all  *)
(*              the capabilities the id concerns -> publisherQueue         *)
(*                                                                         *)
(* Capabilities are kept in a CapabilityStore that no mutex protects.  The *)
(* registry has a mutex of its own (registryLock), held by a thread that   *)
(* looks a DomainStorage up and by one that copies all of them; a thread   *)
(* that has its DomainStorage writes to it without that mutex.             *)
(***************************************************************************)
EXTENDS QueuePolicies, FiniteSets

CONSTANTS
    Revisions,           \* the revisions to check, of "0818" and "0820"
    DataItems,           \* ProductDefinition::dataItems, a sequence of ids
    CapabilityItems,     \* ProductDefinition::capabilities, likewise
    RequiredData,        \* requiredDataIds of a capability
    DomainOf, RouteOf,   \* domain and route of a data item
    UnknownData,         \* an id no product defines
    Routes,
    StorePolicy, CapabilityPolicy,
    CompressionTable,    \* GetNotificationCompressionPolicies, a function
    Values, NoValue, RawValues,
    Normalize(_, _), WithDiff, Build(_, _),
    RawSet,              \* 0818: items whose RIM_SetXxx skips the dispatcher
    MaxSets              \* bound: RIM_SetXxx calls of one behaviour

Data         == ToSet(DataItems)
Capabilities == ToSet(CapabilityItems)
Items        == Data \cup Capabilities
Stored       == Values \cup {NoValue}

Nobody  == "nobody"      \* registryLock is free
Invalid == 0             \* kInvalidDomainId

ASSUME ItemAssumption ==
    /\ Revisions \subseteq {"0818", "0820"}
    /\ DataItems \in Seq(Data) /\ CapabilityItems \in Seq(Capabilities)
    /\ IsInjective(CapabilityItems)
    /\ Data \cap Capabilities = {}
    /\ UnknownData \notin Items
    /\ NoValue \notin Values
    /\ Nobody \notin Routes
    /\ RawSet \subseteq Data \cup {UnknownData}
    /\ MaxSets \in Nat
    /\ RouteOf \in [Data -> Routes]
    /\ RequiredData \in [Capabilities -> Seq(Data)]
    /\ \A t \in DOMAIN CompressionTable : CompressionTable[t] \in CompressionPolicies

ASSUME FunctionAssumption ==
    /\ RawValues \subseteq Values
    /\ \A d \in Data, raw \in RawValues : Normalize(d, raw) \in Values
    /\ \A c \in Capabilities : \A s \in [ToSet(RequiredData[c]) -> Stored] :
          Build(c, s) \in Values

(***************************************************************************)
(* The maps computed from the product definition.                          *)
(***************************************************************************)
\* DataDomainMap: domains are numbered in the order the items name them.
DomainId(d) ==
    IF d \notin Data THEN Invalid
    ELSE LET first == Min({k \in DOMAIN DataItems :
                              DomainOf[DataItems[k]] = DomainOf[d]})
         IN  Cardinality({DomainOf[DataItems[k]] : k \in 1 .. first})

Domains == {DomainId(d) : d \in Data}

\* The capabilities that require d.
Dependents(d) == {c \in Capabilities : d \in ToSet(RequiredData[c])}

\* Mutant: every capability is evaluated for every item.
AllCapabilities(d) == {CapabilityItems}

\* Where the product names d: places of a capability and of d among its data.
Mentions(d) ==
    UNION {{i} \X {n \in DOMAIN RequiredData[CapabilityItems[i]] :
                      RequiredData[CapabilityItems[i]][n] = d} :
           i \in DOMAIN CapabilityItems}

\* CapabilityDependencyMap: the one list of the capabilities that require d in
\* the product's order, each as often as it names d.
DependentCapabilities(d) ==
    LET InOrder(places) == \A i, j \in DOMAIN places :
                              i < j => places[i][1] <= places[j][1]
    IN  {[k \in DOMAIN places |-> CapabilityItems[places[k][1]]] :
            places \in {p \in SetToSeqs(Mentions(d)) : InOrder(p)}}

\* CapabilityDomainMap: the domains of a capability's data.
CapabilityDomains(c) == {DomainId(d) : d \in ToSet(RequiredData[c])}

\* CapabilitySnapshotResolver::ResolveSnapshotDomains.
SnapshotDomains(d) == UNION {CapabilityDomains(c) : c \in Dependents(d)}

\* CompressionPolicyResolver::Resolve: a target not in the table has None.
CompressionOf(t) ==
    IF t \in DOMAIN CompressionTable THEN CompressionTable[t] ELSE "None"

\* RouteProvider::Find: the route of an id, none for an id not in the product.
RoutesOf(d) == IF d \in Data THEN {RouteOf[d]} ELSE {}
-----------------------------------------------------------------------------
VARIABLES
    revision,
    sets,             \* number of RIM_SetXxx calls so far
    inputQueue,       \* 0818: StoreInputQueue
    routed,           \* 0818: what the router popped, as a sequence of 0 or 1
    storeQueue, storePc, storeItem,
    announces,        \* ProcessItem's result: the item counts as changed
    registryLock,     \* DomainStorageRegistry::m_
    domainStore,
    unread,           \* domains GetAll has still to copy, by route
    gathered,         \* what it has copied so far
    capabilityQueue, capabilityPc,
    event,            \* the CapabilityInput (and snapshot) being processed
    targets,          \* capabilities Evaluate has still to look at
    changes,          \* CapabilityChangeSet
    capabilityStore,
    publisherQueue,
    accepted,         \* history: the last value RIM_SetXxx passed on
    published         \* history: value when the publisher last took it

inputVars      == <<inputQueue, routed>>
storeVars      == <<storeQueue, storePc, storeItem, announces>>
snapshotVars   == <<registryLock, unread, gathered>>
capabilityVars == <<capabilityQueue, capabilityPc, event, targets, changes,
                    capabilityStore>>
vars == <<revision, sets, inputVars, storeVars, snapshotVars, domainStore,
          capabilityVars, publisherQueue, accepted, published>>

EmptySnapshot == [d \in Data |-> NoValue]
NoItem        == [id |-> UnknownData, value |-> NoValue]
NoEvent       == [id |-> UnknownData, snapshot |-> EmptySnapshot]

Init ==
    /\ revision \in Revisions
    /\ sets = 0
    /\ inputQueue = <<>> /\ routed = <<>>
    /\ storeQueue = [r \in Routes |-> <<>>]
    /\ storePc = [r \in Routes |-> "wait"]
    /\ storeItem = [r \in Routes |-> NoItem]
    /\ announces = [r \in Routes |-> FALSE]
    /\ registryLock = Nobody
    /\ domainStore = EmptySnapshot
    /\ unread = [r \in Routes |-> {}]
    /\ gathered = [r \in Routes |-> EmptySnapshot]
    /\ capabilityQueue = [r \in Routes |-> <<>>]
    /\ capabilityPc = [r \in Routes |-> "wait"]
    /\ event = [r \in Routes |-> NoEvent]
    /\ targets = [r \in Routes |-> <<>>]
    /\ changes = [r \in Routes |-> <<>>]
    /\ capabilityStore = [c \in Capabilities |-> NoValue]
    /\ publisherQueue = <<>>
    /\ accepted = EmptySnapshot
    /\ published = [i \in Items |-> NoValue]
-----------------------------------------------------------------------------
(***************************************************************************)
(* The application's thread.                                               *)
(***************************************************************************)
PassedOn(d, v) ==
    /\ sets < MaxSets
    /\ sets' = sets + 1
    /\ accepted' = IF d \in Data THEN [accepted EXCEPT ![d] = v] ELSE accepted
    /\ UNCHANGED <<revision, routed, storePc, storeItem, announces,
                   snapshotVars, domainStore, capabilityVars,
                   publisherQueue, published>>

\* 0818, RIM_SetInt32: AdapterDispatcher::Dispatch refuses an unknown id.
DispatchInput(d, raw) ==
    /\ revision = "0818"
    /\ d \in Data \ RawSet
    /\ inputQueue' = Append(inputQueue, [id |-> d, value |-> Normalize(d, raw)])
    /\ UNCHANGED storeQueue
    /\ PassedOn(d, Normalize(d, raw))

\* 0818, the other setters: any id, no normalization, straight to the queue.
PushInput(d, raw) ==
    /\ revision = "0818"
    /\ d \in RawSet
    /\ inputQueue' = Append(inputQueue, [id |-> d, value |-> raw])
    /\ UNCHANGED storeQueue
    /\ PassedOn(d, raw)

\* How a route's queue takes an event (QueueFactory::Create, QueuePolicy).
QueueInsert(kind, q, e) == RouteInsert(kind, q, e)

\* 0820: Dispatch puts the item on its route's queue.
DispatchToRoute(d, raw) ==
    /\ revision = "0820"
    /\ d \in Data
    /\ \E r \in RoutesOf(d) :
          storeQueue' = [storeQueue EXCEPT ![r] =
              QueueInsert(StorePolicy[r], @,
                          [id |-> d, value |-> Normalize(d, raw)])]
    /\ UNCHANGED inputQueue
    /\ PassedOn(d, Normalize(d, raw))

(***************************************************************************)
(* 0818: the DataStoreWorker moves an input to its route's queue, or drops *)
(* it without a trace when its id has no route.                            *)
(***************************************************************************)
RouterPop ==
    /\ revision = "0818"
    /\ routed = <<>> /\ inputQueue # <<>>
    /\ routed' = <<Head(inputQueue)>>
    /\ inputQueue' = Tail(inputQueue)
    /\ UNCHANGED <<revision, sets, storeVars, snapshotVars, domainStore,
                   capabilityVars, publisherQueue, accepted, published>>

RouterPush ==
    /\ routed # <<>>
    /\ storeQueue' =
          [r \in Routes |->
              IF r \in RoutesOf(Head(routed).id)
              THEN QueueInsert(StorePolicy[r], storeQueue[r], Head(routed))
              ELSE storeQueue[r]]
    /\ routed' = <<>>
    /\ UNCHANGED <<revision, sets, inputQueue, storePc, storeItem, announces,
                   snapshotVars, domainStore, capabilityVars, publisherQueue,
                   accepted, published>>
-----------------------------------------------------------------------------
(***************************************************************************)
(* The thread that stores: 0818's DataStoreDispatcher, 0820's              *)
(* DataStoreWorker.                                                        *)
(***************************************************************************)
StorePop(r) ==
    /\ storePc[r] = "wait"
    /\ storeQueue[r] # <<>>
    /\ storeItem' = [storeItem EXCEPT ![r] = Head(storeQueue[r])]
    /\ storeQueue' = [storeQueue EXCEPT ![r] = Tail(@)]
    /\ storePc' = [storePc EXCEPT ![r] = "diff"]
    /\ UNCHANGED <<revision, sets, inputVars, announces, snapshotVars,
                   domainStore, capabilityVars, publisherQueue, accepted,
                   published>>

\* Look the current value up (registry, then storage) and compare.
StoreDiff(r) ==
    LET d == storeItem[r].id
        exists == domainStore[d] # NoValue
    IN  /\ storePc[r] = "diff"
        /\ registryLock = Nobody
        /\ announces' = [announces EXCEPT ![r] =
              ~(exists /\ d \in WithDiff) \/ domainStore[d] # storeItem[r].value]
        /\ storePc' = [storePc EXCEPT ![r] = "lookup"]
        /\ UNCHANGED <<revision, sets, inputVars, storeQueue, storeItem,
                       snapshotVars, domainStore, capabilityVars,
                       publisherQueue, accepted, published>>

\* GetOrCreate: needs the registry's mutex, which a GetAll may be holding.
StoreLookup(r) ==
    /\ storePc[r] = "lookup"
    /\ registryLock = Nobody
    /\ storePc' = [storePc EXCEPT ![r] = "store"]
    /\ UNCHANGED <<revision, sets, inputVars, storeQueue, storeItem, announces,
                   snapshotVars, domainStore, capabilityVars, publisherQueue,
                   accepted, published>>

\* Mutant: the storage is looked up with Find, which creates none.
StoresWhereFound(r) ==
    /\ storePc[r] = "store"
    /\ domainStore' = IF domainStore[storeItem[r].id] # NoValue
                      THEN [domainStore EXCEPT ![storeItem[r].id] = storeItem[r].value]
                      ELSE domainStore
    /\ storePc' = [storePc EXCEPT ![r] =
          IF ~announces[r] THEN "wait"
          ELSE IF revision = "0818" THEN "snapshot" ELSE "push"]
    /\ UNCHANGED <<revision, sets, inputVars, storeQueue, storeItem, announces,
                   snapshotVars, capabilityVars, publisherQueue, accepted,
                   published>>

\* DomainStorage::Store: every item is written, changed or not.
StoreWrite(r) ==
    /\ storePc[r] = "store"
    /\ domainStore' = [domainStore EXCEPT ![storeItem[r].id] = storeItem[r].value]
    /\ storePc' = [storePc EXCEPT ![r] =
          IF ~announces[r] THEN "wait"
          ELSE IF revision = "0818" THEN "snapshot" ELSE "push"]
    /\ UNCHANGED <<revision, sets, inputVars, storeQueue, storeItem, announces,
                   snapshotVars, capabilityVars, publisherQueue, accepted,
                   published>>

\* 0818 pushes the snapshot with the id, 0820 the id alone.
StorePush(r) ==
    LET travels == IF revision = "0818" THEN gathered[r] ELSE EmptySnapshot
    IN
    /\ storePc[r] = "push"
    /\ capabilityQueue' = [capabilityQueue EXCEPT ![r] =
          QueueInsert(CapabilityPolicy[r], @,
                      [id |-> storeItem[r].id, snapshot |-> travels])]
    /\ gathered' = IF revision = "0818"
                   THEN [gathered EXCEPT ![r] = EmptySnapshot] ELSE gathered
    /\ storePc' = [storePc EXCEPT ![r] = "wait"]
    /\ UNCHANGED <<revision, sets, inputVars, storeQueue, storeItem, announces,
                   registryLock, unread, domainStore, capabilityPc, event,
                   targets, changes, capabilityStore, publisherQueue,
                   accepted, published>>
-----------------------------------------------------------------------------
(***************************************************************************)
(* DomainStorageRegistry::GetAll, by the thread of route r that builds     *)
(* snapshots: the registry's mutex is held while one storage after the     *)
(* other is copied, each under its own lock.                               *)
(***************************************************************************)
GetAllBegin(r) ==
    /\ registryLock = Nobody
    /\ registryLock' = r
    /\ unread' = [unread EXCEPT ![r] = Domains]
    /\ gathered' = [gathered EXCEPT ![r] = EmptySnapshot]
    /\ UNCHANGED <<revision, sets, inputVars, storeVars, domainStore,
                   capabilityVars, publisherQueue, accepted, published>>

GetAllCopy(r) ==
    /\ registryLock = r
    /\ \E domain \in unread[r] :
          /\ unread' = [unread EXCEPT ![r] = @ \ {domain}]
          /\ gathered' = [gathered EXCEPT ![r] =
                [d \in Data |-> IF DomainId(d) = domain THEN domainStore[d]
                                                        ELSE @[d]]]
    /\ UNCHANGED <<revision, sets, inputVars, registryLock, storeVars,
                   domainStore, capabilityVars, publisherQueue, accepted,
                   published>>

\* 0818: RIMSnapshotManager::Read on the dispatcher's thread, after the store.
ReadSnapshot(r) ==
    /\ revision = "0818"
    /\ storePc[r] = "snapshot"
    /\ \/ GetAllBegin(r)
       \/ GetAllCopy(r)
       \/ /\ registryLock = r /\ unread[r] = {}
          /\ registryLock' = Nobody
          /\ storePc' = [storePc EXCEPT ![r] = "push"]
          /\ UNCHANGED <<revision, sets, inputVars, storeQueue, storeItem,
                         announces, unread, gathered, domainStore,
                         capabilityVars, publisherQueue, accepted, published>>

\* Mutant: the snapshot leaves out the domains of the changed item.
BuildsWithoutOwnDomain(r) ==
    /\ capabilityPc[r] = "snapshot"
    /\ \/ GetAllBegin(r)
       \/ GetAllCopy(r)
       \/ /\ registryLock = r /\ unread[r] = {}
          /\ registryLock' = Nobody
          /\ event' = [event EXCEPT ![r].snapshot =
                [d \in Data |-> IF DomainId(d) # DomainId(event[r].id)
                                THEN gathered[r][d] ELSE NoValue]]
          /\ gathered' = [gathered EXCEPT ![r] = EmptySnapshot]
          /\ capabilityPc' = [capabilityPc EXCEPT ![r] = "evaluate"]
          /\ UNCHANGED <<revision, sets, inputVars, storeVars, unread,
                         domainStore, capabilityQueue, targets, changes,
                         capabilityStore, publisherQueue, accepted, published>>

(***************************************************************************)
(* 0820: SnapshotBuilder::Build on the capability worker's thread copies   *)
(* everything and keeps the domains the resolver names.                    *)
(***************************************************************************)
BuildSnapshot(r) ==
    /\ capabilityPc[r] = "snapshot"
    /\ \/ GetAllBegin(r)
       \/ GetAllCopy(r)
       \/ /\ registryLock = r /\ unread[r] = {}
          /\ registryLock' = Nobody
          /\ event' = [event EXCEPT ![r].snapshot =
                [d \in Data |-> IF DomainId(d) \in SnapshotDomains(event[r].id)
                                THEN gathered[r][d] ELSE NoValue]]
          /\ gathered' = [gathered EXCEPT ![r] = EmptySnapshot]
          /\ capabilityPc' = [capabilityPc EXCEPT ![r] = "evaluate"]
          /\ UNCHANGED <<revision, sets, inputVars, storeVars, unread,
                         domainStore, capabilityQueue, targets, changes,
                         capabilityStore, publisherQueue, accepted, published>>
-----------------------------------------------------------------------------
(***************************************************************************)
(* PublisherInputQueue::Push, PriorityCompressionPolicy: the policy comes  *)
(* from the table, and every event has the zero priority.                  *)
(***************************************************************************)
PublisherInsert(q, t) ==
    PriorityCompressionInsert(q, [target |-> t, priority |-> Low,
                                  compression |-> CompressionOf(t)])

(***************************************************************************)
(* CapabilityWorker::Process.                                              *)
(***************************************************************************)
CapabilityPop(r) ==
    /\ capabilityPc[r] = "wait"
    /\ capabilityQueue[r] # <<>>
    /\ event' = [event EXCEPT ![r] = Head(capabilityQueue[r])]
    /\ capabilityQueue' = [capabilityQueue EXCEPT ![r] = Tail(@)]
    /\ capabilityPc' = [capabilityPc EXCEPT ![r] = "data"]
    /\ UNCHANGED <<revision, sets, inputVars, storeVars, snapshotVars,
                   domainStore, targets, changes, capabilityStore,
                   publisherQueue, accepted, published>>

\* The data notification goes out before anything is evaluated.
PublishData(r) ==
    /\ capabilityPc[r] = "data"
    /\ publisherQueue' = PublisherInsert(publisherQueue, event[r].id)
    /\ \E list \in DependentCapabilities(event[r].id) :
          targets' = [targets EXCEPT ![r] = list]
    /\ capabilityPc' = [capabilityPc EXCEPT ![r] =
          IF revision = "0818" THEN "evaluate" ELSE "snapshot"]
    /\ UNCHANGED <<revision, sets, inputVars, storeVars, snapshotVars,
                   domainStore, capabilityQueue, event, changes,
                   capabilityStore, accepted, published>>

\* The value build gives capability c on the snapshot of the event.
Built(c, snapshot) ==
    Build(c, [d \in ToSet(RequiredData[c]) |-> snapshot[d]])

\* CapabilityManager::Evaluate: build, then Find in the unprotected store.
EvaluateNext(r) ==
    /\ capabilityPc[r] = "evaluate"
    /\ targets[r] # <<>>
    /\ LET c == Head(targets[r])
       IN  IF capabilityStore[c] = Built(c, event[r].snapshot)
           THEN /\ targets' = [targets EXCEPT ![r] = Tail(@)]
                /\ UNCHANGED capabilityPc
           ELSE /\ capabilityPc' = [capabilityPc EXCEPT ![r] = "keep"]
                /\ UNCHANGED targets
    /\ UNCHANGED <<revision, sets, inputVars, storeVars, snapshotVars,
                   domainStore, capabilityQueue, event, changes,
                   capabilityStore, publisherQueue, accepted, published>>

KeepChanged(r) ==
    LET c == Head(targets[r])
    IN  /\ capabilityPc[r] = "keep"
        /\ capabilityStore' =
              [capabilityStore EXCEPT ![c] = Built(c, event[r].snapshot)]
        /\ changes' = [changes EXCEPT ![r] = Append(@, c)]
        /\ targets' = [targets EXCEPT ![r] = Tail(@)]
        /\ capabilityPc' = [capabilityPc EXCEPT ![r] = "evaluate"]
        /\ UNCHANGED <<revision, sets, inputVars, storeVars, snapshotVars,
                       domainStore, capabilityQueue, event, publisherQueue,
                       accepted, published>>

\* Mutant: only the first capability that changed is announced.
PublishesFirstChange(r) ==
    /\ capabilityPc[r] = "evaluate"
    /\ targets[r] = <<>>
    /\ publisherQueue' = IF changes[r] = <<>> THEN publisherQueue
                         ELSE PublisherInsert(publisherQueue, Head(changes[r]))
    /\ changes' = [changes EXCEPT ![r] = <<>>]
    /\ capabilityPc' = [capabilityPc EXCEPT ![r] = "wait"]
    /\ event' = [event EXCEPT ![r] = NoEvent]
    /\ UNCHANGED <<revision, sets, inputVars, storeVars, snapshotVars,
                   domainStore, capabilityQueue, targets, capabilityStore,
                   accepted, published>>

\* PublishCapabilityChanges: one push for each capability that changed.
PublishNextChange(r) ==
    /\ capabilityPc[r] = "evaluate"
    /\ targets[r] = <<>>
    /\ IF changes[r] = <<>>
       THEN /\ capabilityPc' = [capabilityPc EXCEPT ![r] = "wait"]
            /\ event' = [event EXCEPT ![r] = NoEvent]
            /\ UNCHANGED <<changes, publisherQueue>>
       ELSE /\ publisherQueue' = PublisherInsert(publisherQueue, Head(changes[r]))
            /\ changes' = [changes EXCEPT ![r] = Tail(@)]
            /\ UNCHANGED <<capabilityPc, event>>
    /\ UNCHANGED <<revision, sets, inputVars, storeVars, snapshotVars,
                   domainStore, capabilityQueue, targets, capabilityStore,
                   accepted, published>>

\* PublisherWorker takes the next notification.
PublisherTake ==
    /\ publisherQueue # <<>>
    /\ LET t == Head(publisherQueue).target
       IN  published' = [published EXCEPT ![t] =
              IF t \in Data THEN domainStore[t] ELSE capabilityStore[t]]
    /\ publisherQueue' = Tail(publisherQueue)
    /\ UNCHANGED <<revision, sets, inputVars, storeVars, snapshotVars,
                   domainStore, capabilityVars, accepted>>
-----------------------------------------------------------------------------
(***************************************************************************)
(* The threads of each revision.                                           *)
(***************************************************************************)
Application0818 ==
    \E d \in Data \cup {UnknownData} :
        \/ \E raw \in RawValues : DispatchInput(d, raw)
        \/ \E raw \in RawValues : PushInput(d, raw)

Application0820 == \E d \in Data, raw \in RawValues : DispatchToRoute(d, raw)

Router0818 == RouterPop \/ RouterPush

StoreThread(r) ==
    StorePop(r) \/ StoreDiff(r) \/ StoreLookup(r) \/ StoreWrite(r) \/ StorePush(r)

Evaluate(r) == EvaluateNext(r) \/ KeepChanged(r)

CapabilityThread(r) ==
    CapabilityPop(r) \/ PublishData(r) \/ Evaluate(r) \/ PublishNextChange(r)

DataStoreDispatcher0818(r) ==
    revision = "0818" /\ (StoreThread(r) \/ ReadSnapshot(r))

DataStoreWorker0820(r) == revision = "0820" /\ StoreThread(r)

CapabilityWorker0818(r) == revision = "0818" /\ CapabilityThread(r)

CapabilityWorker0820(r) ==
    revision = "0820" /\ (CapabilityThread(r) \/ BuildSnapshot(r))

\* The bound on sets is reached and every queue is empty: all threads wait.
Finished ==
    /\ sets = MaxSets
    /\ inputQueue = <<>> /\ routed = <<>> /\ publisherQueue = <<>>
    /\ \A r \in Routes :
          /\ storePc[r] = "wait" /\ storeQueue[r] = <<>>
          /\ capabilityPc[r] = "wait" /\ capabilityQueue[r] = <<>>
    /\ UNCHANGED vars

Next ==
    \/ Application0818 \/ Application0820
    \/ Router0818
    \/ \E r \in Routes :
          \/ DataStoreDispatcher0818(r) \/ CapabilityWorker0818(r)
          \/ DataStoreWorker0820(r) \/ CapabilityWorker0820(r)
    \/ PublisherTake
    \/ Finished

Spec == Init /\ [][Next]_vars
=============================================================================
