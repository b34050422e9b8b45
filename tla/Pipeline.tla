------------------------------ MODULE Pipeline ------------------------------
(***************************************************************************)
(* The running data path of RIManager, from RIM_SetXxx to the moment the   *)
(* publisher takes a notification:                                         *)
(*                                                                         *)
(*   application -> AdapterDispatcher -> storeQueue[route]                 *)
(*     -> DataStoreWorker[route] -> domainStore, capabilityQueue[route]    *)
(*     -> CapabilityWorker[route] -> domainStore, publisherQueue           *)
(*     -> PublisherWorker                                                  *)
(*                                                                         *)
(* Every route has a DataStoreWorker thread and a CapabilityWorker thread; *)
(* all of them share one PartitionStorageRegistry (domainStore) and one    *)
(* publisher queue.  A step of this module is one critical section of the  *)
(* code: a queue operation, or one access to a PartitionStorage.  What a   *)
(* thread computes between two of them touches nothing shared.             *)
(***************************************************************************)
EXTENDS QueuePolicies, FiniteSets, PathMaps

CONSTANTS
    Routes,
    Values,                       \* values an item can hold
    NoValue,                      \* "Find returned false"
    NoData,                       \* RI_INVALID_DATA_ID
    RawValues, Normalize(_, _),   \* DataItemDefinition::normalize
    WithDiff,                     \* data items whose diff is not nullptr
    Build(_, _),                  \* {Capability,Facade}ItemDefinition::build
    RouteOf,                      \* the route of a data item
    StorePolicy, CapabilityPolicy,\* RouteDefinition::{store,capability}Policy
    Compression,                  \* ResolveRoute(target)->compressionPolicy
    MaxDispatches                 \* bound: RIM_SetXxx calls of one behaviour

Items   == Data \cup Derived
Stored  == Values \cup {NoValue}

(***************************************************************************)
(* The assumptions: ids do not clash, and the maps ProductContext derives  *)
(* from the product definition are complete and agree (module PathMaps).   *)
(***************************************************************************)
ASSUME ItemAssumption ==
    /\ KindsApart
    /\ NoData \notin Data
    /\ NoValue \notin Values
    /\ WithDiff \subseteq Data
    /\ MaxDispatches \in Nat

ASSUME RouteAssumption ==
    /\ RouteOf \in [Data -> Routes]
    /\ StorePolicy \in [Routes -> QueueKinds]
    /\ CapabilityPolicy \in [Routes -> QueueKinds]
    /\ Compression \in [Items -> CompressionPolicies]

ASSUME MapAssumption == MapsFit

ASSUME FunctionAssumption ==
    /\ \A d \in Data, raw \in RawValues : Normalize(d, raw) \in Values
    /\ \A t \in Derived : \A s \in [Required(t) -> Stored] :
          Build(t, s) \in Values

VARIABLES
    dispatched,       \* number of RIM_SetXxx calls so far
    storeQueue,       \* RouteQueues::storeQueue, per route
    storePc,          \* where the DataStoreWorker of a route is
    storeItem,        \* the RIMDataItem it holds
    capabilityQueue,  \* RouteQueues::capabilityQueue, per route
    capabilityPc,     \* where the CapabilityWorker of a route is
    changedData,      \* the CapabilityInput it holds
    targets,          \* what it still has to evaluate, the current one first
    reads,            \* storage reads still needed for the current snapshot
    snapshot,         \* the RIMSnapshot gathered so far
    newValue,         \* the value Evaluate decided to store
    domainStore,      \* PartitionStorageRegistry: the value of every item
    publisherQueue,   \* PublisherInputQueue
    accepted,         \* history: the last value dispatched for a data item
    published         \* history: the value of an item when the publisher last
                      \* took a notification of it

storeVars      == <<storeQueue, storePc, storeItem>>
evaluationVars == <<targets, reads, snapshot, newValue>>
capabilityVars == <<capabilityQueue, capabilityPc, changedData>>
vars == <<dispatched, storeVars, capabilityVars, evaluationVars,
          domainStore, publisherQueue, accepted, published>>

EmptySnapshot == [i \in Items |-> NoValue]
NoItem        == [id |-> NoData, value |-> NoValue]

Init ==
    /\ dispatched = 0
    /\ storeQueue = [r \in Routes |-> <<>>]
    /\ storePc = [r \in Routes |-> "wait"]
    /\ storeItem = [r \in Routes |-> NoItem]
    /\ capabilityQueue = [r \in Routes |-> <<>>]
    /\ capabilityPc = [r \in Routes |-> "wait"]
    /\ changedData = [r \in Routes |-> NoData]
    /\ targets = [r \in Routes |-> <<>>]
    /\ reads = [r \in Routes |-> <<>>]
    /\ snapshot = [r \in Routes |-> EmptySnapshot]
    /\ newValue = [r \in Routes |-> NoValue]
    /\ domainStore = [i \in Items |-> NoValue]
    /\ publisherQueue = <<>>
    /\ accepted = [d \in Data |-> NoValue]
    /\ published = [i \in Items |-> NoValue]
-----------------------------------------------------------------------------
(***************************************************************************)
(* AdapterDispatcher::Dispatch on the application's thread, for a known id *)
(* and a value of its rawValueType (anything else returns false and        *)
(* changes nothing).                                                       *)
(***************************************************************************)
Dispatch(d, raw) ==
    LET r    == RouteOf[d]
        item == [id |-> d, value |-> Normalize(d, raw)]
    IN  /\ dispatched < MaxDispatches
        /\ dispatched' = dispatched + 1
        /\ storeQueue' =
              [storeQueue EXCEPT ![r] = RouteInsert(StorePolicy[r], @, item)]
        /\ accepted' = [accepted EXCEPT ![d] = item.value]
        /\ UNCHANGED <<storePc, storeItem, capabilityVars, evaluationVars,
                       domainStore, publisherQueue, published>>
-----------------------------------------------------------------------------
(***************************************************************************)
(* DataStoreWorker: WorkerLoop and Process.  The store functions of the    *)
(* products are IdentityStore and StoreBinary, which return the new value. *)
(***************************************************************************)
StorePop(r) ==
    /\ storePc[r] = "wait"
    /\ storeQueue[r] # <<>>
    /\ storeItem' = [storeItem EXCEPT ![r] = Head(storeQueue[r])]
    /\ storeQueue' = [storeQueue EXCEPT ![r] = Tail(@)]
    /\ storePc' = [storePc EXCEPT ![r] = "diff"]
    /\ UNCHANGED <<dispatched, capabilityVars, evaluationVars, domainStore,
                   publisherQueue, accepted, published>>

StoreUnchanged(item) ==
    /\ domainStore[item.id] # NoValue
    /\ item.id \in WithDiff
    /\ domainStore[item.id] = item.value

StoreDiff(r) ==
    /\ storePc[r] = "diff"
    /\ IF StoreUnchanged(storeItem[r])
       THEN /\ storePc' = [storePc EXCEPT ![r] = "wait"]
            /\ storeItem' = [storeItem EXCEPT ![r] = NoItem]
       ELSE /\ storePc' = [storePc EXCEPT ![r] = "store"]
            /\ UNCHANGED storeItem
    /\ UNCHANGED <<dispatched, storeQueue, capabilityVars, evaluationVars,
                   domainStore, publisherQueue, accepted, published>>

StoreWrite(r) ==
    /\ storePc[r] = "store"
    /\ domainStore' = [domainStore EXCEPT ![storeItem[r].id] = storeItem[r].value]
    /\ storePc' = [storePc EXCEPT ![r] = "push"]
    /\ UNCHANGED <<dispatched, storeQueue, storeItem, capabilityVars,
                   evaluationVars, publisherQueue, accepted, published>>

StorePush(r) ==
    /\ storePc[r] = "push"
    /\ capabilityQueue' =
          [capabilityQueue EXCEPT
             ![r] = RouteInsert(CapabilityPolicy[r], @, [id |-> storeItem[r].id])]
    /\ storePc' = [storePc EXCEPT ![r] = "wait"]
    /\ storeItem' = [storeItem EXCEPT ![r] = NoItem]
    /\ UNCHANGED <<dispatched, storeQueue, capabilityPc, changedData,
                   evaluationVars, domainStore, publisherQueue, accepted,
                   published>>

DataStoreWorker(r) ==
    StorePop(r) \/ StoreDiff(r) \/ StoreWrite(r) \/ StorePush(r)
-----------------------------------------------------------------------------
(***************************************************************************)
(* CapabilityWorker.  Process publishes the data change, then evaluates    *)
(* every dependent capability and, after each one that changed, the        *)
(* facades that depend on it.  The nested loops are a work list: a target  *)
(* that changed puts its facades in front of what is left.                 *)
(***************************************************************************)
PublisherInput(t) ==
    [target |-> t, priority |-> Low, compression |-> Compression[t]]

PushNotification(t) ==
    publisherQueue' = PriorityCompressionInsert(publisherQueue, PublisherInput(t))

(***************************************************************************)
(* The storage reads of a snapshot, in order: a capability takes GetAll of *)
(* every domain it needs, a facade finds its capabilities one by one.      *)
(***************************************************************************)
ReadPlan(t) ==
    IF t \in Capabilities
    THEN [k \in DOMAIN SnapshotDomains[t] |->
             {d \in Data : DomainOf[d] = SnapshotDomains[t][k]}]
    ELSE [k \in DOMAIN RequiredCapabilities[t] |-> {RequiredCapabilities[t][k]}]

FacadesOf(t) == IF t \in Capabilities THEN FacadeDependencies[t] ELSE <<>>

\* Mutant: the worker evaluates once more when nothing is left to evaluate.
EvaluateNextPastEnd(r, left) ==
    /\ targets' = [targets EXCEPT ![r] = left]
    /\ reads' = [reads EXCEPT ![r] = IF left = <<>> THEN <<>> ELSE ReadPlan(Head(left))]
    /\ snapshot' = [snapshot EXCEPT ![r] = EmptySnapshot]
    /\ newValue' = [newValue EXCEPT ![r] = NoValue]
    /\ capabilityPc' = [capabilityPc EXCEPT ![r] = "snapshot"]

\* Turn to the next target, or back to the queue when there is none.
EvaluateNext(r, left) ==
    /\ targets' = [targets EXCEPT ![r] = left]
    /\ reads' = [reads EXCEPT ![r] = IF left = <<>> THEN <<>> ELSE ReadPlan(Head(left))]
    /\ snapshot' = [snapshot EXCEPT ![r] = EmptySnapshot]
    /\ newValue' = [newValue EXCEPT ![r] = NoValue]
    /\ capabilityPc' =
          [capabilityPc EXCEPT ![r] = IF left = <<>> THEN "wait" ELSE "snapshot"]

CapabilityPop(r) ==
    /\ capabilityPc[r] = "wait"
    /\ capabilityQueue[r] # <<>>
    /\ changedData' = [changedData EXCEPT ![r] = Head(capabilityQueue[r]).id]
    /\ capabilityQueue' = [capabilityQueue EXCEPT ![r] = Tail(@)]
    /\ capabilityPc' = [capabilityPc EXCEPT ![r] = "data"]
    /\ UNCHANGED <<dispatched, storeVars, evaluationVars, domainStore,
                   publisherQueue, accepted, published>>

\* Mutant: a data change no capability depends on is not published.
PublishDataChangeIfNeeded(r) ==
    /\ capabilityPc[r] = "data"
    /\ IF CapabilityDependencies[changedData[r]] = <<>>
       THEN UNCHANGED publisherQueue
       ELSE PushNotification(changedData[r])
    /\ EvaluateNext(r, CapabilityDependencies[changedData[r]])
    /\ changedData' = [changedData EXCEPT ![r] = NoData]
    /\ UNCHANGED <<dispatched, storeVars, capabilityQueue, domainStore,
                   accepted, published>>

PublishDataChange(r) ==
    /\ capabilityPc[r] = "data"
    /\ PushNotification(changedData[r])
    /\ EvaluateNext(r, CapabilityDependencies[changedData[r]])
    /\ changedData' = [changedData EXCEPT ![r] = NoData]
    /\ UNCHANGED <<dispatched, storeVars, capabilityQueue, domainStore,
                   accepted, published>>

ReadStorage(r) ==
    /\ capabilityPc[r] = "snapshot"
    /\ reads[r] # <<>>
    /\ snapshot' =
          [snapshot EXCEPT ![r] =
             [i \in Items |-> IF i \in Head(reads[r]) THEN domainStore[i] ELSE @[i]]]
    /\ reads' = [reads EXCEPT ![r] = Tail(@)]
    /\ UNCHANGED <<dispatched, storeVars, capabilityVars, targets, newValue,
                   domainStore, publisherQueue, accepted, published>>

\* The value {Capability,Facade}Manager::Evaluate builds from a snapshot.
BuiltFrom(t, source) == Build(t, [i \in Required(t) |-> source[i]])

\* Mutant: a value found unchanged ends the worker's loop.
EvaluateDiffLeavesLoop(r) ==
    LET t     == Head(targets[r])
        value == BuiltFrom(t, snapshot[r])
    IN  /\ capabilityPc[r] = "snapshot"
        /\ reads[r] = <<>>
        /\ IF domainStore[t] = value
           THEN /\ capabilityPc' = [capabilityPc EXCEPT ![r] = "ended"]
                /\ UNCHANGED evaluationVars
           ELSE /\ newValue' = [newValue EXCEPT ![r] = value]
                /\ snapshot' = [snapshot EXCEPT ![r] = EmptySnapshot]
                /\ capabilityPc' = [capabilityPc EXCEPT ![r] = "store"]
                /\ UNCHANGED <<targets, reads>>
        /\ UNCHANGED <<dispatched, storeVars, capabilityQueue, changedData,
                       domainStore, publisherQueue, accepted, published>>

\* Evaluate up to its diff: the value stored now against the one just built.
EvaluateDiff(r) ==
    LET t     == Head(targets[r])
        value == BuiltFrom(t, snapshot[r])
    IN  /\ capabilityPc[r] = "snapshot"
        /\ reads[r] = <<>>
        /\ IF domainStore[t] = value
           THEN EvaluateNext(r, Tail(targets[r]))
           ELSE /\ newValue' = [newValue EXCEPT ![r] = value]
                /\ snapshot' = [snapshot EXCEPT ![r] = EmptySnapshot]
                /\ capabilityPc' = [capabilityPc EXCEPT ![r] = "store"]
                /\ UNCHANGED <<targets, reads>>
        /\ UNCHANGED <<dispatched, storeVars, capabilityQueue, changedData,
                       domainStore, publisherQueue, accepted, published>>

EvaluateStore(r) ==
    /\ capabilityPc[r] = "store"
    /\ domainStore' = [domainStore EXCEPT ![Head(targets[r])] = newValue[r]]
    /\ newValue' = [newValue EXCEPT ![r] = NoValue]
    /\ capabilityPc' = [capabilityPc EXCEPT ![r] = "publish"]
    /\ UNCHANGED <<dispatched, storeVars, capabilityQueue, changedData, targets,
                   reads, snapshot, publisherQueue, accepted, published>>

\* Mutant: the facades of a changed capability are not evaluated.
PublishWithoutFacades(r) ==
    LET t == Head(targets[r])
    IN  /\ capabilityPc[r] = "publish"
        /\ PushNotification(t)
        /\ EvaluateNext(r, Tail(targets[r]))
        /\ UNCHANGED <<dispatched, storeVars, capabilityQueue, changedData,
                       domainStore, accepted, published>>

PublishDerivedChange(r) ==
    LET t == Head(targets[r])
    IN  /\ capabilityPc[r] = "publish"
        /\ PushNotification(t)
        /\ EvaluateNext(r, FacadesOf(t) \o Tail(targets[r]))
        /\ UNCHANGED <<dispatched, storeVars, capabilityQueue, changedData,
                       domainStore, accepted, published>>

CapabilityWorker(r) ==
    \/ CapabilityPop(r)
    \/ PublishDataChange(r)
    \/ ReadStorage(r)
    \/ EvaluateDiff(r)
    \/ EvaluateStore(r)
    \/ PublishDerivedChange(r)
-----------------------------------------------------------------------------
(***************************************************************************)
(* PublisherWorker takes the front of its queue.  A subscriber told of the *)
(* change calls RIM_GetXxx no earlier than this step, so it reads the      *)
(* value recorded in "published" or a later one.                           *)
(***************************************************************************)
PublisherTake ==
    /\ publisherQueue # <<>>
    /\ LET t == Head(publisherQueue).target
       IN  published' = [published EXCEPT ![t] = domainStore[t]]
    /\ publisherQueue' = Tail(publisherQueue)
    /\ UNCHANGED <<dispatched, storeVars, capabilityVars, evaluationVars,
                   domainStore, accepted>>

Next ==
    \/ \E d \in Data, raw \in RawValues : Dispatch(d, raw)
    \/ \E r \in Routes : DataStoreWorker(r) \/ CapabilityWorker(r)
    \/ PublisherTake

Spec == Init /\ [][Next]_vars

(***************************************************************************)
(* Every worker thread runs: std::thread, no priorities, and the locks it  *)
(* takes are held for one operation only.  The application owes nothing.   *)
(***************************************************************************)
Fairness ==
    /\ \A r \in Routes : WF_vars(DataStoreWorker(r)) /\ WF_vars(CapabilityWorker(r))
    /\ WF_vars(PublisherTake)

FairSpec == Spec /\ Fairness
=============================================================================
