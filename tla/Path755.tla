------------------------------ MODULE Path755 ------------------------------
(***************************************************************************)
(* The data path of Rev755_FW/RIManager.  It is Pipeline's, but for the    *)
(* storage: every PartitionStorage is registered when the context is       *)
(* built, workers only write to a registered one (FindMutable), and a      *)
(* snapshot takes the shared locks of all its storages, in the order of    *)
(* their numbers, before it copies the first.                              *)
(***************************************************************************)
EXTENDS PipelineProperties, PathMaps755

ASSUME DomainAssumption == PartitionsFit

VARIABLE locks     \* shared locks SnapshotBuilder::Build holds, per route

vars755 == <<vars, locks>>

Init755 == Init /\ locks = [r \in Routes |-> <<>>]
-----------------------------------------------------------------------------
\* Mutant: the partitions of capabilities and facades are not registered.
RegisteredForData == 1 .. DomainCount

\* RIManagerContext::Initialize: the domains FindMutable will find.
Registered == (1 .. DomainCount) \cup {DerivedDomain[t] : t \in Derived}

\* CapabilityRequiredDomainMap before the std::find that skips repetitions.
\* (Mutant: the domains of a capability, each as often as an item names it.)
RepeatedDomains(c) ==
    [k \in DOMAIN RequiredData[c] |-> DomainOf[RequiredData[c][k]]]

\* CapabilityRequiredDomainMap: every domain once.
CapabilityDomains(c) == SetToSeq(ToSet(RepeatedDomains(c)))

\* FacadeSnapshotProvider::Create: one domain for each required capability.
FacadeDomains(f) ==
    [k \in DOMAIN RequiredCapabilities[f] |-> DerivedDomain[RequiredCapabilities[f][k]]]

SnapshotOf(t) == IF t \in Capabilities THEN CapabilityDomains(t) ELSE FacadeDomains(t)

\* Places of s whose numbers std::sort puts before the one at place i.
Before(s, places, i) == {j \in places : s[j] < s[i] \/ (s[j] = s[i] /\ j < i)}

\* Mutant: the storages are locked in the order they are asked for.
Unsorted(s, places) ==
    [k \in 1 .. Cardinality(places) |->
        s[CHOOSE i \in places : Cardinality({j \in places : j < i}) = k - 1]]

\* std::sort of the numbers at some places of s.
Ascending(s, places) ==
    [k \in 1 .. Cardinality(places) |->
        s[CHOOSE i \in places : Cardinality(Before(s, places, i)) = k - 1]]

\* SnapshotBuilder::Build: the storages that are found, in ascending order.
LockOrder(t) ==
    LET domains == SnapshotOf(t)
    IN  Ascending(domains, {k \in DOMAIN domains : domains[k] \in Registered})

Building(r) == capabilityPc[r] = "snapshot" /\ reads[r] # <<>>

ToLock(r) ==
    IF Building(r)
    THEN SubSeq(LockOrder(Head(targets[r])), Len(locks[r]) + 1,
                Len(LockOrder(Head(targets[r]))))
    ELSE <<>>

\* A worker may write to a storage nobody copies.
Writable(n) == \A r \in Routes : n \notin ToSet(locks[r])
-----------------------------------------------------------------------------
\* locks.emplace_back(storage->Mutex())
LockStorage(r) ==
    /\ ToLock(r) # <<>>
    /\ locks' = [locks EXCEPT ![r] = Append(@, Head(ToLock(r)))]
    /\ UNCHANGED vars

\* Mutant: a storage is unlocked as soon as it is copied.
CopyAndUnlock(r) ==
    /\ Building(r) /\ ToLock(r) = <<>>
    /\ ReadStorage(r)
    /\ locks' = [locks EXCEPT ![r] =
          IF Len(reads[r]) = 1 THEN <<>> ELSE [k \in DOMAIN @ |-> IF k = 1 THEN 0 ELSE @[k]]]

\* GetAllUnlocked of the next storage; the locks go when Build returns.
CopyStorage(r) ==
    /\ Building(r) /\ ToLock(r) = <<>>
    /\ ReadStorage(r)
    /\ locks' = [locks EXCEPT ![r] = IF Len(reads[r]) = 1 THEN <<>> ELSE @]

\* AdapterDispatcher::Dispatch.
Dispatch755(d, raw) == Dispatch(d, raw) /\ UNCHANGED locks

\* WorkerLoop, and Process up to the diff.
PopAndDiff(r) == (StorePop(r) \/ StoreDiff(r)) /\ UNCHANGED locks

\* Process: an item whose storage FindMutable does not know is dropped.
StoreRegistered(r) ==
    /\ storePc[r] = "store"
    /\ IF DomainOf[storeItem[r].id] \in Registered
       THEN Writable(DomainOf[storeItem[r].id]) /\ StoreWrite(r)
       ELSE /\ storePc' = [storePc EXCEPT ![r] = "wait"]
            /\ storeItem' = [storeItem EXCEPT ![r] = NoItem]
            /\ UNCHANGED <<dispatched, storeQueue, capabilityVars,
                           evaluationVars, domainStore, publisherQueue,
                           accepted, published>>
    /\ UNCHANGED locks

DataStoreWorker755(r) ==
    \/ PopAndDiff(r)
    \/ StoreRegistered(r)
    \/ StorePush(r) /\ UNCHANGED locks

(***************************************************************************)
(* Evaluate: false, hence nothing to publish, when the storage of the      *)
(* target is not registered.                                               *)
(***************************************************************************)
Evaluate(r) ==
    LET n == DerivedDomain[Head(targets[r])]
    IN  IF n \in Registered
        THEN EvaluateDiff(r) \/ (Writable(n) /\ EvaluateStore(r))
        ELSE /\ capabilityPc[r] = "snapshot" /\ reads[r] = <<>>
             /\ EvaluateNext(r, Tail(targets[r]))
             /\ UNCHANGED <<dispatched, storeVars, capabilityQueue, changedData,
                            domainStore, publisherQueue, accepted, published>>

Evaluating(r, kind) == targets[r] # <<>> /\ Head(targets[r]) \in kind

EvaluateCapability(r) ==
    Evaluating(r, Capabilities) /\ Evaluate(r) /\ UNCHANGED locks

EvaluateFacade(r) == Evaluating(r, Facades) /\ Evaluate(r) /\ UNCHANGED locks

\* CapabilityWorker::WorkerLoop, Process and PublishDataChanges.
PublishData755(r) ==
    (CapabilityPop(r) \/ PublishDataChange(r)) /\ UNCHANGED locks

\* PublishCapabilityChanges and PublishFacadeChanges.
PublishChanges755(r) == PublishDerivedChange(r) /\ UNCHANGED locks

CapabilityWorker755(r) ==
    \/ PublishData755(r)
    \/ LockStorage(r) \/ CopyStorage(r)
    \/ EvaluateCapability(r) \/ EvaluateFacade(r)
    \/ PublishChanges755(r)

\* The bound on dispatches is reached and every thread waits.
Finished755 ==
    /\ dispatched = MaxDispatches
    /\ \A r \in Routes : /\ storePc[r] = "wait" /\ storeQueue[r] = <<>>
                         /\ capabilityPc[r] = "wait" /\ capabilityQueue[r] = <<>>
    /\ publisherQueue = <<>>
    /\ UNCHANGED vars755

Next755 ==
    \/ \E d \in Data, raw \in RawValues : Dispatch755(d, raw)
    \/ \E r \in Routes : DataStoreWorker755(r) \/ CapabilityWorker755(r)
    \/ PublisherTake /\ UNCHANGED locks
    \/ Finished755

Spec755 == Init755 /\ [][Next755]_vars755
-----------------------------------------------------------------------------
(***************************************************************************)
(* A snapshot is one cut: whatever has been copied is still what is stored *)
(* when the last storage has been copied and the locks are released.       *)
(* (Pipeline's snapshots, taken storage by storage, do not promise this.)  *)
(* It is a cut of the items: a binary one is copied as a pointer, and what *)
(* a builder reads there, after the release, is not covered.               *)
(***************************************************************************)
SnapshotIsOneCut ==
    [][\A r \in Routes :
          Building(r) /\ reads'[r] = <<>> /\ targets'[r] = targets[r]
              => \A i \in Required(Head(targets[r])) :
                    snapshot'[r][i] = domainStore[i]]_vars755

(***************************************************************************)
(* A snapshot locks its storages in ascending order, each once.  Out of    *)
(* order, two snapshots and the writers that wait between them can wait in *)
(* a circle; and a thread that asks again for a shared lock it holds can   *)
(* wait for the writer that waits for it.                                  *)
(***************************************************************************)
LocksAscend ==
    \A r \in Routes : ToLock(r) # <<>> =>
        \A k \in DOMAIN locks[r] : locks[r][k] < Head(ToLock(r))
=============================================================================
