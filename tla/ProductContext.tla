--------------------------- MODULE ProductContext ---------------------------
(***************************************************************************)
(* What a product definition is turned into when a context is created, and *)
(* what the running library does with it.  ProductContext numbers the      *)
(* partitions of the storage, RouteProvider builds the queues and the      *)
(* routing table; from then on values of data items, capabilities and      *)
(* facades are written to and read from one PartitionStorageRegistry by    *)
(* partition number and item id.                                           *)
(*                                                                         *)
(* A definition is validated by a test, RIM_Create does not ask again:     *)
(* only an accepted definition is built into a library.  Who writes when   *)
(* is module Pipeline's subject; a step here is one complete write.        *)
(***************************************************************************)
EXTENDS EarlierProducts

CONSTANTS
    Candidates,                        \* revision -> the definitions considered
    DataIds, CapabilityIds, FacadeIds, \* the ids they use
    Values, NoValue                    \* NoValue: "TryGet returned false"

(***************************************************************************)
(* A definition is made of constant tables, those of 0818 and 0820 without *)
(* facades.  A domain is one inline constexpr object that data items point *)
(* at, so that a name stands for one object.                               *)
(***************************************************************************)
IsTable(table) == table \in Seq(ToSet(table))

OneObjectPerName(p) ==
    \A i, j \in DOMAIN p.dataItems :
        /\ p.dataItems[i].domain # Null
        /\ p.dataItems[j].domain # Null
        /\ p.dataItems[i].domain.text = p.dataItems[j].domain.text
        => p.dataItems[i].domain = p.dataItems[j].domain

IsProduct(p) ==
    /\ IsTable(p.domains)
    /\ IsTable(p.routes) /\ Null \notin ToSet(p.routes)
    /\ IsTable(p.dataItems) /\ Null \notin ToSet(p.dataItems)
    /\ Ids(p.dataItems) \subseteq DataIds
    /\ IsTable(p.capabilities) /\ Ids(p.capabilities) \subseteq CapabilityIds
    /\ IsTable(p.facades) /\ Ids(p.facades) \subseteq FacadeIds
    /\ \A i \in DOMAIN p.capabilities : IsTable(p.capabilities[i].required)
    /\ \A i \in DOMAIN p.facades : IsTable(p.facades[i].required)
    /\ OneObjectPerName(p)

ASSUME ProductAssumption ==
    /\ DOMAIN Candidates \subseteq {"top", "755", "0818", "0820"}
    /\ \A r \in DOMAIN Candidates : \A p \in Candidates[r] :
          IsProduct(p) /\ (r \in {"0818", "0820"} => p.facades = <<>>)

VARIABLES
    revision,     \* "top", "755", "0818" or "0820"
    product,      \* the ProductDefinition
    context,      \* the maps of ProductContext
    phase,        \* "written", "accepted" or "rejected", "running" or "aborted"
    queues,       \* RouteProvider::queues_: the route a name's queues are made for
    routingTable, \* RouteProvider::routingTable_: the name of an item's queues
    domainStore,  \* PartitionStorageRegistry: partition -> id -> value
    capabilityStore \* 0818, 0820: CapabilityStore: id -> value

vars == <<revision, product, context, phase, queues, routingTable, domainStore,
          capabilityStore>>

Empty == [x \in {} |-> x]

NoContext ==
    [partition |-> [data |-> Empty, capability |-> Empty, facade |-> Empty],
     capabilityDomains |-> Empty, capabilityDependencies |-> Empty,
     facadeDependencies |-> Empty, capabilityRoutes |-> Empty]

Init ==
    /\ revision \in DOMAIN Candidates
    /\ product \in Candidates[revision]
    /\ phase = "written"
    /\ context = NoContext
    /\ queues = Empty
    /\ routingTable = Empty
    /\ domainStore = Empty
    /\ capabilityStore = Empty

Accepts(p) ==
    CASE revision = "top"  -> ValidateProductDefinition(p)
      [] revision = "755"  -> Accepts755(p)
      [] revision = "0818" -> Accepts0818(p)
      [] revision = "0820" -> Accepts0820(p)

\* A product's test calls ValidateProductDefinition and expects true.
Validate ==
    /\ phase = "written"
    /\ phase' = IF Accepts(product) THEN "accepted" ELSE "rejected"
    /\ UNCHANGED <<revision, product, context, queues, routingTable, domainStore,
                   capabilityStore>>
-----------------------------------------------------------------------------
(***************************************************************************)
(* The partition numbers of capabilities and facades follow the length of  *)
(* the domain table; those of data are given by DataDomainMap.             *)
(***************************************************************************)
\* Mutant: the numbers of the capabilities begin one too low.
FindCapabilityDomainIdLow(p, id) ==
    LET at == SelectInSeq(p.capabilities, LAMBDA row : row.id = id)
    IN  IF at = 0 THEN kInvalidDomainId ELSE Len(p.domains) + at - 1

FindCapabilityDomainId(p, id) ==
    LET at == SelectInSeq(p.capabilities, LAMBDA row : row.id = id)
    IN  IF at = 0 THEN kInvalidDomainId ELSE Len(p.domains) + at

FindFacadeDomainId(p, id) ==
    LET at == SelectInSeq(p.facades, LAMBDA row : row.id = id)
    IN  IF at = 0 THEN kInvalidDomainId
                  ELSE Len(p.domains) + Len(p.capabilities) + at

\* map_[capability.id] gathers what every row with that id requires.
CapabilityDomains(p, id) ==
    RequiredDomains(p.dataItems, [required |-> RequiredByAll(p.capabilities, id)])

\* The constructor of ProductContext.
ContextOf(p) ==
    LET data == Ids(p.dataItems)
        capabilities == Ids(p.capabilities)
    IN  [partition |->
            [data       |-> [d \in data |-> FindDataDomainId(p.dataItems, d)],
             capability |-> [c \in capabilities |-> FindCapabilityDomainId(p, c)],
             facade     |-> [f \in Ids(p.facades) |-> FindFacadeDomainId(p, f)]],
         capabilityDomains |-> [c \in capabilities |-> CapabilityDomains(p, c)],
         capabilityDependencies |-> [d \in data |-> Dependents(p.capabilities, d)],
         facadeDependencies |-> [c \in capabilities |-> Dependents(p.facades, c)],
         capabilityRoutes |-> Empty]

\* 755: the same maps, computed by that revision's classes.
Context755(p) ==
    LET data == Ids(p.dataItems)
        capabilities == Ids(p.capabilities)
    IN  [partition |->
            [data       |-> DataDomainMap755(p),
             capability |-> [c \in capabilities |-> DerivedDomainId755(p, "capability", c)],
             facade     |-> [f \in Ids(p.facades) |-> DerivedDomainId755(p, "facade", f)]],
         capabilityDomains |->
            [c \in capabilities |-> CapabilityRequiredDomains755(p, c)],
         capabilityDependencies |-> [d \in data |-> AffectedCapabilities755(p, d)],
         facadeDependencies |-> [c \in capabilities |-> AffectedFacades755(p, c)],
         capabilityRoutes |-> Empty]

\* 0818 and 0820 have no ProductContext: these are the maps their resolvers,
\* dispatchers and workers hold.  requiredDomains is that of a capability;
\* in 0818 only SnapshotAccessor asks, a class that its tests alone use.
EarlierContext(p, requiredDomains) ==
    [NoContext EXCEPT
        !.partition.data = [d \in Ids(p.dataItems) |-> FindDataDomainId(p.dataItems, d)],
        !.capabilityDomains = requiredDomains,
        !.capabilityDependencies =
            [d \in Ids(p.dataItems) |-> AffectedCapabilities0818(p, d)]]
-----------------------------------------------------------------------------
(***************************************************************************)
(* RouteProvider::Initialize.  queues_ is keyed by the name of the route,  *)
(* and emplace keeps the first; a data item whose route is unknown runs    *)
(* into the assertion.                                                     *)
(***************************************************************************)
QueuesOf(p) ==
    [name \in {p.routes[i].name : i \in DOMAIN p.routes} |->
        p.routes[SelectInSeq(p.routes, LAMBDA route : route.name = name)]]

RouteOfItem(p, d) == FindById(p.routes, FindById(p.dataItems, d).routeId)

Initialize ==
    /\ phase = "accepted"
    /\ revision = "top"
    /\ context' = ContextOf(product)
    /\ queues' = QueuesOf(product)
    /\ IF \E d \in Ids(product.dataItems) :
             \/ RouteOfItem(product, d) = Null
             \/ RouteOfItem(product, d).name \notin DOMAIN QueuesOf(product)
       THEN /\ phase' = "aborted"
            /\ UNCHANGED routingTable
       ELSE /\ phase' = "running"
            /\ routingTable' =
                  [d \in Ids(product.dataItems) |-> RouteOfItem(product, d).name]
    /\ UNCHANGED <<revision, product, domainStore, capabilityStore>>

\* 755 also registers every partition it will ever have.
Initialize755 ==
    /\ phase = "accepted"
    /\ revision = "755"
    /\ context' = Context755(product)
    /\ queues' = QueuesOf(product)
    /\ domainStore' = [n \in RegisteredDomains755(product) |-> Empty]
    /\ phase' = IF RoutesFound755(product) THEN "running" ELSE "aborted"
    /\ routingTable' =
          IF RoutesFound755(product)
          THEN [d \in Ids(product.dataItems) |-> RouteOfItem(product, d).name]
          ELSE routingTable
    /\ UNCHANGED <<revision, product, capabilityStore>>

Initialize0818 ==
    /\ phase = "accepted"
    /\ revision = "0818"
    /\ context' = EarlierContext(product,
          [c \in Ids(product.capabilities) |-> ResolveDomains0818(product, c)])
    /\ queues' = QueuesByName(product)
    /\ phase' = IF RoutesFound0818(product) THEN "running" ELSE "aborted"
    /\ routingTable' =
          IF RoutesFound0818(product)
          THEN [d \in Ids(product.dataItems) |-> FindById(product.dataItems, d).route]
          ELSE routingTable
    /\ UNCHANGED <<revision, product, domainStore, capabilityStore>>

\* 0820 makes the routing table of the data, then that of the capabilities.
Initialize0820 ==
    /\ phase = "accepted"
    /\ revision = "0820"
    /\ queues' = QueuesByName(product)
    /\ phase' = IF RoutesFound0820(product) THEN "running" ELSE "aborted"
    /\ context' = [EarlierContext(product,
                      [c \in Ids(product.capabilities) |-> CapabilityDomainMap(product, c)])
                  EXCEPT
                      !.capabilityRoutes = IF RoutesFound0820(product)
                                           THEN CapabilityRoutes(product) ELSE Empty]
    /\ routingTable' =
          IF RoutesFound0818(product)
          THEN [d \in Ids(product.dataItems) |-> FindById(product.dataItems, d).route]
          ELSE routingTable
    /\ UNCHANGED <<revision, product, domainStore, capabilityStore>>
-----------------------------------------------------------------------------
\* FindDataDomainId, FindCapabilityDomainId and FindFacadeDomainId.
FindDomainId(kind, id) ==
    IF id \in DOMAIN context.partition[kind] THEN context.partition[kind][id]
                                             ELSE kInvalidDomainId

\* PartitionStorageRegistry::Find, then PartitionStorage::Find.
FindIn(partition, id) ==
    IF partition \in DOMAIN domainStore /\ id \in DOMAIN domainStore[partition]
    THEN domainStore[partition][id]
    ELSE NoValue

(***************************************************************************)
(* 755: the lookups take a RIMId, a kind with an id, and find nothing for  *)
(* one of another kind.                                                    *)
(***************************************************************************)
FindOfKind755(kind, target) ==
    IF target[1] = kind /\ target[2] \in DOMAIN context.partition[kind]
    THEN context.partition[kind][target[2]]
    ELSE kInvalidDomainId

FindDataDomainId755(target) == FindOfKind755("data", target)

FindCapabilityDomainId755(target) == FindOfKind755("capability", target)

FindFacadeDomainId755(target) == FindOfKind755("facade", target)

FindDomainId755(target) ==
    CASE target[1] = "data"       -> FindDataDomainId755(target)
      [] target[1] = "capability" -> FindCapabilityDomainId755(target)
      [] target[1] = "facade"     -> FindFacadeDomainId755(target)

\* PartitionStorageRegistry::GetOrCreate, then PartitionStorage::Store.
StoreIn(partition, id, v) ==
    LET items == IF partition \in DOMAIN domainStore THEN domainStore[partition]
                                                     ELSE Empty
    IN  domainStore' = Put(domainStore, partition, Put(items, id, v))

LibraryUnchanged == UNCHANGED <<revision, product, context, phase, queues, routingTable>>

\* A value that DataStoreWorker::Process stores.  One that is found unchanged
\* leaves the storage as it is, which is what storing it again does here.
StoreData(d, v) ==
    /\ phase = "running"
    /\ revision = "top"
    /\ d \in DOMAIN routingTable
    /\ FindDomainId("data", d) # kInvalidDomainId
    /\ StoreIn(FindDomainId("data", d), d, v)
    /\ LibraryUnchanged
    /\ UNCHANGED capabilityStore

\* CapabilityManager::Evaluate, with any value as the one that was built.
StoreCapability(c, v) ==
    /\ phase = "running"
    /\ revision = "top"
    /\ FindDomainId("capability", c) # kInvalidDomainId
    /\ StoreIn(FindDomainId("capability", c), c, v)
    /\ LibraryUnchanged
    /\ UNCHANGED capabilityStore

\* FacadeManager::Evaluate.
StoreFacade(f, v) ==
    /\ phase = "running"
    /\ revision = "top"
    /\ FindDomainId("facade", f) # kInvalidDomainId
    /\ StoreIn(FindDomainId("facade", f), f, v)
    /\ LibraryUnchanged
    /\ UNCHANGED capabilityStore

\* 755: FindMutable, and nothing where the partition was not registered.
Store755(kind, id, v) ==
    /\ phase = "running"
    /\ revision = "755"
    /\ kind = "data" => id \in DOMAIN routingTable
    /\ FindDomainId755(<<kind, id>>) \in DOMAIN domainStore
    /\ StoreIn(FindDomainId755(<<kind, id>>), id, v)
    /\ LibraryUnchanged
    /\ UNCHANGED capabilityStore

\* 0818: DataStoreDispatcher; 0820: DataStoreWorker::ProcessItem.
StoreDataEarlier(d, v) ==
    /\ phase = "running"
    /\ revision \in {"0818", "0820"}
    /\ d \in DOMAIN routingTable
    /\ FindDomainId("data", d) # kInvalidDomainId
    /\ StoreIn(FindDomainId("data", d), d, v)
    /\ LibraryUnchanged
    /\ UNCHANGED capabilityStore

\* Every capability in one map by its id, beside the domains.
StoreCapabilityEarlier(c, v) ==
    /\ phase = "running"
    /\ revision \in {"0818", "0820"}
    /\ c \in Ids(product.capabilities)
    /\ capabilityStore' = Put(capabilityStore, c, v)
    /\ LibraryUnchanged
    /\ UNCHANGED domainStore

Next ==
    \/ Validate
    \/ Initialize
    \/ Initialize755
    \/ Initialize0818
    \/ Initialize0820
    \/ \E v \in Values :
          \/ \E d \in DataIds :
                \/ StoreData(d, v)
                \/ Store755("data", d, v)
                \/ StoreDataEarlier(d, v)
          \/ \E c \in CapabilityIds :
                \/ StoreCapability(c, v)
                \/ Store755("capability", c, v)
                \/ StoreCapabilityEarlier(c, v)
          \/ \E f \in FacadeIds :
                \/ StoreFacade(f, v)
                \/ Store755("facade", f, v)

Spec == Init /\ [][Next]_vars
-----------------------------------------------------------------------------
\* DataAccessor, CapabilityAccessor and FacadeAccessor.  No partition has the
\* number kInvalidDomainId, so FindIn answers for their early return.
TryGetData(d) == FindIn(FindDomainId("data", d), d)

TryGetCapability(c) == FindIn(FindDomainId("capability", c), c)

TryGetFacade(f) == FindIn(FindDomainId("facade", f), f)

TryGetData755(d) == FindIn(FindDomainId755(<<"data", d>>), d)

TryGetCapability755(c) == FindIn(FindDomainId755(<<"capability", c>>), c)

TryGetFacade755(f) == FindIn(FindDomainId755(<<"facade", f>>), f)

\* 0818, 0820: DataAccessor builds a DataDomainMap of its own from the product
\* for every call, and finds in it what "context" holds.
TryGetData0818(d) == FindIn(FindDomainId("data", d), d)

TryGetData0820(d) == TryGetData0818(d)

TryGetCapabilityEarlier(c) ==
    IF c \in DOMAIN capabilityStore THEN capabilityStore[c] ELSE NoValue

\* 0820: RouteProvider::FindRoute, from what Initialize made.
FindRoute0820(kind, id) ==
    IF kind = "data"
    THEN IF id \in DOMAIN routingTable THEN queues[routingTable[id]] ELSE Null
    ELSE IF id \in DOMAIN context.capabilityRoutes THEN context.capabilityRoutes[id]
                                                   ELSE Null

\* 755: the item's row, then the route with its id.
FindRoute755(d) ==
    LET item == FindById(product.dataItems, d)
    IN  IF item = Null THEN Null ELSE FindById(product.routes, item.routeId)

TryGet(kind, id) ==
    CASE revision = "top" ->
            (CASE kind = "data"       -> TryGetData(id)
               [] kind = "capability" -> TryGetCapability(id)
               [] kind = "facade"     -> TryGetFacade(id))
      [] revision = "755" ->
            (CASE kind = "data"       -> TryGetData755(id)
               [] kind = "capability" -> TryGetCapability755(id)
               [] kind = "facade"     -> TryGetFacade755(id))
      [] OTHER ->
            (CASE kind = "data" /\ revision = "0818" -> TryGetData0818(id)
               [] kind = "data" /\ revision = "0820" -> TryGetData0820(id)
               [] kind = "capability" -> TryGetCapabilityEarlier(id)
               [] kind = "facade"     -> NoValue)

\* A capability's RIMSnapshot holds the items of its partitions, one after
\* the other, and Find takes the first with the id.
FindInSnapshot(c, d) ==
    LET partitions == context.capabilityDomains[c]
        at == SelectInSeq(partitions, LAMBDA n : FindIn(n, d) # NoValue)
    IN  IF at = 0 THEN NoValue ELSE FindIn(partitions[at], d)

\* A facade's snapshot holds the capabilities it requires.
FindInFacadeSnapshot(f, c) ==
    IF c \in ToSet(FindById(product.facades, f).required)
    THEN TryGet("capability", c)
    ELSE NoValue

\* 755: SnapshotBuilder copies the partitions in ascending order, and those
\* that are not registered not at all; Find takes the first item with the id.
FindFirst755(domains, id) ==
    LET found == {n \in ToSet(domains) : FindIn(n, id) # NoValue}
    IN  IF found = {} THEN NoValue ELSE FindIn(Min(found), id)

FindInSnapshot755(c, d) == FindFirst755(context.capabilityDomains[c], d)

\* FacadeSnapshotProvider asks for the partitions of the required capabilities.
FindInFacadeSnapshot755(f, c) ==
    LET required == FindById(product.facades, f).required
    IN  FindFirst755([k \in DOMAIN required |->
                          FindDomainId755(<<"capability", required[k]>>)], c)

(***************************************************************************)
(* 0818 and 0820: one snapshot for all the capabilities a changed data     *)
(* item concerns.  0818's library gives its builders every item there is   *)
(* (RIMSnapshotManager); its SnapshotAccessor, and 0820's library, keep    *)
(* the items whose domain one of these capabilities requires.  Both        *)
(* revisions may meet the storages in any order: a snapshot is a set.      *)
(***************************************************************************)
Read0818 ==
    UNION {{[id |-> d, value |-> FindIn(n, d)] :
               d \in {x \in DataIds : FindIn(n, x) # NoValue}} :
           n \in DOMAIN domainStore}

UpdateSnapshot0818(domains) ==
    {item \in Read0818 : /\ FindDomainId("data", item.id) # kInvalidDomainId
                         /\ FindDomainId("data", item.id) \in domains}

\* CapabilitySnapshotResolver of 0820; the loop of 0818's CreateSnapshot.
ResolveSnapshotDomains(d) ==
    LET affected == context.capabilityDependencies[d]
    IN  UNION {ToSet(context.capabilityDomains[affected[k]]) : k \in DOMAIN affected}

CreateSnapshot0818(d) ==
    IF ResolveSnapshotDomains(d) = {} THEN {}
                                      ELSE UpdateSnapshot0818(ResolveSnapshotDomains(d))

SnapshotItems0820(domains) ==
    UNION {{[id |-> d, value |-> FindIn(n, d)] :
               d \in {x \in DataIds : /\ FindIn(n, x) # NoValue
                                      /\ FindDomainId("data", x) \in domains}} :
           n \in DOMAIN domainStore}

Snapshots(d) ==
    IF revision = "0818" THEN {Read0818, CreateSnapshot0818(d)}
                         ELSE {SnapshotItems0820(ResolveSnapshotDomains(d))}

\* RIMSnapshot::Find takes the first item with the id, here any of them.
FoundIn(snapshot, id) == {item.value : item \in {i \in snapshot : i.id = id}}
=============================================================================
