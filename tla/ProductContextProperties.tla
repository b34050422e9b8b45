---------------------- MODULE ProductContextProperties ----------------------
(***************************************************************************)
(* What an accepted product definition is turned into works: every reader  *)
(* finds what was written for it, and nothing else.                        *)
(***************************************************************************)
EXTENDS ProductContext

\* RouteProvider::Initialize never runs into its assertions (RouteProvider.cpp
\* 48 and 53) on a definition that ValidateProductDefinition accepted.
NeverAborts == phase # "aborted"

\* The queues a data item is sent to (AdapterDispatcher) were made from the
\* route that is resolved for it when a notification is to be limited
\* (ResolveRoute, RouteResolver::Resolve, RouteProvider::FindRoute): one and
\* the same route decides how its values are queued, compressed and limited,
\* although in RIManager one table is searched by name and the other by id.
ResolvedRoute(d) ==
    CASE revision = "top"  -> RouteOfItem(product, d)
      [] revision = "755"  -> FindRoute755(d)
      [] revision = "0818" -> ResolveRoute0818(product, "data", d)
      [] revision = "0820" -> FindRoute0820("data", d)

QueuedOnItsRoute ==
    \A d \in DOMAIN routingTable : queues[routingTable[d]] = ResolvedRoute(d)

(***************************************************************************)
(* The maps of a library as those that modules Pipeline and Path755 take:  *)
(* an item is its kind with its id, a domain is its number.                *)
(***************************************************************************)
OfKind(kind, ids) == [k \in DOMAIN ids |-> <<kind, ids[k]>>]

Keys(kind, table) == {kind} \X Ids(table)

Path == INSTANCE PathMaps755 WITH
    Data <- Keys("data", product.dataItems),
    Capabilities <- Keys("capability", product.capabilities),
    Facades <- Keys("facade", product.facades),
    Domains <- 1 .. Len(product.domains),
    DomainCount <- Len(product.domains),
    DomainOf <- [d \in Keys("data", product.dataItems) |-> FindDomainId("data", d[2])],
    RequiredData <-
        [c \in Keys("capability", product.capabilities) |->
            OfKind("data", FindById(product.capabilities, c[2]).required)],
    RequiredCapabilities <-
        [f \in Keys("facade", product.facades) |->
            OfKind("capability", FindById(product.facades, f[2]).required)],
    SnapshotDomains <-
        [c \in Keys("capability", product.capabilities) |->
            context.capabilityDomains[c[2]]],
    CapabilityDependencies <-
        [d \in Keys("data", product.dataItems) |->
            OfKind("capability", context.capabilityDependencies[d[2]])],
    FacadeDependencies <-
        [c \in Keys("capability", product.capabilities) |->
            OfKind("facade", context.facadeDependencies[c[2]])],
    DerivedDomain <-
        [t \in Keys("capability", product.capabilities)
                  \cup Keys("facade", product.facades) |-> FindDomainId(t[1], t[2])]

\* The maps agree: the partitions of a capability's snapshot are those of the
\* data it requires, and a capability or a facade is evaluated after exactly
\* what it requires.  Those of RIManager and of 755 are all that modules
\* Pipeline (MapAssumption) and Path755 (DomainAssumption) assume of them.
MapsAgree ==
    LET Required(table, id) == ToSet(FindById(table, id).required)
    IN  phase = "running" =>
        /\ \A c \in Ids(product.capabilities) :
              ToSet(context.capabilityDomains[c]) =
                 {FindDomainId("data", d) : d \in Required(product.capabilities, c)}
        /\ \A d \in Ids(product.dataItems), c \in Ids(product.capabilities) :
              c \in ToSet(context.capabilityDependencies[d])
                 <=> d \in Required(product.capabilities, c)
        /\ revision \in {"top", "755"} =>
              Path!KindsApart /\ Path!MapsFit /\ Path!PartitionsFit

\* What a builder finds in its snapshot is what the accessors of the API give
\* to the application: no item of another kind or partition gets in the way.
\* In 0818 and 0820 whichever data item changed, every capability it concerns
\* finds what it requires in the one snapshot, once.
InSnapshot(c, d) ==
    IF revision = "755" THEN FindInSnapshot755(c, d) ELSE FindInSnapshot(c, d)

InFacadeSnapshot(f, c) ==
    IF revision = "755" THEN FindInFacadeSnapshot755(f, c) ELSE FindInFacadeSnapshot(f, c)

SnapshotsMatchAccessors ==
    phase = "running" =>
    IF revision \in {"0818", "0820"}
    THEN \A d \in DOMAIN context.capabilityDependencies : \A snapshot \in Snapshots(d) :
            \A c \in ToSet(context.capabilityDependencies[d]) :
            \A r \in ToSet(FindById(product.capabilities, c).required) :
               FoundIn(snapshot, r) = {TryGet("data", r)} \ {NoValue}
    ELSE /\ \A c \in Ids(product.capabilities) :
            \A d \in ToSet(FindById(product.capabilities, c).required) :
               InSnapshot(c, d) = TryGet("data", d)
         /\ \A f \in Ids(product.facades) :
            \A c \in ToSet(FindById(product.facades, f).required) :
               InFacadeSnapshot(f, c) = TryGet("capability", c)

(***************************************************************************)
(* Partitions and ids implement three separate name spaces: a value of     *)
(* one kind never shows up under, replaces or hides a value of another,    *)
(* though their ids overlap.                                               *)
(***************************************************************************)
Store == INSTANCE TypedStore WITH
    stored <- [k \in ({"data"} \X DataIds) \cup ({"capability"} \X CapabilityIds)
                        \cup ({"facade"} \X FacadeIds) |-> TryGet(k[1], k[2])]

ImplementsTypedStore == Store!Spec

(***************************************************************************)
(* The comment "Domain uniqueness" in ValidateProductDefinition and the    *)
(* test RejectDuplicateDomain: a definition in which two domains have the  *)
(* same name is not accepted.                                              *)
(***************************************************************************)
DomainNamesUnique ==
    phase \notin {"written", "rejected"} =>
    \A i, j \in DOMAIN product.domains :
        product.domains[i].text = product.domains[j].text => i = j
=============================================================================
