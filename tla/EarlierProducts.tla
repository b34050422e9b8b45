--------------------------- MODULE EarlierProducts ---------------------------
(***************************************************************************)
(* Product definitions of the other revisions the repository keeps.        *)
(*   old_0818, old_0820  a route has no id and is referred to by its name, *)
(*                       from data items and from capabilities; there are  *)
(*                       no facades; 0818 also lists pipelines,            *)
(*                       <<[name, triggerDomains, outputCapability], ...>> *)
(*   Rev755_FW           the tables of module ProductDefinition            *)
(* and what each makes of them: the checks, the queues, the maps.          *)
(***************************************************************************)
EXTENDS ProductDefinition, ProductMaps

Names(table) == {table[i].name : i \in DOMAIN table}

FindByName(table, name) ==
    LET at == SelectInSeq(table, LAMBDA row : row.name = name)
    IN  IF at = 0 THEN Null ELSE table[at]

(***************************************************************************)
(* ValidateProductDefinition of each revision.                             *)
(***************************************************************************)
ValidRoutesByName(p) ==
    /\ ~HasDuplicateName(p.routes)
    /\ \A i \in DOMAIN p.dataItems : FindByName(p.routes, p.dataItems[i].route) # Null

ValidPipelines(p) ==
    /\ ~HasDuplicateName(p.pipelines)
    /\ \A i \in DOMAIN p.pipelines :
          /\ ToSet(p.pipelines[i].triggerDomains) \subseteq Texts(p.domains)
          /\ p.pipelines[i].outputCapability \in Names(p.capabilities)

Accepts0818(p) ==
    /\ ValidDomains(p)
    /\ ValidDataItems(p)
    /\ ValidRoutesByName(p)
    /\ ValidDerived(p.capabilities, p.dataItems)
    /\ ValidPipelines(p)

Accepts0820(p) ==
    /\ ValidDomains(p)
    /\ ValidDataItems(p)
    /\ ValidRoutesByName(p)
    /\ ValidDerived(p.capabilities, p.dataItems)

Accepts755(p) == ValidateProductDefinition(p)
-----------------------------------------------------------------------------
(***************************************************************************)
(* RouteProvider::Initialize.  Each asserts that the routes it looks up    *)
(* exist; 0820 alone looks up those of the capabilities.                   *)
(***************************************************************************)
QueuesByName(p) == [name \in Names(p.routes) |-> FindByName(p.routes, name)]

RoutesFound0818(p) ==
    \A i \in DOMAIN p.dataItems : p.dataItems[i].route \in DOMAIN QueuesByName(p)

RoutesFound0820(p) ==
    /\ RoutesFound0818(p)
    /\ \A i \in DOMAIN p.capabilities :
          FindByName(p.routes, p.capabilities[i].route) # Null

RoutesFound755(p) ==
    \A i \in DOMAIN p.dataItems : p.dataItems[i].routeId \in Ids(p.routes)

\* The route that limits the notifications of a target: 0818 asks the tables
\* each time (RouteResolver::Resolve), 0820 what Initialize made of them.
ResolveRoute0818(p, kind, id) ==
    LET row == FindById(IF kind = "data" THEN p.dataItems ELSE p.capabilities, id)
    IN  IF row = Null THEN Null ELSE FindByName(p.routes, row.route)

CapabilityRoutes(p) ==
    [c \in Ids(p.capabilities) |-> FindByName(p.routes, FindById(p.capabilities, c).route)]
-----------------------------------------------------------------------------
(***************************************************************************)
(* From a changed data item to the domains whose items a snapshot holds.   *)
(* 0818 resolves the domains of a capability each time it is asked         *)
(* (CapabilityDomainResolver); 0820 and 755 have a map, entered by id.     *)
(***************************************************************************)
ResolveDomains0818(p, c) == RequiredDomains(p.dataItems, FindById(p.capabilities, c))

\* map_[capability.id] gathers what every row with that id requires.
RequiredByAll(table, id) ==
    LET Gather(acc, row) == IF row.id = id THEN acc \o row.required ELSE acc
    IN  FoldLeft(Gather, <<>>, table)

CapabilityDomainMap(p, c) ==
    RequiredDomains(p.dataItems, [required |-> RequiredByAll(p.capabilities, c)])

CapabilityRequiredDomains755(p, c) == CapabilityDomainMap(p, c)

AffectedCapabilities0818(p, d) == Dependents(p.capabilities, d)

AffectedCapabilities755(p, d) == Dependents(p.capabilities, d)

AffectedFacades755(p, c) == Dependents(p.facades, c)
-----------------------------------------------------------------------------
(***************************************************************************)
(* The constructor of ProductContext in 755.                               *)
(***************************************************************************)
DataDomainMap755(p) == [d \in Ids(p.dataItems) |-> FindDataDomainId(p.dataItems, d)]

DerivedDomainId755(p, kind, id) ==
    LET derived == [k \in DOMAIN p.capabilities |-> <<"capability", p.capabilities[k].id>>]
                   \o [k \in DOMAIN p.facades |-> <<"facade", p.facades[k].id>>]
        at == SelectInSeq(derived, LAMBDA target : target = <<kind, id>>)
    IN  IF at = 0 THEN kInvalidDomainId ELSE Len(p.domains) + at

\* The partitions that RIManagerContext::Initialize registers: those of the
\* domain table, of the capabilities and of the facades.
RegisteredDomains755(p) ==
    (1 .. Len(p.domains))
        \cup {DerivedDomainId755(p, "capability", c) : c \in Ids(p.capabilities)}
        \cup {DerivedDomainId755(p, "facade", f) : f \in Ids(p.facades)}
=============================================================================
