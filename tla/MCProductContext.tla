-------------------------- MODULE MCProductContext --------------------------
(***************************************************************************)
(* All small product definitions, in two families: StorageCandidates vary  *)
(* what decides about partitions (domain table, data items and their       *)
(* domains, capabilities, facades), RoutingCandidates what decides about   *)
(* queues (routes and the routes of items).  As in printer_a the ids of    *)
(* capabilities and facades start at 0 and those of data at 1, so the ids  *)
(* of the three kinds overlap.                                             *)
(***************************************************************************)
EXTENDS ProductContextProperties, TLC

CONSTANTS null, none, v1, v2

\* DomainDefinition objects.  A domain is one inline constexpr object, so a
\* name stands for one object; "X" is in no domain table.
Object(text) == [object |-> text, text |-> text]
Name(text, address) == [text |-> text, address |-> address]

\* Domain tables; the address of a name is 1 for "E" and 2 for "D" when the
\* linker merges equal string literals.
DomainTables ==
    {<<Name("E", 1)>>, <<Name("E", 1), Name("D", 2)>>,
     <<Name("D", 2), Name("E", 1)>>, <<Name("E", 1), Name("E", 1)>>}

Item(k, id, domain, routeId) ==
    [id |-> id, name |-> k, domain |-> domain, routeId |-> routeId]

ItemTables(n, domains, routeIds) ==
    {[k \in 1 .. n |-> Item(k, ids[k], doms[k], rts[k])] :
        ids \in [1 .. n -> {1, 2}], doms \in [1 .. n -> domains],
        rts \in [1 .. n -> routeIds]}

DerivedTables(n, ids, requirements) ==
    {[k \in 1 .. n |-> [id |-> is[k], name |-> k, required |-> reqs[k], routeId |-> 1]] :
        is \in [1 .. n -> ids], reqs \in [1 .. n -> requirements]}

RouteTables ==
    LET Route(id, name) == [id |-> id, name |-> name]
    IN  {<<Route(1, "A")>>} \cup
        {<<Route(1, "A"), Route(id, name)>> : id \in {1, 2}, name \in {"A", "B"}}

Product(domains, routes, items, capabilities, facades) ==
    [domains |-> domains, routes |-> routes, dataItems |-> items,
     capabilities |-> capabilities, facades |-> facades]

StorageCandidates ==
    {Product(domains, <<[id |-> 1, name |-> "A"]>>, items, capabilities, facades) :
        domains \in DomainTables,
        items \in ItemTables(1, {Object("E"), null}, {1})
                  \cup ItemTables(2, {Object("E"), Object("D"), Object("X")}, {1}),
        capabilities \in DerivedTables(1, {0, 1}, {<<1>>, <<1, 2>>})
                  \cup DerivedTables(2, {0, 1}, {<<2>>, <<2, 1>>}),
        facades \in {<<>>} \cup DerivedTables(1, {0}, {<<0>>, <<1, 0>>})}

RoutingCandidates ==
    {Product(<<Name("E", 1)>>, routes, items, <<>>, <<>>) :
        routes \in RouteTables, items \in ItemTables(2, {Object("E")}, {1, 2, 3})}

\* The other revisions on tables with several domains, items, capabilities.
TwoDomains == {<<Name("E", 1), Name("D", 2)>>, <<Name("D", 2), Name("E", 1)>>}

TwoItems ==
    {items \in ItemTables(2, {Object("E"), Object("D")}, {1}) : items[1].id # items[2].id}

TwoRequirements == {<< <<2>>, <<2, 1>> >>, << <<2, 1>>, <<1>> >>}

Candidates755 ==
    {Product(domains, <<[id |-> 1, name |-> "A"]>>, items, capabilities, facades) :
        domains \in TwoDomains, items \in TwoItems,
        capabilities \in
            {cs \in DerivedTables(2, {0, 1}, {<<1>>, <<2>>, <<2, 1>>}) :
                <<cs[1].required, cs[2].required>> \in TwoRequirements},
        facades \in DerivedTables(1, {0}, {<<1, 0>>})}
    \cup RoutingCandidates

(***************************************************************************)
(* 0818 and 0820: routes by name.  Capabilities keep to routes that exist; *)
(* DanglingCandidates do not.                                              *)
(***************************************************************************)
Named(item, route) ==
    [id |-> item.id, name |-> item.name, domain |-> item.domain, route |-> route]

NamedItems(routes) ==
    {[k \in 1 .. 2 |-> Named(items[k], rts[k])] :
        items \in ItemTables(2, {Object("E")}, {1}), rts \in [1 .. 2 -> routes]}

Capability(name, id, required, route) ==
    [id |-> id, name |-> name, required |-> required, route |-> route]

OneCapability(routes) == {<<Capability(1, 0, <<2, 1>>, route)>> : route \in routes}

TwoCapabilities ==
    {[k \in 1 .. 2 |-> Capability(k, ids[k], reqs[k], "A")] :
        ids \in [1 .. 2 -> {0, 1}], reqs \in TwoRequirements}

Pipelines ==
    {<<[name |-> 1, triggerDomains |-> <<domain>>, outputCapability |-> capability]>> :
        domain \in {"D", "E"}, capability \in {1, 2}}

NamedRoutes == {<<[name |-> "A"], [name |-> name]>> : name \in {"A", "B"}}

EarlierProduct(domains, routes, items, capabilities, pipelines) ==
    [domains |-> domains, routes |-> routes, dataItems |-> items,
     capabilities |-> capabilities, facades |-> <<>>, pipelines |-> pipelines]

EarlierCandidates ==
    {EarlierProduct(domains, <<[name |-> "A"]>>,
                    [k \in 1 .. 2 |-> Named(items[k], "A")], capabilities, <<>>) :
        domains \in TwoDomains, items \in TwoItems, capabilities \in TwoCapabilities}
    \cup
    {EarlierProduct(<<Name("E", 1)>>, routes, items, capabilities, <<>>) :
        routes \in NamedRoutes, items \in NamedItems({"A", "B", "C"}),
        capabilities \in OneCapability({"A"})}

WithPipelines ==
    {EarlierProduct(<<Name("E", 1)>>, <<[name |-> "A"]>>, items, capabilities, pipelines) :
        items \in NamedItems({"A"}), capabilities \in OneCapability({"A"}),
        pipelines \in Pipelines}

MCCandidates ==
    [top |-> StorageCandidates \cup RoutingCandidates] @@
    ("755" :> Candidates755) @@
    ("0818" :> EarlierCandidates \cup WithPipelines) @@
    ("0820" :> EarlierCandidates)

\* A capability of 0820 on a route that no table has.
DanglingCandidates ==
    "0820" :>
    {EarlierProduct(<<Name("E", 1)>>, routes, items, capabilities, <<>>) :
        routes \in NamedRoutes, items \in NamedItems({"A", "B"}),
        capabilities \in OneCapability({"A", "C"})}

\* Two names with equal text whose literals the linker keeps apart.
UnmergedCandidates ==
    [top |-> StorageCandidates \cup RoutingCandidates \cup
    {Product(<<Name("E", 1), Name("E", 2)>>, <<[id |-> 1, name |-> "A"]>>, items, <<>>, <<>>) :
        items \in ItemTables(1, {Object("E")}, {1})}]
=============================================================================
