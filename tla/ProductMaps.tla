---------------------------- MODULE ProductMaps ----------------------------
(***************************************************************************)
(* What ProductContext computes from a product definition, once, when the  *)
(* library is created: the numbering of the storage domains and the two    *)
(* directions of every "requires" relation.  Definitions are sequences, in *)
(* the order of the product's tables:                                      *)
(*   dataItems     <<[id, domain, route], ...>>                            *)
(*   capabilities  <<[id, required], ...>>   required: data ids            *)
(*   facades       <<[id, required], ...>>   required: capability ids      *)
(***************************************************************************)
EXTENDS Integers, Sequences, FiniteSets, SequencesExt

kInvalidDomainId == 0

\* unordered_map: map[key] = value.
Put(map, key, value) ==
    [k \in {key} \cup DOMAIN map |-> IF k = key THEN value ELSE map[k]]

(***************************************************************************)
(* DataDomainMap: a domain gets the next number when the first data item   *)
(* that lives in it is met.                                                *)
(***************************************************************************)
DataDomainMap(dataItems) ==
    LET Number(acc, item) ==
            LET known == item.domain \in DOMAIN acc.domains
                id    == IF known THEN acc.domains[item.domain] ELSE acc.nextId
            IN  [nextId  |-> IF known THEN acc.nextId ELSE acc.nextId + 1,
                 domains |-> Put(acc.domains, item.domain, id),
                 map     |-> Put(acc.map, item.id, id)]
    IN  FoldLeft(Number, [nextId |-> 1, domains |-> <<>>, map |-> <<>>], dataItems).map

FindDataDomainId(dataItems, d) ==
    LET map == DataDomainMap(dataItems)
    IN  IF d \in DOMAIN map THEN map[d] ELSE kInvalidDomainId

(***************************************************************************)
(* CapabilityRequiredDomainMap: the domains of the required data items,    *)
(* each once, in the order they are first needed; unknown items skipped.   *)
(***************************************************************************)
\* Mutant: once one domain is known no other is looked for.
FirstRequiredDomain(dataItems, capability) ==
    LET Add(acc, d) ==
            LET id == FindDataDomainId(dataItems, d)
            IN  IF id = kInvalidDomainId \/ acc # <<>> THEN acc ELSE Append(acc, id)
    IN  FoldLeft(Add, <<>>, capability.required)

RequiredDomains(dataItems, capability) ==
    LET Add(acc, d) ==
            LET id == FindDataDomainId(dataItems, d)
            IN  IF id = kInvalidDomainId \/ Contains(acc, id) THEN acc
                                                              ELSE Append(acc, id)
    IN  FoldLeft(Add, <<>>, capability.required)

(***************************************************************************)
(* CapabilityDependencyMap and FacadeDependencyMap: who requires "source", *)
(* in definition order, once for every time it is listed.                  *)
(***************************************************************************)
\* Mutant: only the first of what a definition requires is entered.
DependentsOfFirst(definitions, source) ==
    LET Add(acc, definition) ==
            IF definition.required # <<>> /\ Head(definition.required) = source
            THEN Append(acc, definition.id) ELSE acc
    IN  FoldLeft(Add, <<>>, definitions)

Dependents(definitions, source) ==
    LET Add(acc, definition) ==
            acc \o [k \in 1 .. Cardinality({n \in DOMAIN definition.required :
                                                 definition.required[n] = source})
                    |-> definition.id]
    IN  FoldLeft(Add, <<>>, definitions)
=============================================================================
