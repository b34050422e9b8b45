-------------------------- MODULE ProductDefinition --------------------------
(***************************************************************************)
(* A product definition: the tables a product is written as, and what      *)
(* ValidateProductDefinition makes of them.                                *)
(*   domains       <<[text, address], ...>>        DomainDefinition::name  *)
(*   routes        <<[id, name], ...>>                                     *)
(*   dataItems     <<[id, name, domain, routeId], ...>>                    *)
(*   capabilities  <<[id, name, required, routeId], ...>>                  *)
(*   facades       <<[id, name, required, routeId], ...>>                  *)
(* A domain's name is a const char*: the characters it points at, and the  *)
(* address.  All other names are string_views, compared by their text.  An *)
(* item's domain is nullptr or a DomainDefinition object, [object, text].  *)
(***************************************************************************)
EXTENDS Integers, Sequences, SequencesExt

CONSTANT Null      \* nullptr

Texts(table) == {table[i].text : i \in DOMAIN table}
Ids(table)   == {table[i].id   : i \in DOMAIN table}

\* The first row of a table with that id: a linear search, or an
\* unordered_map filled by emplace, which keeps what is there already.
FindById(table, id) ==
    LET at == SelectInSeq(table, LAMBDA row : row.id = id)
    IN  IF at = 0 THEN Null ELSE table[at]

HasDuplicate(keys) == \E i, j \in DOMAIN keys : i < j /\ keys[i] = keys[j]

HasDuplicateId(table)   == HasDuplicate([i \in DOMAIN table |-> table[i].id])
HasDuplicateName(table) == HasDuplicate([i \in DOMAIN table |-> table[i].name])

(***************************************************************************)
(* ValidateProductDefinition, table by table.  The lambda given to         *)
(* HasDuplicate for the domains returns a const char*, so that == compares *)
(* addresses there; FindDomain compares the text.  Neither the ids of the  *)
(* routes nor the routes of capabilities and facades are looked at.        *)
(***************************************************************************)
ValidDomains(p) ==
    ~HasDuplicate([i \in DOMAIN p.domains |-> p.domains[i].address])

ValidDataItems(p) ==
    /\ \A i \in DOMAIN p.dataItems :
          /\ p.dataItems[i].domain # Null
          /\ p.dataItems[i].domain.text \in Texts(p.domains)
    /\ ~HasDuplicateName(p.dataItems)
    /\ ~HasDuplicateId(p.dataItems)

\* Mutant: two routes may have one name.
ValidRoutesById(p) ==
    /\ ~HasDuplicateId(p.routes)
    /\ \A i \in DOMAIN p.dataItems : p.dataItems[i].routeId \in Ids(p.routes)

\* Mutant: the route of a data item is not looked for.
ValidRoutesAlone(p) == ~HasDuplicateName(p.routes)

ValidRoutes(p) ==
    /\ ~HasDuplicateName(p.routes)
    /\ \A i \in DOMAIN p.dataItems : p.dataItems[i].routeId \in Ids(p.routes)

\* Capabilities require data items; facades require capabilities.
ValidDerived(table, sources) ==
    /\ ~HasDuplicateName(table)
    /\ ~HasDuplicateId(table)
    /\ \A i \in DOMAIN table : ToSet(table[i].required) \subseteq Ids(sources)

ValidateProductDefinition(p) ==
    /\ ValidDomains(p)
    /\ ValidDataItems(p)
    /\ ValidRoutes(p)
    /\ ValidDerived(p.capabilities, p.dataItems)
    /\ ValidDerived(p.facades, p.capabilities)
=============================================================================
