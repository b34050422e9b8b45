------------------------------ MODULE PathMaps ------------------------------
(***************************************************************************)
(* The maps of a product that the data path works with, and what it needs  *)
(* of them.  Modules Pipeline and Path755 take them as constants, module   *)
(* ProductContext computes them from the tables of a product, and a        *)
(* running library's maps are shown to be such.                            *)
(***************************************************************************)
EXTENDS Integers, SequencesExt

CONSTANTS
    Data, Capabilities, Facades,  \* the item ids of the product definition
    Domains,
    DomainOf,                     \* the domain of a data item
    RequiredData,                 \* requiredDataIds of a capability
    RequiredCapabilities,         \* requiredCapabilityIds of a facade
    SnapshotDomains,              \* CapabilityRequiredDomainMap
    CapabilityDependencies,       \* CapabilityDependencyMap
    FacadeDependencies            \* FacadeDependencyMap

Derived == Capabilities \cup Facades

Required(t) ==
    IF t \in Capabilities THEN ToSet(RequiredData[t])
                          ELSE ToSet(RequiredCapabilities[t])

\* No id is of two kinds: a RIMId carries its kind.
KindsApart ==
    /\ Data \cap Capabilities = {}
    /\ Data \cap Facades = {}
    /\ Capabilities \cap Facades = {}

(***************************************************************************)
(* The maps are complete, the partitions of a capability's snapshot are    *)
(* those of the data it requires, and the two directions of each "requires"*)
(* relation are the same relation.                                         *)
(***************************************************************************)
MapsFit ==
    /\ DomainOf \in [Data -> Domains]
    /\ RequiredData \in [Capabilities -> Seq(Data)]
    /\ RequiredCapabilities \in [Facades -> Seq(Capabilities)]
    /\ SnapshotDomains \in [Capabilities -> Seq(Domains)]
    /\ CapabilityDependencies \in [Data -> Seq(Capabilities)]
    /\ FacadeDependencies \in [Capabilities -> Seq(Facades)]
    /\ \A c \in Capabilities :
          ToSet(SnapshotDomains[c]) = {DomainOf[d] : d \in Required(c)}
    /\ \A d \in Data, c \in Capabilities :
          c \in ToSet(CapabilityDependencies[d]) <=> d \in Required(c)
    /\ \A c \in Capabilities, f \in Facades :
          f \in ToSet(FacadeDependencies[c]) <=> c \in Required(f)
=============================================================================
