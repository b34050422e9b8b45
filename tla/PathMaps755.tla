----------------------------- MODULE PathMaps755 -----------------------------
(***************************************************************************)
(* The maps of 755's data path: snapshots are taken by the numbers of the  *)
(* partitions, those of capabilities and facades included.                 *)
(***************************************************************************)
EXTENDS PathMaps

CONSTANTS
    DomainCount,       \* ProductContext::GetDomainCount
    DerivedDomain      \* the domain number of a capability or a facade

\* Data is kept in the partitions of the domain table, every capability and
\* every facade in one of its own.
PartitionsFit ==
    /\ DomainCount \in Nat
    /\ \A d \in Data : DomainOf[d] \in 1 .. DomainCount
    /\ DerivedDomain \in [Derived -> Nat]
    /\ IsInjective(DerivedDomain)
    /\ \A t \in Derived : DerivedDomain[t] > DomainCount
=============================================================================
