----------------------------- MODULE TypedStore -----------------------------
(***************************************************************************)
(* What the storage of RIManager promises to everyone who reads it: data,  *)
(* capabilities and facades are three name spaces.  A value is read back   *)
(* as it was last written under its kind and id, whatever is written       *)
(* elsewhere, though all of it is kept in one PartitionStorageRegistry and *)
(* the ids of the three kinds are the same small numbers.                  *)
(***************************************************************************)
CONSTANTS DataIds, CapabilityIds, FacadeIds, Values, NoValue

VARIABLE stored

Keys ==
    ({"data"} \X DataIds) \cup ({"capability"} \X CapabilityIds)
                          \cup ({"facade"} \X FacadeIds)

Init == stored = [k \in Keys |-> NoValue]

Write(k, v) == stored' = [stored EXCEPT ![k] = v]

Next == \E k \in Keys, v \in Values : Write(k, v)

Spec == Init /\ [][Next]_stored
=============================================================================
