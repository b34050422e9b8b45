-------------------------- MODULE RimApiProperties --------------------------
(***************************************************************************)
(* What RI_SUCCESS of a setter promises, in each revision.                 *)
(***************************************************************************)
EXTENDS RimApi

\* No accepted value of item d is still on its way.
Arrived(d) ==
    /\ ~HoldsId(arrived, d)
    /\ DeclaredType(d) # Null => ~HoldsId(queue[Route(d)], d)

\* The routes were not stopped: a stopped context accepts values and loses
\* them, with RI_SUCCESS (AdapterDispatcher ignores what Push returns).
Open == context /\ ~shut

(***************************************************************************)
(* Whatever the order of starts, stops and calls, once nothing of a        *)
(* declared item is on its way, the getter of the type that was last       *)
(* accepted for it returns that value: no router, coalescing queue,        *)
(* unchecked setter or comparison with the stored value loses the last one *)
(* or leaves it under another type.  RIM_GetErrorList of the firmware and  *)
(* PrinterA_GetErrorList answer for a list that has the size of one, and   *)
(* for no other.                                                           *)
(***************************************************************************)
ErrorListIsRead ==
    LET list == CASE Is("0818") -> GetErrorList0818 [] Is("0820") -> GetErrorList0820
                  [] Is("744") -> GetErrorList744 [] Is("0820_FW") -> GetErrorListFW
    IN  list.status = "RI_SUCCESS" <=>
            /\ accepted[ErrorList].type = "kBinary"
            /\ accepted[ErrorList].data.size = ErrorListSize

AcceptedIsRead ==
    Open => \A d \in Items :
        accepted[d] # Null /\ DeclaredType(d) # Null /\ Arrived(d) =>
            /\ Get(d, accepted[d].type) = Answer("RI_SUCCESS", accepted[d].data)
            /\ d = ErrorList /\ ~Is("755") => ErrorListIsRead

(***************************************************************************)
(* Where every setter goes through AdapterDispatcher, an item that was     *)
(* ever readable by the getter of its declared type stays readable: a call *)
(* of another type's setter cannot turn its answer into RI_INTERNAL_ERROR  *)
(* (AdapterDispatcher.cpp, "rejected here").  "0818" and the firmware push *)
(* most types unchecked and do not promise this.                           *)
(***************************************************************************)
StaysReadable ==
    revision \in {"0820", "755"} => \A d \in Items :
        storage[d] # Null => Get(d, DeclaredType(d)).status = "RI_SUCCESS"

(***************************************************************************)
(* bil, from a setter to RIM_GetCapabilityInt32: when all is processed, a  *)
(* machine whose last accepted fault list has an entry and whose layers    *)
(* are not known to be uninitialized is in state ERROR, and its fault list *)
(* can be read back as the struct it is.  A list of another size, which    *)
(* RIM_SetBinary lets through, is excepted.                                *)
(***************************************************************************)
Processed == \A r \in Routes : queue[r] = <<>>

FaultIsShown ==
    Is("755") /\ Open /\ Processed /\ inputs = <<>>
    /\ accepted["FAULT_INFO_LIST"] # Null
    /\ Faulty(accepted) /\ ~Uninitialized(accepted)
        => /\ GetCapabilityInt32755("PRODUCT_STATE") = Answer("RI_SUCCESS", "ERROR")
           /\ GetCapabilityOther755("PRODUCT_STATE").status = "RI_INTERNAL_ERROR"
           /\ GetStruct755("FAULT_INFO_LIST").status = "RI_SUCCESS"
=============================================================================
