--------------------------- MODULE QueuePolicies ---------------------------
(***************************************************************************)
(* The insertion policies of core/common/include/QueuePolicy.hpp, as pure  *)
(* operators on a sequence whose head is the next event to be popped.      *)
(*                                                                         *)
(* An event of a route queue carries its compression key in "id"           *)
(* (RIMDataItem::CompressionKey and CapabilityInput::CompressionKey both   *)
(* return the data id).  A PublisherInput carries "target", "priority" and *)
(* "compression".                                                          *)
(***************************************************************************)
EXTENDS Integers, Sequences, SequencesExt

\* enum class EventPriority; an event that is never given one is Low.
Low    == 0
Normal == 1
High   == 2

CompressionPolicies == {"None", "KeepOldest", "KeepLatest"}
QueueKinds          == {"Buffered", "Coalescing"}

(***************************************************************************)
(* events.erase(it); break; -- the loop stops at the first match.          *)
(***************************************************************************)
EraseFirst(q, matches) ==
    IF matches = {} THEN q ELSE RemoveAt(q, Min(matches))

FifoInsert(q, e) == Append(q, e)

\* Mutant: an event whose id is queued already is dropped.
CoalescingKeepsOldest(q, e) ==
    IF \E i \in DOMAIN q : q[i].id = e.id THEN q ELSE Append(q, e)

CoalescingInsert(q, e) ==
    Append(EraseFirst(q, {i \in DOMAIN q : q[i].id = e.id}), e)

(***************************************************************************)
(* The new event goes in front of the first event of lower priority, hence *)
(* behind every event of its own priority.                                 *)
(***************************************************************************)
PriorityInsert(q, e) ==
    LET lower == {i \in DOMAIN q : e.priority > q[i].priority}
    IN  IF lower = {} THEN Append(q, e) ELSE InsertAt(q, Min(lower), e)

(***************************************************************************)
(* The compression policy looked at is the one of the event being pushed,  *)
(* whatever the events already queued for the same target carry.           *)
(***************************************************************************)
SameTarget(q, e) == {i \in DOMAIN q : q[i].target = e.target}

\* Mutant: KeepLatest erases the front event, whatever its target.
CompressionErasesFront(q, e) ==
    CASE e.compression = "KeepOldest" ->
            IF SameTarget(q, e) # {} THEN q ELSE PriorityInsert(q, e)
      [] e.compression = "KeepLatest" -> PriorityInsert(EraseFirst(q, DOMAIN q), e)
      [] OTHER -> PriorityInsert(q, e)

PriorityCompressionInsert(q, e) ==
    CASE e.compression = "KeepOldest" ->
            IF SameTarget(q, e) # {} THEN q ELSE PriorityInsert(q, e)
      [] e.compression = "KeepLatest" ->
            PriorityInsert(EraseFirst(q, SameTarget(q, e)), e)
      [] OTHER -> PriorityInsert(q, e)

\* QueueFactory::Create: the two kinds of queue a route can be given.
RouteInsert(kind, q, e) ==
    IF kind = "Coalescing" THEN CoalescingInsert(q, e) ELSE FifoInsert(q, e)

(***************************************************************************)
(* Vocabulary for the properties: what a queue holds, k as the last event  *)
(* of id d in q, popped after every other event of d, and the value that   *)
(* the last event of d carries, if q has one.                              *)
(***************************************************************************)
HoldsId(q, d)     == \E k \in DOMAIN q : q[k].id = d
HoldsTarget(q, t) == \E k \in DOMAIN q : q[k].target = t

IsLastOf(q, d, k) ==
    /\ k \in DOMAIN q
    /\ q[k].id = d
    /\ \A j \in DOMAIN q : j > k => q[j].id # d

LastIs(q, d, value) ==
    \A k \in DOMAIN q : IsLastOf(q, d, k) => q[k].value = value
=============================================================================
