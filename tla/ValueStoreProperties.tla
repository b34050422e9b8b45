------------------------ MODULE ValueStoreProperties ------------------------
(***************************************************************************)
(* What RIM_GetXxx returns, in terms of what RIM_SetXxx was given.         *)
(***************************************************************************)
EXTENDS ValueStore

Hand == [pc : {"wait", "find", "hash", "compare", "copy"},
         id : Items \cup {Null}, value : RIMValues, read : Seq(Bytes)]

RouteItem(r) == [id : {d \in Items : Definition[d].routeId = r}, value : RIMValues]

\* The variables have their types; an item that waits on a route or is being
\* processed there belongs to it.
TypeOK ==
    /\ buffer \in [1 .. MaxSize -> Bytes]
    /\ DOMAIN storeQueue = Routes
    /\ \A r \in Routes : storeQueue[r] \in Seq(RouteItem(r))
    /\ worker \in [Routes -> Hand]
    /\ \A r \in Routes : worker[r].pc # "wait" =>
          [id |-> worker[r].id, value |-> worker[r].value] \in RouteItem(r)
    /\ items \in [Items -> RIMValues \cup {Null}]
    /\ DOMAIN binaries = Items
    /\ calls \in 0 .. MaxCalls /\ writes \in 0 .. MaxWrites
    /\ DOMAIN lastSet = Items
    /\ touched \in [Items -> BOOLEAN]

\* No reader gets a value out of another member of the union than the one
\* that was written (AdapterDispatcher.cpp:25, "the type of setValueType and
\* the actual RIMValue::type would differ when put in the store").
NoReinterpretation ==
    \A d \in Items : items[d] # Null => items[d].member = items[d].type

\* Stored bytes are the storage's own: what a reader sees changes only when a
\* DataStoreWorker stores the item, never when the application reuses its
\* buffer (BinaryEntryTest, SetCopiesBuffer).
Contents(d) ==
    LET type == Definition[d].storeValueType
    IN  IF type = "kBinary" THEN GetBinary(d) ELSE GetValue(type, d)

StoredBytesStay ==
    [][\A d \in Items :
          Contents(d)' # Contents(d) =>
             worker[Definition[d].routeId].pc = "copy"
             /\ worker[Definition[d].routeId].id = d]_vars

\* When a route has nothing left to do, the getters return what its items
\* were last set to, normalized: no coalescing, no comparison of a hash that
\* collides and no reuse of the buffer between two calls loses the last value.
\* For bytes, provided the application left its buffer alone since that call.
Known(d) ==
    /\ lastSet[d] # Null
    /\ touched[d] => Definition[d].rawValueType # "kBinary"

LastValueRead ==
    \A d \in Items :
        LET r == Definition[d].routeId
        IN  Known(d) /\ worker[r].pc = "wait" /\ storeQueue[r] = <<>>
            => Contents(d) = Answer("RI_SUCCESS", lastSet[d])
-----------------------------------------------------------------------------
(***************************************************************************)
(* The inductive invariant.  A value on its way has the type its item is   *)
(* stored as, in the tag and in the union, and bytes are the caller's; in  *)
(* the storage they are the entry's, whose hash is theirs.                 *)
(***************************************************************************)
Fits(d, value) ==
    /\ value.type = Definition[d].storeValueType
    /\ value.member = value.type
    /\ value.type = "kBinary" => value.data = Caller /\ value.size \in 1 .. MaxSize

FittingItem(r) == {item \in RouteItem(r) : Fits(item.id, item.value)}

Entered(d) ==
    /\ binaries[d].buffer \in Seq(Bytes)
    /\ binaries[d].hash = Hash(binaries[d].buffer)

QueueInv == \A r \in Routes : storeQueue[r] \in Seq(FittingItem(r))

HandInv(w) ==
    /\ w.pc # "wait" => Fits(w.id, w.value) /\ Len(w.read) <= w.value.size
    /\ w.pc = "find" => w.read = <<>>
    /\ w.pc \in {"hash", "compare"} =>
          /\ items[w.id] # Null
          /\ w.value.type = "kBinary"
          /\ Len(binaries[w.id].buffer) = w.value.size

WorkerInv == \A r \in Routes : HandInv(worker[r])

StorageInv ==
    \A d \in Items : items[d] # Null =>
        /\ items[d].type = Definition[d].storeValueType
        /\ items[d].member = items[d].type
        /\ items[d].type = "kBinary" => items[d].data = Entry /\ Entered(d)

\* Where the last value of an item is: last in the queue, else in hand, else
\* in the storage.
InHand(d) ==
    LET w == worker[Definition[d].routeId] IN w.pc # "wait" /\ w.id = d

LatestInv ==
    \A d \in Items : Known(d) =>
        LET q == storeQueue[Definition[d].routeId]
            w == worker[Definition[d].routeId]
        IN  /\ \A k \in DOMAIN q : IsLastOf(q, d, k) => Meant(q[k].value) = lastSet[d]
            /\ ~HoldsId(q, d) /\ InHand(d) =>
                  /\ Meant(w.value) = lastSet[d]
                  /\ w.value.type = "kBinary" => w.read = SubSeq(buffer, 1, Len(w.read))
            /\ ~HoldsId(q, d) /\ ~InHand(d) =>
                  Contents(d) = Answer("RI_SUCCESS", lastSet[d])
=============================================================================
