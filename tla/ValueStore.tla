----------------------------- MODULE ValueStore -----------------------------
(***************************************************************************)
(* What becomes of a value between RIM_SetXxx and RIM_GetXxx: the typed    *)
(* union, the caller's buffer of RIM_SetBinary, of which only the address  *)
(* is queued, and the storage's own copy of it.  Module Pipeline has the   *)
(* threads and the notifications of the same path, with abstract values.   *)
(*                                                                         *)
(* The application's buffer stays allocated, and the application writes it *)
(* byte by byte whenever it likes; the workers read it byte by byte.       *)
(***************************************************************************)
EXTENDS QueuePolicies

CONSTANTS
    Items,          \* data ids of the product
    Definition,     \* DataItemDefinition of an item, see DefinitionType
    Routes,
    StorePolicy,    \* QueueKinds of a route's store queue
    Bytes,
    MaxSize,        \* size of the application's buffer
    Bools, Int32s, Doubles,   \* the arguments of RIM_SetBool, ... considered
    Hash(_),        \* CalculateBinaryHash
    Kelvin(_),      \* celsius + 273.15
    NaN,
    Null,
    Caller, Entry,  \* the two buffers a binary value can point at
    MaxCalls,       \* bound on the calls of RIM_SetXxx
    MaxWrites       \* bound on the bytes the application writes

ValueTypes == {"kBool", "kInt32", "kUInt32", "kDouble", "kBinary"}

DefinitionType ==
    [rawValueType : ValueTypes, storeValueType : ValueTypes,
     normalize : {"IdentityNormalize", "NormalizeTemperatureSensorA"},
     diff : BOOLEAN,          \* IdentityDiff or nullptr
     routeId : Routes]

ASSUME ValueStoreAssumption ==
    /\ Definition \in [Items -> DefinitionType]
    /\ StorePolicy \in [Routes -> QueueKinds]
    /\ MaxSize \in Nat \ {0}
    /\ MaxCalls \in Nat /\ MaxWrites \in Nat
    /\ Entry \notin {Null, Caller}

\* In every table of the repository an item is set as what it is stored as,
\* and only doubles are converted.
ASSUME DefinitionAssumption ==
    \A d \in Items :
        /\ Definition[d].rawValueType = Definition[d].storeValueType
        /\ Definition[d].normalize = "NormalizeTemperatureSensorA"
              => Definition[d].rawValueType = "kDouble"

VARIABLES
    buffer,      \* the application's bytes
    storeQueue,  \* route -> RIMDataItems
    worker,      \* route -> what its DataStoreWorker is doing
    items,       \* PartitionStorage::items_: id -> RIMValue or Null
    binaries,    \* PartitionStorage::binaries_: id -> BinaryEntry or Null
    calls, writes,
    lastSet,     \* ghost: what the last accepted call set the item to
    touched      \* ghost: the application wrote since it last set the item

vars == <<buffer, storeQueue, worker, items, binaries, calls, writes, lastSet, touched>>
-----------------------------------------------------------------------------
(***************************************************************************)
(* RIMValue: a type tag, the union member that was written and its         *)
(* content.  The bytes member points at the application's buffer (Caller)  *)
(* or at the buffer of a BinaryEntry (Entry); size is its length.          *)
(***************************************************************************)
Value(type, data, size) == [type |-> type, member |-> type, data |-> data, size |-> size]

DataValues == {0, 1, Null, Caller, Entry} \cup Int32s \cup Doubles
                 \cup {Kelvin(celsius) : celsius \in Doubles}

RIMValues == [type : ValueTypes, member : ValueTypes, data : DataValues,
              size : 0 .. MaxSize]

ASSUME NullAssumption == Null \notin RIMValues

\* RIMValue{}: the first enumerator, a union whose pointer is null.
NoRIMValue == [type |-> "kBool", member |-> "kBinary", data |-> Null, size |-> 0]

\* The bytes a stored or queued binary value points at.
BytesOf(d, value) ==
    IF value.data = Entry THEN binaries[d].buffer
                            ELSE SubSeq(buffer, 1, value.size)

Idle == [pc |-> "wait", id |-> Null, value |-> NoRIMValue, read |-> <<>>]

Init ==
    /\ buffer \in [1 .. MaxSize -> Bytes]
    /\ storeQueue = [r \in Routes |-> <<>>]
    /\ worker = [r \in Routes |-> Idle]
    /\ items = [d \in Items |-> Null]
    /\ binaries = [d \in Items |-> Null]
    /\ calls = 0 /\ writes = 0
    /\ lastSet = [d \in Items |-> Null]
    /\ touched = [d \in Items |-> FALSE]
-----------------------------------------------------------------------------
(***************************************************************************)
(* The application.  A call that is refused (RI_INVALID_PARAMETER for an   *)
(* unknown id, another type, no data or no size) changes nothing.          *)
(***************************************************************************)
\* IdentityNormalize and NormalizeBinary give back what they are given.
Normalize(d, value) ==
    IF Definition[d].normalize # "NormalizeTemperatureSensorA" THEN value
    ELSE IF value.type # "kDouble" THEN NoRIMValue
    ELSE Value("kDouble", Kelvin(value.data), 0)

\* What a reader is to find afterwards: bytes, or the normalized value.
Meant(value) ==
    IF value.member = "kBinary" THEN SubSeq(buffer, 1, value.size) ELSE value.data

\* Mutant: the check that was added when values and types went apart is gone.
DispatchUnchecked(d, value) ==
    LET r   == Definition[d].routeId
        set == Normalize(d, value)
    IN  /\ storeQueue' =
              [storeQueue EXCEPT ![r] =
                 RouteInsert(StorePolicy[r], @, [id |-> d, value |-> set])]
        /\ lastSet' = [lastSet EXCEPT ![d] = Meant(set)]
        /\ touched' = [touched EXCEPT ![d] = FALSE]

\* AdapterDispatcher::Dispatch.  setValueType is assigned to an item whose
\* value is overwritten at once, and has no effect.
Dispatch(d, value) ==
    LET r   == Definition[d].routeId
        set == Normalize(d, value)
    IN  /\ value.type = Definition[d].rawValueType
        /\ storeQueue' =
              [storeQueue EXCEPT ![r] =
                 RouteInsert(StorePolicy[r], @, [id |-> d, value |-> set])]
        /\ lastSet' = [lastSet EXCEPT ![d] = Meant(set)]
        /\ touched' = [touched EXCEPT ![d] = FALSE]

SetValue(d, value) ==
    /\ calls < MaxCalls
    /\ calls' = calls + 1
    /\ Dispatch(d, value)
    /\ UNCHANGED <<buffer, worker, items, binaries, writes>>

SetBool(d)   == \E v \in Bools   : SetValue(d, Value("kBool", IF v # 0 THEN 1 ELSE 0, 0))
SetInt32(d)  == \E v \in Int32s  : SetValue(d, Value("kInt32", v, 0))
SetDouble(d) == \E v \in Doubles : SetValue(d, Value("kDouble", v, 0))

\* RIM_SetBinary keeps the address of the bytes.
SetBinary(d) ==
    \E size \in 1 .. MaxSize : SetValue(d, Value("kBinary", Caller, size))

WriteByte ==
    /\ writes < MaxWrites
    /\ writes' = writes + 1
    /\ \E at \in 1 .. MaxSize, byte \in Bytes :
          /\ buffer[at] # byte
          /\ buffer' = [buffer EXCEPT ![at] = byte]
    /\ touched' = [d \in Items |-> TRUE]
    /\ UNCHANGED <<storeQueue, worker, items, binaries, calls, lastSet>>
-----------------------------------------------------------------------------
(***************************************************************************)
(* DataStoreWorker::Process on one route.  Bytes of the caller's buffer    *)
(* are read three times: for the hash, to be compared with the stored ones *)
(* if size and hash are equal, and to be copied.                           *)
(***************************************************************************)
Goto(r, pc) ==
    worker' = [worker EXCEPT ![r] =
                 [pc |-> pc, id |-> @.id, value |-> @.value, read |-> <<>>]]
Finish(r) == worker' = [worker EXCEPT ![r] = Idle]

WorkerOnly == UNCHANGED <<buffer, storeQueue, items, binaries, calls, writes,
                          lastSet, touched>>

\* WaitAndPop.  The store functions return the set value; the type becomes
\* the one the definition stores.
Pop(r) ==
    /\ worker[r].pc = "wait"
    /\ storeQueue[r] # <<>>
    /\ LET item == Head(storeQueue[r])
       IN  worker' = [worker EXCEPT ![r] =
                        [pc |-> "find", id |-> item.id, read |-> <<>>,
                         value |-> [item.value EXCEPT
                                      !.type = Definition[item.id].storeValueType]]]
    /\ storeQueue' = [storeQueue EXCEPT ![r] = Tail(@)]
    /\ UNCHANGED <<buffer, items, binaries, calls, writes, lastSet, touched>>

\* IdentityDiff on anything but bytes; a NaN differs from itself.
IdentityDiff(old, new) ==
    \/ old.type # new.type
    \/ old.data # new.data
    \/ NaN \in {old.data, new.data}

\* What is found in the storage decides how the item is compared.
Find(r) ==
    LET d == worker[r].id
        new == worker[r].value
    IN  /\ worker[r].pc = "find"
        /\ \/ /\ items[d] = Null \/ ~Definition[d].diff
              /\ Goto(r, "copy")
           \/ /\ items[d] # Null /\ Definition[d].diff
              /\ "kBinary" \notin {items[d].type, new.type}
              /\ IF IdentityDiff(items[d], new) THEN Goto(r, "copy") ELSE Finish(r)
           \/ /\ items[d] # Null /\ Definition[d].diff
              /\ "kBinary" \in {items[d].type, new.type}
              /\ Goto(r, IF /\ items[d].type = new.type
                            /\ Len(binaries[d].buffer) = new.size
                         THEN "hash" ELSE "copy")
        /\ WorkerOnly

\* One byte through the pointer of the value.
ReadByte(r) ==
    LET next == Len(worker[r].read) + 1
    IN  /\ worker[r].pc \in {"hash", "compare", "copy"}
        /\ worker[r].value.type = "kBinary"
        /\ next <= worker[r].value.size
        /\ worker' = [worker EXCEPT ![r].read =
                        Append(@, BytesOf(worker[r].id, worker[r].value)[next])]
        /\ WorkerOnly

AllRead(r) ==
    worker[r].value.type = "kBinary" => Len(worker[r].read) = worker[r].value.size

\* Mutant: bytes of the same size and hash are taken for the same.
CompareHashOnly(r) ==
    /\ worker[r].pc = "hash" /\ AllRead(r)
    /\ IF binaries[worker[r].id].hash = Hash(worker[r].read)
       THEN Finish(r) ELSE Goto(r, "copy")
    /\ WorkerOnly

CompareHash(r) ==
    /\ worker[r].pc = "hash" /\ AllRead(r)
    /\ Goto(r, IF binaries[worker[r].id].hash = Hash(worker[r].read)
               THEN "compare" ELSE "copy")
    /\ WorkerOnly

\* memcmp in IdentityDiff.
CompareBytes(r) ==
    /\ worker[r].pc = "compare" /\ AllRead(r)
    /\ IF binaries[worker[r].id].buffer = worker[r].read
       THEN Finish(r) ELSE Goto(r, "copy")
    /\ WorkerOnly

\* Mutant: the stored value goes on pointing at the caller's buffer.
StoreKeepsPointer(r) ==
    LET d == worker[r].id
        bytes == worker[r].read
    IN  /\ worker[r].pc = "copy" /\ AllRead(r)
        /\ binaries' = [binaries EXCEPT ![d] =
              IF worker[r].value.type = "kBinary"
              THEN [buffer |-> bytes, hash |-> Hash(bytes)] ELSE Null]
        /\ items' = [items EXCEPT ![d] = worker[r].value]
        /\ Finish(r)
        /\ UNCHANGED <<buffer, storeQueue, calls, writes, lastSet, touched>>

\* PartitionStorage::Store with BinaryEntry::Set, under the partition's lock.
Store(r) ==
    LET d == worker[r].id
        value == worker[r].value
        bytes == worker[r].read
    IN  /\ worker[r].pc = "copy" /\ AllRead(r)
        /\ IF value.type = "kBinary"
           THEN /\ binaries' = [binaries EXCEPT ![d] =
                                  [buffer |-> bytes, hash |-> Hash(bytes)]]
                /\ items' = [items EXCEPT ![d] = Value("kBinary", Entry, Len(bytes))]
           ELSE /\ binaries' = [binaries EXCEPT ![d] = Null]
                /\ items' = [items EXCEPT ![d] = value]
        /\ Finish(r)
        /\ UNCHANGED <<buffer, storeQueue, calls, writes, lastSet, touched>>

DataStoreWorker(r) ==
    \/ Pop(r) \/ Find(r) \/ ReadByte(r)
    \/ CompareHash(r) \/ CompareBytes(r) \/ Store(r)

Application ==
    \/ WriteByte
    \/ \E d \in Items : SetBool(d) \/ SetInt32(d) \/ SetDouble(d) \/ SetBinary(d)

Next == Application \/ \E r \in Routes : DataStoreWorker(r)

Spec == Init /\ [][Next]_vars
-----------------------------------------------------------------------------
(***************************************************************************)
(* RIM_GetBool, RIM_GetInt32, RIM_GetDouble and RIM_GetBinary: the status, *)
(* and the value or the bytes that are read.                               *)
(***************************************************************************)
Answer(status, data) == [status |-> status, data |-> data]

\* RIMValueAccessor: a value is read only as the type it is tagged with.
GetValue(type, d) ==
    IF items[d] = Null THEN Answer("RI_NO_DATA", Null)
    ELSE IF items[d].type # type THEN Answer("RI_INTERNAL_ERROR", Null)
    ELSE Answer("RI_SUCCESS", items[d].data)

GetBinary(d) ==
    LET found == GetValue("kBinary", d)
    IN  IF found.status # "RI_SUCCESS" THEN found
        ELSE IF found.data = Null THEN Answer("RI_NO_DATA", Null)
        ELSE Answer("RI_SUCCESS", BytesOf(d, items[d]))
=============================================================================
