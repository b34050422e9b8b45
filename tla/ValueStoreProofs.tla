-------------------------- MODULE ValueStoreProofs --------------------------
(***************************************************************************)
(* Proofs about typed values and bytes, for every table of items, every    *)
(* policy of every route, every hash, and buffers of any size.             *)
(***************************************************************************)
EXTENDS ValueStoreProperties, QueueLemmas

\* What RIM_SetXxx may hand to Dispatch.
Settable(value) ==
    /\ value \in RIMValues
    /\ value.member = value.type
    /\ value.type = "kDouble" => value.data \in Doubles
    /\ value.type = "kBinary" => value.data = Caller /\ value.size \in 1 .. MaxSize

ValueInv == TypeOK /\ QueueInv /\ WorkerInv /\ StorageInv
-----------------------------------------------------------------------------
\* The setters hand over values of the union member they write.
LEMMA SettersSettable ==
    /\ \A v \in Bools : Settable(Value("kBool", IF v # 0 THEN 1 ELSE 0, 0))
    /\ \A v \in Int32s : Settable(Value("kInt32", v, 0))
    /\ \A v \in Doubles : Settable(Value("kDouble", v, 0))
    /\ \A size \in 1 .. MaxSize : Settable(Value("kBinary", Caller, size))
  <1>1. 0 \in 0 .. MaxSize /\ 1 .. MaxSize \subseteq 0 .. MaxSize
    BY ValueStoreAssumption
  <1>2. \A v \in Bools : (IF v # 0 THEN 1 ELSE 0) \in DataValues
    BY DEF DataValues
  <1>3. Int32s \subseteq DataValues /\ Doubles \subseteq DataValues /\ Caller \in DataValues
    BY DEF DataValues
  <1> HIDE DEF DataValues
  <1>4. QED
    BY <1>1, <1>2, <1>3 DEF Settable, Value, RIMValues, ValueTypes

\* Normalization gives a value of the type its item is stored as.
LEMMA NormalizeFits ==
    ASSUME NEW d \in Items, NEW value,
           Settable(value), value.type = Definition[d].rawValueType
    PROVE  Normalize(d, value) \in RIMValues /\ Fits(d, Normalize(d, value))
  <1>1. /\ value \in RIMValues
        /\ value.type = Definition[d].storeValueType
        /\ Fits(d, value)
    BY DefinitionAssumption DEF Settable, Fits
  <1>2. CASE Definition[d].normalize # "NormalizeTemperatureSensorA"
    BY <1>1, <1>2 DEF Normalize
  <1>3. CASE Definition[d].normalize = "NormalizeTemperatureSensorA"
    <2>1. value.type = "kDouble" /\ value.data \in Doubles
      BY <1>3, DefinitionAssumption DEF Settable
    <2>2. Normalize(d, value) = Value("kDouble", Kelvin(value.data), 0)
      BY <1>3, <2>1 DEF Normalize
    <2>3. Kelvin(value.data) \in DataValues
      BY <2>1 DEF DataValues
    <2>4. 0 \in 0 .. MaxSize
      BY ValueStoreAssumption
    <2> HIDE DEF DataValues
    <2>5. QED
      BY <1>1, <2>1, <2>2, <2>3, <2>4 DEF Value, RIMValues, ValueTypes, Fits
  <1>4. QED
    BY <1>2, <1>3

\* Every call that changes something is a Dispatch of a settable value.
LEMMA SetIsDispatch ==
    ASSUME NEW d \in Items, SetBool(d) \/ SetInt32(d) \/ SetDouble(d) \/ SetBinary(d)
    PROVE  \E value : Settable(value) /\ SetValue(d, value)
  <1>1. ASSUME SetBool(d) PROVE \E value : Settable(value) /\ SetValue(d, value)
    BY <1>1, SettersSettable DEF SetBool
  <1>2. ASSUME SetInt32(d) PROVE \E value : Settable(value) /\ SetValue(d, value)
    BY <1>2, SettersSettable DEF SetInt32
  <1>3. ASSUME SetDouble(d) PROVE \E value : Settable(value) /\ SetValue(d, value)
    BY <1>3, SettersSettable DEF SetDouble
  <1>4. ASSUME SetBinary(d) PROVE \E value : Settable(value) /\ SetValue(d, value)
    BY <1>4, SettersSettable DEF SetBinary
  <1>5. QED
    BY <1>1, <1>2, <1>3, <1>4

\* The part of the caller's buffer that a value of some size points at.
LEMMA CallerBytes ==
    ASSUME NEW buf \in [1 .. MaxSize -> Bytes], NEW n \in 0 .. MaxSize
    PROVE  /\ SubSeq(buf, 1, n) \in Seq(Bytes)
           /\ Len(SubSeq(buf, 1, n)) = n
           /\ \A i \in 1 .. n : SubSeq(buf, 1, n)[i] = buf[i]
  <1>1. MaxSize \in Nat
    BY ValueStoreAssumption
  <1>2. \A i \in 1 .. n : buf[i] \in Bytes
    BY <1>1
  <1>3. /\ SubSeq(buf, 1, n) \in Seq(Bytes)
        /\ Len(SubSeq(buf, 1, n)) = IF 1 <= n THEN n - 1 + 1 ELSE 0
        /\ \A i \in 1 .. n - 1 + 1 : SubSeq(buf, 1, n)[i] = buf[1 + i - 1]
    BY <1>1, <1>2, SubSeqProperties
  <1>4. n - 1 + 1 = n /\ \A i \in 1 .. n : 1 + i - 1 = i
    BY <1>1
  <1>5. QED
    BY <1>1, <1>3, <1>4

\* Reading one byte more continues the copy of the caller's buffer.
LEMMA OneByteMore ==
    ASSUME NEW buf \in [1 .. MaxSize -> Bytes], NEW n \in 0 .. MaxSize, n + 1 <= MaxSize
    PROVE  Append(SubSeq(buf, 1, n), buf[n + 1]) = SubSeq(buf, 1, n + 1)
  <1>1. MaxSize \in Nat /\ n \in Nat /\ n + 1 \in 1 .. MaxSize /\ n + 1 \in 0 .. MaxSize
    BY ValueStoreAssumption
  <1> DEFINE short == SubSeq(buf, 1, n)
             long  == SubSeq(buf, 1, n + 1)
  <1>2. /\ short \in Seq(Bytes) /\ Len(short) = n
        /\ \A i \in 1 .. n : short[i] = buf[i]
    BY CallerBytes
  <1>3. /\ long \in Seq(Bytes) /\ Len(long) = n + 1
        /\ \A i \in 1 .. n + 1 : long[i] = buf[i]
    BY <1>1, CallerBytes
  <1> HIDE DEF short, long
  <1>4. buf[n + 1] \in Bytes
    BY <1>1
  <1>5. /\ Append(short, buf[n + 1]) \in Seq(Bytes)
        /\ Len(Append(short, buf[n + 1])) = n + 1
        /\ \A i \in 1 .. n : Append(short, buf[n + 1])[i] = short[i]
        /\ Append(short, buf[n + 1])[n + 1] = buf[n + 1]
    BY <1>2, <1>4, AppendProperties
  <1>6. \A i \in 1 .. n + 1 : Append(short, buf[n + 1])[i] = long[i]
    BY <1>1, <1>2, <1>3, <1>5
  <1>7. QED
    BY <1>3, <1>5, <1>6, SeqEqual DEF short, long
-----------------------------------------------------------------------------
(***************************************************************************)
(* ValueInv is inductive, action by action.                                *)
(***************************************************************************)
LEMMA ValueInit == Init => ValueInv
  <1> SUFFICES ASSUME Init PROVE ValueInv
    OBVIOUS
  <1>1. 0 \in 0 .. MaxSize /\ 0 \in 0 .. MaxCalls /\ 0 \in 0 .. MaxWrites
    BY ValueStoreAssumption
  <1>2. Null \in DataValues
    BY DEF DataValues
  <1> HIDE DEF DataValues
  <1>3. NoRIMValue \in RIMValues
    BY <1>1, <1>2 DEF NoRIMValue, RIMValues, ValueTypes
  <1>4. Idle \in Hand
    BY <1>3 DEF Idle, Hand
  <1>5. Idle.pc = "wait"
    BY DEF Idle
  <1> HIDE DEF Idle, RIMValues
  <1>6. TypeOK
    BY <1>1, <1>4, <1>5 DEF Init, TypeOK
  <1>7. QueueInv /\ WorkerInv /\ StorageInv
    BY <1>5 DEF Init, QueueInv, WorkerInv, HandInv, StorageInv
  <1>8. QED
    BY <1>6, <1>7 DEF ValueInv

\* RIM_SetXxx queues a fitting item on the item's route and touches nothing else.
LEMMA SetValueInv ==
    ASSUME ValueInv, NEW d \in Items, NEW value, Settable(value), SetValue(d, value)
    PROVE  ValueInv'
  <1> DEFINE r == Definition[d].routeId
             item == [id |-> d, value |-> Normalize(d, value)]
             new == RouteInsert(StorePolicy[r], storeQueue[r], item)
  <1>1. r \in Routes /\ Normalize(d, value) \in RIMValues /\ Fits(d, Normalize(d, value))
    BY NormalizeFits, ValueStoreAssumption DEF SetValue, Dispatch, DefinitionType
  <1>2. item \in RouteItem(r) /\ item \in FittingItem(r)
    BY <1>1 DEF RouteItem, FittingItem
  <1>3. new \in Seq(RouteItem(r))
    BY <1>1, <1>2, RouteInsertProperties DEF ValueInv, TypeOK
  <1>4. new \in Seq(FittingItem(r))
    BY <1>1, <1>2, RouteInsertProperties DEF ValueInv, QueueInv
  <1>5. /\ storeQueue' = [storeQueue EXCEPT ![r] = new]
        /\ lastSet' = [lastSet EXCEPT ![d] = Meant(Normalize(d, value))]
        /\ touched' = [touched EXCEPT ![d] = FALSE]
        /\ calls' = calls + 1 /\ calls < MaxCalls
        /\ UNCHANGED <<buffer, worker, items, binaries, writes>>
    BY DEF SetValue, Dispatch
  <1> HIDE DEF new, item
  <1>6. TypeOK'
    <2>1. DOMAIN storeQueue' = Routes
          /\ \A h \in Routes : storeQueue'[h] \in Seq(RouteItem(h))
      BY <1>1, <1>3, <1>5 DEF ValueInv, TypeOK
    <2>2. calls' \in 0 .. MaxCalls
      BY <1>5, ValueStoreAssumption DEF ValueInv, TypeOK
    <2>3. DOMAIN lastSet' = Items /\ touched' \in [Items -> BOOLEAN]
      BY <1>5 DEF ValueInv, TypeOK
    <2>4. QED
      BY <2>1, <2>2, <2>3, <1>5 DEF ValueInv, TypeOK
  <1>7. QueueInv'
    BY <1>1, <1>4, <1>5 DEF ValueInv, TypeOK, QueueInv
  <1>8. WorkerInv' /\ StorageInv'
    BY <1>5 DEF ValueInv, WorkerInv, HandInv, StorageInv, Entered
  <1>9. QED
    BY <1>6, <1>7, <1>8 DEF ValueInv

\* The application's own writes touch nothing but its buffer.
LEMMA WriteByteInv == ASSUME ValueInv, WriteByte PROVE ValueInv'
  <1>1. PICK at \in 1 .. MaxSize, byte \in Bytes : buffer' = [buffer EXCEPT ![at] = byte]
    BY DEF WriteByte
  <1>2. /\ writes' = writes + 1 /\ writes < MaxWrites
        /\ touched' = [d \in Items |-> TRUE]
        /\ UNCHANGED <<storeQueue, worker, items, binaries, calls, lastSet>>
    BY DEF WriteByte
  <1>3. TypeOK'
    <2>1. buffer' \in [1 .. MaxSize -> Bytes]
      BY <1>1 DEF ValueInv, TypeOK
    <2>2. writes' \in 0 .. MaxWrites
      BY <1>2, ValueStoreAssumption DEF ValueInv, TypeOK
    <2>3. QED
      BY <2>1, <2>2, <1>2 DEF ValueInv, TypeOK
  <1>4. QueueInv' /\ WorkerInv' /\ StorageInv'
    BY <1>2 DEF ValueInv, QueueInv, WorkerInv, HandInv, StorageInv, Entered
  <1>5. QED
    BY <1>3, <1>4 DEF ValueInv

\* A worker that has something in hand has a fitting value of an item of its route.
LEMMA HandFits ==
    ASSUME ValueInv, NEW r \in Routes, worker[r].pc # "wait"
    PROVE  /\ worker[r].id \in Items /\ Definition[worker[r].id].routeId = r
           /\ worker[r].value \in RIMValues
           /\ Fits(worker[r].id, worker[r].value)
           /\ worker[r].read \in Seq(Bytes)
           /\ Len(worker[r].read) \in 0 .. worker[r].value.size
           /\ worker[r].value.size \in 0 .. MaxSize
  <1>1. /\ worker[r].value \in RIMValues /\ worker[r].read \in Seq(Bytes)
        /\ [id |-> worker[r].id, value |-> worker[r].value] \in RouteItem(r)
    BY DEF ValueInv, TypeOK, Hand
  <1>2. worker[r].id \in Items /\ Definition[worker[r].id].routeId = r
    BY <1>1 DEF RouteItem
  <1>3. Fits(worker[r].id, worker[r].value) /\ Len(worker[r].read) <= worker[r].value.size
    BY DEF ValueInv, WorkerInv, HandInv
  <1>4. worker[r].value.size \in 0 .. MaxSize
    BY <1>1 DEF RIMValues
  <1>5. Len(worker[r].read) \in Nat
    BY <1>1, LenProperties
  <1>6. QED
    BY <1>1, <1>2, <1>3, <1>4, <1>5, ValueStoreAssumption

\* A step that only leaves something else in the hands of one worker.
LEMMA HandStep ==
    ASSUME ValueInv, NEW r \in Routes, NEW w \in Hand,
           w.pc # "wait" => [id |-> w.id, value |-> w.value] \in RouteItem(r),
           HandInv(w), worker' = [worker EXCEPT ![r] = w], WorkerOnly
    PROVE  ValueInv'
  <1>1. TypeOK'
    BY DEF ValueInv, TypeOK, WorkerOnly
  <1>2. QueueInv' /\ StorageInv'
    BY DEF ValueInv, QueueInv, StorageInv, Entered, WorkerOnly
  <1>3. WorkerInv'
    <2>1. \A h \in Routes : HandInv(worker'[h])
      BY DEF ValueInv, WorkerInv, TypeOK
    <2>2. QED
      BY <2>1 DEF WorkerInv, HandInv, WorkerOnly
  <1>4. QED
    BY <1>1, <1>2, <1>3 DEF ValueInv

\* Nothing in hand is nothing wrong.
LEMMA FinishInv ==
    ASSUME ValueInv, NEW r \in Routes, Finish(r), WorkerOnly
    PROVE  ValueInv'
  <1>1. 0 \in 0 .. MaxSize /\ Null \in {0, 1, Null, Caller, Entry}
    BY ValueStoreAssumption
  <1>2. NoRIMValue \in RIMValues
    BY <1>1 DEF NoRIMValue, RIMValues, ValueTypes, DataValues
  <1>3. Idle \in Hand /\ Idle.pc = "wait"
    BY <1>2 DEF Idle, Hand
  <1>4. HandInv(Idle)
    BY <1>3 DEF HandInv
  <1>5. QED
    BY <1>3, <1>4, HandStep DEF Finish

\* Going on with the same value, nothing read of it yet.
LEMMA GotoInv ==
    ASSUME ValueInv, NEW r \in Routes, NEW pc \in {"hash", "compare", "copy"},
           worker[r].pc # "wait", Goto(r, pc), WorkerOnly,
           pc # "copy" => /\ items[worker[r].id] # Null
                          /\ worker[r].value.type = "kBinary"
                          /\ Len(binaries[worker[r].id].buffer) = worker[r].value.size
    PROVE  ValueInv'
  <1> DEFINE w == [pc |-> pc, id |-> worker[r].id, value |-> worker[r].value, read |-> <<>>]
  <1>1. worker[r] \in Hand /\ worker \in [Routes -> Hand]
    BY DEF ValueInv, TypeOK
  <1>2. worker' = [worker EXCEPT ![r] = w]
    BY <1>1 DEF Goto
  <1>3. /\ w \in Hand /\ w.pc = pc /\ w.read = <<>>
        /\ w.id = worker[r].id /\ w.value = worker[r].value
    BY <1>1 DEF Hand
  <1> HIDE DEF w
  <1>4. [id |-> w.id, value |-> w.value] \in RouteItem(r)
    BY <1>3 DEF ValueInv, TypeOK
  <1>5. Len(w.read) <= w.value.size
    BY <1>3, HandFits, ValueStoreAssumption
  <1>6. HandInv(w)
    BY <1>3, <1>5, HandFits DEF HandInv
  <1>7. QED
    BY <1>2, <1>3, <1>4, <1>6, HandStep

\* What a look at the storage decides.
LEMMA FindInv == ASSUME ValueInv, NEW r \in Routes, Find(r) PROVE ValueInv'
  <1> DEFINE d == worker[r].id
             new == worker[r].value
  <1>1. worker[r].pc = "find" /\ worker[r].pc # "wait" /\ WorkerOnly
    BY DEF Find
  <1>2. CASE Goto(r, "copy")
    BY <1>1, <1>2, GotoInv
  <1>3. CASE Finish(r)
    BY <1>1, <1>3, FinishInv
  <1>4. CASE /\ Goto(r, "hash") /\ items[d] # Null
             /\ "kBinary" \in {items[d].type, new.type}
             /\ items[d].type = new.type
             /\ Len(binaries[d].buffer) = new.size
    BY <1>1, <1>4, GotoInv
  <1>5. QED
    BY <1>2, <1>3, <1>4 DEF Find

\* What else a worker holds stays while it reads.
LEMMA WithRead ==
    ASSUME NEW w \in Hand, NEW more
    PROVE  [w EXCEPT !.read = more] =
              [pc |-> w.pc, id |-> w.id, value |-> w.value, read |-> more]
  BY DEF Hand

\* One byte of the caller's buffer more.
LEMMA ReadByteInv ==
    ASSUME ValueInv, NEW r \in Routes, ReadByte(r)
    PROVE  /\ ValueInv'
           /\ Len(worker[r].read) + 1 \in 1 .. worker[r].value.size
           /\ worker' = [worker EXCEPT ![r] =
                 [pc |-> worker[r].pc, id |-> worker[r].id, value |-> worker[r].value,
                  read |-> Append(worker[r].read, buffer[Len(worker[r].read) + 1])]]
  <1> DEFINE n    == Len(worker[r].read)
             size == worker[r].value.size
             more == Append(worker[r].read, buffer[n + 1])
             w    == [pc |-> worker[r].pc, id |-> worker[r].id,
                      value |-> worker[r].value, read |-> more]
  <1>1. /\ worker[r].pc \in {"hash", "compare", "copy"}
        /\ worker[r].value.type = "kBinary"
        /\ n + 1 <= size
        /\ worker' = [worker EXCEPT ![r].read =
              Append(@, BytesOf(worker[r].id, worker[r].value)[n + 1])]
        /\ WorkerOnly
    BY DEF ReadByte
  <1>2. /\ worker[r].read \in Seq(Bytes) /\ n \in Nat
        /\ size \in 1 .. MaxSize /\ worker[r].value.data = Caller
        /\ [id |-> worker[r].id, value |-> worker[r].value] \in RouteItem(r)
    BY <1>1, HandFits, LenProperties DEF Fits, ValueInv, TypeOK
  <1>3. n + 1 \in 1 .. size /\ n + 1 \in 1 .. MaxSize /\ size \in 0 .. MaxSize
    BY <1>1, <1>2, ValueStoreAssumption
  <1>4. buffer \in [1 .. MaxSize -> Bytes]
    BY DEF ValueInv, TypeOK
  <1>5. BytesOf(worker[r].id, worker[r].value)[n + 1] = buffer[n + 1]
    <2>1. BytesOf(worker[r].id, worker[r].value) = SubSeq(buffer, 1, size)
      BY <1>2, ValueStoreAssumption DEF BytesOf
    <2>2. SubSeq(buffer, 1, size)[n + 1] = buffer[n + 1]
      BY <1>3, <1>4, CallerBytes
    <2>3. QED
      BY <2>1, <2>2
  <1>6. more \in Seq(Bytes) /\ Len(more) = n + 1
    BY <1>2, <1>3, <1>4, AppendProperties
  <1>7. worker \in [Routes -> Hand]
    BY DEF ValueInv, TypeOK
  <1>8. worker' = [worker EXCEPT ![r] = w]
    <2>1. worker' = [worker EXCEPT ![r].read = more]
      BY <1>1, <1>5
    <2>2. worker[r] \in Hand
      BY <1>7
    <2> HIDE DEF more
    <2>3. [worker[r] EXCEPT !.read = more] = w
      BY <2>2, WithRead
    <2>4. QED
      BY <2>1, <2>3, <1>7
  <1>9. /\ w \in Hand /\ w.pc = worker[r].pc /\ w.id = worker[r].id
        /\ w.value = worker[r].value /\ w.read = more
    BY <1>6, <1>7 DEF Hand
  <1> HIDE DEF w, more, n, size
  <1>10. HandInv(w)
    BY <1>1, <1>3, <1>6, <1>9 DEF ValueInv, WorkerInv, HandInv, size
  <1>11. ValueInv'
    BY <1>1, <1>2, <1>8, <1>9, <1>10, HandStep
  <1>12. QED
    BY <1>3, <1>8, <1>11 DEF w, more, n, size

\* The two comparisons of bytes.
LEMMA CompareInv ==
    ASSUME ValueInv, NEW r \in Routes, CompareHash(r) \/ CompareBytes(r)
    PROVE  ValueInv'
  <1>1. worker[r].pc \in {"hash", "compare"} /\ WorkerOnly
    BY DEF CompareHash, CompareBytes
  <1>2. /\ items[worker[r].id] # Null
        /\ worker[r].value.type = "kBinary"
        /\ Len(binaries[worker[r].id].buffer) = worker[r].value.size
    BY <1>1 DEF ValueInv, WorkerInv, HandInv
  <1>3. Finish(r) \/ Goto(r, "compare") \/ Goto(r, "copy")
    BY DEF CompareHash, CompareBytes
  <1>4. QED
    BY <1>1, <1>2, <1>3, FinishInv, GotoInv

\* What is popped fits, and its stored type is the one it already has.
LEMMA PopInv ==
    ASSUME ValueInv, NEW r \in Routes, Pop(r)
    PROVE  /\ ValueInv'
           /\ Head(storeQueue[r]) \in FittingItem(r)
           /\ worker' = [worker EXCEPT ![r] =
                 [pc |-> "find", id |-> Head(storeQueue[r]).id, read |-> <<>>,
                  value |-> Head(storeQueue[r]).value]]
  <1> DEFINE item == Head(storeQueue[r])
             w == [pc |-> "find", id |-> item.id, read |-> <<>>, value |-> item.value]
  <1>1. /\ worker[r].pc = "wait" /\ storeQueue[r] # <<>>
        /\ storeQueue' = [storeQueue EXCEPT ![r] = Tail(storeQueue[r])]
        /\ UNCHANGED <<buffer, items, binaries, calls, writes, lastSet, touched>>
    BY DEF Pop
  <1>2. item \in FittingItem(r) /\ Tail(storeQueue[r]) \in Seq(FittingItem(r))
    BY <1>1, HeadTailProperties DEF ValueInv, QueueInv
  <1>3. Tail(storeQueue[r]) \in Seq(RouteItem(r))
    BY <1>1, HeadTailProperties DEF ValueInv, TypeOK
  <1>4. /\ item \in RouteItem(r) /\ item.value \in RIMValues /\ item.id \in Items
        /\ item = [id |-> item.id, value |-> item.value]
        /\ Fits(item.id, item.value)
    BY <1>2 DEF FittingItem, RouteItem
  <1>5. [item.value EXCEPT !.type = Definition[item.id].storeValueType] = item.value
    BY <1>4 DEF Fits, RIMValues
  <1>6. worker' = [worker EXCEPT ![r] = w]
    <2>1. worker' = [worker EXCEPT ![r] =
             [pc |-> "find", id |-> item.id, read |-> <<>>,
              value |-> [item.value EXCEPT !.type = Definition[item.id].storeValueType]]]
      BY DEF Pop
    <2>2. QED
      BY <2>1, <1>5
  <1>7. /\ w \in Hand /\ w.pc = "find" /\ w.id = item.id
        /\ w.value = item.value /\ w.read = <<>>
    BY <1>4 DEF Hand
  <1> HIDE DEF w, item
  <1>8. HandInv(w)
    <2>1. item.value.size \in 0 .. MaxSize
      BY <1>4 DEF RIMValues
    <2>2. Len(w.read) <= w.value.size
      BY <2>1, <1>7, ValueStoreAssumption
    <2>3. QED
      BY <2>2, <1>4, <1>7 DEF HandInv
  <1>9. TypeOK'
    BY <1>1, <1>3, <1>4, <1>6, <1>7 DEF ValueInv, TypeOK
  <1>10. QueueInv' /\ StorageInv'
    BY <1>1, <1>2 DEF ValueInv, TypeOK, QueueInv, StorageInv, Entered
  <1>11. WorkerInv'
    <2>1. \A h \in Routes : HandInv(worker'[h])
      BY <1>6, <1>8 DEF ValueInv, WorkerInv, TypeOK
    <2>2. QED
      BY <2>1, <1>1 DEF WorkerInv, HandInv
  <1>12. QED
    BY <1>2, <1>6, <1>9, <1>10, <1>11 DEF ValueInv, w, item

\* What the storage has of an item after PartitionStorage::Store.
LEMMA StoreEffect ==
    ASSUME ValueInv, NEW r \in Routes, Store(r)
    PROVE  LET d == worker[r].id
               value == worker[r].value
           IN  /\ worker[r].pc = "copy"
               /\ d \in Items /\ Definition[d].routeId = r
               /\ items'[d] \in RIMValues
               /\ items'[d].type = Definition[d].storeValueType
               /\ items'[d].member = items'[d].type
               /\ value.type = "kBinary" =>
                     /\ items'[d].data = Entry
                     /\ Len(worker[r].read) = value.size
                     /\ binaries'[d] = [buffer |-> worker[r].read,
                                        hash |-> Hash(worker[r].read)]
               /\ value.type # "kBinary" => items'[d] = value
               /\ \A x \in Items \ {d} : items'[x] = items[x] /\ binaries'[x] = binaries[x]
  <1> DEFINE d     == worker[r].id
             value == worker[r].value
             bytes == worker[r].read
  <1>1. worker[r].pc = "copy" /\ worker[r].pc # "wait" /\ AllRead(r)
    BY DEF Store
  <1>2. /\ d \in Items /\ Definition[d].routeId = r
        /\ value \in RIMValues /\ Fits(d, value)
        /\ value.size \in 0 .. MaxSize
    BY <1>1, HandFits
  <1>3. DOMAIN items = Items /\ DOMAIN binaries = Items
    BY DEF ValueInv, TypeOK
  <1>4. CASE value.type = "kBinary"
    <2> DEFINE stored == Value("kBinary", Entry, Len(bytes))
               entry  == [buffer |-> bytes, hash |-> Hash(bytes)]
    <2>1. Len(bytes) = value.size
      BY <1>1, <1>4 DEF AllRead
    <2>2. Entry \in DataValues /\ "kBinary" \in ValueTypes
      BY DEF DataValues, ValueTypes
    <2>3. /\ items' = [items EXCEPT ![d] = stored]
          /\ binaries' = [binaries EXCEPT ![d] = entry]
      BY <1>4 DEF Store
    <2> HIDE DEF DataValues, ValueTypes
    <2>4. stored \in RIMValues /\ stored.data = Entry
          /\ stored.member = stored.type /\ stored.type = Definition[d].storeValueType
      BY <1>2, <1>4, <2>1, <2>2 DEF Value, RIMValues, Fits
    <2> HIDE DEF stored, entry
    <2>5. items'[d] = stored /\ binaries'[d] = entry
      BY <1>2, <1>3, <2>3
    <2>6. \A x \in Items \ {d} : items'[x] = items[x] /\ binaries'[x] = binaries[x]
      BY <1>3, <2>3
    <2>7. QED
      BY <1>1, <1>2, <1>4, <2>1, <2>4, <2>5, <2>6 DEF entry
  <1>5. CASE value.type # "kBinary"
    <2>1. items' = [items EXCEPT ![d] = value] /\ binaries' = [binaries EXCEPT ![d] = Null]
      BY <1>5 DEF Store
    <2>2. items'[d] = value
          /\ \A x \in Items \ {d} : items'[x] = items[x] /\ binaries'[x] = binaries[x]
      BY <1>2, <1>3, <2>1
    <2>3. QED
      BY <1>1, <1>2, <1>5, <2>2 DEF Fits
  <1>6. QED
    BY <1>4, <1>5

\* Storing keeps the invariant: no other worker holds an item of this route.
LEMMA StoreInv == ASSUME ValueInv, NEW r \in Routes, Store(r) PROVE ValueInv'
  <1> DEFINE d == worker[r].id
  <1>1. /\ worker[r].pc = "copy"
        /\ d \in Items /\ Definition[d].routeId = r
        /\ items'[d] \in RIMValues
        /\ items'[d].type = Definition[d].storeValueType
        /\ items'[d].member = items'[d].type
        /\ \A x \in Items \ {d} : items'[x] = items[x] /\ binaries'[x] = binaries[x]
    BY StoreEffect
  <1>2. /\ worker[r].value.type = Definition[d].storeValueType
        /\ worker[r].read \in Seq(Bytes)
    BY <1>1, HandFits DEF Fits
  <1>3. worker[r].value.type = "kBinary" =>
           /\ items'[d].data = Entry
           /\ binaries'[d] = [buffer |-> worker[r].read, hash |-> Hash(worker[r].read)]
    BY StoreEffect
  <1>4. /\ worker' = [worker EXCEPT ![r] = Idle]
        /\ UNCHANGED <<buffer, storeQueue, calls, writes, lastSet, touched>>
    BY DEF Store, Finish
  <1>5. Idle \in Hand /\ Idle.pc = "wait"
    <2>1. 0 \in 0 .. MaxSize
      BY ValueStoreAssumption
    <2>2. NoRIMValue \in RIMValues
      BY <2>1 DEF NoRIMValue, RIMValues, ValueTypes, DataValues
    <2>3. QED
      BY <2>2 DEF Idle, Hand
  <1>6. TypeOK'
    <2>1. /\ \E f : items' = [items EXCEPT ![d] = f]
          /\ \E f : binaries' = [binaries EXCEPT ![d] = f]
      BY DEF Store
    <2>2. items' \in [Items -> RIMValues \cup {Null}] /\ DOMAIN binaries' = Items
      BY <1>1, <2>1 DEF ValueInv, TypeOK
    <2>3. /\ worker' \in [Routes -> Hand]
          /\ \A h \in Routes : worker'[h].pc # "wait" =>
                [id |-> worker'[h].id, value |-> worker'[h].value] \in RouteItem(h)
      BY <1>4, <1>5 DEF ValueInv, TypeOK
    <2>4. QED
      BY <1>4, <2>2, <2>3 DEF ValueInv, TypeOK
  <1>7. QueueInv'
    BY <1>4 DEF ValueInv, QueueInv
  <1>8. ASSUME NEW h \in Routes PROVE HandInv(worker[h])'
    <2>1. CASE h = r
      <3>1. worker'[h].pc = "wait"
        BY <1>4, <1>5, <2>1 DEF ValueInv, TypeOK
      <3>2. QED
        BY <3>1 DEF HandInv
    <2>2. CASE h # r
      <3>1. worker'[h] = worker[h] /\ HandInv(worker[h])
        BY <1>4, <2>2 DEF ValueInv, TypeOK, WorkerInv
      <3>2. worker[h].pc # "wait" =>
               /\ items'[worker[h].id] = items[worker[h].id]
               /\ binaries'[worker[h].id] = binaries[worker[h].id]
        BY <1>1, <2>2, HandFits
      <3>3. QED
        BY <3>1, <3>2 DEF HandInv
    <2>3. QED
      BY <2>1, <2>2
  <1>9. ASSUME NEW x \in Items, items'[x] # Null
        PROVE  /\ items'[x].type = Definition[x].storeValueType
               /\ items'[x].member = items'[x].type
               /\ items'[x].type = "kBinary" => items'[x].data = Entry /\ Entered(x)'
    BY <1>1, <1>2, <1>3, <1>9 DEF ValueInv, StorageInv, Entered
  <1>10. WorkerInv' /\ StorageInv'
    BY <1>8, <1>9 DEF WorkerInv, StorageInv
  <1>11. QED
    BY <1>6, <1>7, <1>10 DEF ValueInv

\* Every step keeps the invariant.
LEMMA ValueStep == ASSUME ValueInv, [Next]_vars PROVE ValueInv'
  <1>1. ASSUME NEW d \in Items, SetBool(d) \/ SetInt32(d) \/ SetDouble(d) \/ SetBinary(d)
        PROVE  ValueInv'
    BY <1>1, SetIsDispatch, SetValueInv
  <1>2. ASSUME NEW r \in Routes, DataStoreWorker(r)
        PROVE  ValueInv'
    BY <1>2, PopInv, FindInv, ReadByteInv, CompareInv, StoreInv DEF DataStoreWorker
  <1>3. CASE UNCHANGED vars
    BY <1>3 DEF vars, ValueInv, TypeOK, QueueInv, WorkerInv, HandInv, StorageInv, Entered
  <1>4. QED
    BY <1>1, <1>2, <1>3, WriteByteInv DEF Next, Application

\* The invariant the others follow from.
THEOREM ValueInvariant == Spec => []ValueInv
  BY ValueInit, ValueStep, PTL DEF Spec

(***************************************************************************)
(* Queues, hands and storage have their types, and what waits on a route   *)
(* or is processed there belongs to it.                                    *)
(***************************************************************************)
THEOREM TypeCorrect == Spec => []TypeOK
  <1>1. ValueInv => TypeOK
    BY DEF ValueInv
  <1>2. QED
    BY <1>1, ValueInvariant, PTL

(***************************************************************************)
(* RIM_GetXxx never reads another member of the union than was written.    *)
(***************************************************************************)
THEOREM NeverReinterpreted == Spec => []NoReinterpretation
  <1>1. ValueInv => NoReinterpretation
    BY DEF ValueInv, StorageInv, NoReinterpretation
  <1>2. QED
    BY <1>1, ValueInvariant, PTL
-----------------------------------------------------------------------------
(***************************************************************************)
(* What a reader finds depends on the storage alone: bytes are read out of *)
(* the entry, never out of the caller's buffer.                            *)
(***************************************************************************)
Stored(d) ==
    IF items[d] = Null THEN Answer("RI_NO_DATA", Null)
    ELSE Answer("RI_SUCCESS", IF Definition[d].storeValueType = "kBinary"
                              THEN binaries[d].buffer ELSE items[d].data)

\* The getter of the stored type answers with what is stored.
LEMMA ContentsAreStored == ValueInv => \A d \in Items : Contents(d) = Stored(d)
  <1> SUFFICES ASSUME ValueInv, NEW d \in Items PROVE Contents(d) = Stored(d)
    OBVIOUS
  <1>1. CASE items[d] = Null
    BY <1>1 DEF Contents, GetBinary, GetValue, Stored, Answer
  <1>2. CASE items[d] # Null
    <2>1. /\ items[d].type = Definition[d].storeValueType
          /\ items[d].type = "kBinary" => items[d].data = Entry
      BY <1>2 DEF ValueInv, StorageInv
    <2>2. CASE Definition[d].storeValueType = "kBinary"
      <3>1. GetValue("kBinary", d) = Answer("RI_SUCCESS", Entry)
        BY <1>2, <2>1, <2>2 DEF GetValue
      <3>2. GetBinary(d) = Answer("RI_SUCCESS", BytesOf(d, items[d]))
        BY <3>1, ValueStoreAssumption DEF GetBinary, Answer
      <3>3. BytesOf(d, items[d]) = binaries[d].buffer
        BY <2>1, <2>2 DEF BytesOf
      <3>4. QED
        BY <1>2, <2>2, <3>2, <3>3 DEF Contents, Stored
    <2>3. CASE Definition[d].storeValueType # "kBinary"
      BY <1>2, <2>1, <2>3 DEF Contents, GetValue, Stored
    <2>4. QED
      BY <2>2, <2>3
  <1>3. QED
    BY <1>1, <1>2

\* Only PartitionStorage::Store changes the storage, and only of its item.
LEMMA StorageStep ==
    ASSUME ValueInv, [Next]_vars, NEW d \in Items
    PROVE  \/ items'[d] = items[d] /\ binaries'[d] = binaries[d]
           \/ /\ worker[Definition[d].routeId].pc = "copy"
              /\ worker[Definition[d].routeId].id = d
  <1>1. ASSUME NEW r \in Routes, Store(r)
        PROVE  \/ items'[d] = items[d] /\ binaries'[d] = binaries[d]
               \/ /\ worker[Definition[d].routeId].pc = "copy"
                  /\ worker[Definition[d].routeId].id = d
    <2>1. /\ worker[r].pc = "copy" /\ Definition[worker[r].id].routeId = r
          /\ \A x \in Items \ {worker[r].id} :
                items'[x] = items[x] /\ binaries'[x] = binaries[x]
      BY <1>1, StoreEffect
    <2>2. QED
      BY <2>1
  <1>2. ASSUME NEW r \in Routes, Pop(r) \/ Find(r) \/ ReadByte(r) \/ CompareHash(r)
                                 \/ CompareBytes(r)
        PROVE  UNCHANGED <<items, binaries>>
    BY <1>2 DEF Pop, Find, ReadByte, CompareHash, CompareBytes, WorkerOnly
  <1>3. ASSUME NEW x \in Items, SetBool(x) \/ SetInt32(x) \/ SetDouble(x) \/ SetBinary(x)
        PROVE  UNCHANGED <<items, binaries>>
    BY <1>3 DEF SetBool, SetInt32, SetDouble, SetBinary, SetValue
  <1>4. ASSUME WriteByte \/ UNCHANGED vars
        PROVE  UNCHANGED <<items, binaries>>
    BY <1>4 DEF WriteByte, vars
  <1>5. QED
    BY <1>1, <1>2, <1>3, <1>4 DEF Next, Application, DataStoreWorker

(***************************************************************************)
(* Whatever the application does with its buffer, what RIM_GetXxx returns  *)
(* for an item changes only when the worker of its route stores it.        *)
(***************************************************************************)
THEOREM BytesAreOwned == Spec => StoredBytesStay
  <1>0. (ValueInv => \A d \in Items : Contents(d) = Stored(d))'
    BY ContentsAreStored, PTL
  <1>1. ASSUME ValueInv, ValueInv', [Next]_vars, NEW d \in Items,
               Contents(d)' # Contents(d)
        PROVE  /\ worker[Definition[d].routeId].pc = "copy"
               /\ worker[Definition[d].routeId].id = d
    <2>1. Contents(d) = Stored(d)
      BY <1>1, ContentsAreStored
    <2>2. Contents(d)' = Stored(d)'
      BY <1>0, <1>1
    <2>3. items'[d] = items[d] /\ binaries'[d] = binaries[d] => Stored(d)' = Stored(d)
      BY DEF Stored, Answer
    <2>4. QED
      BY <1>1, <2>1, <2>2, <2>3, StorageStep
  <1>2. ValueInv /\ ValueInv' /\ [Next]_vars =>
           [\A d \in Items :
               Contents(d)' # Contents(d) =>
                  worker[Definition[d].routeId].pc = "copy"
                  /\ worker[Definition[d].routeId].id = d]_vars
    BY <1>1
  <1>3. QED
    BY <1>2, ValueInvariant, PTL DEF Spec, StoredBytesStay
-----------------------------------------------------------------------------
(***************************************************************************)
(* Where the last value of an item is, part by part: the three parts of    *)
(* LatestInv, over what is stored.                                         *)
(***************************************************************************)
Queue(d)  == storeQueue[Definition[d].routeId]
Worker(d) == worker[Definition[d].routeId]

LastQueued(d) ==
    \A k \in DOMAIN Queue(d) :
        IsLastOf(Queue(d), d, k) => Meant(Queue(d)[k].value) = lastSet[d]

LastHeld(d) ==
    ~HoldsId(Queue(d), d) /\ InHand(d) =>
        /\ Meant(Worker(d).value) = lastSet[d]
        /\ Worker(d).value.type = "kBinary" =>
              Worker(d).read = SubSeq(buffer, 1, Len(Worker(d).read))

LastStored(d) ==
    ~HoldsId(Queue(d), d) /\ ~InHand(d) => Stored(d) = Answer("RI_SUCCESS", lastSet[d])

Latest(d) == Known(d) => LastQueued(d) /\ LastHeld(d) /\ LastStored(d)

\* LatestInv says that of every item.
LEMMA LatestIsInv == ValueInv => (LatestInv <=> \A d \in Items : Latest(d))
  <1> SUFFICES ASSUME ValueInv PROVE LatestInv <=> \A d \in Items : Latest(d)
    OBVIOUS
  <1>1. \A d \in Items : Contents(d) = Stored(d)
    BY ContentsAreStored
  <1>2. QED
    BY <1>1 DEF LatestInv, Latest, LastQueued, LastHeld, LastStored, Queue, Worker

\* Nothing has been set at first.
LEMMA LatestInit == Init => \A d \in Items : Latest(d)
  BY DEF Init, Latest, Known

\* A step that leaves an item, its queue and its worker alone.
LEMMA LatestFrame ==
    ASSUME NEW d \in Items, Latest(d), Queue(d)' = Queue(d), Worker(d)' = Worker(d),
           buffer' = buffer, lastSet'[d] = lastSet[d], touched'[d] = touched[d],
           items'[d] = items[d], binaries'[d] = binaries[d]
    PROVE  Latest(d)'
  <1>1. (Known(d)' <=> Known(d)) /\ (InHand(d)' <=> InHand(d))
    BY DEF Known, InHand, Worker
  <1>2. Stored(d)' = Stored(d) /\ \A value : Meant(value)' = Meant(value)
    BY DEF Stored, Answer, Meant
  <1>3. (LastQueued(d) => LastQueued(d)') /\ (LastHeld(d) => LastHeld(d)')
        /\ (LastStored(d) => LastStored(d)')
    BY <1>1, <1>2 DEF LastQueued, LastHeld, LastStored, Answer
  <1>4. QED
    BY <1>1, <1>3 DEF Latest

\* An accepted call: the value set is last of its id in the queue, the others
\* keep their last one.
LEMMA LatestSet ==
    ASSUME ValueInv, NEW d \in Items, Latest(d),
           NEW x \in Items, NEW value, Settable(value), SetValue(x, value)
    PROVE  Latest(d)'
  <1> DEFINE r == Definition[d].routeId
             set == Normalize(x, value)
             item == [id |-> x, value |-> set]
             new == RouteInsert(StorePolicy[r], storeQueue[r], item)
  <1>1. /\ Definition[x].routeId \in Routes /\ r \in Routes
        /\ set \in RIMValues /\ Fits(x, set)
    BY NormalizeFits, ValueStoreAssumption DEF SetValue, Dispatch, DefinitionType
  <1>2. /\ storeQueue' = [storeQueue EXCEPT ![Definition[x].routeId] =
                            RouteInsert(StorePolicy[Definition[x].routeId],
                                        storeQueue[Definition[x].routeId], item)]
        /\ lastSet' = [lastSet EXCEPT ![x] = Meant(set)]
        /\ touched' = [touched EXCEPT ![x] = FALSE]
        /\ UNCHANGED <<buffer, worker, items, binaries>>
    BY DEF SetValue, Dispatch
  <1>3. /\ DOMAIN storeQueue = Routes /\ DOMAIN lastSet = Items
        /\ touched \in [Items -> BOOLEAN]
        /\ storeQueue[r] \in Seq(RouteItem(r))
    BY <1>1 DEF ValueInv, TypeOK
  <1> HIDE DEF set
  <1>4. CASE Definition[x].routeId # r
    <2>1. storeQueue'[r] = storeQueue[r] /\ lastSet'[d] = lastSet[d]
          /\ touched'[d] = touched[d]
      BY <1>1, <1>2, <1>3, <1>4
    <2>2. QED
      BY <1>2, <2>1, LatestFrame DEF Queue, Worker
  <1>5. CASE Definition[x].routeId = r
    <2>1. item \in RouteItem(r) /\ item.id = x /\ item.value = set
      BY <1>1, <1>5 DEF RouteItem
    <2>2. storeQueue'[r] = new
      BY <1>1, <1>2, <1>3, <1>5
    <2> HIDE DEF item
    <2>3. HoldsId(new, d) <=> d = x \/ HoldsId(storeQueue[r], d)
      BY <1>3, <2>1, RouteInsertIds
    <2>4. ASSUME NEW k, IsLastOf(new, d, k)
          PROVE  IF d = x THEN new[k] = item
                 ELSE \E j : IsLastOf(storeQueue[r], d, j) /\ new[k] = storeQueue[r][j]
      BY <1>3, <2>1, <2>4, RouteInsertLast
    <2> HIDE DEF new
    <2>5. \A v : Meant(v)' = Meant(v)
      BY <1>2 DEF Meant
    <2>6. CASE d = x
      <3>1. lastSet'[d] = Meant(set)
        BY <1>2, <1>3, <2>6
      <3>2. LastQueued(d)'
        <4>1. ASSUME NEW k, IsLastOf(new, d, k) PROVE Meant(new[k].value) = lastSet'[d]
          BY <2>1, <2>4, <2>6, <3>1, <4>1
        <4>2. QED
          BY <4>1, <2>2, <1>2 DEF LastQueued, Queue, Meant
      <3>3. HoldsId(storeQueue'[r], d)
        BY <2>2, <2>3, <2>6
      <3>4. QED
        BY <3>2, <3>3 DEF Latest, LastHeld, LastStored, Queue
    <2>7. CASE d # x
      <3>1. lastSet'[d] = lastSet[d] /\ touched'[d] = touched[d]
        BY <1>2, <1>3, <2>7
      <3>2. Known(d)' <=> Known(d)
        BY <3>1 DEF Known
      <3>3. LastQueued(d) => LastQueued(d)'
        <4>1. ASSUME LastQueued(d), NEW k, IsLastOf(new, d, k)
              PROVE  Meant(new[k].value) = lastSet'[d]
          <5>1. PICK j : IsLastOf(storeQueue[r], d, j) /\ new[k] = storeQueue[r][j]
            BY <2>4, <2>7, <4>1
          <5>2. j \in DOMAIN storeQueue[r]
            BY <5>1 DEF IsLastOf
          <5>3. Meant(storeQueue[r][j].value) = lastSet[d]
            BY <4>1, <5>1, <5>2 DEF LastQueued, Queue
          <5>4. QED
            BY <5>1, <5>3, <3>1
        <4>2. QED
          BY <4>1, <2>2, <1>2 DEF LastQueued, Queue, Meant
      <3>4. HoldsId(Queue(d), d)' <=> HoldsId(Queue(d), d)
        BY <2>2, <2>3, <2>7 DEF Queue, HoldsId
      <3>5. Worker(d)' = Worker(d) /\ (InHand(d)' <=> InHand(d)) /\ Stored(d)' = Stored(d)
        BY <1>2 DEF Worker, InHand, Stored, Answer
      <3>6. (LastHeld(d) => LastHeld(d)') /\ (LastStored(d) => LastStored(d)')
        BY <1>2, <2>5, <3>1, <3>4, <3>5 DEF LastHeld, LastStored, Answer
      <3>7. QED
        BY <3>2, <3>3, <3>6 DEF Latest
    <2>8. QED
      BY <2>6, <2>7
  <1>6. QED
    BY <1>4, <1>5

\* The application writes its buffer: only items that are not bytes stay known,
\* and those do not look at it.
LEMMA LatestWrite ==
    ASSUME ValueInv, NEW d \in Items, Latest(d), WriteByte
    PROVE  Latest(d)'
  <1> DEFINE r == Definition[d].routeId
  <1>1. /\ touched' = [x \in Items |-> TRUE]
        /\ UNCHANGED <<storeQueue, worker, items, binaries, lastSet>>
    BY DEF WriteByte
  <1>2. SUFFICES ASSUME Known(d)' PROVE LastQueued(d)' /\ LastHeld(d)' /\ LastStored(d)'
    BY DEF Latest
  <1>3. Known(d) /\ Definition[d].storeValueType # "kBinary" /\ r \in Routes
    BY <1>1, <1>2, DefinitionAssumption, ValueStoreAssumption DEF Known, DefinitionType
  <1>4. LastQueued(d) /\ LastHeld(d) /\ LastStored(d)
    BY <1>3 DEF Latest
  <1>5. LastQueued(d)'
    <2>1. ASSUME NEW k \in DOMAIN storeQueue[r], IsLastOf(storeQueue[r], d, k)
          PROVE  /\ storeQueue[r][k].value.member # "kBinary"
                 /\ Meant(storeQueue[r][k].value) = lastSet[d]
      <3>1. storeQueue[r][k] \in FittingItem(r)
        BY <1>3, <2>1, LenProperties, ElementOfSeq DEF ValueInv, QueueInv
      <3>2. Fits(d, storeQueue[r][k].value)
        BY <3>1, <2>1 DEF FittingItem, IsLastOf
      <3>3. QED
        BY <3>2, <1>3, <1>4, <2>1 DEF Fits, LastQueued, Queue
    <2>2. QED
      BY <2>1, <1>1 DEF LastQueued, Queue, Meant
  <1>6. LastHeld(d)'
    <2>1. ASSUME InHand(d)
          PROVE  Worker(d).value.type # "kBinary" /\ Worker(d).value.member # "kBinary"
      BY <1>3, <2>1, HandFits DEF InHand, Worker, Fits
    <2>2. ASSUME InHand(d), ~HoldsId(Queue(d), d) PROVE Worker(d).value.data = lastSet[d]
      BY <2>1, <2>2, <1>4 DEF LastHeld, Meant
    <2>3. QED
      BY <2>1, <2>2, <1>1 DEF LastHeld, Queue, Worker, InHand, Meant
  <1>7. LastStored(d)'
    BY <1>1, <1>4 DEF LastStored, Queue, InHand, Stored, Answer
  <1>8. QED
    BY <1>5, <1>6, <1>7

\* The last value of an item moves from the queue to the worker's hands.
LEMMA LatestPop ==
    ASSUME ValueInv, NEW d \in Items, Latest(d), NEW h \in Routes, Pop(h)
    PROVE  Latest(d)'
  <1> DEFINE r == Definition[d].routeId
             q == storeQueue[r]
             w == [pc |-> "find", id |-> Head(q).id, read |-> <<>>, value |-> Head(q).value]
  <1>1. /\ worker[h].pc = "wait" /\ storeQueue[h] # <<>>
        /\ storeQueue' = [storeQueue EXCEPT ![h] = Tail(storeQueue[h])]
        /\ UNCHANGED <<buffer, items, binaries, lastSet, touched>>
    BY DEF Pop
  <1>2. worker' = [worker EXCEPT ![h] =
           [pc |-> "find", id |-> Head(storeQueue[h]).id, read |-> <<>>,
            value |-> Head(storeQueue[h]).value]]
    BY PopInv
  <1>3. /\ DOMAIN storeQueue = Routes /\ worker \in [Routes -> Hand]
        /\ r \in Routes /\ q \in Seq(RouteItem(r))
    BY ValueStoreAssumption DEF ValueInv, TypeOK, DefinitionType
  <1>4. CASE h # r
    BY <1>1, <1>2, <1>3, <1>4, LatestFrame DEF Queue, Worker
  <1>5. CASE h = r
    <2>1. /\ storeQueue'[r] = Tail(q) /\ worker'[r] = w
          /\ worker[r].pc = "wait" /\ q # <<>>
      BY <1>1, <1>2, <1>3, <1>5
    <2>2. /\ w.pc = "find" /\ w.id = Head(q).id
          /\ w.read = <<>> /\ w.value = Head(q).value
      OBVIOUS
    <2> HIDE DEF w
    <2>3. Known(d)' <=> Known(d)
      BY <1>1 DEF Known
    <2>4. SUFFICES ASSUME Known(d), LastQueued(d), LastHeld(d), LastStored(d)
                   PROVE  LastQueued(d)' /\ LastHeld(d)' /\ LastStored(d)'
      BY <2>3 DEF Latest
    <2>5. LastQueued(d)'
      <3>1. ASSUME NEW k, IsLastOf(Tail(q), d, k) PROVE Meant(Tail(q)[k].value) = lastSet[d]
        <4>1. IsLastOf(q, d, k + 1) /\ Tail(q)[k] = q[k + 1]
          BY <1>3, <2>1, <3>1, TailLast
        <4>2. k + 1 \in DOMAIN q
          BY <4>1 DEF IsLastOf
        <4>3. QED
          BY <4>1, <4>2, <2>4 DEF LastQueued, Queue
      <3>2. QED
        BY <3>1, <2>1, <1>1 DEF LastQueued, Queue, Meant
    <2>6. LastHeld(d)'
      <3>1. SUFFICES ASSUME ~HoldsId(Tail(q), d), w.id = d
                     PROVE  /\ Meant(w.value) = lastSet[d]
                            /\ w.read = SubSeq(buffer, 1, Len(w.read))
        BY <2>1, <1>1 DEF LastHeld, Queue, Worker, InHand, Meant
      <3>2. IsLastOf(q, d, 1) /\ Head(q) = q[1]
        BY <1>3, <2>1, <2>2, <3>1, HeadLast, TailProperties
      <3>3. Meant(w.value) = lastSet[d]
        BY <3>2, <2>2, <2>4 DEF LastQueued, Queue, IsLastOf
      <3>4. w.read = SubSeq(buffer, 1, Len(w.read))
        BY <2>2, SubSeqEmpty
      <3>5. QED
        BY <3>3, <3>4
    <2>7. LastStored(d)'
      <3>1. ASSUME ~HoldsId(Tail(q), d), w.id # d
            PROVE  ~HoldsId(q, d) /\ ~InHand(d)
        BY <1>3, <2>1, <2>2, <3>1, TailIds DEF InHand
      <3>2. InHand(d)' <=> w.id = d
        BY <2>1, <2>2 DEF InHand
      <3>3. Stored(d)' = Stored(d)
        BY <1>1 DEF Stored, Answer
      <3>4. QED
        BY <3>1, <3>2, <3>3, <2>1, <2>4, <1>1 DEF LastStored, Queue, Answer
    <2>8. QED
      BY <2>5, <2>6, <2>7
  <1>6. QED
    BY <1>4, <1>5

\* A worker goes on with the same value, and what it has read of the caller's
\* buffer is what is there.
LEMMA LatestHand ==
    ASSUME ValueInv, NEW d \in Items, Latest(d), NEW h \in Routes, WorkerOnly,
           NEW v, worker' = [worker EXCEPT ![h] = v],
           worker[h].pc # "wait", v.pc # "wait",
           v.id = worker[h].id, v.value = worker[h].value,
           worker[h].value.type = "kBinary"
           /\ worker[h].read = SubSeq(buffer, 1, Len(worker[h].read))
              => v.read = SubSeq(buffer, 1, Len(v.read))
    PROVE  Latest(d)'
  <1> DEFINE r == Definition[d].routeId
  <1>1. worker \in [Routes -> Hand] /\ r \in Routes
    BY ValueStoreAssumption DEF ValueInv, TypeOK, DefinitionType
  <1>2. UNCHANGED <<buffer, storeQueue, items, binaries, lastSet, touched>>
    BY DEF WorkerOnly
  <1>3. CASE h # r
    BY <1>1, <1>2, <1>3, LatestFrame DEF Queue, Worker
  <1>4. CASE h = r
    <2>1. worker'[r] = v
      BY <1>1, <1>4
    <2>2. (Known(d)' <=> Known(d)) /\ (InHand(d)' <=> InHand(d)) /\ Stored(d)' = Stored(d)
      BY <2>1, <1>2, <1>4 DEF Known, InHand, Stored, Answer
    <2>3. LastQueued(d) => LastQueued(d)'
      BY <1>2 DEF LastQueued, Queue, Meant
    <2>4. LastHeld(d) => LastHeld(d)'
      BY <2>1, <2>2, <1>2, <1>4 DEF LastHeld, Queue, Worker, Meant
    <2>5. LastStored(d) => LastStored(d)'
      BY <2>2, <1>2 DEF LastStored, Queue, Answer
    <2>6. QED
      BY <2>2, <2>3, <2>4, <2>5 DEF Latest
  <1>5. QED
    BY <1>3, <1>4

\* A worker is done with a value: what is stored is what it had to store.
LEMMA LatestDone ==
    ASSUME ValueInv, NEW d \in Items, Latest(d), NEW h \in Routes, Finish(h),
           worker[h].pc # "wait",
           UNCHANGED <<buffer, storeQueue, lastSet, touched>>,
           worker[h].id # d => items'[d] = items[d] /\ binaries'[d] = binaries[d],
           worker[h].id = d /\ Known(d) /\ LastHeld(d) /\ ~HoldsId(Queue(d), d)
              => Stored(d)' = Answer("RI_SUCCESS", lastSet[d])
    PROVE  Latest(d)'
  <1> DEFINE r == Definition[d].routeId
  <1>1. worker \in [Routes -> Hand] /\ r \in Routes
    BY ValueStoreAssumption DEF ValueInv, TypeOK, DefinitionType
  <1>2. worker' = [worker EXCEPT ![h] = Idle] /\ Idle.pc = "wait"
    BY DEF Finish, Idle
  <1>3. worker[h].id \in Items /\ Definition[worker[h].id].routeId = h
    BY HandFits
  <1>4. CASE h # r
    BY <1>1, <1>2, <1>3, <1>4, LatestFrame DEF Queue, Worker
  <1>5. CASE h = r
    <2>1. ~InHand(d)' /\ (InHand(d) <=> worker[h].id = d)
      BY <1>1, <1>2, <1>5 DEF InHand
    <2>2. Known(d)' <=> Known(d)
      BY DEF Known
    <2>3. LastQueued(d) => LastQueued(d)'
      BY DEF LastQueued, Queue, Meant
    <2>4. LastHeld(d)'
      BY <2>1 DEF LastHeld
    <2>5. ASSUME Known(d), LastHeld(d), LastStored(d) PROVE LastStored(d)'
      <3>1. CASE worker[h].id = d
        BY <2>5, <3>1 DEF LastStored, Queue, Answer
      <3>2. CASE worker[h].id # d
        <4>1. Stored(d)' = Stored(d)
          BY <3>2 DEF Stored, Answer
        <4>2. QED
          BY <4>1, <3>2, <2>1, <2>5 DEF LastStored, Queue, Answer
      <3>3. QED
        BY <3>1, <3>2
    <2>6. QED
      BY <2>2, <2>3, <2>4, <2>5 DEF Latest
  <1>6. QED
    BY <1>4, <1>5

\* Starting over with the same value.
LEMMA LatestGoto ==
    ASSUME ValueInv, NEW d \in Items, Latest(d), NEW h \in Routes, NEW pc,
           pc # "wait", worker[h].pc # "wait", Goto(h, pc), WorkerOnly
    PROVE  Latest(d)'
  <1> DEFINE v == [pc |-> pc, id |-> worker[h].id, value |-> worker[h].value, read |-> <<>>]
  <1>1. worker \in [Routes -> Hand]
    BY DEF ValueInv, TypeOK
  <1>2. worker' = [worker EXCEPT ![h] = v]
    BY <1>1 DEF Goto
  <1>3. /\ v.pc # "wait" /\ v.id = worker[h].id /\ v.value = worker[h].value
        /\ v.read = <<>>
    OBVIOUS
  <1> HIDE DEF v
  <1>4. v.read = SubSeq(buffer, 1, Len(v.read))
    BY <1>3, SubSeqEmpty
  <1>5. QED
    BY <1>2, <1>3, <1>4, LatestHand

\* Find: a value that IdentityDiff does not tell from the stored one is the stored one.
LEMMA LatestFind ==
    ASSUME ValueInv, NEW d \in Items, Latest(d), NEW h \in Routes, Find(h)
    PROVE  Latest(d)'
  <1> DEFINE new == worker[h].value
  <1>1. worker[h].pc = "find" /\ worker[h].pc # "wait" /\ WorkerOnly
    BY DEF Find
  <1>2. CASE Goto(h, "copy") \/ Goto(h, "hash")
    BY <1>1, <1>2, LatestGoto
  <1>3. CASE /\ Finish(h)
             /\ items[worker[h].id] # Null
             /\ "kBinary" \notin {items[worker[h].id].type, new.type}
             /\ ~IdentityDiff(items[worker[h].id], new)
    <2>1. ASSUME worker[h].id = d, Known(d), LastHeld(d), ~HoldsId(Queue(d), d)
          PROVE  Stored(d)' = Answer("RI_SUCCESS", lastSet[d])
      <3>1. /\ Definition[d].routeId = h
            /\ Fits(d, new)
        BY <1>1, <2>1, HandFits
      <3>2. Meant(new) = lastSet[d]
        BY <1>1, <2>1, <3>1 DEF LastHeld, InHand, Worker
      <3>3. new.member # "kBinary" /\ Definition[d].storeValueType # "kBinary"
        BY <1>3, <3>1 DEF Fits
      <3>4. items[d].data = new.data
        BY <1>3, <2>1 DEF IdentityDiff
      <3>5. Stored(d) = Answer("RI_SUCCESS", lastSet[d])
        BY <1>3, <2>1, <3>2, <3>3, <3>4 DEF Stored, Meant
      <3>6. QED
        BY <1>1, <3>5 DEF WorkerOnly, Stored, Answer
    <2>2. UNCHANGED <<buffer, storeQueue, items, binaries, lastSet, touched>>
      BY <1>1 DEF WorkerOnly
    <2>3. QED
      BY <1>1, <1>3, <2>1, <2>2, LatestDone
  <1>4. QED
    BY <1>2, <1>3 DEF Find

\* Reading one byte more of the caller's buffer.
LEMMA LatestRead ==
    ASSUME ValueInv, NEW d \in Items, Latest(d), NEW h \in Routes, ReadByte(h)
    PROVE  Latest(d)'
  <1> DEFINE n == Len(worker[h].read)
             v == [pc |-> worker[h].pc, id |-> worker[h].id, value |-> worker[h].value,
                   read |-> Append(worker[h].read, buffer[n + 1])]
  <1>1. worker[h].pc # "wait" /\ WorkerOnly
    BY DEF ReadByte
  <1>2. /\ worker' = [worker EXCEPT ![h] = v]
        /\ n + 1 \in 1 .. worker[h].value.size
    BY ReadByteInv
  <1>3. /\ worker[h].read \in Seq(Bytes) /\ n \in 0 .. worker[h].value.size
        /\ worker[h].value.size \in 0 .. MaxSize /\ MaxSize \in Nat
        /\ buffer \in [1 .. MaxSize -> Bytes]
    BY <1>1, HandFits, ValueStoreAssumption DEF ValueInv, TypeOK
  <1>4. /\ v.pc = worker[h].pc /\ v.id = worker[h].id /\ v.value = worker[h].value
        /\ v.read = Append(worker[h].read, buffer[n + 1])
    OBVIOUS
  <1>5. n \in 0 .. MaxSize /\ n + 1 <= MaxSize /\ n + 1 \in 1 .. MaxSize
    BY <1>2, <1>3
  <1>6. Len(v.read) = n + 1
    BY <1>3, <1>4, <1>5, AppendProperties
  <1>7. ASSUME worker[h].read = SubSeq(buffer, 1, n) PROVE v.read = SubSeq(buffer, 1, Len(v.read))
    BY <1>3, <1>4, <1>5, <1>6, <1>7, OneByteMore
  <1> HIDE DEF v
  <1>8. QED
    BY <1>1, <1>2, <1>4, <1>7, LatestHand

\* CompareHash and CompareBytes: the same bytes are stored already, or they are copied.
LEMMA LatestCompare ==
    ASSUME ValueInv, NEW d \in Items, Latest(d), NEW h \in Routes,
           CompareHash(h) \/ CompareBytes(h)
    PROVE  Latest(d)'
  <1> DEFINE new == worker[h].value
  <1>1. /\ worker[h].pc \in {"hash", "compare"} /\ worker[h].pc # "wait"
        /\ AllRead(h) /\ WorkerOnly
    BY DEF CompareHash, CompareBytes
  <1>2. CASE Goto(h, "copy") \/ Goto(h, "compare")
    BY <1>1, <1>2, LatestGoto
  <1>3. CASE Finish(h) /\ binaries[worker[h].id].buffer = worker[h].read
    <2>1. ASSUME worker[h].id = d, Known(d), LastHeld(d), ~HoldsId(Queue(d), d)
          PROVE  Stored(d)' = Answer("RI_SUCCESS", lastSet[d])
      <3>1. Definition[d].routeId = h /\ Fits(d, new)
        BY <1>1, <2>1, HandFits
      <3>2. items[d] # Null /\ new.type = "kBinary" /\ Len(worker[h].read) = new.size
        BY <1>1, <2>1 DEF ValueInv, WorkerInv, HandInv, AllRead
      <3>3. Meant(new) = lastSet[d] /\ worker[h].read = SubSeq(buffer, 1, new.size)
        BY <1>1, <2>1, <3>1, <3>2 DEF LastHeld, InHand, Worker
      <3>4. Meant(new) = worker[h].read /\ Definition[d].storeValueType = "kBinary"
        BY <3>1, <3>2, <3>3 DEF Fits, Meant
      <3>5. Stored(d) = Answer("RI_SUCCESS", lastSet[d])
        BY <1>3, <2>1, <3>2, <3>3, <3>4 DEF Stored
      <3>6. QED
        BY <1>1, <3>5 DEF WorkerOnly, Stored, Answer
    <2>2. UNCHANGED <<buffer, storeQueue, items, binaries, lastSet, touched>>
      BY <1>1 DEF WorkerOnly
    <2>3. QED
      BY <1>1, <1>3, <2>1, <2>2, LatestDone
  <1>4. QED
    BY <1>2, <1>3 DEF CompareHash, CompareBytes

\* Store: what was in hand is stored, bytes as they were read.
LEMMA LatestStore ==
    ASSUME ValueInv, NEW d \in Items, Latest(d), NEW h \in Routes, Store(h)
    PROVE  Latest(d)'
  <1> DEFINE x == worker[h].id
             new == worker[h].value
  <1>1. /\ worker[h].pc # "wait" /\ Finish(h)
        /\ UNCHANGED <<buffer, storeQueue, lastSet, touched>>
    BY DEF Store
  <1>2. /\ x \in Items /\ Definition[x].routeId = h
        /\ items'[x] \in RIMValues
        /\ items'[x].type = Definition[x].storeValueType
        /\ \A y \in Items \ {x} : items'[y] = items[y] /\ binaries'[y] = binaries[y]
    BY StoreEffect
  <1>3. /\ new.type = "kBinary" =>
              /\ Len(worker[h].read) = new.size
              /\ binaries'[x] = [buffer |-> worker[h].read, hash |-> Hash(worker[h].read)]
        /\ new.type # "kBinary" => items'[x] = new
    BY StoreEffect
  <1>4. Fits(x, new) /\ items'[x] # Null
    BY <1>1, <1>2, HandFits, NullAssumption
  <1>5. ASSUME x = d, Known(d), LastHeld(d), ~HoldsId(Queue(d), d)
        PROVE  Stored(d)' = Answer("RI_SUCCESS", lastSet[d])
    <2>1. /\ Meant(new) = lastSet[d]
          /\ new.type = "kBinary" =>
                worker[h].read = SubSeq(buffer, 1, Len(worker[h].read))
      BY <1>1, <1>2, <1>5 DEF LastHeld, InHand, Worker
    <2>2. CASE new.type = "kBinary"
      <3>1. Meant(new) = worker[h].read /\ Definition[d].storeValueType = "kBinary"
        BY <1>3, <1>4, <1>5, <2>1, <2>2 DEF Fits, Meant
      <3>2. binaries'[d].buffer = worker[h].read
        BY <1>3, <1>5, <2>2
      <3>3. QED
        BY <1>4, <1>5, <2>1, <3>1, <3>2 DEF Stored, Answer
    <2>3. CASE new.type # "kBinary"
      <3>1. Meant(new) = new.data /\ Definition[d].storeValueType # "kBinary"
        BY <1>4, <1>5, <2>3 DEF Fits, Meant
      <3>2. QED
        BY <1>3, <1>4, <1>5, <2>1, <2>3, <3>1 DEF Stored, Answer
    <2>4. QED
      BY <2>2, <2>3
  <1>6. QED
    BY <1>1, <1>2, <1>5, LatestDone

\* No step loses track of the last value of an item.
LEMMA LatestStep ==
    ASSUME ValueInv, [Next]_vars, \A d \in Items : Latest(d)
    PROVE  \A d \in Items : Latest(d)'
  <1> SUFFICES ASSUME NEW d \in Items PROVE Latest(d)'
    OBVIOUS
  <1>1. Latest(d)
    OBVIOUS
  <1>2. ASSUME NEW x \in Items, SetBool(x) \/ SetInt32(x) \/ SetDouble(x) \/ SetBinary(x)
        PROVE  Latest(d)'
    BY <1>1, <1>2, SetIsDispatch, LatestSet
  <1>3. ASSUME NEW h \in Routes, DataStoreWorker(h) PROVE Latest(d)'
    BY <1>1, <1>3, LatestPop, LatestFind, LatestRead, LatestCompare, LatestStore
       DEF DataStoreWorker
  <1>4. CASE WriteByte
    BY <1>1, <1>4, LatestWrite
  <1>5. CASE UNCHANGED vars
    BY <1>1, <1>5, LatestFrame DEF vars, Queue, Worker
  <1>6. QED
    BY <1>2, <1>3, <1>4, <1>5 DEF Next, Application

(***************************************************************************)
(* The inductive invariant of the values: last in the queue, else in hand, *)
(* else in the storage.                                                    *)
(***************************************************************************)
THEOREM LatestInvariant == Spec => []LatestInv
  <1> DEFINE AllLatest == \A d \in Items : Latest(d)
  <1>1. Init => AllLatest
    BY LatestInit
  <1>2. ValueInv /\ [Next]_vars /\ AllLatest => AllLatest'
    BY LatestStep
  <1>3. ValueInv => (LatestInv <=> AllLatest)
    BY LatestIsInv
  <1> HIDE DEF AllLatest
  <1>4. QED
    BY <1>1, <1>2, <1>3, ValueInvariant, PTL DEF Spec

(***************************************************************************)
(* When its route is idle, an item reads as what it was last set to: for   *)
(* every hash, however many byte sequences collide under it.               *)
(***************************************************************************)
THEOREM LastValueIsRead == Spec => []LastValueRead
  <1>1. LatestInv => LastValueRead
    <2>1. SUFFICES ASSUME LatestInv, NEW d \in Items, Known(d),
                          worker[Definition[d].routeId].pc = "wait",
                          storeQueue[Definition[d].routeId] = <<>>
                   PROVE  Contents(d) = Answer("RI_SUCCESS", lastSet[d])
      BY DEF LastValueRead
    <2>2. ~HoldsId(storeQueue[Definition[d].routeId], d) /\ ~InHand(d)
      BY <2>1 DEF HoldsId, InHand
    <2>3. QED
      BY <2>1, <2>2 DEF LatestInv
  <1>2. QED
    BY <1>1, LatestInvariant, PTL
=============================================================================
