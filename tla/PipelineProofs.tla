--------------------------- MODULE PipelineProofs ---------------------------
(***************************************************************************)
(* Proofs about the data path, for every product definition, every policy  *)
(* of every route, and any number of values set; and, at the end, about    *)
(* the queues it goes through.                                             *)
(***************************************************************************)
EXTENDS Path755, EventQueue, QueueLemmas

USE DEF Items, Derived, Stored, KindsApart, MapsFit, PartitionsFit

-----------------------------------------------------------------------------
\* What a worker computes between two steps has the type of what it keeps.

\* What Dispatch queues is a data event (AdapterDispatcher::Dispatch).
LEMMA DataEventType ==
    ASSUME NEW d \in Data, NEW raw \in RawValues
    PROVE  [id |-> d, value |-> Normalize(d, raw)] \in DataEvent
  BY FunctionAssumption DEF DataEvent

\* What the CapabilityWorker queues is a publisher event for its target.
LEMMA PublisherInputType ==
    ASSUME NEW t \in Items
    PROVE  PublisherInput(t) \in PublisherEvent /\ PublisherInput(t).target = t
  BY RouteAssumption DEF PublisherInput, PublisherEvent

\* The reads a snapshot is gathered from are sets of items (SnapshotBuilder::Build).
LEMMA ReadPlanType ==
    ASSUME NEW t \in Derived
    PROVE  ReadPlan(t) \in Seq(SUBSET Items)
  <1>1. CASE t \in Capabilities
    <2>1. SnapshotDomains[t] \in Seq(Domains)
      BY <1>1, MapAssumption
    <2>2. Len(SnapshotDomains[t]) \in Nat
          /\ DOMAIN SnapshotDomains[t] = 1 .. Len(SnapshotDomains[t])
      BY <2>1, LenProperties
    <2>3. ReadPlan(t) = [k \in 1 .. Len(SnapshotDomains[t]) |->
                            {d \in Data : DomainOf[d] = SnapshotDomains[t][k]}]
      BY <1>1, <2>2 DEF ReadPlan
    <2>4. QED
      BY <2>2, <2>3, IsASeq
  <1>2. CASE t \in Facades
    <2>1. t \notin Capabilities
      BY <1>2, ItemAssumption
    <2>2. RequiredCapabilities[t] \in Seq(Capabilities)
      BY <1>2, MapAssumption
    <2>3. Len(RequiredCapabilities[t]) \in Nat
          /\ DOMAIN RequiredCapabilities[t] = 1 .. Len(RequiredCapabilities[t])
      BY <2>2, LenProperties
    <2>4. ReadPlan(t) = [k \in 1 .. Len(RequiredCapabilities[t]) |->
                            {RequiredCapabilities[t][k]}]
      BY <2>1, <2>3 DEF ReadPlan
    <2>5. \A k \in 1 .. Len(RequiredCapabilities[t]) :
             RequiredCapabilities[t][k] \in Capabilities
      BY <2>2, ElementOfSeq
    <2>6. QED
      BY <2>3, <2>4, <2>5, IsASeq
  <1>3. QED
    BY <1>1, <1>2

\* Whatever is evaluated after a derived item is a derived item (FacadeDependencyMap).
LEMMA FacadesOfType ==
    ASSUME NEW t \in Derived
    PROVE  FacadesOf(t) \in Seq(Derived)
  <1>1. CASE t \in Capabilities
    <2>1. FacadeDependencies[t] \in Seq(Facades)
      BY <1>1, MapAssumption
    <2>2. QED
      BY <1>1, <2>1 DEF FacadesOf
  <1>2. CASE t \notin Capabilities
    BY <1>2 DEF FacadesOf
  <1>3. QED
    BY <1>1, <1>2

\* What a data item makes the worker evaluate are derived items.
LEMMA DependentCapabilitiesType ==
    ASSUME NEW d \in Data
    PROVE  CapabilityDependencies[d] \in Seq(Derived)
  <1>1. CapabilityDependencies[d] \in Seq(Capabilities)
    BY MapAssumption
  <1>2. QED
    BY <1>1

\* What a derived item requires are items.
LEMMA RequiredAreItems ==
    ASSUME NEW t \in Derived
    PROVE  Required(t) \subseteq Items
  <1>1. CASE t \in Capabilities
    <2>1. RequiredData[t] \in Seq(Data)
      BY <1>1, MapAssumption
    <2>2. ToSet(RequiredData[t]) \subseteq Data
      BY <2>1, LenProperties, ElementOfSeq DEF ToSet
    <2>3. QED
      BY <1>1, <2>2 DEF Required
  <1>2. CASE t \in Facades
    <2>1. RequiredCapabilities[t] \in Seq(Capabilities) /\ t \notin Capabilities
      BY <1>2, MapAssumption, ItemAssumption
    <2>2. ToSet(RequiredCapabilities[t]) \subseteq Capabilities
      BY <2>1, LenProperties, ElementOfSeq DEF ToSet
    <2>3. QED
      BY <2>1, <2>2 DEF Required
  <1>3. QED
    BY <1>1, <1>2

\* A build over what is stored gives a value (CapabilityManager::Evaluate).
LEMMA BuiltFromType ==
    ASSUME NEW t \in Derived, NEW source \in [Items -> Stored]
    PROVE  BuiltFrom(t, source) \in Values
  <1> DEFINE s == [i \in Required(t) |-> source[i]]
  <1>1. s \in [Required(t) -> Stored]
    BY RequiredAreItems
  <1> HIDE DEF s
  <1>2. Build(t, s) \in Values
    BY <1>1, FunctionAssumption
  <1>3. QED
    BY <1>2 DEF BuiltFrom, s
-----------------------------------------------------------------------------
(***************************************************************************)
(* Type correctness, action by action.                                     *)
(***************************************************************************)
LEMMA TypeInit == Init => TypeOK
  BY ItemAssumption
  DEF Init, TypeOK, StoreTypeOK, CapabilityTypeOK, SharedTypeOK, NoItem, EmptySnapshot

\* RIM_SetXxx keeps the types.
LEMMA DispatchType ==
    ASSUME TypeOK, NEW d \in Data, NEW raw \in RawValues, Dispatch(d, raw)
    PROVE  TypeOK'
  <1> DEFINE r == RouteOf[d]
             item == [id |-> d, value |-> Normalize(d, raw)]
  <1>1. r \in Routes /\ item \in DataEvent /\ item.value \in Values
    BY RouteAssumption, DataEventType, FunctionAssumption
  <1>2. RouteInsert(StorePolicy[r], storeQueue[r], item) \in Seq(DataEvent)
    BY <1>1, RouteInsertProperties DEF TypeOK, StoreTypeOK
  <1>3. StoreTypeOK'
    BY <1>1, <1>2, ItemAssumption DEF TypeOK, StoreTypeOK, Dispatch
  <1>4. CapabilityTypeOK'
    BY DEF TypeOK, CapabilityTypeOK, Dispatch, capabilityVars, evaluationVars
  <1>5. SharedTypeOK'
    BY DEF TypeOK, SharedTypeOK, Dispatch
  <1>6. QED
    BY <1>3, <1>4, <1>5 DEF TypeOK

\* Every step of DataStoreWorker keeps the types, program point by program point.
LEMMA DataStoreWorkerType ==
    ASSUME TypeOK, NEW r \in Routes, DataStoreWorker(r)
    PROVE  TypeOK'
  <1>1. CASE StorePop(r)
    <2>1. Head(storeQueue[r]) \in DataEvent /\ Tail(storeQueue[r]) \in Seq(DataEvent)
      BY <1>1, TailProperties DEF TypeOK, StoreTypeOK, StorePop
    <2>2. StoreTypeOK'
      BY <1>1, <2>1 DEF TypeOK, StoreTypeOK, StorePop
    <2>3. CapabilityTypeOK' /\ SharedTypeOK'
      BY <1>1 DEF TypeOK, CapabilityTypeOK, SharedTypeOK, StorePop,
                  capabilityVars, evaluationVars
    <2>4. QED
      BY <2>2, <2>3 DEF TypeOK
  <1>2. CASE StoreDiff(r)
    <2>1. StoreTypeOK'
      BY <1>2 DEF TypeOK, StoreTypeOK, StoreDiff
    <2>2. CapabilityTypeOK' /\ SharedTypeOK'
      BY <1>2 DEF TypeOK, CapabilityTypeOK, SharedTypeOK, StoreDiff,
                  capabilityVars, evaluationVars
    <2>3. QED
      BY <2>1, <2>2 DEF TypeOK
  <1>3. CASE StoreWrite(r)
    <2>1. storeItem[r].id \in Items /\ storeItem[r].value \in Stored
      BY <1>3 DEF TypeOK, StoreTypeOK, StoreWrite, DataEvent
    <2>2. StoreTypeOK'
      BY <1>3 DEF TypeOK, StoreTypeOK, StoreWrite
    <2>3. SharedTypeOK'
      BY <1>3, <2>1 DEF TypeOK, SharedTypeOK, StoreWrite
    <2>4. CapabilityTypeOK'
      BY <1>3 DEF TypeOK, CapabilityTypeOK, StoreWrite, capabilityVars, evaluationVars
    <2>5. QED
      BY <2>2, <2>3, <2>4 DEF TypeOK
  <1>4. CASE StorePush(r)
    <2> DEFINE input == [id |-> storeItem[r].id]
    <2>1. input \in InputEvent
      BY <1>4 DEF TypeOK, StoreTypeOK, StorePush, DataEvent, InputEvent
    <2>2. RouteInsert(CapabilityPolicy[r], capabilityQueue[r], input) \in Seq(InputEvent)
      BY <2>1, RouteInsertProperties DEF TypeOK, CapabilityTypeOK
    <2>3. StoreTypeOK'
      BY <1>4 DEF TypeOK, StoreTypeOK, StorePush
    <2>4. CapabilityTypeOK'
      BY <1>4, <2>2 DEF TypeOK, CapabilityTypeOK, StorePush, evaluationVars
    <2>5. SharedTypeOK'
      BY <1>4 DEF TypeOK, SharedTypeOK, StorePush
    <2>6. QED
      BY <2>3, <2>4, <2>5 DEF TypeOK
  <1>5. QED
    BY <1>1, <1>2, <1>3, <1>4 DEF DataStoreWorker

\* The publisher's queue after a push by a CapabilityWorker.
LEMMA PushType ==
    ASSUME TypeOK, NEW t \in Items, PushNotification(t)
    PROVE  publisherQueue' \in Seq(PublisherEvent)
  BY PublisherInputType, CompressionInsertType
  DEF PushNotification, TypeOK, SharedTypeOK

\* Turning to the next target keeps the worker's own variables typed.
LEMMA EvaluateNextType ==
    ASSUME CapabilityTypeOK, NEW r \in Routes, NEW left \in Seq(Derived),
           EvaluateNext(r, left)
    PROVE  /\ capabilityPc' \in [Routes -> {"wait", "data", "snapshot", "store", "publish"}]
           /\ targets' \in [Routes -> Seq(Derived)]
           /\ reads' \in [Routes -> Seq(SUBSET Items)]
           /\ snapshot' \in [Routes -> [Items -> Stored]]
           /\ newValue' \in [Routes -> Stored]
           /\ capabilityPc'[r] \in {"wait", "snapshot"}
           /\ capabilityPc'[r] = "snapshot" => targets'[r] # <<>>
           /\ \A s \in Routes \ {r} : /\ capabilityPc'[s] = capabilityPc[s]
                                      /\ targets'[s] = targets[s]
                                      /\ newValue'[s] = newValue[s]
  <1>1. left # <<>> => ReadPlan(Head(left)) \in Seq(SUBSET Items)
    BY TailProperties, ReadPlanType
  <1>2. (IF left = <<>> THEN <<>> ELSE ReadPlan(Head(left))) \in Seq(SUBSET Items)
    BY <1>1
  <1>3. EmptySnapshot \in [Items -> Stored]
    BY DEF EmptySnapshot
  <1>4. reads' \in [Routes -> Seq(SUBSET Items)]
    BY <1>2 DEF EvaluateNext, CapabilityTypeOK
  <1>5. snapshot' \in [Routes -> [Items -> Stored]]
    BY <1>3 DEF EvaluateNext, CapabilityTypeOK
  <1>6. QED
    BY <1>4, <1>5 DEF EvaluateNext, CapabilityTypeOK

\* Every step of CapabilityWorker keeps the types, program point by program point.
LEMMA CapabilityWorkerType ==
    ASSUME TypeOK, NEW r \in Routes, CapabilityWorker(r)
    PROVE  TypeOK'
  <1> USE DEF TypeOK
  <1>1. CASE CapabilityPop(r)
    <2>0. capabilityQueue[r] \in Seq(InputEvent) /\ capabilityQueue[r] # <<>>
      BY <1>1 DEF CapabilityTypeOK, CapabilityPop
    <2>1. Head(capabilityQueue[r]) \in InputEvent /\ Tail(capabilityQueue[r]) \in Seq(InputEvent)
      BY <2>0, TailProperties
    <2>2. CapabilityTypeOK'
      BY <1>1, <2>1 DEF InputEvent, CapabilityTypeOK, CapabilityPop, evaluationVars
    <2>3. StoreTypeOK' /\ SharedTypeOK'
      BY <1>1 DEF StoreTypeOK, SharedTypeOK, CapabilityPop, storeVars
    <2>4. QED
      BY <2>2, <2>3
  <1>2. CASE PublishDataChange(r)
    <2>1. changedData[r] \in Data /\ changedData[r] \in Items
      BY <1>2 DEF CapabilityTypeOK, PublishDataChange
    <2>2. CapabilityDependencies[changedData[r]] \in Seq(Derived)
      BY <2>1, DependentCapabilitiesType
    <2>3. CapabilityTypeOK'
      BY <1>2, <2>2, EvaluateNextType DEF CapabilityTypeOK, PublishDataChange
    <2>4. publisherQueue' \in Seq(PublisherEvent)
      BY <1>2, <2>1, PushType DEF PublishDataChange
    <2>5. StoreTypeOK' /\ SharedTypeOK'
      BY <1>2, <2>4 DEF StoreTypeOK, SharedTypeOK, PublishDataChange, storeVars
    <2>6. QED
      BY <2>3, <2>5
  <1>3. CASE ReadStorage(r)
    <2>1. Tail(reads[r]) \in Seq(SUBSET Items)
      BY <1>3, TailProperties DEF CapabilityTypeOK, ReadStorage
    <2>2. [i \in Items |-> IF i \in Head(reads[r]) THEN domainStore[i] ELSE snapshot[r][i]]
             \in [Items -> Stored]
      BY DEF CapabilityTypeOK, SharedTypeOK
    <2>3. CapabilityTypeOK'
      BY <1>3, <2>1, <2>2 DEF CapabilityTypeOK, ReadStorage, capabilityVars
    <2>4. StoreTypeOK' /\ SharedTypeOK'
      BY <1>3 DEF StoreTypeOK, SharedTypeOK, ReadStorage, storeVars
    <2>5. QED
      BY <2>3, <2>4
  <1>4. CASE EvaluateDiff(r)
    <2> DEFINE t     == Head(targets[r])
               value == BuiltFrom(t, snapshot[r])
    <2>1. targets[r] \in Seq(Derived) /\ targets[r] # <<>>
      BY <1>4 DEF CapabilityTypeOK, EvaluateDiff
    <2>2. t \in Derived /\ Tail(targets[r]) \in Seq(Derived)
      BY <2>1, TailProperties
    <2>3. value \in Values
      BY <2>2, BuiltFromType DEF CapabilityTypeOK
    <2>4. CapabilityTypeOK'
      <3>1. CASE domainStore[t] = value
        <4>1. EvaluateNext(r, Tail(targets[r]))
          BY <1>4, <3>1 DEF EvaluateDiff
        <4>2. QED
          BY <1>4, <2>2, <4>1, EvaluateNextType DEF CapabilityTypeOK, EvaluateDiff
      <3>2. CASE domainStore[t] # value
        <4>1. EmptySnapshot \in [Items -> Stored]
          BY DEF EmptySnapshot
        <4> HIDE DEF value, t
        <4>2. /\ newValue' = [newValue EXCEPT ![r] = value]
              /\ snapshot' = [snapshot EXCEPT ![r] = EmptySnapshot]
              /\ capabilityPc' = [capabilityPc EXCEPT ![r] = "store"]
              /\ UNCHANGED <<targets, reads, capabilityQueue, changedData>>
          BY <1>4, <3>2 DEF EvaluateDiff, t, value
        <4>3. QED
          BY <2>1, <2>3, <4>1, <4>2 DEF CapabilityTypeOK
      <3>3. QED
        BY <3>1, <3>2
    <2>5. StoreTypeOK' /\ SharedTypeOK'
      BY <1>4 DEF StoreTypeOK, SharedTypeOK, EvaluateDiff, storeVars
    <2>6. QED
      BY <2>4, <2>5
  <1>5. CASE EvaluateStore(r)
    <2>1. Head(targets[r]) \in Items /\ newValue[r] \in Stored
      BY <1>5, TailProperties DEF CapabilityTypeOK, EvaluateStore
    <2>2. SharedTypeOK'
      BY <1>5, <2>1 DEF SharedTypeOK, EvaluateStore
    <2>3. CapabilityTypeOK'
      BY <1>5 DEF CapabilityTypeOK, EvaluateStore
    <2>4. StoreTypeOK'
      BY <1>5 DEF StoreTypeOK, EvaluateStore, storeVars
    <2>5. QED
      BY <2>2, <2>3, <2>4
  <1>6. CASE PublishDerivedChange(r)
    <2> DEFINE t == Head(targets[r])
    <2>1. targets[r] \in Seq(Derived) /\ targets[r] # <<>>
      BY <1>6 DEF CapabilityTypeOK, PublishDerivedChange
    <2>2. t \in Derived /\ Tail(targets[r]) \in Seq(Derived) /\ t \in Items
      BY <2>1, TailProperties
    <2>3. FacadesOf(t) \o Tail(targets[r]) \in Seq(Derived)
      BY <2>2, FacadesOfType, ConcatProperties
    <2>4. CapabilityTypeOK'
      BY <1>6, <2>3, EvaluateNextType DEF CapabilityTypeOK, PublishDerivedChange
    <2>5. publisherQueue' \in Seq(PublisherEvent)
      BY <1>6, <2>2, PushType DEF PublishDerivedChange
    <2>6. StoreTypeOK' /\ SharedTypeOK'
      BY <1>6, <2>5 DEF StoreTypeOK, SharedTypeOK, PublishDerivedChange, storeVars
    <2>7. QED
      BY <2>4, <2>6
  <1>7. QED
    BY <1>1, <1>2, <1>3, <1>4, <1>5, <1>6 DEF CapabilityWorker

\* Taking a notification keeps the types.
LEMMA PublisherTakeType == ASSUME TypeOK, PublisherTake PROVE TypeOK'
  <1>1. Head(publisherQueue) \in PublisherEvent /\ Tail(publisherQueue) \in Seq(PublisherEvent)
    BY TailProperties DEF TypeOK, SharedTypeOK, PublisherTake
  <1>2. SharedTypeOK'
    BY <1>1 DEF TypeOK, SharedTypeOK, PublisherTake, PublisherEvent
  <1>3. StoreTypeOK' /\ CapabilityTypeOK'
    BY DEF TypeOK, StoreTypeOK, CapabilityTypeOK, PublisherTake, storeVars,
           capabilityVars, evaluationVars
  <1>4. QED
    BY <1>2, <1>3 DEF TypeOK

\* TypeOK is inductive as it stands.
LEMMA TypeStep == ASSUME TypeOK, [Next]_vars PROVE TypeOK'
  <1>1. ASSUME NEW d \in Data, NEW raw \in RawValues, Dispatch(d, raw) PROVE TypeOK'
    BY <1>1, DispatchType
  <1>2. ASSUME NEW r \in Routes, DataStoreWorker(r) \/ CapabilityWorker(r) PROVE TypeOK'
    BY <1>2, DataStoreWorkerType, CapabilityWorkerType
  <1>3. CASE PublisherTake
    BY <1>3, PublisherTakeType
  <1>4. CASE UNCHANGED vars
    BY <1>4 DEF TypeOK, StoreTypeOK, CapabilityTypeOK, SharedTypeOK, vars,
                storeVars, capabilityVars, evaluationVars
  <1>5. QED
    BY <1>1, <1>2, <1>3, <1>4 DEF Next

(***************************************************************************)
(* Every variable keeps its type, and each program point of the two        *)
(* workers holds what the code dereferences there.                         *)
(***************************************************************************)
THEOREM TypeCorrect == Spec => []TypeOK
  BY TypeInit, TypeStep, PTL DEF Spec
-----------------------------------------------------------------------------
\* The queue a push makes of a route's queue, in the ids it holds.

\* Dispatch adds its item's id to the store queue of its route, and to no other.
LEMMA DispatchIds ==
    ASSUME TypeOK, NEW d \in Data, NEW raw \in RawValues, Dispatch(d, raw),
           NEW r \in Routes, NEW x
    PROVE  HoldsId(storeQueue'[r], x)
              <=> HoldsId(storeQueue[r], x) \/ (r = RouteOf[d] /\ x = d)
  <1> DEFINE item == [id |-> d, value |-> Normalize(d, raw)]
             h    == RouteOf[d]
  <1>1. h \in Routes /\ item \in DataEvent /\ item.id = d
    BY RouteAssumption, DataEventType
  <1>2. storeQueue[h] \in Seq(DataEvent)
    BY <1>1 DEF TypeOK, StoreTypeOK
  <1>3. storeQueue' = [storeQueue EXCEPT ![h] = RouteInsert(StorePolicy[h], storeQueue[h], item)]
    BY DEF Dispatch
  <1>4. storeQueue \in [Routes -> Seq(DataEvent)]
    BY DEF TypeOK, StoreTypeOK
  <1> HIDE DEF item, h
  <1>5. HoldsId(RouteInsert(StorePolicy[h], storeQueue[h], item), x)
           <=> x = d \/ HoldsId(storeQueue[h], x)
    BY <1>1, <1>2, RouteInsertIds
  <1>6. CASE r = h
    BY <1>1, <1>3, <1>4, <1>5, <1>6 DEF h
  <1>7. CASE r # h
    BY <1>1, <1>3, <1>4, <1>7 DEF h
  <1>8. QED
    BY <1>6, <1>7

\* DataStoreWorker announces the item it stored to its own route's CapabilityWorker.
LEMMA StorePushIds ==
    ASSUME TypeOK, NEW h \in Routes, StorePush(h), NEW r \in Routes, NEW x
    PROVE  HoldsId(capabilityQueue'[r], x)
              <=> HoldsId(capabilityQueue[r], x) \/ (r = h /\ x = storeItem[h].id)
  <1> DEFINE input == [id |-> storeItem[h].id]
  <1>1. input \in InputEvent /\ input.id = storeItem[h].id
    BY DEF TypeOK, StoreTypeOK, StorePush, DataEvent, InputEvent
  <1>2. capabilityQueue[h] \in Seq(InputEvent)
    BY DEF TypeOK, CapabilityTypeOK
  <1>3. capabilityQueue' = [capabilityQueue EXCEPT
                              ![h] = RouteInsert(CapabilityPolicy[h], capabilityQueue[h], input)]
    BY DEF StorePush
  <1>4. capabilityQueue \in [Routes -> Seq(InputEvent)]
    BY DEF TypeOK, CapabilityTypeOK
  <1> HIDE DEF input
  <1>5. HoldsId(RouteInsert(CapabilityPolicy[h], capabilityQueue[h], input), x)
           <=> x = storeItem[h].id \/ HoldsId(capabilityQueue[h], x)
    BY <1>1, <1>2, RouteInsertIds
  <1>6. CASE r = h
    BY <1>3, <1>4, <1>5, <1>6
  <1>7. CASE r # h
    BY <1>3, <1>4, <1>7
  <1>8. QED
    BY <1>6, <1>7

\* A pop from a store queue moves one id to the worker's hands; the others stay queued.
LEMMA StorePopIds ==
    ASSUME TypeOK, NEW h \in Routes, StorePop(h), NEW r \in Routes, NEW x
    PROVE  /\ r # h => storeQueue'[r] = storeQueue[r] /\ storeItem'[r] = storeItem[r]
           /\ HoldsId(storeQueue[h], x)
                 <=> x = storeItem'[h].id \/ HoldsId(storeQueue'[h], x)
  <1>1. storeQueue[h] \in Seq(DataEvent) /\ storeQueue[h] # <<>>
    BY DEF TypeOK, StoreTypeOK, StorePop
  <1>2. /\ storeQueue'[h] = Tail(storeQueue[h])
        /\ storeItem'[h] = Head(storeQueue[h])
        /\ r # h => storeQueue'[r] = storeQueue[r] /\ storeItem'[r] = storeItem[r]
    BY DEF TypeOK, StoreTypeOK, StorePop
  <1>3. HoldsId(storeQueue[h], x)
           <=> x = Head(storeQueue[h]).id \/ HoldsId(Tail(storeQueue[h]), x)
    BY <1>1, TailIds
  <1>4. QED
    BY <1>2, <1>3

\* A pop from a capability queue moves one id to the worker's hands; the others stay queued.
LEMMA CapabilityPopIds ==
    ASSUME TypeOK, NEW h \in Routes, CapabilityPop(h), NEW r \in Routes, NEW x
    PROVE  /\ r # h => /\ capabilityQueue'[r] = capabilityQueue[r]
                       /\ changedData'[r] = changedData[r]
                       /\ capabilityPc'[r] = capabilityPc[r]
           /\ HoldsId(capabilityQueue[h], x)
                 <=> x = changedData'[h] \/ HoldsId(capabilityQueue'[h], x)
  <1>1. capabilityQueue[h] \in Seq(InputEvent) /\ capabilityQueue[h] # <<>>
    BY DEF TypeOK, CapabilityTypeOK, CapabilityPop
  <1>2. /\ capabilityQueue'[h] = Tail(capabilityQueue[h])
        /\ changedData'[h] = Head(capabilityQueue[h]).id
        /\ r # h => /\ capabilityQueue'[r] = capabilityQueue[r]
                    /\ changedData'[r] = changedData[r]
                    /\ capabilityPc'[r] = capabilityPc[r]
    BY DEF TypeOK, CapabilityTypeOK, CapabilityPop
  <1>3. HoldsId(capabilityQueue[h], x)
           <=> x = Head(capabilityQueue[h]).id \/ HoldsId(Tail(capabilityQueue[h]), x)
    BY <1>1, TailIds
  <1>4. QED
    BY <1>2, <1>3
-----------------------------------------------------------------------------
\* At the start nobody holds an item.
LEMMA OnRouteInit == Init => OnRoute
  BY ItemAssumption DEF Init, OnRoute, HoldsId, NoItem

\* No step of any thread hands an item to another route.
LEMMA OnRouteStep == ASSUME TypeOK, OnRoute, [Next]_vars PROVE OnRoute'
  <1> DEFINE OnRouteAt(r, d) ==
        \/ HoldsId(storeQueue[r], d)
        \/ storeItem[r].id = d
        \/ HoldsId(capabilityQueue[r], d)
        \/ changedData[r] = d
        => RouteOf[d] = r
  <1>1. SUFFICES ASSUME NEW r \in Routes, NEW d \in Data PROVE OnRouteAt(r, d)'
    BY DEF OnRoute
  <1>2. OnRouteAt(r, d) /\ d # NoData /\ NoItem.id = NoData
    BY ItemAssumption DEF OnRoute, NoItem
  <1>3. ASSUME NEW x \in Data, NEW raw \in RawValues, Dispatch(x, raw)
        PROVE  OnRouteAt(r, d)'
    <2>1. HoldsId(storeQueue'[r], d) <=> HoldsId(storeQueue[r], d) \/ (r = RouteOf[x] /\ d = x)
      BY <1>3, DispatchIds
    <2>2. UNCHANGED <<storeItem, capabilityQueue, changedData>>
      BY <1>3 DEF Dispatch, capabilityVars
    <2>3. QED
      BY <2>1, <2>2, <1>2
  <1>4. ASSUME NEW h \in Routes, StorePop(h) PROVE OnRouteAt(r, d)'
    <2>1. /\ r # h => storeQueue'[r] = storeQueue[r] /\ storeItem'[r] = storeItem[r]
          /\ HoldsId(storeQueue[h], d) <=> d = storeItem'[h].id \/ HoldsId(storeQueue'[h], d)
      BY <1>4, StorePopIds
    <2>2. UNCHANGED <<capabilityQueue, changedData>>
      BY <1>4 DEF StorePop, capabilityVars
    <2>3. QED
      BY <2>1, <2>2, <1>2
  <1>5. ASSUME NEW h \in Routes, StoreDiff(h) \/ StoreWrite(h) PROVE OnRouteAt(r, d)'
    <2>1. UNCHANGED <<storeQueue, capabilityQueue, changedData>>
      BY <1>5 DEF StoreDiff, StoreWrite, capabilityVars
    <2>2. storeItem'[r] = storeItem[r] \/ storeItem'[r] = NoItem
      BY <1>5 DEF StoreDiff, StoreWrite, TypeOK, StoreTypeOK
    <2>3. QED
      BY <2>1, <2>2, <1>2
  <1>6. ASSUME NEW h \in Routes, StorePush(h) PROVE OnRouteAt(r, d)'
    <2>1. HoldsId(capabilityQueue'[r], d)
             <=> HoldsId(capabilityQueue[r], d) \/ (r = h /\ d = storeItem[h].id)
      BY <1>6, StorePushIds
    <2>2. UNCHANGED <<storeQueue, changedData>>
      BY <1>6 DEF StorePush
    <2>3. storeItem'[r] = storeItem[r] \/ storeItem'[r] = NoItem
      BY <1>6 DEF StorePush, TypeOK, StoreTypeOK
    <2>4. QED
      BY <2>1, <2>2, <2>3, <1>2
  <1>7. ASSUME NEW h \in Routes, CapabilityPop(h) PROVE OnRouteAt(r, d)'
    <2>1. /\ r # h => /\ capabilityQueue'[r] = capabilityQueue[r]
                      /\ changedData'[r] = changedData[r]
          /\ HoldsId(capabilityQueue[h], d)
                <=> d = changedData'[h] \/ HoldsId(capabilityQueue'[h], d)
      BY <1>7, CapabilityPopIds
    <2>2. UNCHANGED <<storeQueue, storeItem>>
      BY <1>7 DEF CapabilityPop, storeVars
    <2>3. QED
      BY <2>1, <2>2, <1>2
  <1>8. ASSUME NEW h \in Routes, PublishDataChange(h) PROVE OnRouteAt(r, d)'
    <2>1. UNCHANGED <<storeQueue, storeItem, capabilityQueue>>
      BY <1>8 DEF PublishDataChange, storeVars
    <2>2. changedData'[r] = changedData[r] \/ changedData'[r] = NoData
      BY <1>8 DEF PublishDataChange, TypeOK, CapabilityTypeOK
    <2>3. QED
      BY <2>1, <2>2, <1>2
  <1>9. ASSUME NEW h \in Routes,
               \/ ReadStorage(h)
               \/ EvaluateDiff(h)
               \/ EvaluateStore(h)
               \/ PublishDerivedChange(h)
        PROVE  OnRouteAt(r, d)'
    <2>1. UNCHANGED <<storeQueue, storeItem, capabilityQueue, changedData>>
      BY <1>9 DEF ReadStorage, EvaluateDiff, EvaluateStore, PublishDerivedChange,
                  storeVars, capabilityVars
    <2>2. QED
      BY <2>1, <1>2
  <1>10. ASSUME PublisherTake \/ UNCHANGED vars PROVE OnRouteAt(r, d)'
    <2>1. UNCHANGED <<storeQueue, storeItem, capabilityQueue, changedData>>
      BY <1>10 DEF PublisherTake, vars, storeVars, capabilityVars
    <2>2. QED
      BY <2>1, <1>2
  <1> HIDE DEF OnRouteAt
  <1>11. QED
    BY <1>3, <1>4, <1>5, <1>6, <1>7, <1>8, <1>9, <1>10
       DEF Next, DataStoreWorker, CapabilityWorker

(***************************************************************************)
(* The values and the change events of a data item never leave the queues  *)
(* and the workers of its route.                                           *)
(***************************************************************************)
THEOREM StaysOnRoute == Spec => []OnRoute
  BY TypeCorrect, OnRouteInit, OnRouteStep, PTL DEF Spec
-----------------------------------------------------------------------------
(***************************************************************************)
(* The last value set wins: the invariant is inductive given the types and *)
(* OnRoute, which says that the DataStoreWorker holding a value of d is    *)
(* the only one that can store one.                                        *)
(***************************************************************************)
LEMMA LastWriteInit == Init => LastWriteWins
  BY RouteAssumption DEF Init, LastWriteWins, HoldsId, InHand

\* A step that touches neither the store worker of d nor d's stored value.
LEMMA LastWriteFrame ==
    ASSUME LastWriteWins, NEW d \in Data,
           storeQueue'[RouteOf[d]] = storeQueue[RouteOf[d]],
           storePc'[RouteOf[d]] = storePc[RouteOf[d]],
           storeItem'[RouteOf[d]] = storeItem[RouteOf[d]],
           domainStore'[d] = domainStore[d],
           accepted'[d] = accepted[d]
    PROVE  LET queue == storeQueue'[RouteOf[d]]
           IN  /\ \A k \in DOMAIN queue :
                     IsLastOf(queue, d, k) => queue[k].value = accepted'[d]
               /\ ~HoldsId(queue, d) => InHand(d)' = accepted'[d]
  BY DEF LastWriteWins, InHand

\* No step loses the last value set for an item, nor lets an older one overtake it.
LEMMA LastWriteStep == ASSUME TypeOK, OnRoute, LastWriteWins, [Next]_vars
                       PROVE  LastWriteWins'
  <1> DEFINE Wins(d) ==
        LET queue == storeQueue[RouteOf[d]]
        IN  /\ \A k \in DOMAIN queue :
                  IsLastOf(queue, d, k) => queue[k].value = accepted[d]
            /\ ~HoldsId(queue, d) => InHand(d) = accepted[d]
  <1>1. SUFFICES ASSUME NEW d \in Data PROVE Wins(d)'
    BY DEF LastWriteWins
  <1> DEFINE r == RouteOf[d]
             q == storeQueue[r]
  <1>2. Wins(d) /\ r \in Routes /\ q \in Seq(DataEvent)
    BY RouteAssumption DEF LastWriteWins, TypeOK, StoreTypeOK
  <1>3. ASSUME NEW x \in Data, NEW raw \in RawValues, Dispatch(x, raw)
        PROVE  Wins(d)'
    <2> DEFINE item == [id |-> x, value |-> Normalize(x, raw)]
               new  == RouteInsert(StorePolicy[r], q, item)
    <2>1. item \in DataEvent /\ item.id = x /\ RouteOf[x] \in Routes
      BY RouteAssumption, DataEventType
    <2>2. /\ UNCHANGED <<storePc, storeItem, domainStore>>
          /\ storeQueue' = [storeQueue EXCEPT
                ![RouteOf[x]] = RouteInsert(StorePolicy[RouteOf[x]], storeQueue[RouteOf[x]], item)]
          /\ accepted' = [accepted EXCEPT ![x] = item.value]
      BY <1>3 DEF Dispatch
    <2>3. CASE RouteOf[x] # r
      <3>1. storeQueue'[r] = storeQueue[r] /\ accepted'[d] = accepted[d]
        BY <2>1, <2>2, <2>3, <1>2 DEF TypeOK, StoreTypeOK
      <3>2. QED
        BY <2>2, <3>1, LastWriteFrame
    <2>4. CASE RouteOf[x] = r
      <3>1. storeQueue'[r] = new
        BY <2>1, <2>2, <2>4 DEF TypeOK, StoreTypeOK
      <3>2. accepted'[d] = IF d = x THEN item.value ELSE accepted[d]
        BY <2>2 DEF TypeOK, StoreTypeOK
      <3>3. HoldsId(new, d) <=> d = x \/ HoldsId(q, d)
        BY <1>2, <2>1, RouteInsertIds
      <3>4. ASSUME NEW k, IsLastOf(new, d, k)
            PROVE  IF d = x THEN new[k] = item
                   ELSE \E j : IsLastOf(q, d, j) /\ new[k] = q[j]
        BY <1>2, <2>1, <3>4, RouteInsertLast
      <3>5. InHand(d)' = InHand(d)
        BY <2>2 DEF InHand
      <3> HIDE DEF new, item
      <3>6. ASSUME NEW k, IsLastOf(new, d, k) PROVE new[k].value = accepted'[d]
        <4>1. CASE d = x
          BY <3>2, <3>4, <3>6, <4>1
        <4>2. CASE d # x
          <5>1. PICK j : IsLastOf(q, d, j) /\ new[k] = q[j]
            BY <3>4, <3>6, <4>2
          <5>2. j \in DOMAIN q
            BY <5>1 DEF IsLastOf
          <5>3. QED
            BY <5>1, <5>2, <4>2, <3>2, <1>2
        <4>3. QED
          BY <4>1, <4>2
      <3>7. ~HoldsId(new, d) => InHand(d)' = accepted'[d]
        BY <3>2, <3>3, <3>5, <1>2
      <3>8. QED
        BY <3>1, <3>6, <3>7
    <2>5. QED
      BY <2>3, <2>4
  <1>4. ASSUME NEW h \in Routes, StorePop(h) PROVE Wins(d)'
    <2>1. /\ UNCHANGED <<domainStore, accepted>>
          /\ storeQueue' = [storeQueue EXCEPT ![h] = Tail(storeQueue[h])]
          /\ storeItem' = [storeItem EXCEPT ![h] = Head(storeQueue[h])]
          /\ storePc' = [storePc EXCEPT ![h] = "diff"]
          /\ storePc[h] = "wait"
          /\ storeQueue[h] # <<>>
      BY <1>4 DEF StorePop
    <2>2. CASE h # r
      BY <2>1, <2>2, <1>2, LastWriteFrame DEF TypeOK, StoreTypeOK
    <2>3. CASE h = r
      <3>1. /\ storeQueue'[r] = Tail(q)
            /\ storeItem'[r] = Head(q)
            /\ storePc'[r] = "diff"
            /\ storePc[r] = "wait"
            /\ q # <<>>
        BY <2>1, <2>3 DEF TypeOK, StoreTypeOK
      <3>2. ASSUME NEW k, IsLastOf(Tail(q), d, k) PROVE Tail(q)[k].value = accepted[d]
        <4>1. IsLastOf(q, d, k + 1) /\ Tail(q)[k] = q[k + 1]
          BY <1>2, <3>1, <3>2, TailLast
        <4>2. k + 1 \in DOMAIN q
          BY <4>1 DEF IsLastOf
        <4>3. QED
          BY <4>1, <4>2, <1>2
      <3>3. ASSUME ~HoldsId(Tail(q), d) PROVE InHand(d)' = accepted[d]
        <4>1. CASE Head(q).id = d
          <5>1. IsLastOf(q, d, 1)
            BY <1>2, <3>1, <3>3, <4>1, HeadLast
          <5>2. q[1].value = accepted[d] /\ Head(q) = q[1]
            BY <5>1, <1>2, <3>1, TailProperties DEF IsLastOf
          <5>3. InHand(d)' = storeItem'[r].value
            BY <3>1, <4>1 DEF InHand
          <5>4. QED
            BY <5>2, <5>3, <3>1
        <4>2. CASE Head(q).id # d
          <5>1. ~HoldsId(q, d)
            BY <1>2, <3>1, <3>3, <4>2, TailIds
          <5>2. InHand(d) = domainStore[d] /\ InHand(d)' = domainStore'[d]
            BY <3>1, <4>2 DEF InHand
          <5>3. QED
            BY <5>1, <5>2, <2>1, <1>2
        <4>3. QED
          BY <4>1, <4>2
      <3>4. QED
        BY <2>1, <3>1, <3>2, <3>3
    <2>4. QED
      BY <2>2, <2>3
  <1>5. ASSUME NEW h \in Routes, StoreDiff(h) PROVE Wins(d)'
    <2>1. UNCHANGED <<storeQueue, domainStore, accepted>>
      BY <1>5 DEF StoreDiff
    <2>2. CASE h # r
      <3>1. storePc'[r] = storePc[r] /\ storeItem'[r] = storeItem[r]
        BY <1>5, <2>2, <1>2 DEF StoreDiff, TypeOK, StoreTypeOK
      <3>2. QED
        BY <2>1, <3>1, LastWriteFrame
    <2>3. CASE h = r
      <3>1. InHand(d)' = InHand(d)
        <4>1. CASE StoreUnchanged(storeItem[h])
          <5>1. storePc[r] = "diff" /\ storePc'[r] = "wait"
            BY <1>5, <4>1, <2>3 DEF StoreDiff, TypeOK, StoreTypeOK
          <5>2. storeItem[r].id = d => domainStore[d] = storeItem[r].value
            BY <4>1, <2>3 DEF StoreUnchanged
          <5>3. QED
            BY <5>1, <5>2, <2>1 DEF InHand
        <4>2. CASE ~StoreUnchanged(storeItem[h])
          <5>1. storePc[r] = "diff" /\ storePc'[r] = "store" /\ UNCHANGED storeItem
            BY <1>5, <4>2, <2>3 DEF StoreDiff, TypeOK, StoreTypeOK
          <5>2. QED
            BY <5>1, <2>1 DEF InHand
        <4>3. QED
          BY <4>1, <4>2
      <3>2. QED
        BY <2>1, <3>1, <1>2
    <2>4. QED
      BY <2>2, <2>3
  <1>6. ASSUME NEW h \in Routes, StoreWrite(h) PROVE Wins(d)'
    <2> DEFINE x == storeItem[h].id
    <2>1. /\ UNCHANGED <<storeQueue, storeItem, accepted>>
          /\ domainStore' = [domainStore EXCEPT ![x] = storeItem[h].value]
          /\ storePc' = [storePc EXCEPT ![h] = "push"]
          /\ storePc[h] = "store"
      BY <1>6 DEF StoreWrite
    <2>2. x \in Data /\ RouteOf[x] = h
      BY <2>1 DEF TypeOK, StoreTypeOK, DataEvent, OnRoute
    <2>3. InHand(d)' = InHand(d)
      <3>1. CASE d = x
        <4>1. r = h /\ storePc'[r] = "push" /\ domainStore'[d] = storeItem[h].value
          BY <2>1, <2>2, <3>1 DEF TypeOK, StoreTypeOK, SharedTypeOK
        <4>2. QED
          BY <4>1, <2>1, <3>1 DEF InHand
      <3>2. CASE d # x
        <4>1. domainStore'[d] = domainStore[d]
          BY <2>1, <3>2 DEF TypeOK, SharedTypeOK
        <4>2. r # h => storePc'[r] = storePc[r]
          BY <2>1, <1>2 DEF TypeOK, StoreTypeOK
        <4>3. r = h => storeItem[r].id # d
          BY <3>2
        <4>4. QED
          BY <4>1, <4>2, <4>3, <2>1 DEF InHand
      <3>3. QED
        BY <3>1, <3>2
    <2>4. QED
      BY <2>1, <2>3, <1>2
  <1>7. ASSUME NEW h \in Routes, StorePush(h) PROVE Wins(d)'
    <2>1. UNCHANGED <<storeQueue, domainStore, accepted>>
      BY <1>7 DEF StorePush
    <2>2. InHand(d)' = InHand(d)
      <3>1. CASE h = r
        <4>1. storePc[r] = "push" /\ storePc'[r] = "wait"
          BY <1>7, <3>1 DEF StorePush, TypeOK, StoreTypeOK
        <4>2. QED
          BY <4>1, <2>1 DEF InHand
      <3>2. CASE h # r
        <4>1. storePc'[r] = storePc[r] /\ storeItem'[r] = storeItem[r]
          BY <1>7, <3>2, <1>2 DEF StorePush, TypeOK, StoreTypeOK
        <4>2. QED
          BY <4>1, <2>1 DEF InHand
      <3>3. QED
        BY <3>1, <3>2
    <2>3. QED
      BY <2>1, <2>2, <1>2
  <1>8. ASSUME NEW h \in Routes, CapabilityWorker(h) PROVE Wins(d)'
    <2>1. UNCHANGED <<storeQueue, storePc, storeItem, accepted>>
      BY <1>8 DEF CapabilityWorker, CapabilityPop, PublishDataChange, ReadStorage,
                  EvaluateDiff, EvaluateStore, PublishDerivedChange, storeVars
    <2>2. domainStore'[d] = domainStore[d]
      <3>1. CASE EvaluateStore(h)
        <4>1. targets[h] \in Seq(Derived) /\ targets[h] # <<>>
          BY <3>1 DEF EvaluateStore, TypeOK, CapabilityTypeOK
        <4>2. Head(targets[h]) \in Derived
          BY <4>1, TailProperties
        <4>3. Head(targets[h]) # d
          BY <4>2, ItemAssumption
        <4>4. QED
          BY <3>1, <4>3 DEF EvaluateStore, TypeOK, SharedTypeOK
      <3>2. CASE ~EvaluateStore(h)
        BY <1>8, <3>2 DEF CapabilityWorker, CapabilityPop, PublishDataChange, ReadStorage,
                          EvaluateDiff, PublishDerivedChange
      <3>3. QED
        BY <3>1, <3>2
    <2>3. QED
      BY <2>1, <2>2, LastWriteFrame
  <1>9. ASSUME PublisherTake \/ UNCHANGED vars PROVE Wins(d)'
    <2>1. UNCHANGED <<storeQueue, storePc, storeItem, accepted, domainStore>>
      BY <1>9 DEF PublisherTake, vars, storeVars
    <2>2. QED
      BY <2>1, LastWriteFrame
  <1> HIDE DEF Wins
  <1>10. QED
    BY <1>3, <1>4, <1>5, <1>6, <1>7, <1>8, <1>9 DEF Next, DataStoreWorker

(***************************************************************************)
(* Whatever the policies of its route, the last value set for a data item  *)
(* is the one its route is heading for.                                    *)
(***************************************************************************)
THEOREM LastWriteNeverLost == Spec => []LastWriteWins
  BY TypeCorrect, StaysOnRoute, LastWriteInit, LastWriteStep, PTL DEF Spec
-----------------------------------------------------------------------------
(***************************************************************************)
(* The notifications: which items have one queued or bound to be queued,   *)
(* step by step.  OnRoute says that the worker announcing a data item is   *)
(* the one Unannounced looks at.                                           *)
(***************************************************************************)
\* Steps that leave the announcements of a worker where they are.
Quiet(h) == \/ StorePop(h)
            \/ StoreDiff(h)
            \/ StorePush(h)
            \/ CapabilityPop(h)
            \/ ReadStorage(h)
            \/ EvaluateDiff(h)

\* A push by the CapabilityWorker adds its target to what the publisher holds.
LEMMA PushTargets ==
    ASSUME TypeOK, NEW t \in Items, PushNotification(t), NEW i
    PROVE  HoldsTarget(publisherQueue', i) <=> i = t \/ HoldsTarget(publisherQueue, i)
  <1>1. PublisherInput(t) \in PublisherEvent /\ PublisherInput(t).target = t
    BY PublisherInputType
  <1>2. publisherQueue \in Seq(PublisherEvent)
    BY DEF TypeOK, SharedTypeOK
  <1>3. publisherQueue' = PriorityCompressionInsert(publisherQueue, PublisherInput(t))
    BY DEF PushNotification
  <1>4. QED
    BY <1>1, <1>2, <1>3, CompressionKeepsTargets

\* A step that neither stores nor publishes leaves the same stores to be announced.
LEMMA QuietUnannounced ==
    ASSUME TypeOK, NEW h \in Routes, Quiet(h), NEW i \in Data
    PROVE  Unannounced(i)' <=> Unannounced(i)
  <1> DEFINE r == RouteOf[i]
  <1>1. r \in Routes
    BY RouteAssumption
  <1>2. CASE StorePop(h) \/ StoreDiff(h)
    <2>1. UNCHANGED <<capabilityQueue, capabilityPc, changedData>>
      BY <1>2 DEF StorePop, StoreDiff, capabilityVars
    <2>2. r = h => storePc[r] # "push" /\ storePc'[r] # "push"
      BY <1>2 DEF StorePop, StoreDiff, TypeOK, StoreTypeOK
    <2>3. r # h => storePc'[r] = storePc[r] /\ storeItem'[r] = storeItem[r]
      BY <1>2, <1>1 DEF StorePop, StoreDiff, TypeOK, StoreTypeOK
    <2>4. QED
      BY <2>1, <2>2, <2>3 DEF Unannounced
  <1>3. CASE StorePush(h)
    <2>1. HoldsId(capabilityQueue'[r], i)
             <=> HoldsId(capabilityQueue[r], i) \/ (r = h /\ i = storeItem[h].id)
      BY <1>1, <1>3, StorePushIds
    <2>2. storePc[h] = "push" /\ storePc'[h] = "wait" /\ UNCHANGED <<capabilityPc, changedData>>
      BY <1>3 DEF StorePush, TypeOK, StoreTypeOK
    <2>3. r # h => storePc'[r] = storePc[r] /\ storeItem'[r] = storeItem[r]
      BY <1>3, <1>1 DEF StorePush, TypeOK, StoreTypeOK
    <2>4. QED
      BY <2>1, <2>2, <2>3 DEF Unannounced
  <1>4. CASE CapabilityPop(h)
    <2>1. /\ r # h => /\ capabilityQueue'[r] = capabilityQueue[r]
                      /\ changedData'[r] = changedData[r]
                      /\ capabilityPc'[r] = capabilityPc[r]
          /\ HoldsId(capabilityQueue[h], i)
                <=> i = changedData'[h] \/ HoldsId(capabilityQueue'[h], i)
      BY <1>1, <1>4, CapabilityPopIds
    <2>2. capabilityPc[h] = "wait" /\ capabilityPc'[h] = "data" /\ UNCHANGED <<storePc, storeItem>>
      BY <1>4 DEF CapabilityPop, TypeOK, CapabilityTypeOK, storeVars
    <2>3. QED
      BY <2>1, <2>2 DEF Unannounced
  <1>5. CASE ReadStorage(h)
    BY <1>5 DEF ReadStorage, storeVars, capabilityVars, Unannounced
  <1>6. CASE EvaluateDiff(h)
    <2>1. UNCHANGED <<storePc, storeItem, capabilityQueue, changedData>>
      BY <1>6 DEF EvaluateDiff, storeVars
    <2>2. r = h => capabilityPc[r] # "data" /\ capabilityPc'[r] # "data"
      BY <1>6 DEF EvaluateDiff, EvaluateNext, TypeOK, CapabilityTypeOK
    <2>3. r # h => capabilityPc'[r] = capabilityPc[r]
      BY <1>6, <1>1 DEF EvaluateDiff, EvaluateNext, TypeOK, CapabilityTypeOK
    <2>4. QED
      BY <2>1, <2>2, <2>3 DEF Unannounced
  <1>7. QED
    BY <1>2, <1>3, <1>4, <1>5, <1>6 DEF Quiet

\* A CapabilityWorker step that neither stores nor publishes changes nobody's pending notifications.
LEMMA QuietPending ==
    ASSUME TypeOK, OnRoute, NEW h \in Routes, Quiet(h), NEW i \in Items
    PROVE  Pending(i)' <=> Pending(i)
  <1> DEFINE Bound(r) == capabilityPc[r] = "publish" /\ Head(targets[r]) = i
  <1>1. UNCHANGED publisherQueue
    BY DEF Quiet, StorePop, StoreDiff, StorePush, CapabilityPop, ReadStorage, EvaluateDiff
  <1>2. ASSUME NEW r \in Routes PROVE Bound(r)' <=> Bound(r)
    <2>1. CASE \/ StorePop(h) \/ StoreDiff(h) \/ StorePush(h) \/ ReadStorage(h)
      BY <2>1 DEF StorePop, StoreDiff, StorePush, ReadStorage, capabilityVars, evaluationVars
    <2>2. CASE CapabilityPop(h)
      <3>1. capabilityPc[h] = "wait" /\ capabilityPc'[h] = "data" /\ UNCHANGED targets
        BY <2>2 DEF CapabilityPop, TypeOK, CapabilityTypeOK, evaluationVars
      <3>2. r # h => capabilityPc'[r] = capabilityPc[r]
        BY <2>2, CapabilityPopIds
      <3>3. QED
        BY <3>1, <3>2
    <2>3. CASE EvaluateDiff(h)
      <3>1. capabilityPc[h] = "snapshot" /\ capabilityPc'[h] # "publish"
        BY <2>3 DEF EvaluateDiff, EvaluateNext, TypeOK, CapabilityTypeOK
      <3>2. r # h => capabilityPc'[r] = capabilityPc[r] /\ targets'[r] = targets[r]
        BY <2>3 DEF EvaluateDiff, EvaluateNext, TypeOK, CapabilityTypeOK
      <3>3. QED
        BY <3>1, <3>2
    <2>4. QED
      BY <2>1, <2>2, <2>3 DEF Quiet
  <1>3. i \in Data => (Unannounced(i)' <=> Unannounced(i))
    BY QuietUnannounced
  <1> HIDE DEF Bound
  <1>4. Pending(i) <=> \/ HoldsTarget(publisherQueue, i)
                       \/ i \in Data /\ Unannounced(i)
                       \/ \E r \in Routes : Bound(r)
    BY DEF Pending, Bound
  <1>5. Pending(i)' <=> \/ HoldsTarget(publisherQueue', i)
                        \/ i \in Data /\ Unannounced(i)'
                        \/ \E r \in Routes : Bound(r)'
    BY DEF Pending, Bound
  <1>6. QED
    BY <1>1, <1>2, <1>3, <1>4, <1>5

\* Publishing a data change turns one reason to be pending, unannounced, into another, queued.
LEMMA PublishDataChangePending ==
    ASSUME TypeOK, OnRoute, NEW h \in Routes, PublishDataChange(h), NEW i \in Items
    PROVE  Pending(i)' <=> Pending(i)
  <1> DEFINE x == changedData[h]
  <1>1. x \in Data /\ x \in Items /\ RouteOf[x] = h /\ capabilityPc[h] = "data"
    BY DEF PublishDataChange, TypeOK, CapabilityTypeOK, OnRoute
  <1>2. HoldsTarget(publisherQueue', i) <=> i = x \/ HoldsTarget(publisherQueue, i)
    BY <1>1, PushTargets DEF PublishDataChange
  <1>3. capabilityPc'[h] \notin {"data", "publish"}
    BY DEF PublishDataChange, EvaluateNext, TypeOK, CapabilityTypeOK
  <1>4. \A r \in Routes \ {h} : /\ capabilityPc'[r] = capabilityPc[r]
                                /\ targets'[r] = targets[r]
                                /\ changedData'[r] = changedData[r]
    BY DEF PublishDataChange, EvaluateNext, TypeOK, CapabilityTypeOK
  <1>5. UNCHANGED <<storePc, storeItem, capabilityQueue>>
    BY DEF PublishDataChange, storeVars
  <1>6. ASSUME i \in Data PROVE Unannounced(i)' \/ i = x <=> Unannounced(i) \/ i = x
    BY <1>1, <1>3, <1>4, <1>5, <1>6, RouteAssumption DEF Unannounced
  <1>7. i = x => Unannounced(i)
    BY <1>1 DEF Unannounced
  <1>8. (\E r \in Routes : capabilityPc'[r] = "publish" /\ Head(targets'[r]) = i)
           <=> \E r \in Routes : capabilityPc[r] = "publish" /\ Head(targets[r]) = i
    BY <1>1, <1>3, <1>4
  <1>9. QED
    BY <1>1, <1>2, <1>6, <1>7, <1>8 DEF Pending

\* Publishing a derived change turns one reason to be pending, bound to publish, into another, queued.
LEMMA PublishDerivedChangePending ==
    ASSUME TypeOK, OnRoute, NEW h \in Routes, PublishDerivedChange(h), NEW i \in Items
    PROVE  Pending(i)' <=> Pending(i)
  <1> DEFINE t == Head(targets[h])
  <1>1. targets[h] \in Seq(Derived) /\ targets[h] # <<>> /\ capabilityPc[h] = "publish"
    BY DEF PublishDerivedChange, TypeOK, CapabilityTypeOK
  <1>2. t \in Items
    BY <1>1, TailProperties
  <1>3. HoldsTarget(publisherQueue', i) <=> i = t \/ HoldsTarget(publisherQueue, i)
    BY <1>2, PushTargets DEF PublishDerivedChange
  <1>4. capabilityPc'[h] \notin {"data", "publish"}
    BY DEF PublishDerivedChange, EvaluateNext, TypeOK, CapabilityTypeOK
  <1>5. \A r \in Routes \ {h} : capabilityPc'[r] = capabilityPc[r] /\ targets'[r] = targets[r]
    BY DEF PublishDerivedChange, EvaluateNext, TypeOK, CapabilityTypeOK
  <1>6. UNCHANGED <<storePc, storeItem, capabilityQueue, changedData>>
    BY DEF PublishDerivedChange, storeVars
  <1>7. ASSUME i \in Data PROVE Unannounced(i)' <=> Unannounced(i)
    BY <1>1, <1>4, <1>5, <1>6, <1>7, RouteAssumption DEF Unannounced
  <1>8. (\E r \in Routes : capabilityPc[r] = "publish" /\ Head(targets[r]) = i)
           <=> \/ i = t
               \/ \E r \in Routes : capabilityPc'[r] = "publish" /\ Head(targets'[r]) = i
    BY <1>1, <1>4, <1>5
  <1>9. QED
    BY <1>3, <1>7, <1>8 DEF Pending

\* A store makes a notification of the item pending, and of no other.
LEMMA StoreWritePending ==
    ASSUME TypeOK, OnRoute, NEW h \in Routes, StoreWrite(h), NEW i \in Items
    PROVE  Pending(i)' <=> Pending(i) \/ i = storeItem[h].id
  <1>1. storeItem[h].id \in Data /\ RouteOf[storeItem[h].id] = h
    BY DEF StoreWrite, TypeOK, StoreTypeOK, DataEvent, OnRoute
  <1>2. storePc[h] = "store" /\ storePc'[h] = "push"
    BY DEF StoreWrite, TypeOK, StoreTypeOK
  <1>3. \A r \in Routes \ {h} : storePc'[r] = storePc[r]
    BY DEF StoreWrite, TypeOK, StoreTypeOK
  <1>4. UNCHANGED <<storeItem, capabilityQueue, capabilityPc, changedData, targets, publisherQueue>>
    BY DEF StoreWrite, capabilityVars, evaluationVars
  <1>5. ASSUME i \in Data PROVE Unannounced(i)' <=> Unannounced(i) \/ i = storeItem[h].id
    BY <1>1, <1>2, <1>3, <1>4, <1>5, RouteAssumption DEF Unannounced
  <1>6. QED
    BY <1>1, <1>4, <1>5 DEF Pending

\* Storing a derived value makes its item pending, and no other.
LEMMA EvaluateStorePending ==
    ASSUME TypeOK, NEW h \in Routes, EvaluateStore(h), NEW i \in Items
    PROVE  Pending(i)' <=> Pending(i) \/ i = Head(targets[h])
  <1>1. capabilityPc[h] = "store" /\ capabilityPc'[h] = "publish" /\ UNCHANGED targets
    BY DEF EvaluateStore, TypeOK, CapabilityTypeOK
  <1>2. \A r \in Routes \ {h} : capabilityPc'[r] = capabilityPc[r]
    BY DEF EvaluateStore, TypeOK, CapabilityTypeOK
  <1>3. UNCHANGED <<storePc, storeItem, capabilityQueue, changedData, publisherQueue>>
    BY DEF EvaluateStore, storeVars
  <1>4. ASSUME i \in Data PROVE Unannounced(i)' <=> Unannounced(i)
    <2>1. RouteOf[i] \in Routes
      BY <1>4, RouteAssumption
    <2>2. QED
      BY <2>1, <1>1, <1>2, <1>3 DEF Unannounced
  <1>5. (\E r \in Routes : capabilityPc'[r] = "publish" /\ Head(targets'[r]) = i)
           <=> \/ i = Head(targets[h])
               \/ \E r \in Routes : capabilityPc[r] = "publish" /\ Head(targets[r]) = i
    BY <1>1, <1>2
  <1>6. QED
    BY <1>3, <1>4, <1>5 DEF Pending

\* The publisher takes one notification; one for the same item may remain.
LEMMA PublisherTakePending ==
    ASSUME TypeOK, PublisherTake, NEW i \in Items
    PROVE  LET t == Head(publisherQueue).target
           IN  /\ t \in Items
               /\ Pending(t)
               /\ i # t => (Pending(i)' <=> Pending(i))
  <1> DEFINE t == Head(publisherQueue).target
  <1>1. publisherQueue \in Seq(PublisherEvent) /\ publisherQueue # <<>>
    BY DEF PublisherTake, TypeOK, SharedTypeOK
  <1>2. /\ Len(publisherQueue) \in Nat \ {0}
        /\ DOMAIN publisherQueue = 1 .. Len(publisherQueue)
        /\ Head(publisherQueue) \in PublisherEvent
        /\ Head(publisherQueue) = publisherQueue[1]
        /\ DOMAIN Tail(publisherQueue) = 1 .. Len(publisherQueue) - 1
        /\ \A k \in 1 .. Len(publisherQueue) - 1 :
              Tail(publisherQueue)[k] = publisherQueue[k + 1]
    BY <1>1, TailProperties
  <1>3. t \in Items /\ HoldsTarget(publisherQueue, t)
    BY <1>2 DEF PublisherEvent, HoldsTarget
  <1>4. ASSUME i # t
        PROVE  HoldsTarget(Tail(publisherQueue), i) <=> HoldsTarget(publisherQueue, i)
    <2>1. ASSUME NEW k \in DOMAIN publisherQueue, publisherQueue[k].target = i
          PROVE  \E j \in DOMAIN Tail(publisherQueue) : Tail(publisherQueue)[j].target = i
      <3>1. k # 1
        BY <2>1, <1>2, <1>4
      <3>2. k - 1 \in 1 .. Len(publisherQueue) - 1 /\ (k - 1) + 1 = k
        BY <3>1, <1>2
      <3>3. Tail(publisherQueue)[k - 1] = publisherQueue[k]
        BY <3>2, <1>2
      <3>4. QED
        BY <2>1, <3>2, <3>3, <1>2
    <2>2. ASSUME NEW k \in DOMAIN Tail(publisherQueue), Tail(publisherQueue)[k].target = i
          PROVE  \E j \in DOMAIN publisherQueue : publisherQueue[j].target = i
      <3>1. k + 1 \in DOMAIN publisherQueue /\ Tail(publisherQueue)[k] = publisherQueue[k + 1]
        BY <1>2
      <3>2. QED
        BY <2>2, <3>1
    <2>3. QED
      BY <2>1, <2>2 DEF HoldsTarget
  <1>5. publisherQueue' = Tail(publisherQueue)
    BY DEF PublisherTake
  <1>6. Unannounced(i)' <=> Unannounced(i)
    BY DEF PublisherTake, Unannounced, storeVars, capabilityVars
  <1>7. UNCHANGED <<capabilityPc, targets>>
    BY DEF PublisherTake, capabilityVars, evaluationVars
  <1>8. i # t => (Pending(i)' <=> Pending(i))
    BY <1>4, <1>5, <1>6, <1>7 DEF Pending
  <1>9. Pending(t)
    BY <1>3 DEF Pending
  <1>10. QED
    BY <1>3, <1>8, <1>9
-----------------------------------------------------------------------------
(***************************************************************************)
(* Refinement: every step of the path is a Change, a Look or a stutter of  *)
(* ChangeFeed.                                                             *)
(***************************************************************************)
Dirty == {i \in Items : Pending(i)}

\* An initial state of the path is one of the feed.
LEMMA FeedInitial == Init => Feed!FeedInit
  <1>1. ASSUME Init, NEW i \in Items PROVE ~Pending(i)
    BY <1>1, RouteAssumption DEF Init, Pending, Unannounced, HoldsTarget, HoldsId
  <1>2. QED
    BY <1>1 DEF Init, Feed!FeedInit

\* A step that stores nothing and hands nothing to the publisher.
LEMMA FeedStutter ==
    ASSUME UNCHANGED <<domainStore, published>>,
           \A i \in Items : Pending(i)' <=> Pending(i)
    PROVE  UNCHANGED Feed!feedVars
  <1>1. Dirty' = Dirty
    BY DEF Dirty
  <1>2. QED
    BY <1>1 DEF Feed!feedVars, Dirty

\* A step that stores v for item i and makes its notification pending.
LEMMA FeedChange ==
    ASSUME TypeOK, NEW i \in Items, NEW v \in Values,
           domainStore' = [domainStore EXCEPT ![i] = v], UNCHANGED published,
           \A j \in Items : Pending(j)' <=> Pending(j) \/ j = i
    PROVE  Feed!Change(i, v)
  <1>1. Dirty' = Dirty \cup {i}
    BY DEF Dirty
  <1>2. QED
    BY <1>1 DEF Feed!Change, Dirty

\* Every step of the path is a Change, a Look or a stutter of the feed.
LEMMA FeedStep == ASSUME TypeOK, OnRoute, [Next]_vars
                  PROVE  [Feed!FeedNext]_Feed!feedVars
  <1>1. ASSUME NEW d \in Data, NEW raw \in RawValues, Dispatch(d, raw)
        PROVE  UNCHANGED Feed!feedVars
    <2>1. UNCHANGED <<storePc, storeItem, capabilityQueue, capabilityPc, changedData,
                      targets, publisherQueue, domainStore, published>>
      BY <1>1 DEF Dispatch, capabilityVars, evaluationVars
    <2>2. ASSUME NEW i \in Items PROVE Pending(i)' <=> Pending(i)
      BY <2>1 DEF Pending, Unannounced
    <2>3. QED
      BY <2>1, <2>2, FeedStutter
  <1>2. ASSUME NEW h \in Routes, Quiet(h) PROVE UNCHANGED Feed!feedVars
    <2>1. UNCHANGED <<domainStore, published>>
      BY <1>2 DEF Quiet, StorePop, StoreDiff, StorePush, CapabilityPop, ReadStorage, EvaluateDiff
    <2>2. QED
      BY <1>2, <2>1, QuietPending, FeedStutter
  <1>3. ASSUME NEW h \in Routes, PublishDataChange(h) \/ PublishDerivedChange(h)
        PROVE  UNCHANGED Feed!feedVars
    <2>1. UNCHANGED <<domainStore, published>>
      BY <1>3 DEF PublishDataChange, PublishDerivedChange
    <2>2. QED
      BY <1>3, <2>1, PublishDataChangePending, PublishDerivedChangePending, FeedStutter
  <1>4. ASSUME NEW h \in Routes, StoreWrite(h) PROVE Feed!FeedNext
    <2>1. storeItem[h].id \in Items /\ storeItem[h].value \in Values
      BY <1>4 DEF StoreWrite, TypeOK, StoreTypeOK, DataEvent
    <2>2. /\ domainStore' = [domainStore EXCEPT ![storeItem[h].id] = storeItem[h].value]
          /\ UNCHANGED published
      BY <1>4 DEF StoreWrite
    <2>3. Feed!Change(storeItem[h].id, storeItem[h].value)
      BY <1>4, <2>1, <2>2, StoreWritePending, FeedChange
    <2>4. QED
      BY <2>1, <2>3 DEF Feed!FeedNext
  <1>5. ASSUME NEW h \in Routes, EvaluateStore(h) PROVE Feed!FeedNext
    <2>1. targets[h] \in Seq(Derived) /\ targets[h] # <<>> /\ newValue[h] \in Values
      BY <1>5 DEF EvaluateStore, TypeOK, CapabilityTypeOK
    <2>2. Head(targets[h]) \in Items
      BY <2>1, TailProperties
    <2>3. /\ domainStore' = [domainStore EXCEPT ![Head(targets[h])] = newValue[h]]
          /\ UNCHANGED published
      BY <1>5 DEF EvaluateStore
    <2>4. Feed!Change(Head(targets[h]), newValue[h])
      BY <1>5, <2>1, <2>2, <2>3, EvaluateStorePending, FeedChange
    <2>5. QED
      BY <2>1, <2>2, <2>4 DEF Feed!FeedNext
  <1>6. CASE PublisherTake
    <2> DEFINE t == Head(publisherQueue).target
    <2>1. \A i \in Items : /\ t \in Items
                           /\ Pending(t)
                           /\ i # t => (Pending(i)' <=> Pending(i))
      BY <1>6, PublisherTakePending
    <2>2. published' = [published EXCEPT ![t] = domainStore[t]] /\ UNCHANGED domainStore
      BY <1>6 DEF PublisherTake
    <2>3. publisherQueue \in Seq(PublisherEvent) /\ publisherQueue # <<>>
      BY <1>6 DEF PublisherTake, TypeOK, SharedTypeOK
    <2>4. Head(publisherQueue) \in PublisherEvent
      BY <2>3, TailProperties
    <2>5. t \in Items
      BY <2>4 DEF PublisherEvent
    <2> HIDE DEF t
    <2>6. t \in Dirty
      BY <2>1, <2>5 DEF Dirty
    <2>7. Dirty' \in {Dirty, Dirty \ {t}}
      BY <2>1, <2>5 DEF Dirty
    <2>8. Feed!Look(t)
      BY <2>2, <2>6, <2>7 DEF Feed!Look, Dirty
    <2>9. QED
      BY <2>5, <2>8 DEF Feed!FeedNext
  <1>7. CASE UNCHANGED vars
    <2>1. UNCHANGED <<storePc, storeItem, capabilityQueue, capabilityPc, changedData,
                      targets, publisherQueue, domainStore, published>>
      BY <1>7 DEF vars, storeVars, capabilityVars, evaluationVars
    <2>2. ASSUME NEW i \in Items PROVE Pending(i)' <=> Pending(i)
      BY <2>1 DEF Pending, Unannounced
    <2>3. QED
      BY <2>1, <2>2, FeedStutter
  <1>8. QED
    BY <1>1, <1>2, <1>3, <1>4, <1>5, <1>6, <1>7
       DEF Next, DataStoreWorker, CapabilityWorker, Quiet

(***************************************************************************)
(* The data path implements ChangeFeed: compression and interleaving show  *)
(* the publisher nothing the feed does not promise.                        *)
(***************************************************************************)
THEOREM ImplementsFeed == Spec => FeedsPublisher
  BY TypeCorrect, StaysOnRoute, FeedInitial, FeedStep, PTL DEF Spec, FeedsPublisher, Feed!FeedSpec
-----------------------------------------------------------------------------
(***************************************************************************)
(* Two consequences, proved on the steps of the feed alone.                *)
(***************************************************************************)
LEMMA NoChangeSwallowedStep ==
    ASSUME TypeOK, NoChangeSwallowed, [Feed!FeedNext]_Feed!feedVars
    PROVE  NoChangeSwallowed'
  <1>1. NoChangeSwallowed <=> \A i \in Items : domainStore[i] # published[i] => i \in Dirty
    BY DEF NoChangeSwallowed, Dirty
  <1>2. NoChangeSwallowed' <=> \A i \in Items : domainStore'[i] # published'[i] => i \in Dirty'
    BY DEF NoChangeSwallowed, Dirty
  <1>3. ASSUME NEW i \in Items, NEW v \in Values, Feed!Change(i, v)
        PROVE  /\ domainStore' = [domainStore EXCEPT ![i] = v]
               /\ Dirty' = Dirty \cup {i}
               /\ published' = published
    BY <1>3 DEF Feed!Change, Dirty
  <1>4. ASSUME NEW i \in Items, Feed!Look(i)
        PROVE  /\ published' = [published EXCEPT ![i] = domainStore[i]]
               /\ Dirty' \in {Dirty, Dirty \ {i}}
               /\ domainStore' = domainStore
    BY <1>4 DEF Feed!Look, Dirty
  <1>5. CASE UNCHANGED Feed!feedVars
    <2>1. UNCHANGED <<domainStore, published, Dirty>>
      BY <1>5 DEF Feed!feedVars, Dirty
    <2>2. QED
      BY <2>1, <1>1, <1>2
  <1>6. CASE \E i \in Items, v \in Values : Feed!Change(i, v)
    BY <1>1, <1>2, <1>3, <1>6 DEF TypeOK, SharedTypeOK
  <1>7. CASE \E i \in Items : Feed!Look(i)
    BY <1>1, <1>2, <1>4, <1>7 DEF TypeOK, SharedTypeOK
  <1>8. QED
    BY <1>5, <1>6, <1>7 DEF Feed!FeedNext

\* No step of the feed makes an item dirty before it has a value.
LEMMA NotifiedIsReadableStep ==
    ASSUME TypeOK, NotifiedIsReadable, [Feed!FeedNext]_Feed!feedVars
    PROVE  NotifiedIsReadable'
  <1>1. NotifiedIsReadable <=> \A i \in Dirty : domainStore[i] # NoValue
    BY DEF NotifiedIsReadable, Dirty
  <1>2. NotifiedIsReadable' <=> \A i \in Dirty' : domainStore'[i] # NoValue
    BY DEF NotifiedIsReadable, Dirty
  <1>3. ASSUME NEW i \in Items, NEW v \in Values, Feed!Change(i, v)
        PROVE  NotifiedIsReadable'
    <2>1. domainStore' = [domainStore EXCEPT ![i] = v] /\ Dirty' = Dirty \cup {i}
      BY <1>3 DEF Feed!Change, Dirty
    <2>2. ASSUME NEW j \in Dirty' PROVE domainStore'[j] # NoValue
      <3>1. j \in Items /\ (j = i \/ j \in Dirty)
        BY <2>1 DEF Dirty
      <3>2. domainStore'[j] = IF j = i THEN v ELSE domainStore[j]
        BY <2>1, <3>1 DEF TypeOK, SharedTypeOK
      <3>3. v # NoValue
        BY ItemAssumption
      <3>4. QED
        BY <3>1, <3>2, <3>3, <1>1
    <2>3. QED
      BY <2>2, <1>2
  <1>4. ASSUME NEW i \in Items, Feed!Look(i) PROVE NotifiedIsReadable'
    <2>1. domainStore' = domainStore /\ Dirty' \in {Dirty, Dirty \ {i}}
      BY <1>4 DEF Feed!Look, Dirty
    <2>2. QED
      BY <2>1, <1>1, <1>2
  <1>5. CASE UNCHANGED Feed!feedVars
    <2>1. UNCHANGED <<domainStore, Dirty>>
      BY <1>5 DEF Feed!feedVars, Dirty
    <2>2. QED
      BY <2>1, <1>1, <1>2
  <1>6. QED
    BY <1>3, <1>4, <1>5 DEF Feed!FeedNext

(***************************************************************************)
(* Whatever is compressed, a change the publisher has not seen is still    *)
(* announced to it.                                                        *)
(***************************************************************************)
THEOREM NothingSwallowed == Spec => []NoChangeSwallowed
  <1>1. Init => NoChangeSwallowed
    BY DEF Init, NoChangeSwallowed
  <1>2. QED
    BY <1>1, TypeCorrect, StaysOnRoute, FeedStep, NoChangeSwallowedStep, PTL DEF Spec

(***************************************************************************)
(* A notification is never on its way before there is a value to read.     *)
(***************************************************************************)
THEOREM StoredBeforeNotified == Spec => []NotifiedIsReadable
  <1>1. Init => NotifiedIsReadable
    BY FeedInitial DEF Feed!FeedInit, NotifiedIsReadable
  <1>2. QED
    BY <1>1, TypeCorrect, StaysOnRoute, FeedStep, NotifiedIsReadableStep, PTL DEF Spec
-----------------------------------------------------------------------------
(***************************************************************************)
(* No derived value stays behind its inputs.  Only the workers of its home *)
(* route write it and what it is built from, since whatever a worker       *)
(* evaluates rests on data of its own route; and a worker that waits has   *)
(* nothing left to evaluate.                                               *)
(***************************************************************************)
TargetsOnRoute ==
    \A r \in Routes : \A k \in DOMAIN targets[r] :
        \E d \in RestsOn(targets[r][k]) : d \in Data /\ RouteOf[d] = r

IdleHasNoTarget ==
    \A r \in Routes : capabilityPc[r] \in {"wait", "data"} => targets[r] = <<>>

\* A capability is built from data, a facade from capabilities.
LEMMA RequiredKinds ==
    /\ \A c \in Capabilities : Required(c) \subseteq Data /\ RestsOn(c) = Required(c)
    /\ \A f \in Facades : /\ Required(f) \subseteq Capabilities
                          /\ RestsOn(f) = UNION {Required(c) : c \in Required(f)}
  <1>1. ASSUME NEW c \in Capabilities PROVE Required(c) \subseteq Data /\ RestsOn(c) = Required(c)
    <2>1. RequiredData[c] \in Seq(Data)
      BY MapAssumption
    <2>2. ToSet(RequiredData[c]) \subseteq Data
      BY <2>1, LenProperties, ElementOfSeq DEF ToSet
    <2>3. QED
      BY <2>2 DEF Required, RestsOn
  <1>2. ASSUME NEW f \in Facades
        PROVE  /\ Required(f) \subseteq Capabilities
               /\ RestsOn(f) = UNION {Required(c) : c \in Required(f)}
    <2>1. f \notin Capabilities /\ RequiredCapabilities[f] \in Seq(Capabilities)
      BY MapAssumption, ItemAssumption
    <2>2. ToSet(RequiredCapabilities[f]) \subseteq Capabilities
      BY <2>1, LenProperties, ElementOfSeq DEF ToSet
    <2>3. QED
      BY <2>1, <2>2 DEF Required, RestsOn
  <1>3. QED
    BY <1>1, <1>2

\* No derived item is built from itself, and what its inputs rest on, it rests on.
LEMMA InputsOf ==
    ASSUME NEW t \in Derived, NEW i \in Required(t)
    PROVE  /\ i # t
           /\ i \in Data \cup Capabilities
           /\ i \in Data => t \in Capabilities /\ i \in RestsOn(t)
           /\ i \in Capabilities => t \in Facades /\ RestsOn(i) \subseteq RestsOn(t)
  <1>1. CASE t \in Capabilities
    BY <1>1, RequiredKinds, ItemAssumption
  <1>2. CASE t \in Facades
    BY <1>2, RequiredKinds, ItemAssumption
  <1>3. QED
    BY <1>1, <1>2

\* What the snapshot reads covers every input (SnapshotBuilder, FacadeManager).
LEMMA ReadPlanCovers ==
    ASSUME NEW t \in Derived, NEW i \in Required(t)
    PROVE  \E k \in DOMAIN ReadPlan(t) : i \in ReadPlan(t)[k]
  <1>1. CASE t \in Capabilities
    <2>1. i \in Data /\ DomainOf[i] \in ToSet(SnapshotDomains[t])
      BY <1>1, RequiredKinds, MapAssumption
    <2>2. PICK k \in DOMAIN SnapshotDomains[t] : SnapshotDomains[t][k] = DomainOf[i]
      BY <2>1 DEF ToSet
    <2>3. ReadPlan(t) = [j \in DOMAIN SnapshotDomains[t] |->
                            {d \in Data : DomainOf[d] = SnapshotDomains[t][j]}]
      BY <1>1 DEF ReadPlan
    <2>4. QED
      BY <2>1, <2>2, <2>3
  <1>2. CASE t \in Facades
    <2>1. t \notin Capabilities
      BY <1>2, ItemAssumption
    <2>2. PICK k \in DOMAIN RequiredCapabilities[t] : RequiredCapabilities[t][k] = i
      BY <2>1 DEF Required, ToSet
    <2>3. ReadPlan(t) = [j \in DOMAIN RequiredCapabilities[t] |-> {RequiredCapabilities[t][j]}]
      BY <2>1 DEF ReadPlan
    <2>4. QED
      BY <2>2, <2>3
  <1>3. QED
    BY <1>1, <1>2

\* A worker that evaluates an item, or an input of it, is that of its home route.
LEMMA OneHome ==
    ASSUME TargetsOnRoute, NEW t \in Derived, NEW r \in Routes, HomeRoute(t, r),
           NEW h \in Routes, NEW k \in DOMAIN targets[h],
           targets[h][k] = t \/ targets[h][k] \in Required(t),
           targets[h][k] \in Derived
    PROVE  h = r
  <1>1. PICK d \in RestsOn(targets[h][k]) : d \in Data /\ RouteOf[d] = h
    BY DEF TargetsOnRoute
  <1>2. RestsOn(targets[h][k]) \subseteq RestsOn(t)
    BY InputsOf, ItemAssumption
  <1>3. QED
    BY <1>1, <1>2 DEF HomeRoute

\* What EvaluateNext leaves alone, and what it sets.
LEMMA EvaluateNextSets ==
    ASSUME TypeOK, NEW h \in Routes, NEW left, EvaluateNext(h, left)
    PROVE  /\ \A r \in Routes \ {h} :
                 /\ capabilityPc'[r] = capabilityPc[r] /\ targets'[r] = targets[r]
                 /\ reads'[r] = reads[r] /\ snapshot'[r] = snapshot[r]
                 /\ newValue'[r] = newValue[r]
           /\ targets'[h] = left
           /\ left # <<>> => capabilityPc'[h] = "snapshot" /\ reads'[h] = ReadPlan(Head(left))
           /\ left = <<>> => capabilityPc'[h] = "wait"
  BY DEF EvaluateNext, TypeOK, CapabilityTypeOK

\* Whatever is on the worker's list is going to be evaluated.
LEMMA ListedIsScheduled ==
    ASSUME TypeOK, NEW h \in Routes, NEW left \in Seq(Derived), EvaluateNext(h, left),
           NEW t \in Derived, NEW k \in DOMAIN left, left[k] = t
    PROVE  Scheduled(t, h)'
  <1>1. DOMAIN left = 1 .. Len(left) /\ Len(left) \in Nat /\ left # <<>>
    BY LenProperties, EmptySeq
  <1>2. /\ targets'[h] = left /\ capabilityPc'[h] = "snapshot"
        /\ reads'[h] = ReadPlan(Head(left))
    BY <1>1, EvaluateNextSets
  <1>3. CASE k = 1
    <2>1. Head(left) = t
      BY <1>1, <1>3, TailProperties
    <2>2. \A i \in Required(t) : \E j \in DOMAIN reads'[h] : i \in reads'[h][j]
      BY <1>2, <2>1, ReadPlanCovers
    <2>3. CurrentSoFar(t, h)'
      BY <2>2 DEF CurrentSoFar
    <2>4. QED
      BY <1>2, <2>1, <2>3 DEF Scheduled
  <1>4. CASE k # 1
    <2>1. k \in 2 .. Len(targets'[h]) /\ targets'[h][k] = t
      BY <1>1, <1>2, <1>4
    <2>2. QED
      BY <2>1 DEF Scheduled
  <1>5. QED
    BY <1>3, <1>4

(***************************************************************************)
(* What the worker of the home route has gathered for t, or has decided to *)
(* store, is still what t should be, or an input of t is to be announced   *)
(* to it: whether or not t happens to be up to date by then.               *)
(***************************************************************************)
CurrentOf(t, r) ==
    HomeRoute(t, r) /\ capabilityPc[r] \in {"snapshot", "store"} /\ Head(targets[r]) = t =>
        \/ \E i \in Required(t) : i \in Data /\ Unannounced(i)
        \/ capabilityPc[r] = "snapshot" /\ CurrentSoFar(t, r)
        \/ capabilityPc[r] = "store" /\ newValue[r] = BuiltFrom(t, domainStore)

\* If inputs of t are stored, t is up to date with them or will be.
FreshOf(t, r) ==
    /\ HomeRoute(t, r) /\ (\E i \in Required(t) : domainStore[i] # NoValue)
           => UpToDate(t) \/ Scheduled(t, r)
    /\ CurrentOf(t, r)

Fresh == \A t \in Derived, r \in Routes : FreshOf(t, r)

\* A target just turned to has everything still to be read.
LEMMA NextIsCurrent ==
    ASSUME TypeOK, NEW h \in Routes, NEW left \in Seq(Derived), EvaluateNext(h, left),
           NEW t \in Derived
    PROVE  CurrentOf(t, h)'
  <1>1. ASSUME capabilityPc'[h] \in {"snapshot", "store"}, Head(targets'[h]) = t
        PROVE  capabilityPc'[h] = "snapshot" /\ CurrentSoFar(t, h)'
    <2>1. left # <<>> /\ targets'[h] = left
      BY <1>1, EvaluateNextSets
    <2>2. capabilityPc'[h] = "snapshot" /\ reads'[h] = ReadPlan(t)
      BY <1>1, <2>1, EvaluateNextSets
    <2>3. QED
      BY <2>2, ReadPlanCovers DEF CurrentSoFar
  <1>2. QED
    BY <1>1 DEF CurrentOf

\* A step that is no business of t and of the worker of its home route.
LEMMA FreshFrame ==
    ASSUME TypeOK, NEW t \in Derived, NEW r \in Routes, FreshOf(t, r),
           domainStore'[t] = domainStore[t],
           \A i \in Required(t) : domainStore'[i] = domainStore[i],
           HomeRoute(t, r) => \A i \in Required(t) \cap Data : Unannounced(i) => Unannounced(i)',
           UNCHANGED <<targets[r], reads[r], snapshot[r], newValue[r]>>,
           \/ capabilityPc'[r] = capabilityPc[r]
           \/ capabilityPc[r] = "wait" /\ capabilityPc'[r] = "data"
    PROVE  FreshOf(t, r)'
  <1>1. BuiltFrom(t, domainStore)' = BuiltFrom(t, domainStore)
    <2>1. [i \in Required(t) |-> domainStore'[i]] = [i \in Required(t) |-> domainStore[i]]
      OBVIOUS
    <2>2. QED
      BY <2>1 DEF BuiltFrom
  <1>2. UpToDate(t)' <=> UpToDate(t)
    BY <1>1 DEF UpToDate
  <1>3. CurrentSoFar(t, r) => CurrentSoFar(t, r)'
    BY DEF CurrentSoFar
  <1>4. HomeRoute(t, r) /\ Scheduled(t, r) => Scheduled(t, r)'
    BY <1>1, <1>3 DEF Scheduled
  <1>5. CurrentOf(t, r)'
    BY <1>1, <1>3 DEF FreshOf, CurrentOf
  <1>6. QED
    BY <1>2, <1>4, <1>5 DEF FreshOf

\* A notification, a dispatch and the hand-over between the two workers of a route.
LEMMA FreshQuiet ==
    ASSUME TypeOK, NEW t \in Derived, NEW r \in Routes, FreshOf(t, r),
           \/ PublisherTake
           \/ \E d \in Data, raw \in RawValues : Dispatch(d, raw)
           \/ UNCHANGED vars
           \/ \E h \in Routes : StorePop(h) \/ StoreDiff(h) \/ StorePush(h) \/ CapabilityPop(h)
    PROVE  FreshOf(t, r)'
  <1>1. UNCHANGED <<domainStore, targets, reads, snapshot, newValue>>
    BY DEF PublisherTake, Dispatch, vars, StorePop, StoreDiff, StorePush, CapabilityPop,
           evaluationVars
  <1>2. ASSUME NEW i \in Data PROVE Unannounced(i) => Unannounced(i)'
    <2>1. CASE \/ PublisherTake
               \/ \E d \in Data, raw \in RawValues : Dispatch(d, raw)
               \/ UNCHANGED vars
      BY <2>1 DEF PublisherTake, Dispatch, vars, storeVars, capabilityVars, Unannounced
    <2>2. CASE \E h \in Routes : StorePop(h) \/ StoreDiff(h) \/ StorePush(h) \/ CapabilityPop(h)
      BY <2>2, QuietUnannounced DEF Quiet
    <2>3. QED
      BY <2>1, <2>2
  <1>3. \/ capabilityPc'[r] = capabilityPc[r]
        \/ capabilityPc[r] = "wait" /\ capabilityPc'[r] = "data"
    BY DEF PublisherTake, Dispatch, vars, StorePop, StoreDiff, StorePush, CapabilityPop,
           capabilityVars, TypeOK, CapabilityTypeOK
  <1>4. t \in Items /\ Required(t) \subseteq Items
    BY RequiredAreItems
  <1>5. QED
    BY <1>1, <1>2, <1>3, <1>4, FreshFrame

\* A store that t depends on is still to be announced to the worker.
LEMMA FreshStoreWrite ==
    ASSUME TypeOK, NEW t \in Derived, NEW r \in Routes, FreshOf(t, r),
           NEW h \in Routes, StoreWrite(h), OnRoute
    PROVE  FreshOf(t, r)'
  <1>0. PICK x \in Data : x = storeItem[h].id
    BY DEF StoreWrite, TypeOK, StoreTypeOK, DataEvent
  <1>1. RouteOf[x] = h
    BY <1>0 DEF OnRoute
  <1>2. storePc'[h] = "push" /\ storeItem' = storeItem /\ storePc[h] = "store"
        /\ \A k \in Routes \ {h} : storePc'[k] = storePc[k]
    BY DEF StoreWrite, TypeOK, StoreTypeOK
  <1>3. UNCHANGED <<capabilityQueue, capabilityPc, changedData, targets, reads, snapshot, newValue>>
    BY DEF StoreWrite, capabilityVars, evaluationVars
  <1>4. \A i \in Items : i # x => domainStore'[i] = domainStore[i]
    BY <1>0 DEF StoreWrite, TypeOK, SharedTypeOK
  <1>5. CASE x \in Required(t)
    <2>1. Unannounced(x)'
      BY <1>0, <1>1, <1>2 DEF Unannounced
    <2>2. \E i \in Required(t) : i \in Data /\ Unannounced(i)'
      BY <1>1, <1>5, <2>1
    <2>3. Scheduled(t, r)' /\ CurrentOf(t, r)'
      BY <2>2 DEF Scheduled, CurrentOf
    <2>4. QED
      BY <2>3 DEF FreshOf
  <1>6. CASE x \notin Required(t)
    <2>1. x # t /\ t \in Items /\ Required(t) \subseteq Items
      BY <1>1, ItemAssumption, RequiredAreItems
    <2>2. \A i \in Data : Unannounced(i) => Unannounced(i)'
      BY <1>2, <1>3, RouteAssumption DEF Unannounced
    <2>3. domainStore'[t] = domainStore[t] /\ \A i \in Required(t) : domainStore'[i] = domainStore[i]
      BY <1>4, <1>6, <2>1
    <2>4. QED
      BY <1>3, <2>2, <2>3, FreshFrame
  <1>7. QED
    BY <1>5, <1>6

\* A snapshot under way stays current as it reads on.
LEMMA FreshReadStorage ==
    ASSUME TypeOK, NEW t \in Derived, NEW r \in Routes, FreshOf(t, r),
           NEW h \in Routes, ReadStorage(h)
    PROVE  FreshOf(t, r)'
  <1>1. UNCHANGED <<domainStore, targets, newValue, capabilityPc>>
        /\ \A i \in Data : Unannounced(i) => Unannounced(i)'
    BY DEF ReadStorage, capabilityVars, storeVars, Unannounced
  <1>2. CASE h # r
    <2>1. reads'[r] = reads[r] /\ snapshot'[r] = snapshot[r]
      BY <1>2 DEF ReadStorage, TypeOK, CapabilityTypeOK
    <2>2. QED
      BY <1>1, <2>1, FreshFrame
  <1>3. CASE h = r
    <2>1. /\ reads[r] \in Seq(SUBSET Items) /\ reads[r] # <<>>
          /\ reads'[r] = Tail(reads[r])
          /\ snapshot'[r] = [i \in Items |-> IF i \in Head(reads[r]) THEN domainStore[i]
                                             ELSE snapshot[r][i]]
      BY <1>3 DEF ReadStorage, TypeOK, CapabilityTypeOK
    <2>2. /\ DOMAIN reads[r] = 1 .. Len(reads[r]) /\ Len(reads[r]) \in Nat
          /\ Head(reads[r]) = reads[r][1]
          /\ DOMAIN Tail(reads[r]) = 1 .. Len(reads[r]) - 1
          /\ \A k \in 1 .. Len(reads[r]) - 1 : Tail(reads[r])[k] = reads[r][k + 1]
      BY <2>1, TailProperties
    <2>3. ASSUME NEW i \in Required(t),
                 (\E k \in DOMAIN reads[r] : i \in reads[r][k]) \/ snapshot[r][i] = domainStore[i]
          PROVE  (\E k \in DOMAIN reads'[r] : i \in reads'[r][k]) \/ snapshot'[r][i] = domainStore[i]
      <3>1. i \in Items
        BY RequiredAreItems
      <3>2. CASE i \in Head(reads[r]) \/ snapshot[r][i] = domainStore[i]
        BY <2>1, <3>1, <3>2
      <3>3. CASE i \notin Head(reads[r]) /\ \E k \in DOMAIN reads[r] : i \in reads[r][k]
        <4>1. PICK k \in DOMAIN reads[r] : i \in reads[r][k]
          BY <3>3
        <4>2. k - 1 \in 1 .. Len(reads[r]) - 1 /\ (k - 1) + 1 = k
          BY <2>2, <3>3, <4>1
        <4>3. QED
          BY <2>1, <2>2, <4>1, <4>2
      <3>4. QED
        BY <2>3, <3>2, <3>3
    <2>4. CurrentSoFar(t, r) => CurrentSoFar(t, r)'
      BY <1>1, <2>3 DEF CurrentSoFar
    <2>5. UpToDate(t)' <=> UpToDate(t)
      BY <1>1 DEF UpToDate, BuiltFrom
    <2>6. Scheduled(t, r) => Scheduled(t, r)'
      BY <1>1, <2>4 DEF Scheduled, BuiltFrom
    <2>7. CurrentOf(t, r)'
      BY <1>1, <2>4 DEF FreshOf, CurrentOf, BuiltFrom
    <2>8. QED
      BY <1>1, <2>5, <2>6, <2>7 DEF FreshOf
  <1>4. QED
    BY <1>2, <1>3

\* What PublishDataChange announces, every capability that depends on it is
\* going to be evaluated from.
LEMMA FreshPublishDataChange ==
    ASSUME TypeOK, OnRoute, IdleHasNoTarget, NEW t \in Derived, NEW r \in Routes, FreshOf(t, r),
           NEW h \in Routes, PublishDataChange(h)
    PROVE  FreshOf(t, r)'
  <1> DEFINE x == changedData[h]
             left == CapabilityDependencies[x]
  <1>1. x \in Data /\ RouteOf[x] = h /\ capabilityPc[h] = "data" /\ targets[h] = <<>>
    BY DEF PublishDataChange, TypeOK, CapabilityTypeOK, OnRoute, IdleHasNoTarget
  <1>2. left \in Seq(Derived) /\ EvaluateNext(h, left)
    BY <1>1, DependentCapabilitiesType DEF PublishDataChange
  <1>3. UNCHANGED <<domainStore, storePc, storeItem, capabilityQueue>>
        /\ \A k \in Routes \ {h} : changedData'[k] = changedData[k]
    BY DEF PublishDataChange, storeVars, TypeOK, CapabilityTypeOK
  <1>4. \A k \in Routes \ {h} :
           /\ capabilityPc'[k] = capabilityPc[k] /\ targets'[k] = targets[k]
           /\ reads'[k] = reads[k] /\ snapshot'[k] = snapshot[k] /\ newValue'[k] = newValue[k]
    BY <1>2, EvaluateNextSets
  <1>5. \A i \in Data : i # x /\ Unannounced(i) => Unannounced(i)'
    BY <1>1, <1>3, <1>4, RouteAssumption DEF Unannounced
  <1>6. CASE r # h
    <2>1. HomeRoute(t, r) => x \notin Required(t)
      BY <1>1, <1>6, InputsOf DEF HomeRoute
    <2>2. HomeRoute(t, r) => \A i \in Required(t) \cap Data : Unannounced(i) => Unannounced(i)'
      BY <1>5, <2>1
    <2>3. QED
      BY <1>3, <1>4, <1>6, <2>2, FreshFrame
  <1>7. CASE r = h
    <2>0. CurrentOf(t, r)'
      BY <1>2, <1>7, NextIsCurrent
    <2>1. UpToDate(t)' <=> UpToDate(t)
      BY <1>3 DEF UpToDate, BuiltFrom
    <2>2. CASE x \in Required(t)
      <3>1. t \in Capabilities
        BY <1>1, <2>2, InputsOf
      <3>2. PICK k \in DOMAIN left : left[k] = t
        BY <1>1, <2>2, <3>1, MapAssumption DEF ToSet
      <3>3. Scheduled(t, h)'
        BY <1>2, <3>2, ListedIsScheduled
      <3>4. QED
        BY <1>7, <2>0, <3>3 DEF FreshOf
    <2>3. CASE x \notin Required(t)
      <3>1. Len(targets[r]) = 0
        BY <1>1, <1>7
      <3>2. Scheduled(t, r) => \E i \in Required(t) : i \in Data /\ Unannounced(i)
        BY <1>1, <1>7, <3>1 DEF Scheduled
      <3>3. Scheduled(t, r) => \E i \in Required(t) : i \in Data /\ Unannounced(i)'
        BY <1>5, <2>3, <3>2
      <3>4. Scheduled(t, r) => Scheduled(t, r)'
        BY <3>3 DEF Scheduled
      <3>5. QED
        BY <1>3, <2>0, <2>1, <3>4 DEF FreshOf
    <2>4. QED
      BY <2>2, <2>3
  <1>8. QED
    BY <1>6, <1>7

\* What is left of the list after its first target is still scheduled.
LEMMA RestIsScheduled ==
    ASSUME TypeOK, NEW h \in Routes, NEW front \in Seq(Derived), targets[h] # <<>>,
           EvaluateNext(h, front \o Tail(targets[h])),
           NEW t \in Derived, NEW k \in 2 .. Len(targets[h]), targets[h][k] = t
    PROVE  Scheduled(t, h)'
  <1> DEFINE rest == Tail(targets[h])
             left == front \o rest
  <1>1. targets[h] \in Seq(Derived)
    BY DEF TypeOK, CapabilityTypeOK
  <1>2. /\ Len(targets[h]) \in Nat \ {0}
        /\ rest \in Seq(Derived) /\ DOMAIN rest = 1 .. Len(targets[h]) - 1
        /\ \A j \in 1 .. Len(targets[h]) - 1 : rest[j] = targets[h][j + 1]
    BY <1>1, TailProperties
  <1>3. Len(rest) = Len(targets[h]) - 1
    BY <1>1, HeadTailProperties
  <1>4. Len(front) \in Nat
    BY LenProperties
  <1> HIDE DEF rest
  <1>5. /\ left \in Seq(Derived) /\ Len(left) = Len(front) + Len(rest)
        /\ \A j \in 1 .. Len(front) + Len(rest) :
              left[j] = IF j <= Len(front) THEN front[j] ELSE rest[j - Len(front)]
    BY <1>2, ConcatProperties
  <1> DEFINE j == Len(front) + (k - 1)
  <1>6. /\ k - 1 \in 1 .. Len(targets[h]) - 1 /\ (k - 1) + 1 = k
        /\ j \in 1 .. Len(front) + Len(rest) /\ ~(j <= Len(front)) /\ j - Len(front) = k - 1
    BY <1>2, <1>3, <1>4
  <1>7. rest[k - 1] = t
    BY <1>2, <1>6
  <1>8. left[j] = t
    BY <1>5, <1>6, <1>7
  <1>9. DOMAIN left = 1 .. Len(front) + Len(rest)
    BY <1>5, LenProperties
  <1>10. j \in DOMAIN left
    BY <1>6, <1>9
  <1>11. EvaluateNext(h, left)
    BY DEF rest
  <1> HIDE DEF left, j
  <1>12. QED
    BY <1>5, <1>8, <1>10, <1>11, ListedIsScheduled

\* A value found unchanged was built from current inputs, and so is one that
\* is going to be stored, unless an input is to be announced.
LEMMA FreshEvaluateDiff ==
    ASSUME TypeOK, NEW t \in Derived, NEW r \in Routes, FreshOf(t, r),
           NEW h \in Routes, EvaluateDiff(h)
    PROVE  FreshOf(t, r)'
  <1> DEFINE x == Head(targets[h])
             value == BuiltFrom(x, snapshot[h])
  <1>1. /\ capabilityPc[h] = "snapshot" /\ reads[h] = <<>>
        /\ targets[h] \in Seq(Derived) /\ targets[h] # <<>>
        /\ Tail(targets[h]) \in Seq(Derived)
        /\ UNCHANGED domainStore
    <2>1. targets[h] \in Seq(Derived) /\ targets[h] # <<>>
      BY DEF EvaluateDiff, TypeOK, CapabilityTypeOK
    <2>2. QED
      BY <2>1, TailProperties DEF EvaluateDiff
  <1>2. \A i \in Data : Unannounced(i) => Unannounced(i)'
    BY QuietUnannounced DEF Quiet
  <1>3. UpToDate(t)' <=> UpToDate(t)
    BY <1>1 DEF UpToDate, BuiltFrom
  <1>4. CASE domainStore[x] = value
    <2>1. EvaluateNext(h, Tail(targets[h]))
      BY <1>4 DEF EvaluateDiff
    <2>2. CASE r # h
      BY <1>1, <1>2, <2>1, <2>2, EvaluateNextSets, FreshFrame
    <2>3. CASE r = h
      <3>1. CurrentOf(t, r)'
        BY <1>1, <2>1, <2>3, NextIsCurrent
      <3>2. ASSUME HomeRoute(t, r), Scheduled(t, r) PROVE UpToDate(t) \/ Scheduled(t, r)'
        <4>1. CASE \E i \in Required(t) : i \in Data /\ Unannounced(i)
          <5>1. \E i \in Required(t) : i \in Data /\ Unannounced(i)'
            BY <1>2, <4>1
          <5>2. QED
            BY <5>1 DEF Scheduled
        <4>2. CASE \E k \in 2 .. Len(targets[r]) : targets[r][k] = t
          <5>1. <<>> \in Seq(Derived) /\ <<>> \o Tail(targets[h]) = Tail(targets[h])
            BY <1>1, EmptySeq, ConcatEmptySeq
          <5>2. EvaluateNext(h, <<>> \o Tail(targets[h]))
            BY <2>1, <5>1
          <5>3. QED
            BY <1>1, <2>3, <4>2, <5>1, <5>2, RestIsScheduled
        <4>3. CASE x = t /\ CurrentSoFar(t, r)
          <5>1. \A i \in Required(t) : snapshot[r][i] = domainStore[i]
            BY <1>1, <2>3, <4>3 DEF CurrentSoFar
          <5>2. [i \in Required(t) |-> snapshot[r][i]] = [i \in Required(t) |-> domainStore[i]]
            BY <5>1
          <5>3. value = BuiltFrom(t, domainStore)
            BY <2>3, <4>3, <5>2 DEF BuiltFrom
          <5>4. QED
            BY <1>4, <4>3, <5>3 DEF UpToDate
        <4>4. QED
          BY <1>1, <2>3, <3>2, <4>1, <4>2, <4>3 DEF Scheduled
      <3>3. QED
        BY <1>1, <1>3, <3>1, <3>2 DEF FreshOf
    <2>4. QED
      BY <2>2, <2>3
  <1>5. CASE domainStore[x] # value
    <2> HIDE DEF x, value
    <2>1. /\ newValue' = [newValue EXCEPT ![h] = value]
          /\ snapshot' = [snapshot EXCEPT ![h] = EmptySnapshot]
          /\ capabilityPc' = [capabilityPc EXCEPT ![h] = "store"]
          /\ UNCHANGED <<targets, reads>>
      BY <1>5 DEF EvaluateDiff, x, value
    <2>2. CASE r # h
      <3>1. /\ newValue'[r] = newValue[r] /\ snapshot'[r] = snapshot[r]
            /\ capabilityPc'[r] = capabilityPc[r]
        BY <2>1, <2>2 DEF TypeOK, CapabilityTypeOK
      <3>2. QED
        BY <1>1, <1>2, <2>1, <3>1, FreshFrame
    <2>3. CASE r = h
      <3>1. newValue'[r] = value /\ capabilityPc'[r] = "store"
        BY <2>1, <2>3 DEF TypeOK, CapabilityTypeOK
      <3>2. ASSUME Head(targets[r]) = t, CurrentSoFar(t, r)
            PROVE  newValue'[r] = BuiltFrom(t, domainStore)'
        <4>1. \A i \in Required(t) : snapshot[r][i] = domainStore[i]
          BY <1>1, <2>3, <3>2 DEF CurrentSoFar
        <4>2. [i \in Required(t) |-> snapshot[r][i]] = [i \in Required(t) |-> domainStore[i]]
          BY <4>1
        <4>3. value = BuiltFrom(t, domainStore)
          BY <2>3, <3>2, <4>2 DEF BuiltFrom, value, x
        <4>4. BuiltFrom(t, domainStore)' = BuiltFrom(t, domainStore)
          BY <1>1 DEF BuiltFrom
        <4>5. QED
          BY <3>1, <4>3, <4>4
      <3>3. Scheduled(t, r) => Scheduled(t, r)'
        <4>1. ASSUME \E i \in Required(t) : i \in Data /\ Unannounced(i)
              PROVE  Scheduled(t, r)'
          <5>1. \E i \in Required(t) : i \in Data /\ Unannounced(i)'
            BY <1>2, <4>1
          <5>2. QED
            BY <5>1 DEF Scheduled
        <4>2. ASSUME \E k \in 2 .. Len(targets[r]) : targets[r][k] = t
              PROVE  Scheduled(t, r)'
          BY <2>1, <4>2 DEF Scheduled
        <4>3. ASSUME Head(targets[r]) = t, CurrentSoFar(t, r)
              PROVE  Scheduled(t, r)'
          BY <2>1, <3>1, <3>2, <4>3 DEF Scheduled
        <4>4. QED
          BY <1>1, <2>3, <4>1, <4>2, <4>3 DEF Scheduled
      <3>4. CurrentOf(t, r)'
        <4>1. ASSUME HomeRoute(t, r), Head(targets[r]) = t
              PROVE  (\E i \in Required(t) : i \in Data /\ Unannounced(i)) \/ CurrentSoFar(t, r)
          BY <1>1, <2>3, <4>1 DEF FreshOf, CurrentOf
        <4>2. QED
          BY <1>2, <2>1, <3>1, <3>2, <4>1 DEF CurrentOf
      <3>5. QED
        BY <1>1, <1>3, <3>3, <3>4 DEF FreshOf
    <2>4. QED
      BY <2>2, <2>3
  <1>6. QED
    BY <1>4, <1>5

\* The value stored is current, and the facades of a capability are bound to follow.
LEMMA FreshEvaluateStore ==
    ASSUME TypeOK, TargetsOnRoute, NEW t \in Derived, NEW r \in Routes, FreshOf(t, r),
           NEW h \in Routes, EvaluateStore(h)
    PROVE  FreshOf(t, r)'
  <1>0. /\ targets[h] \in Seq(Derived) /\ targets[h] # <<>> /\ capabilityPc[h] = "store"
    BY DEF EvaluateStore, TypeOK, CapabilityTypeOK
  <1>1. PICK x \in Derived : x = Head(targets[h]) /\ x = targets[h][1] /\ 1 \in DOMAIN targets[h]
    BY <1>0, TailProperties
  <1>2. /\ UNCHANGED <<targets, reads, snapshot>>
        /\ capabilityPc' = [capabilityPc EXCEPT ![h] = "publish"]
        /\ newValue' = [newValue EXCEPT ![h] = NoValue]
        /\ domainStore' = [domainStore EXCEPT ![x] = newValue[h]]
    BY <1>1 DEF EvaluateStore
  <1>3. /\ domainStore'[x] = newValue[h]
        /\ \A i \in Items : i # x => domainStore'[i] = domainStore[i]
        /\ capabilityPc'[h] = "publish"
    BY <1>2 DEF TypeOK, SharedTypeOK, CapabilityTypeOK
  <1>4. \A i \in Data : Unannounced(i) => Unannounced(i)'
    <2>1. UNCHANGED <<storePc, storeItem, capabilityQueue, changedData>>
      BY DEF EvaluateStore, storeVars
    <2>2. \A k \in Routes : capabilityPc[k] = "data" => capabilityPc'[k] = "data"
      BY <1>0, <1>2 DEF TypeOK, CapabilityTypeOK
    <2>3. QED
      BY <2>1, <2>2, RouteAssumption DEF Unannounced
  <1>5. t \in Items /\ Required(t) \subseteq Items /\ t \notin Required(t)
    BY RequiredAreItems, InputsOf
  <1>6. HomeRoute(t, r) /\ (x = t \/ x \in Required(t)) => h = r
    BY <1>1, OneHome
  <1>7. CASE x = t
    <2>1. BuiltFrom(t, domainStore)' = BuiltFrom(t, domainStore)
      <3>1. [i \in Required(t) |-> domainStore'[i]] = [i \in Required(t) |-> domainStore[i]]
        BY <1>3, <1>5, <1>7
      <3>2. QED
        BY <3>1 DEF BuiltFrom
    <2>2. ASSUME HomeRoute(t, r) PROVE UpToDate(t)' \/ Scheduled(t, r)'
      <3>1. h = r
        BY <1>6, <1>7, <2>2
      <3>2. CASE \E i \in Required(t) : i \in Data /\ Unannounced(i)
        <4>1. \E i \in Required(t) : i \in Data /\ Unannounced(i)'
          BY <1>4, <3>2
        <4>2. QED
          BY <4>1 DEF Scheduled
      <3>3. CASE newValue[r] = BuiltFrom(t, domainStore)
        BY <1>3, <1>7, <2>1, <3>1, <3>3 DEF UpToDate
      <3>4. QED
        BY <1>0, <1>1, <1>7, <2>2, <3>1, <3>2, <3>3 DEF FreshOf, CurrentOf
    <2>3. CurrentOf(t, r)'
      BY <1>3, <1>6, <1>7 DEF CurrentOf
    <2>4. QED
      BY <2>2, <2>3 DEF FreshOf
  <1>8. CASE x \in Required(t)
    <2>1. x # t
      BY <1>5, <1>8
    <2>2. ASSUME HomeRoute(t, r) PROVE Scheduled(t, r)' /\ CurrentOf(t, r)'
      <3>1. h = r
        BY <1>6, <1>8, <2>2
      <3>2. capabilityPc'[r] = "publish" /\ Head(targets'[r]) = x
        BY <1>1, <1>2, <1>3, <3>1
      <3>3. QED
        BY <1>8, <3>2 DEF Scheduled, CurrentOf
    <2>3. QED
      BY <2>2 DEF FreshOf, CurrentOf
  <1>9. CASE x # t /\ x \notin Required(t)
    <2>1. domainStore'[t] = domainStore[t] /\ \A i \in Required(t) : domainStore'[i] = domainStore[i]
      BY <1>3, <1>5, <1>9
    <2>2. CASE r # h
      <3>1. capabilityPc'[r] = capabilityPc[r] /\ newValue'[r] = newValue[r]
        BY <1>2, <2>2 DEF TypeOK, CapabilityTypeOK
      <3>2. QED
        BY <1>2, <1>4, <2>1, <3>1, FreshFrame
    <2>3. CASE r = h
      <3>1. Head(targets[r]) # t
        BY <1>1, <1>9, <2>3
      <3>2. UpToDate(t)' <=> UpToDate(t)
        <4>1. [i \in Required(t) |-> domainStore'[i]] = [i \in Required(t) |-> domainStore[i]]
          BY <2>1
        <4>2. QED
          BY <2>1, <4>1 DEF UpToDate, BuiltFrom
      <3>3. Scheduled(t, r) => Scheduled(t, r)'
        <4>1. ASSUME \E i \in Required(t) : i \in Data /\ Unannounced(i)
              PROVE  Scheduled(t, r)'
          <5>1. \E i \in Required(t) : i \in Data /\ Unannounced(i)'
            BY <1>4, <4>1
          <5>2. QED
            BY <5>1 DEF Scheduled
        <4>2. ASSUME \E k \in 2 .. Len(targets[r]) : targets[r][k] = t
              PROVE  Scheduled(t, r)'
          BY <1>2, <4>2 DEF Scheduled
        <4>3. QED
          BY <1>0, <2>3, <3>1, <4>1, <4>2 DEF Scheduled
      <3>4. CurrentOf(t, r)'
        BY <1>3, <2>3 DEF CurrentOf
      <3>5. QED
        BY <2>1, <3>2, <3>3, <3>4 DEF FreshOf
    <2>4. QED
      BY <2>2, <2>3
  <1>10. QED
    BY <1>7, <1>8, <1>9

\* What PublishDerivedChange announces, the facades of a capability are going
\* to be evaluated from.
LEMMA FreshPublishDerivedChange ==
    ASSUME TypeOK, TargetsOnRoute, NEW t \in Derived, NEW r \in Routes, FreshOf(t, r),
           NEW h \in Routes, PublishDerivedChange(h)
    PROVE  FreshOf(t, r)'
  <1>0. /\ targets[h] \in Seq(Derived) /\ targets[h] # <<>> /\ capabilityPc[h] = "publish"
    BY DEF PublishDerivedChange, TypeOK, CapabilityTypeOK
  <1>1. PICK x \in Derived : x = Head(targets[h]) /\ x = targets[h][1] /\ 1 \in DOMAIN targets[h]
    BY <1>0, TailProperties
  <1>2. PICK front \in Seq(Derived) : front = FacadesOf(x)
    BY FacadesOfType
  <1>3. EvaluateNext(h, front \o Tail(targets[h]))
    BY <1>1, <1>2 DEF PublishDerivedChange
  <1>4. PICK left \in Seq(Derived) :
           /\ left = front \o Tail(targets[h])
           /\ \A k \in DOMAIN front : k \in DOMAIN left /\ left[k] = front[k]
    <2>1. PICK rest \in Seq(Derived) : rest = Tail(targets[h])
      BY <1>0, TailProperties
    <2>2. PICK left : left = front \o rest
      OBVIOUS
    <2>3. /\ left \in Seq(Derived) /\ Len(left) = Len(front) + Len(rest)
          /\ \A j \in 1 .. Len(front) + Len(rest) :
                left[j] = IF j <= Len(front) THEN front[j] ELSE rest[j - Len(front)]
      BY <2>2, ConcatProperties
    <2>4. PICK n \in Nat : n = Len(front)
      BY LenProperties
    <2>5. PICK m \in Nat : m = Len(rest)
      BY LenProperties
    <2>6. DOMAIN front = 1 .. n /\ DOMAIN left = 1 .. n + m
      BY <2>3, <2>4, <2>5, LenProperties
    <2>7. ASSUME NEW k \in 1 .. n PROVE k \in 1 .. n + m /\ k <= n
      OBVIOUS
    <2>8. ASSUME NEW k \in DOMAIN front PROVE k \in DOMAIN left /\ left[k] = front[k]
      BY <2>3, <2>4, <2>5, <2>6, <2>7
    <2>9. QED
      BY <2>1, <2>3, <2>8, <2>2
  <1>5. EvaluateNext(h, left)
    BY <1>3, <1>4
  <1>6. UNCHANGED <<domainStore, storePc, storeItem, capabilityQueue, changedData>>
    BY DEF PublishDerivedChange, storeVars
  <1>7. \A k \in Routes \ {h} :
           /\ capabilityPc'[k] = capabilityPc[k] /\ targets'[k] = targets[k]
           /\ reads'[k] = reads[k] /\ snapshot'[k] = snapshot[k] /\ newValue'[k] = newValue[k]
    BY <1>5, EvaluateNextSets
  <1>8. \A i \in Data : Unannounced(i) => Unannounced(i)'
    BY <1>0, <1>6, <1>7, RouteAssumption DEF Unannounced
  <1>9. CASE r # h
    BY <1>6, <1>7, <1>8, <1>9, FreshFrame
  <1>10. CASE r = h
    <2>1. CurrentOf(t, r)'
      BY <1>5, <1>10, NextIsCurrent
    <2>2. UpToDate(t)' <=> UpToDate(t)
      BY <1>6 DEF UpToDate, BuiltFrom
    <2>3. ASSUME Scheduled(t, r) PROVE Scheduled(t, r)'
      <3>1. CASE \E i \in Required(t) : i \in Data /\ Unannounced(i)
        <4>1. \E i \in Required(t) : i \in Data /\ Unannounced(i)'
          BY <1>8, <3>1
        <4>2. QED
          BY <4>1 DEF Scheduled
      <3>2. CASE x \in Required(t)
        <4>1. x \in Capabilities /\ t \in Facades
          BY <1>1, <3>2, InputsOf, ItemAssumption
        <4>2. t \notin Capabilities
          BY <4>1, ItemAssumption
        <4>3. front = FacadeDependencies[x] /\ t \in ToSet(FacadeDependencies[x])
          BY <1>2, <3>2, <4>1, MapAssumption DEF FacadesOf
        <4>4. PICK k \in DOMAIN front : front[k] = t
          BY <4>3 DEF ToSet
        <4>5. QED
          BY <1>4, <1>5, <1>10, <4>4, ListedIsScheduled
      <3>3. CASE \E k \in 2 .. Len(targets[r]) : targets[r][k] = t
        BY <1>0, <1>3, <1>10, <3>3, RestIsScheduled
      <3>4. QED
        BY <1>0, <1>1, <1>10, <2>3, <3>1, <3>2, <3>3 DEF Scheduled
    <2>4. QED
      BY <1>6, <2>1, <2>2, <2>3 DEF FreshOf
  <1>11. QED
    BY <1>9, <1>10

\* Every step keeps stored, held and announced capabilities fresh.
LEMMA FreshStep ==
    ASSUME TypeOK, OnRoute, TargetsOnRoute, IdleHasNoTarget, Fresh, [Next]_vars
    PROVE  Fresh'
  <1> SUFFICES ASSUME NEW t \in Derived, NEW r \in Routes PROVE FreshOf(t, r)'
    BY DEF Fresh
  <1>0. FreshOf(t, r)
    BY DEF Fresh
  <1>1. CASE \/ PublisherTake
             \/ \E d \in Data, raw \in RawValues : Dispatch(d, raw)
             \/ UNCHANGED vars
             \/ \E h \in Routes : StorePop(h) \/ StoreDiff(h) \/ StorePush(h) \/ CapabilityPop(h)
    BY <1>0, <1>1, FreshQuiet
  <1>2. ASSUME NEW h \in Routes, StoreWrite(h) PROVE FreshOf(t, r)'
    BY <1>0, <1>2, FreshStoreWrite
  <1>3. ASSUME NEW h \in Routes, PublishDataChange(h) PROVE FreshOf(t, r)'
    BY <1>0, <1>3, FreshPublishDataChange
  <1>4. ASSUME NEW h \in Routes, ReadStorage(h) PROVE FreshOf(t, r)'
    BY <1>0, <1>4, FreshReadStorage
  <1>5. ASSUME NEW h \in Routes, EvaluateDiff(h) PROVE FreshOf(t, r)'
    BY <1>0, <1>5, FreshEvaluateDiff
  <1>6. ASSUME NEW h \in Routes, EvaluateStore(h) PROVE FreshOf(t, r)'
    BY <1>0, <1>6, FreshEvaluateStore
  <1>7. ASSUME NEW h \in Routes, PublishDerivedChange(h) PROVE FreshOf(t, r)'
    BY <1>0, <1>7, FreshPublishDerivedChange
  <1>8. QED
    BY <1>1, <1>2, <1>3, <1>4, <1>5, <1>6, <1>7 DEF Next, DataStoreWorker, CapabilityWorker

\* Nothing is stale at first.
LEMMA FreshInit == Init => Fresh
  <1> SUFFICES ASSUME Init, NEW t \in Derived, NEW r \in Routes PROVE FreshOf(t, r)
    BY DEF Fresh
  <1>1. \A i \in Required(t) : domainStore[i] = NoValue
    BY RequiredAreItems DEF Init
  <1>2. capabilityPc[r] = "wait"
    BY DEF Init
  <1>3. QED
    BY <1>1, <1>2 DEF FreshOf, CurrentOf

\* No worker evaluates anything at first.
LEMMA TargetsInit == Init => TargetsOnRoute /\ IdleHasNoTarget
  BY DEF Init, TargetsOnRoute, IdleHasNoTarget

\* A new list of targets that rest on data of the worker's route.
LEMMA TargetsFrame ==
    ASSUME TypeOK, TargetsOnRoute, IdleHasNoTarget,
           NEW h \in Routes, NEW left \in Seq(Derived), EvaluateNext(h, left),
           \A k \in DOMAIN left : \E d \in RestsOn(left[k]) : d \in Data /\ RouteOf[d] = h
    PROVE  TargetsOnRoute' /\ IdleHasNoTarget'
  <1>1. ASSUME NEW r \in Routes, r # h
        PROVE  targets'[r] = targets[r] /\ capabilityPc'[r] = capabilityPc[r]
    BY <1>1, EvaluateNextSets
  <1>2. /\ targets'[h] = left
        /\ left # <<>> => capabilityPc'[h] = "snapshot"
    BY EvaluateNextSets
  <1>3. TargetsOnRoute'
    BY <1>1, <1>2 DEF TargetsOnRoute
  <1>4. IdleHasNoTarget'
    BY <1>1, <1>2 DEF IdleHasNoTarget
  <1>5. QED
    BY <1>3, <1>4

\* What a worker has still to evaluate comes from an item of its route.
LEMMA TargetsStep ==
    ASSUME TypeOK, OnRoute, TargetsOnRoute, IdleHasNoTarget, [Next]_vars
    PROVE  TargetsOnRoute' /\ IdleHasNoTarget'
  <1>1. CASE UNCHANGED <<targets, capabilityPc>>
    BY <1>1 DEF TargetsOnRoute, IdleHasNoTarget
  <1>2. ASSUME NEW h \in Routes, CapabilityPop(h) PROVE TargetsOnRoute' /\ IdleHasNoTarget'
    <2>1. UNCHANGED targets /\ \A r \in Routes : capabilityPc'[r] = capabilityPc[r]
                                                 \/ capabilityPc[r] = "wait"
      BY <1>2 DEF CapabilityPop, evaluationVars, TypeOK, CapabilityTypeOK
    <2>2. QED
      BY <2>1 DEF TargetsOnRoute, IdleHasNoTarget
  <1>3. ASSUME NEW h \in Routes, PublishDataChange(h) PROVE TargetsOnRoute' /\ IdleHasNoTarget'
    <2>1. PICK x \in Data : x = changedData[h] /\ RouteOf[x] = h
      BY <1>3 DEF PublishDataChange, TypeOK, CapabilityTypeOK, OnRoute
    <2>2. PICK left \in Seq(Derived) : left = CapabilityDependencies[x] /\ left \in Seq(Capabilities)
      BY MapAssumption, DependentCapabilitiesType
    <2>3. ASSUME NEW k \in DOMAIN left
          PROVE  \E d \in RestsOn(left[k]) : d \in Data /\ RouteOf[d] = h
      <3>1. left[k] \in Capabilities
        BY <2>2, LenProperties, ElementOfSeq
      <3>2. left[k] \in ToSet(CapabilityDependencies[x])
        BY <2>2 DEF ToSet
      <3>3. x \in Required(left[k])
        BY <3>1, <3>2, MapAssumption
      <3>4. QED
        BY <2>1, <3>1, <3>3, RequiredKinds
    <2>4. EvaluateNext(h, left)
      BY <1>3, <2>1, <2>2 DEF PublishDataChange
    <2>5. QED
      BY <2>3, <2>4, TargetsFrame
  <1>4. ASSUME NEW h \in Routes, EvaluateDiff(h) PROVE TargetsOnRoute' /\ IdleHasNoTarget'
    <2>1. targets[h] \in Seq(Derived) /\ targets[h] # <<>>
      BY <1>4 DEF EvaluateDiff, TypeOK, CapabilityTypeOK
    <2>2. CASE EvaluateNext(h, Tail(targets[h]))
      <3>1. PICK left \in Seq(Derived) :
               /\ left = Tail(targets[h]) /\ DOMAIN left = 1 .. Len(targets[h]) - 1
               /\ \A k \in 1 .. Len(targets[h]) - 1 : left[k] = targets[h][k + 1]
        BY <2>1, TailProperties
      <3>2. \A k \in DOMAIN left : k + 1 \in DOMAIN targets[h]
        BY <2>1, <3>1, LenProperties
      <3>3. ASSUME NEW k \in DOMAIN left
            PROVE  \E d \in RestsOn(left[k]) : d \in Data /\ RouteOf[d] = h
        <4>1. PICK j \in DOMAIN targets[h] : left[k] = targets[h][j]
          BY <3>1, <3>2
        <4>2. QED
          BY <4>1 DEF TargetsOnRoute
      <3>4. EvaluateNext(h, left)
        BY <2>2, <3>1
      <3>5. QED
        BY <3>3, <3>4, TargetsFrame
    <2>3. CASE UNCHANGED targets /\ capabilityPc' = [capabilityPc EXCEPT ![h] = "store"]
      BY <2>3 DEF TargetsOnRoute, IdleHasNoTarget, TypeOK, CapabilityTypeOK
    <2>4. QED
      BY <1>4, <2>2, <2>3 DEF EvaluateDiff
  <1>5. ASSUME NEW h \in Routes, EvaluateStore(h) PROVE TargetsOnRoute' /\ IdleHasNoTarget'
    BY <1>5 DEF EvaluateStore, TargetsOnRoute, IdleHasNoTarget, TypeOK, CapabilityTypeOK
  <1>6. ASSUME NEW h \in Routes, PublishDerivedChange(h) PROVE TargetsOnRoute' /\ IdleHasNoTarget'
    <2>1. targets[h] \in Seq(Derived) /\ targets[h] # <<>>
      BY <1>6 DEF PublishDerivedChange, TypeOK, CapabilityTypeOK
    <2>2. PICK x \in Derived : x = Head(targets[h]) /\ x = targets[h][1] /\ 1 \in DOMAIN targets[h]
      BY <2>1, TailProperties
    <2>3. PICK front \in Seq(Derived) : front = FacadesOf(x)
      BY FacadesOfType
    <2>4. PICK rest \in Seq(Derived) :
             /\ rest = Tail(targets[h]) /\ DOMAIN rest = 1 .. Len(targets[h]) - 1
             /\ \A k \in 1 .. Len(targets[h]) - 1 : rest[k] = targets[h][k + 1]
      BY <2>1, TailProperties
    <2>5. /\ Len(front) \in Nat /\ DOMAIN front = 1 .. Len(front)
          /\ Len(rest) \in Nat /\ DOMAIN rest = 1 .. Len(rest)
          /\ Len(targets[h]) \in Nat /\ DOMAIN targets[h] = 1 .. Len(targets[h])
      BY <2>1, LenProperties
    <2>6. PICK left : left = front \o rest
      OBVIOUS
    <2>7. /\ left \in Seq(Derived) /\ Len(left) = Len(front) + Len(rest)
          /\ \A j \in 1 .. Len(front) + Len(rest) :
                left[j] = IF j <= Len(front) THEN front[j] ELSE rest[j - Len(front)]
      BY <2>6, ConcatProperties
    <2>8. ASSUME NEW k \in DOMAIN left
          PROVE  \E d \in RestsOn(left[k]) : d \in Data /\ RouteOf[d] = h
      <3>1. k \in 1 .. Len(front) + Len(rest)
        BY <2>7, LenProperties
      <3>2. CASE k <= Len(front)
        <4>1. k \in DOMAIN front /\ left[k] = front[k]
          BY <2>5, <2>7, <3>1, <3>2
        <4>2. x \in Capabilities /\ front = FacadeDependencies[x]
          BY <2>3, <4>1, EmptySeq DEF FacadesOf
        <4>3. front \in Seq(Facades)
          BY <4>2, MapAssumption
        <4>4. left[k] \in Facades /\ left[k] \in ToSet(FacadeDependencies[x])
          BY <4>1, <4>2, <4>3, LenProperties, ElementOfSeq DEF ToSet
        <4>5. x \in Required(left[k])
          BY <4>2, <4>4, MapAssumption
        <4>6. RestsOn(x) \subseteq RestsOn(left[k])
          BY <4>2, <4>4, <4>5, InputsOf DEF Derived
        <4>7. QED
          BY <2>2, <4>6 DEF TargetsOnRoute
      <3>3. CASE ~(k <= Len(front))
        <4>1. k - Len(front) \in 1 .. Len(rest)
          BY <2>5, <3>1, <3>3
        <4>2. PICK j \in DOMAIN rest : left[k] = rest[j]
          BY <2>5, <2>7, <3>1, <3>3, <4>1
        <4>3. j + 1 \in DOMAIN targets[h]
          BY <2>4, <2>5
        <4>4. left[k] = targets[h][j + 1]
          BY <2>4, <4>2
        <4>5. QED
          BY <4>3, <4>4 DEF TargetsOnRoute
      <3>4. QED
        BY <3>2, <3>3
    <2>9. EvaluateNext(h, left)
      BY <1>6, <2>2, <2>3, <2>4, <2>6 DEF PublishDerivedChange
    <2>10. QED
      BY <2>7, <2>8, <2>9, TargetsFrame
  <1>7. ASSUME NEW h \in Routes, DataStoreWorker(h) \/ ReadStorage(h)
        PROVE  TargetsOnRoute' /\ IdleHasNoTarget'
    BY <1>1, <1>7 DEF DataStoreWorker, StorePop, StoreDiff, StoreWrite, StorePush, ReadStorage,
                      capabilityVars, evaluationVars
  <1>8. CASE PublisherTake \/ (\E d \in Data, raw \in RawValues : Dispatch(d, raw)) \/ UNCHANGED vars
    BY <1>1, <1>8 DEF PublisherTake, Dispatch, vars, capabilityVars, evaluationVars
  <1>9. QED
    BY <1>2, <1>3, <1>4, <1>5, <1>6, <1>7, <1>8 DEF Next, CapabilityWorker

(***************************************************************************)
(* A derived value that differs from what its inputs give now is on its    *)
(* way to be evaluated again, from current inputs.                         *)
(***************************************************************************)
THEOREM NeverStale == Spec => []NeverLeftStale
  <1> DEFINE Inv == /\ TypeOK /\ OnRoute /\ TargetsOnRoute /\ IdleHasNoTarget /\ Fresh
  <1>1. Init => Inv
    BY TypeInit, OnRouteInit, TargetsInit, FreshInit
  <1>2. Inv /\ [Next]_vars => Inv'
    BY TypeStep, OnRouteStep, TargetsStep, FreshStep
  <1>3. Inv => NeverLeftStale
    BY DEF Fresh, FreshOf, NeverLeftStale
  <1>4. QED
    BY <1>1, <1>2, <1>3, PTL DEF Spec
-----------------------------------------------------------------------------
(***************************************************************************)
(* The data path of Rev755_FW: registered storages, and snapshots that     *)
(* lock all their storages before they copy the first.                     *)
(***************************************************************************)

\* std::sort of the numbers at some places: each place has a rank of its own,
\* the number of places before it.
LEMMA RanksDiffer ==
    ASSUME NEW s, NEW places \in SUBSET Int, IsFiniteSet(places),
           \A i \in places : s[i] \in Int,
           NEW i \in places, NEW j \in places, i # j, i \notin Before(s, places, j)
    PROVE  /\ j \in Before(s, places, i)
           /\ Cardinality(Before(s, places, j)) < Cardinality(Before(s, places, i))
  <1>1. \A k \in places : k \in Int /\ s[k] \in Int
    OBVIOUS
  <1>2. j \in Before(s, places, i)
    <2>1. i \in Int /\ j \in Int /\ s[i] \in Int /\ s[j] \in Int
      BY <1>1
    <2>2. ~(s[i] < s[j] \/ (s[i] = s[j] /\ i < j))
      BY DEF Before
    <2>3. s[j] < s[i] \/ (s[j] = s[i] /\ j < i)
      BY <2>1, <2>2
    <2>4. QED
      BY <2>3 DEF Before
  <1>3. Before(s, places, j) \subseteq Before(s, places, i)
    <2>1. SUFFICES ASSUME NEW k \in Before(s, places, j) PROVE k \in Before(s, places, i)
      OBVIOUS
    <2>2. /\ k \in places
          /\ s[k] < s[j] \/ (s[k] = s[j] /\ k < j)
          /\ s[j] < s[i] \/ (s[j] = s[i] /\ j < i)
      BY <1>2, <2>1 DEF Before
    <2>3. /\ i \in Int /\ j \in Int /\ k \in Int
          /\ s[i] \in Int /\ s[j] \in Int /\ s[k] \in Int
      BY <1>1, <2>2
    <2>4. s[k] < s[i] \/ (s[k] = s[i] /\ k < i)
      BY <2>2, <2>3
    <2>5. QED
      BY <2>2, <2>4 DEF Before
  <1>4. j \notin Before(s, places, j)
    BY <1>1 DEF Before
  <1>5. IsFiniteSet(Before(s, places, i)) /\ IsFiniteSet(Before(s, places, j))
    BY FS_Subset DEF Before
  <1>6. Cardinality(Before(s, places, i)) \in Nat /\ Cardinality(Before(s, places, j)) \in Nat
    BY <1>5, FS_CardinalityType
  <1>7. Cardinality(Before(s, places, j)) <= Cardinality(Before(s, places, i))
        /\ Cardinality(Before(s, places, j)) # Cardinality(Before(s, places, i))
    BY <1>2, <1>3, <1>4, <1>5, FS_Subset
  <1>8. QED
    BY <1>2, <1>6, <1>7

\* Two places have two ranks.
LEMMA SameRank ==
    ASSUME NEW s, NEW places \in SUBSET Int, IsFiniteSet(places),
           \A i \in places : s[i] \in Int,
           NEW i \in places, NEW j \in places,
           Cardinality(Before(s, places, i)) = Cardinality(Before(s, places, j))
    PROVE  i = j
  <1>1. SUFFICES ASSUME i # j PROVE FALSE
    OBVIOUS
  <1>2. /\ IsFiniteSet(Before(s, places, i))
        /\ Cardinality(Before(s, places, i)) \in Nat
    BY FS_Subset, FS_CardinalityType DEF Before
  <1>3. CASE i \notin Before(s, places, j)
    BY <1>1, <1>2, <1>3, RanksDiffer
  <1>4. CASE i \in Before(s, places, j)
    <2>1. /\ s[i] < s[j] \/ (s[i] = s[j] /\ i < j)
          /\ i \in Int /\ j \in Int /\ s[i] \in Int /\ s[j] \in Int
      BY <1>4 DEF Before
    <2>2. ~(s[j] < s[i] \/ (s[j] = s[i] /\ j < i))
      BY <2>1
    <2>3. j \notin Before(s, places, i)
      BY <2>2 DEF Before
    <2>4. QED
      BY <1>1, <1>2, <2>3, RanksDiffer
  <1>5. QED
    BY <1>3, <1>4

\* Every rank is that of a place.
LEMMA EveryRankIsTaken ==
    ASSUME NEW s, NEW places \in SUBSET Int, IsFiniteSet(places),
           \A i \in places : s[i] \in Int
    PROVE  /\ Cardinality(places) \in Nat
           /\ \A i \in places :
                 Cardinality(Before(s, places, i)) \in 0 .. Cardinality(places) - 1
           /\ \A k \in 1 .. Cardinality(places) :
                 \E i \in places : Cardinality(Before(s, places, i)) = k - 1
  <1> DEFINE n == Cardinality(places)
             rank == [i \in places |-> Cardinality(Before(s, places, i))]
  <1>1. n \in Nat
    BY FS_CardinalityType
  <1>2. ASSUME NEW i \in places
        PROVE  Cardinality(Before(s, places, i)) \in 0 .. n - 1
    <2>1. Before(s, places, i) \in SUBSET places /\ i \notin Before(s, places, i)
      BY DEF Before
    <2>2. /\ IsFiniteSet(Before(s, places, i))
          /\ Cardinality(Before(s, places, i)) <= n
          /\ Cardinality(Before(s, places, i)) # n
      BY <2>1, FS_Subset
    <2>3. Cardinality(Before(s, places, i)) \in Nat
      BY <2>2, FS_CardinalityType
    <2>4. QED
      BY <1>1, <2>2, <2>3
  <1>3. \A i, j \in places : rank[i] = rank[j] => i = j
    BY SameRank
  <1>4. rank \in Injection(places, 0 .. n - 1)
    BY <1>2, <1>3 DEF Injection, IsInjective
  <1>5. IsFiniteSet(0 .. n - 1) /\ Cardinality(0 .. n - 1) = n
    <2>1. n - 1 \in Int
      BY <1>1
    <2>2. IsFiniteSet(0 .. n - 1)
          /\ Cardinality(0 .. n - 1) = IF 0 > n - 1 THEN 0 ELSE (n - 1) - 0 + 1
      BY <2>1, FS_Interval
    <2>3. QED
      BY <1>1, <2>2
  <1>6. rank \in Surjection(places, 0 .. n - 1)
    BY <1>4, <1>5, FS_Injection
  <1>7. \A k \in 1 .. n : \E i \in places : rank[i] = k - 1
    <2>1. SUFFICES ASSUME NEW k \in 1 .. n PROVE \E i \in places : rank[i] = k - 1
      OBVIOUS
    <2>2. k - 1 \in 0 .. n - 1
      BY <1>1
    <2>3. QED
      BY <1>6, <2>2 DEF Surjection
  <1>8. QED
    BY <1>1, <1>2, <1>7

\* Sorting loses no number; numbers that differ come out one below the next.
LEMMA AscendingProperties ==
    ASSUME NEW s, NEW places \in SUBSET Int, IsFiniteSet(places),
           \A i \in places : s[i] \in Int
    PROVE  /\ Ascending(s, places) \in Seq(Int)
           /\ DOMAIN Ascending(s, places) = 1 .. Len(Ascending(s, places))
           /\ \A i \in places : \E k \in DOMAIN Ascending(s, places) :
                 Ascending(s, places)[k] = s[i]
           /\ (\A i, j \in places : s[i] = s[j] => i = j)
                 => \A k, l \in DOMAIN Ascending(s, places) :
                       k < l => Ascending(s, places)[k] < Ascending(s, places)[l]
  <1> DEFINE n == Cardinality(places)
             place(k) == CHOOSE i \in places : Cardinality(Before(s, places, i)) = k - 1
  <1>1. n \in Nat
    BY EveryRankIsTaken
  <1>2. \A k \in 1 .. n :
           place(k) \in places /\ Cardinality(Before(s, places, place(k))) = k - 1
    BY EveryRankIsTaken
  <1> HIDE DEF place
  <1>3. Ascending(s, places) = [k \in 1 .. n |-> s[place(k)]]
    BY DEF Ascending, place
  <1>4. Ascending(s, places) \in Seq(Int) /\ DOMAIN Ascending(s, places) = 1 .. n
        /\ Len(Ascending(s, places)) = n
    <2>1. \A k \in 1 .. n : s[place(k)] \in Int
      BY <1>2
    <2>2. QED
      BY <1>1, <1>3, <2>1, IsASeq, LenProperties
  <1>5. ASSUME NEW i \in places
        PROVE  \E k \in 1 .. n : s[place(k)] = s[i]
    <2> DEFINE k == Cardinality(Before(s, places, i)) + 1
    <2>1. k \in 1 .. n /\ Cardinality(Before(s, places, i)) = k - 1
      BY <1>1, EveryRankIsTaken
    <2>2. PICK p : p = place(k)
      OBVIOUS
    <2>3. p \in places /\ Cardinality(Before(s, places, p)) = Cardinality(Before(s, places, i))
      BY <1>2, <2>1, <2>2
    <2>4. p = i
      BY <2>1, <2>3, SameRank
    <2>5. QED
      BY <2>1, <2>2, <2>4
  <1>6. ASSUME \A i, j \in places : s[i] = s[j] => i = j,
               NEW k \in 1 .. n, NEW l \in 1 .. n, k < l
        PROVE  s[place(k)] < s[place(l)]
    <2>1. /\ place(k) \in places /\ place(l) \in places
          /\ Cardinality(Before(s, places, place(k))) = k - 1
          /\ Cardinality(Before(s, places, place(l))) = l - 1
      BY <1>2, <1>6
    <2>2. place(k) # place(l) /\ ~(l - 1 < k - 1)
      BY <1>6, <2>1
    <2>3. place(k) \in Before(s, places, place(l))
      BY <2>1, <2>2, RanksDiffer
    <2>4. s[place(k)] < s[place(l)] \/ s[place(k)] = s[place(l)]
      BY <2>3 DEF Before
    <2>5. QED
      BY <1>6, <2>1, <2>2, <2>4
  <1>7. (\A i, j \in places : s[i] = s[j] => i = j)
           => \A k, l \in 1 .. n : k < l => s[place(k)] < s[place(l)]
    BY <1>6
  <1>8. \A k \in 1 .. n : Ascending(s, places)[k] = s[place(k)]
    BY <1>3
  <1>9. \A i \in places : \E k \in 1 .. n : Ascending(s, places)[k] = s[i]
    BY <1>5, <1>8
  <1>10. (\A i, j \in places : s[i] = s[j] => i = j)
            => \A k, l \in 1 .. n :
                  k < l => Ascending(s, places)[k] < Ascending(s, places)[l]
    BY <1>7, <1>8
  <1>11. QED
    BY <1>4, <1>9, <1>10
-----------------------------------------------------------------------------
\* The set of what a sequence lists is finite.
LEMMA ToSetFinite ==
    ASSUME NEW S, NEW s \in Seq(S)
    PROVE  IsFiniteSet(ToSet(s)) /\ ToSet(s) \subseteq S
  <1>1. Len(s) \in Nat /\ DOMAIN s = 1 .. Len(s) /\ \A k \in 1 .. Len(s) : s[k] \in S
    BY LenProperties, ElementOfSeq
  <1>2. s \in [1 .. Len(s) -> ToSet(s)]
    BY <1>1, LenProperties DEF ToSet
  <1>3. s \in Surjection(1 .. Len(s), ToSet(s))
    BY <1>1, <1>2 DEF Surjection, ToSet
  <1>4. IsFiniteSet(1 .. Len(s))
    BY <1>1, FS_Interval
  <1>5. QED
    BY <1>1, <1>3, <1>4, FS_Surjection DEF ToSet

\* The list SetToSeq chooses is one of those of the set.
LEMMA SetToSeqIsList ==
    ASSUME NEW S, IsFiniteSet(S)
    PROVE  SetToSeq(S) \in SetToSeqs(S)
  <1>1. ExistsBijection(1 .. Cardinality(S), S)
    BY FS_CardinalityType
  <1>2. \E f \in [1 .. Cardinality(S) -> S] : IsInjective(f)
    BY <1>1 DEF ExistsBijection, Bijection, Injection
  <1>3. SetToSeq(S) \in [1 .. Cardinality(S) -> S] /\ IsInjective(SetToSeq(S))
    BY <1>2 DEF SetToSeq
  <1>4. QED
    BY <1>3 DEF SetToSeqs, IsInjective

\* Every storage of the product is registered, under a number of its own
\* (RIManagerContext::Initialize, ProductContext).
LEMMA AllRegistered ==
    /\ Registered \subseteq Int
    /\ \A d \in Data : DomainOf[d] \in Registered
    /\ \A t \in Derived : DerivedDomain[t] \in Registered
  BY DomainAssumption DEF Registered

\* No facade names a capability twice; nothing in the code rejects one that does.
NamedOnce == \A f \in Facades : IsInjective(RequiredCapabilities[f])

\* The storages a snapshot is made of are those of the inputs of its target.
LEMMA SnapshotOfProperties ==
    ASSUME NEW t \in Derived
    PROVE  /\ SnapshotOf(t) \in Seq(Registered)
           /\ \A i \in Required(t) \cap Data : DomainOf[i] \in ToSet(SnapshotOf(t))
           /\ \A i \in Required(t) \cap Derived : DerivedDomain[i] \in ToSet(SnapshotOf(t))
           /\ NamedOnce => IsInjective(SnapshotOf(t))
  <1>1. CASE t \in Capabilities
    <2> DEFINE domains == ToSet(RepeatedDomains(t))
    <2>1. /\ RequiredData[t] \in Seq(Data)
          /\ Len(RequiredData[t]) \in Nat
          /\ DOMAIN RequiredData[t] = 1 .. Len(RequiredData[t])
          /\ \A k \in 1 .. Len(RequiredData[t]) : RequiredData[t][k] \in Data
      BY <1>1, MapAssumption, LenProperties, ElementOfSeq
    <2>2. RepeatedDomains(t) = [k \in 1 .. Len(RequiredData[t]) |-> DomainOf[RequiredData[t][k]]]
      BY <2>1 DEF RepeatedDomains
    <2>3. RepeatedDomains(t) \in Seq(Registered)
      BY <2>1, <2>2, AllRegistered, IsASeq
    <2>4. IsFiniteSet(domains) /\ domains \subseteq Registered
      BY <2>3, ToSetFinite
    <2>5. SnapshotOf(t) = SetToSeq(domains)
      BY <1>1 DEF SnapshotOf, CapabilityDomains
    <2>6. /\ SnapshotOf(t) \in Seq(domains)
          /\ \A i, j \in DOMAIN SnapshotOf(t) : i # j => SnapshotOf(t)[i] # SnapshotOf(t)[j]
          /\ ToSet(SnapshotOf(t)) = domains
      BY <2>4, <2>5, SetToSeqIsList, SetToSeqsLists
    <2>7. SnapshotOf(t) \in Seq(Registered)
      BY <2>4, <2>6, LenProperties, ElementOfSeq, IsASeq
    <2>8. Required(t) = ToSet(RequiredData[t])
      BY <1>1 DEF Required
    <2>9. \A i \in Required(t) : DomainOf[i] \in domains
      BY <2>1, <2>2, <2>8 DEF ToSet
    <2>10. Required(t) \cap Derived = {}
      BY <1>1, RequiredKinds, ItemAssumption
    <2>11. QED
      BY <2>6, <2>7, <2>9, <2>10 DEF IsInjective
  <1>2. CASE t \in Facades
    <2>1. t \notin Capabilities
      BY <1>2, ItemAssumption
    <2>2. /\ RequiredCapabilities[t] \in Seq(Capabilities)
          /\ Len(RequiredCapabilities[t]) \in Nat
          /\ DOMAIN RequiredCapabilities[t] = 1 .. Len(RequiredCapabilities[t])
          /\ \A k \in 1 .. Len(RequiredCapabilities[t]) :
                RequiredCapabilities[t][k] \in Capabilities
      BY <1>2, MapAssumption, LenProperties, ElementOfSeq
    <2>3. SnapshotOf(t) = [k \in 1 .. Len(RequiredCapabilities[t]) |->
                              DerivedDomain[RequiredCapabilities[t][k]]]
      BY <2>1, <2>2 DEF SnapshotOf, FacadeDomains
    <2>4. SnapshotOf(t) \in Seq(Registered)
      BY <2>2, <2>3, AllRegistered, IsASeq
    <2>5. Required(t) = ToSet(RequiredCapabilities[t]) /\ Required(t) \cap Data = {}
      BY <1>2, <2>1, RequiredKinds, ItemAssumption DEF Required
    <2>6. \A i \in Required(t) : DerivedDomain[i] \in ToSet(SnapshotOf(t))
      BY <2>2, <2>3, <2>5 DEF ToSet
    <2>7. ASSUME NamedOnce PROVE IsInjective(SnapshotOf(t))
      <3>1. SUFFICES ASSUME NEW j \in 1 .. Len(RequiredCapabilities[t]),
                            NEW k \in 1 .. Len(RequiredCapabilities[t]),
                            SnapshotOf(t)[j] = SnapshotOf(t)[k]
                     PROVE  j = k
        BY <2>3 DEF IsInjective
      <3>2. RequiredCapabilities[t][j] \in Derived /\ RequiredCapabilities[t][k] \in Derived
            /\ DerivedDomain[RequiredCapabilities[t][j]] = DerivedDomain[RequiredCapabilities[t][k]]
        BY <2>2, <2>3, <3>1
      <3>3. RequiredCapabilities[t][j] = RequiredCapabilities[t][k]
        BY <3>2, DomainAssumption DEF IsInjective
      <3>4. QED
        BY <1>2, <2>2, <2>7, <3>3 DEF NamedOnce, IsInjective
    <2>8. QED
      BY <2>4, <2>5, <2>6, <2>7
  <1>3. QED
    BY <1>1, <1>2

\* Build asks for every storage of the snapshot, and for the lowest first.
LEMMA LockOrderProperties ==
    ASSUME NEW t \in Derived
    PROVE  /\ LockOrder(t) \in Seq(Int)
           /\ \A i \in Required(t) \cap Data :
                 \E k \in DOMAIN LockOrder(t) : LockOrder(t)[k] = DomainOf[i]
           /\ \A i \in Required(t) \cap Derived :
                 \E k \in DOMAIN LockOrder(t) : LockOrder(t)[k] = DerivedDomain[i]
           /\ NamedOnce => \A k, l \in DOMAIN LockOrder(t) :
                              k < l => LockOrder(t)[k] < LockOrder(t)[l]
  <1> DEFINE s == SnapshotOf(t)
             places == 1 .. Len(s)
  <1>1. s \in Seq(Registered) /\ Len(s) \in Nat /\ DOMAIN s = places
        /\ \A k \in places : s[k] \in Registered
    BY SnapshotOfProperties, LenProperties, ElementOfSeq
  <1>2. LockOrder(t) = Ascending(s, places)
    <2>1. {k \in DOMAIN s : s[k] \in Registered} = places
      BY <1>1
    <2>2. QED
      BY <2>1 DEF LockOrder
  <1>3. places \in SUBSET Int /\ IsFiniteSet(places) /\ \A k \in places : s[k] \in Int
    <2>1. 1 \in Int /\ Len(s) \in Int
      BY <1>1
    <2>2. IsFiniteSet(places)
      BY <2>1, FS_Interval
    <2>3. places \in SUBSET Int
      BY <2>1
    <2>4. \A k \in places : s[k] \in Int
      BY <1>1, AllRegistered
    <2>5. QED
      BY <2>2, <2>3, <2>4
  <1> HIDE DEF s, places
  <1>4. /\ LockOrder(t) \in Seq(Int)
        /\ \A k \in places : \E l \in DOMAIN LockOrder(t) : LockOrder(t)[l] = s[k]
        /\ (\A i, j \in places : s[i] = s[j] => i = j)
              => \A k, l \in DOMAIN LockOrder(t) : k < l => LockOrder(t)[k] < LockOrder(t)[l]
    BY <1>2, <1>3, AscendingProperties
  <1>5. \A n \in ToSet(s) : \E l \in DOMAIN LockOrder(t) : LockOrder(t)[l] = n
    BY <1>1, <1>4 DEF ToSet
  <1>6. NamedOnce => \A i, j \in places : s[i] = s[j] => i = j
    BY <1>1, SnapshotOfProperties DEF s, IsInjective
  <1>7. QED
    BY <1>4, <1>5, <1>6, SnapshotOfProperties DEF s
-----------------------------------------------------------------------------
(***************************************************************************)
(* The locks of a thread are the first storages of its snapshot; all of    *)
(* them, once it has copied one; none, when it copies nothing.  And what   *)
(* it has copied is still what is stored.                                  *)
(***************************************************************************)
LockedSoFar(r) ==
    /\ Len(locks[r]) <= Len(LockOrder(Head(targets[r])))
    /\ \A k \in 1 .. Len(locks[r]) : locks[r][k] = LockOrder(Head(targets[r]))[k]
    /\ \/ reads[r] = ReadPlan(Head(targets[r]))
       \/ Len(locks[r]) = Len(LockOrder(Head(targets[r])))

LocksOK ==
    /\ locks \in [Routes -> Seq(Int)]
    /\ \A r \in Routes :
          IF Building(r) THEN LockedSoFar(r) /\ CurrentSoFar(Head(targets[r]), r)
                         ELSE locks[r] = <<>>

\* The target of a snapshot that is being built.
LEMMA BuildingTarget ==
    ASSUME TypeOK, NEW r \in Routes, capabilityPc[r] \in {"snapshot", "store", "publish"}
    PROVE  /\ targets[r] \in Seq(Derived) /\ targets[r] # <<>>
           /\ Head(targets[r]) \in Derived
           /\ reads[r] \in Seq(SUBSET Items)
  BY HeadTailProperties DEF TypeOK, CapabilityTypeOK

\* A step that leaves snapshots, locks and what was copied alone.
LEMMA LocksFrame ==
    ASSUME TypeOK, LocksOK, UNCHANGED <<locks, targets, reads, snapshot>>,
           \A r \in Routes : Building(r)' = Building(r),
           \A r \in Routes : Building(r) => \A i \in Required(Head(targets[r])) :
              \/ domainStore'[i] = domainStore[i]
              \/ reads[r] = ReadPlan(Head(targets[r]))
    PROVE  LocksOK'
  <1>1. \A r \in Routes : LockedSoFar(r)' = LockedSoFar(r)
    BY DEF LockedSoFar
  <1>2. ASSUME NEW r \in Routes, Building(r)
        PROVE  CurrentSoFar(Head(targets[r]), r)'
    <2>1. Head(targets[r]) \in Derived
      BY <1>2, BuildingTarget DEF Building
    <2>2. CurrentSoFar(Head(targets[r]), r)
      BY <1>2 DEF LocksOK
    <2>3. ASSUME NEW i \in Required(Head(targets[r]))
          PROVE  (\E k \in DOMAIN reads[r] : i \in reads[r][k]) \/ snapshot[r][i] = domainStore'[i]
      BY <1>2, <2>1, <2>2, <2>3, ReadPlanCovers DEF CurrentSoFar
    <2>4. QED
      BY <2>3 DEF CurrentSoFar
  <1>3. QED
    BY <1>1, <1>2 DEF LocksOK

\* A writer that gets its storage writes no input somebody has copied
\* (the exclusive lock of DataStoreWorker and of Evaluate).
LEMMA WriteKeepsCopies ==
    ASSUME TypeOK, LocksOK, UNCHANGED <<locks, targets, reads, snapshot>>,
           \A r \in Routes : Building(r)' = Building(r),
           NEW w \in Items, NEW n, Writable(n),
           n = IF w \in Data THEN DomainOf[w] ELSE DerivedDomain[w],
           \A i \in Items \ {w} : domainStore'[i] = domainStore[i]
    PROVE  LocksOK'
  <1>1. SUFFICES ASSUME NEW r \in Routes, Building(r), w \in Required(Head(targets[r]))
                 PROVE  reads[r] = ReadPlan(Head(targets[r]))
    <2>1. ASSUME NEW r \in Routes, Building(r), NEW i \in Required(Head(targets[r]))
          PROVE  domainStore'[i] = domainStore[i] \/ reads[r] = ReadPlan(Head(targets[r]))
      <3>1. i \in Items
        BY <2>1, BuildingTarget, RequiredAreItems DEF Building
      <3>2. QED
        BY <1>1, <2>1, <3>1
    <2>2. QED
      BY <2>1, LocksFrame
  <1> DEFINE t == Head(targets[r])
  <1>2. t \in Derived
    BY <1>1, BuildingTarget DEF Building
  <1>3. PICK k \in DOMAIN LockOrder(t) : LockOrder(t)[k] = n
    BY <1>1, <1>2, LockOrderProperties, ItemAssumption
  <1>4. /\ LockOrder(t) \in Seq(Int) /\ locks[r] \in Seq(Int)
        /\ DOMAIN LockOrder(t) = 1 .. Len(LockOrder(t))
        /\ DOMAIN locks[r] = 1 .. Len(locks[r])
    BY <1>2, LockOrderProperties, LenProperties DEF LocksOK
  <1>5. LockedSoFar(r)
    BY <1>1 DEF LocksOK
  <1>6. n \notin ToSet(locks[r])
    BY DEF Writable
  <1>7. Len(locks[r]) # Len(LockOrder(t))
    BY <1>3, <1>4, <1>5, <1>6 DEF LockedSoFar, ToSet
  <1>8. QED
    BY <1>5, <1>7 DEF LockedSoFar

\* A thread that turns to its next target holds no lock yet.
LEMMA NextTargetUnlocked ==
    ASSUME TypeOK, TypeOK', LocksOK, NEW h \in Routes, ~Building(h), NEW left,
           EvaluateNext(h, left), UNCHANGED <<locks, domainStore>>
    PROVE  LocksOK'
  <1>1. locks[h] = <<>>
    BY DEF LocksOK
  <1>2. ASSUME NEW r \in Routes \ {h}
        PROVE  IF Building(r)' THEN LockedSoFar(r)' /\ CurrentSoFar(Head(targets[r]), r)'
               ELSE locks'[r] = <<>>
    <2>1. /\ capabilityPc'[r] = capabilityPc[r] /\ targets'[r] = targets[r]
          /\ reads'[r] = reads[r] /\ snapshot'[r] = snapshot[r]
      BY <1>2, EvaluateNextSets
    <2>2. QED
      BY <2>1 DEF LocksOK, Building, LockedSoFar, CurrentSoFar
  <1>3. ASSUME Building(h)'
        PROVE  LockedSoFar(h)' /\ CurrentSoFar(Head(targets[h]), h)'
    <2>1. left # <<>> /\ targets'[h] = left /\ reads'[h] = ReadPlan(Head(left))
      BY <1>3, EvaluateNextSets DEF Building
    <2>2. Head(left) \in Derived
      BY <1>3, <2>1, HeadTailProperties DEF TypeOK, CapabilityTypeOK
    <2>3. CurrentSoFar(Head(targets[h]), h)'
      BY <2>1, <2>2, ReadPlanCovers DEF CurrentSoFar
    <2>4. Len(LockOrder(Head(left))) \in Nat
      BY <2>2, LockOrderProperties, LenProperties
    <2>5. LockedSoFar(h)'
      BY <1>1, <2>1, <2>4 DEF LockedSoFar
    <2>6. QED
      BY <2>3, <2>5
  <1>4. QED
    BY <1>1, <1>2, <1>3 DEF LocksOK

\* What follows the first m elements of a sequence is empty when there are no more.
LEMMA RestEmpty ==
    ASSUME NEW S, NEW s \in Seq(S), NEW m \in Nat
    PROVE  SubSeq(s, m + 1, Len(s)) = <<>> <=> Len(s) <= m
  <1> DEFINE first == m + 1
             last  == Len(s)
  <1>1. first \in Int /\ last \in Nat /\ first = m + 1
    BY LenProperties
  <1>2. \A i \in first .. last : s[i] \in S
    BY <1>1, ElementOfSeq
  <1> HIDE DEF first, last
  <1>3. Len(SubSeq(s, first, last)) = IF first <= last THEN last - first + 1 ELSE 0
    BY <1>1, <1>2, SubSeqProperties
  <1>4. last < first => SubSeq(s, first, last) = <<>>
    BY <1>1, SubSeqEmpty
  <1>5. SubSeq(s, first, last) = <<>> => last < first
    <2>1. SUFFICES ASSUME SubSeq(s, first, last) = <<>>, ~(last < first) PROVE FALSE
      BY <1>1
    <2>2. Len(SubSeq(s, first, last)) = 0
      BY <2>1, EmptySeq
    <2>3. Len(SubSeq(s, first, last)) = last - first + 1
      BY <1>1, <1>3, <2>1
    <2>4. QED
      BY <1>1, <2>1, <2>2, <2>3
  <1>6. SubSeq(s, first, last) = <<>> <=> last <= m
    BY <1>1, <1>4, <1>5
  <1>7. QED
    BY <1>6 DEF first, last

\* What is left to lock is what follows the storages that are locked.
LEMMA ToLockNext ==
    ASSUME TypeOK, LocksOK, NEW r \in Routes, ToLock(r) # <<>>
    PROVE  LET order == LockOrder(Head(targets[r]))
           IN  /\ Building(r)
               /\ Len(locks[r]) \in Nat
               /\ Len(locks[r]) + 1 \in DOMAIN order
               /\ Head(ToLock(r)) = order[Len(locks[r]) + 1]
               /\ Head(ToLock(r)) \in Int
  <1> DEFINE t == Head(targets[r])
  <1>1. Building(r)
    BY DEF ToLock
  <1>2. t \in Derived
    BY <1>1, BuildingTarget DEF Building
  <1>3. /\ LockOrder(t) \in Seq(Int) /\ Len(LockOrder(t)) \in Nat
        /\ DOMAIN LockOrder(t) = 1 .. Len(LockOrder(t))
        /\ \A k \in 1 .. Len(LockOrder(t)) : LockOrder(t)[k] \in Int
    BY <1>2, LockOrderProperties, LenProperties, ElementOfSeq
  <1>4. Len(locks[r]) \in Nat /\ Len(locks[r]) <= Len(LockOrder(t))
    BY <1>1, LenProperties DEF LocksOK, LockedSoFar
  <1>5. ToLock(r) = SubSeq(LockOrder(t), Len(locks[r]) + 1, Len(LockOrder(t)))
    BY <1>1 DEF ToLock
  <1>6. Len(locks[r]) + 1 <= Len(LockOrder(t))
    <2>1. ~(Len(LockOrder(t)) <= Len(locks[r]))
      BY <1>3, <1>4, <1>5, RestEmpty
    <2>2. QED
      BY <1>3, <1>4, <2>1
  <1>7. Head(ToLock(r)) = LockOrder(t)[Len(locks[r]) + 1]
    BY <1>3, <1>4, <1>5, <1>6, HeadTailOfSubSeq
  <1>8. QED
    BY <1>1, <1>3, <1>4, <1>6, <1>7

\* A lock that is taken is that of the next storage of the snapshot.
LEMMA LockStorageStep ==
    ASSUME TypeOK, LocksOK, NEW h \in Routes, LockStorage(h)
    PROVE  LocksOK'
  <1> DEFINE t == Head(targets[h])
             n == Head(ToLock(h))
  <1>1. /\ Building(h) /\ Len(locks[h]) \in Nat /\ Len(locks[h]) + 1 \in DOMAIN LockOrder(t)
        /\ n = LockOrder(t)[Len(locks[h]) + 1] /\ n \in Int
    BY ToLockNext DEF LockStorage
  <1>2. t \in Derived
    BY <1>1, BuildingTarget DEF Building
  <1>3. DOMAIN LockOrder(t) = 1 .. Len(LockOrder(t)) /\ Len(LockOrder(t)) \in Nat
    BY <1>2, LockOrderProperties, LenProperties
  <1>4. /\ UNCHANGED <<capabilityPc, targets, reads, snapshot, domainStore>>
        /\ locks' = [locks EXCEPT ![h] = Append(locks[h], n)]
        /\ locks \in [Routes -> Seq(Int)]
    BY DEF LockStorage, vars, capabilityVars, evaluationVars, LocksOK
  <1> HIDE DEF n
  <1>5. locks' \in [Routes -> Seq(Int)] /\ locks'[h] = Append(locks[h], n)
        /\ \A r \in Routes \ {h} : locks'[r] = locks[r]
    BY <1>1, <1>4, AppendProperties
  <1>6. /\ Len(locks'[h]) = Len(locks[h]) + 1
        /\ \A k \in 1 .. Len(locks[h]) : locks'[h][k] = locks[h][k]
        /\ locks'[h][Len(locks[h]) + 1] = n
    BY <1>1, <1>4, <1>5, AppendProperties
  <1>7. LockedSoFar(h) /\ CurrentSoFar(t, h)
    BY <1>1 DEF LocksOK
  <1>8. LockedSoFar(h)'
    <2>1. Len(locks'[h]) <= Len(LockOrder(t))
      BY <1>1, <1>3, <1>6
    <2>2. \A k \in 1 .. Len(locks'[h]) : locks'[h][k] = LockOrder(t)[k]
      <3>1. \A k \in 1 .. Len(locks[h]) : locks'[h][k] = LockOrder(t)[k]
        BY <1>6, <1>7 DEF LockedSoFar
      <3>2. \A k \in 1 .. Len(locks'[h]) : k \in 1 .. Len(locks[h]) \/ k = Len(locks[h]) + 1
        BY <1>1, <1>6
      <3>3. QED
        BY <1>1, <1>6, <3>1, <3>2
    <2>3. Len(locks[h]) # Len(LockOrder(t))
      BY <1>1, <1>3
    <2>4. reads'[h] = ReadPlan(t)
      BY <1>4, <1>7, <2>3 DEF LockedSoFar
    <2>5. QED
      BY <1>4, <2>1, <2>2, <2>4 DEF LockedSoFar
  <1>9. CurrentSoFar(t, h)'
    BY <1>4, <1>7 DEF CurrentSoFar
  <1>10. \A r \in Routes : Building(r)' = Building(r)
    BY <1>4 DEF Building
  <1>11. \A r \in Routes \ {h} :
            /\ LockedSoFar(r)' = LockedSoFar(r)
            /\ CurrentSoFar(Head(targets[r]), r)' = CurrentSoFar(Head(targets[r]), r)
    BY <1>4, <1>5 DEF LockedSoFar, CurrentSoFar
  <1>12. QED
    BY <1>1, <1>4, <1>5, <1>8, <1>9, <1>10, <1>11 DEF LocksOK

\* A copy is made under all locks of the snapshot, and adds what is stored.
LEMMA CopyStorageStep ==
    ASSUME TypeOK, LocksOK, NEW h \in Routes, CopyStorage(h)
    PROVE  /\ LocksOK'
           /\ \A i \in Required(Head(targets[h])) :
                 \/ \E k \in DOMAIN reads'[h] : i \in reads'[h][k]
                 \/ snapshot'[h][i] = domainStore[i]
           /\ UNCHANGED <<capabilityPc, targets, domainStore>>
           /\ \A r \in Routes \ {h} : reads'[r] = reads[r]
  <1> DEFINE t == Head(targets[h])
  <1>1. Building(h) /\ ToLock(h) = <<>> /\ ReadStorage(h)
    BY DEF CopyStorage
  <1>2. t \in Derived /\ reads[h] \in Seq(SUBSET Items)
    BY <1>1, BuildingTarget DEF Building
  <1>3. /\ UNCHANGED <<capabilityPc, targets, domainStore>>
        /\ reads'[h] = Tail(reads[h])
        /\ snapshot'[h] = [i \in Items |-> IF i \in Head(reads[h]) THEN domainStore[i]
                                           ELSE snapshot[h][i]]
        /\ \A r \in Routes \ {h} : reads'[r] = reads[r] /\ snapshot'[r] = snapshot[r]
    BY <1>1 DEF ReadStorage, TypeOK, CapabilityTypeOK, capabilityVars
  <1>4. /\ locks' \in [Routes -> Seq(Int)]
        /\ locks'[h] = IF Len(reads[h]) = 1 THEN <<>> ELSE locks[h]
        /\ \A r \in Routes \ {h} : locks'[r] = locks[r]
    BY DEF CopyStorage, LocksOK
  <1>5. LockedSoFar(h) /\ CurrentSoFar(t, h)
    BY <1>1 DEF LocksOK
  <1>6. Len(locks[h]) = Len(LockOrder(t))
    <2>1. LockOrder(t) \in Seq(Int) /\ Len(LockOrder(t)) \in Nat /\ Len(locks[h]) \in Nat
          /\ \A k \in 1 .. Len(LockOrder(t)) : LockOrder(t)[k] \in Int
      BY <1>2, LockOrderProperties, LenProperties, ElementOfSeq DEF LocksOK
    <2>2. SubSeq(LockOrder(t), Len(locks[h]) + 1, Len(LockOrder(t))) = <<>>
      BY <1>1 DEF ToLock
    <2>3. Len(LockOrder(t)) <= Len(locks[h])
      BY <2>1, <2>2, RestEmpty
    <2>4. QED
      BY <1>5, <2>1, <2>3 DEF LockedSoFar
  <1>7. /\ DOMAIN reads[h] = 1 .. Len(reads[h]) /\ Len(reads[h]) \in Nat /\ Len(reads[h]) # 0
        /\ Head(reads[h]) = reads[h][1]
        /\ Tail(reads[h]) = <<>> => Len(reads[h]) = 1
        /\ Len(reads[h]) = 1 => Tail(reads[h]) = <<>>
        /\ DOMAIN Tail(reads[h]) = 1 .. Len(reads[h]) - 1
        /\ \A k \in 1 .. Len(reads[h]) - 1 : Tail(reads[h])[k] = reads[h][k + 1]
    <2>1. reads[h] # <<>>
      BY <1>1 DEF Building
    <2>2. /\ Tail(reads[h]) \in Seq(SUBSET Items) /\ Len(Tail(reads[h])) = Len(reads[h]) - 1
          /\ Head(reads[h]) = reads[h][1]
          /\ \A k \in 1 .. Len(reads[h]) - 1 : Tail(reads[h])[k] = reads[h][k + 1]
      BY <1>2, <2>1, TailProperties
    <2>3. /\ DOMAIN reads[h] = 1 .. Len(reads[h]) /\ Len(reads[h]) \in Nat
          /\ DOMAIN Tail(reads[h]) = 1 .. Len(Tail(reads[h]))
      BY <1>2, <2>2, LenProperties
    <2>4. Len(reads[h]) # 0 /\ (Tail(reads[h]) = <<>> <=> Len(Tail(reads[h])) = 0)
      BY <1>2, <2>1, <2>2, EmptySeq
    <2>5. QED
      BY <2>2, <2>3, <2>4
  <1>8. ASSUME NEW i \in Required(t)
        PROVE  (\E k \in DOMAIN reads'[h] : i \in reads'[h][k]) \/ snapshot'[h][i] = domainStore[i]
    <2>1. i \in Items
      BY <1>2, RequiredAreItems
    <2>2. CASE i \in Head(reads[h]) \/ snapshot[h][i] = domainStore[i]
      BY <1>3, <2>1, <2>2
    <2>3. CASE i \notin Head(reads[h]) /\ \E k \in DOMAIN reads[h] : i \in reads[h][k]
      <3>1. PICK k \in DOMAIN reads[h] : i \in reads[h][k]
        BY <2>3
      <3>2. k \in 1 .. Len(reads[h]) /\ k # 1
        BY <1>7, <2>3, <3>1
      <3>3. k - 1 \in 1 .. Len(reads[h]) - 1 /\ (k - 1) + 1 = k
        BY <1>7, <3>2
      <3>4. i \in Tail(reads[h])[k - 1]
        BY <1>7, <3>1, <3>3
      <3>5. QED
        BY <1>3, <1>7, <3>3, <3>4
    <2>4. QED
      BY <1>5, <2>2, <2>3 DEF CurrentSoFar
  <1>9. CASE Len(reads[h]) = 1
    <2>1. ~Building(h)' /\ locks'[h] = <<>>
      BY <1>3, <1>4, <1>7, <1>9 DEF Building
    <2>2. \A r \in Routes \ {h} :
             /\ Building(r)' = Building(r) /\ LockedSoFar(r)' = LockedSoFar(r)
             /\ CurrentSoFar(Head(targets[r]), r)' = CurrentSoFar(Head(targets[r]), r)
      BY <1>3, <1>4 DEF Building, LockedSoFar, CurrentSoFar
    <2>3. LocksOK'
      BY <1>3, <1>4, <2>1, <2>2 DEF LocksOK
    <2>4. QED
      BY <1>3, <1>8, <2>3
  <1>10. CASE Len(reads[h]) # 1
    <2>1. Building(h)' /\ locks'[h] = locks[h]
      BY <1>1, <1>3, <1>4, <1>7, <1>10 DEF Building
    <2>2. LockedSoFar(h)'
      BY <1>3, <1>5, <1>6, <2>1 DEF LockedSoFar
    <2>3. CurrentSoFar(t, h)'
      BY <1>3, <1>8 DEF CurrentSoFar
    <2>4. \A r \in Routes \ {h} :
             /\ Building(r)' = Building(r) /\ LockedSoFar(r)' = LockedSoFar(r)
             /\ CurrentSoFar(Head(targets[r]), r)' = CurrentSoFar(Head(targets[r]), r)
      BY <1>3, <1>4 DEF Building, LockedSoFar, CurrentSoFar
    <2>5. LocksOK'
      BY <1>3, <1>4, <2>1, <2>2, <2>3, <2>4 DEF LocksOK
    <2>6. QED
      BY <1>3, <1>8, <2>5
  <1>11. QED
    BY <1>9, <1>10
-----------------------------------------------------------------------------
\* Workers find every storage they write to (FindMutable), so that a step of
\* this path is one of Pipeline's, or takes a lock.
LEMMA StepOfPipeline ==
    ASSUME TypeOK, [Next755]_vars755
    PROVE  [Next]_vars
  <1>1. ASSUME NEW d \in Data, NEW raw \in RawValues, Dispatch755(d, raw) PROVE Next
    BY <1>1 DEF Dispatch755, Next
  <1>2. ASSUME NEW r \in Routes, StoreRegistered(r) PROVE StoreWrite(r)
    <2>1. storeItem[r].id \in Data
      BY <1>2 DEF StoreRegistered, TypeOK, StoreTypeOK, DataEvent
    <2>2. QED
      BY <1>2, <2>1, AllRegistered DEF StoreRegistered
  <1>3. ASSUME NEW r \in Routes, DataStoreWorker755(r) PROVE Next
    BY <1>2, <1>3 DEF DataStoreWorker755, PopAndDiff, DataStoreWorker, Next
  <1>4. ASSUME NEW r \in Routes, EvaluateCapability(r) \/ EvaluateFacade(r)
        PROVE  EvaluateDiff(r) \/ EvaluateStore(r)
    <2>1. Head(targets[r]) \in Derived /\ Evaluate(r)
      BY <1>4 DEF EvaluateCapability, EvaluateFacade, Evaluating
    <2>2. QED
      BY <2>1, AllRegistered DEF Evaluate
  <1>5. ASSUME NEW r \in Routes, CapabilityWorker755(r) PROVE [Next]_vars
    <2>1. CASE EvaluateCapability(r) \/ EvaluateFacade(r)
      BY <1>4, <2>1 DEF CapabilityWorker, Next
    <2>2. CASE LockStorage(r)
      BY <2>2 DEF LockStorage
    <2>3. CASE PublishData755(r) \/ CopyStorage(r) \/ PublishChanges755(r)
      BY <2>3 DEF PublishData755, CopyStorage, PublishChanges755, CapabilityWorker, Next
    <2>4. QED
      BY <1>5, <2>1, <2>2, <2>3 DEF CapabilityWorker755
  <1>6. CASE Finished755 \/ UNCHANGED vars755
    BY <1>6 DEF Finished755, vars755
  <1>7. CASE PublisherTake /\ UNCHANGED locks
    BY <1>7 DEF Next
  <1>8. QED
    BY <1>1, <1>3, <1>5, <1>6, <1>7 DEF Next755

\* Every step of 755 keeps the types, being one of Pipeline's.
LEMMA TypeStep755 == ASSUME TypeOK, [Next755]_vars755 PROVE TypeOK'
  BY StepOfPipeline, TypeStep

(***************************************************************************)
(* The data path of Rev755_FW is Pipeline's with locks: whatever is proved *)
(* of Pipeline's behaviours holds here.                                    *)
(***************************************************************************)
THEOREM RefinesPipeline == Spec755 => Spec
  <1>1. Init755 => Init /\ TypeOK
    BY TypeInit DEF Init755
  <1>2. TypeOK /\ [Next755]_vars755 => TypeOK' /\ [Next]_vars
    BY TypeStep755, StepOfPipeline
  <1>3. QED
    BY <1>1, <1>2, PTL DEF Spec755, Spec

(***************************************************************************)
(* No derived value of Rev755_FW stays behind its inputs.                  *)
(***************************************************************************)
THEOREM NeverStale755 == Spec755 => []NeverLeftStale
  BY RefinesPipeline, NeverStale, PTL
-----------------------------------------------------------------------------
\* At first no snapshot is being built and no storage is locked.
LEMMA LocksInit == Init755 => LocksOK
  BY EmptySeq DEF Init755, Init, LocksOK, Building

\* What the store worker of a route does to the locks: nothing.
LEMMA LocksDataStoreWorker ==
    ASSUME TypeOK, LocksOK, NEW h \in Routes, DataStoreWorker755(h)
    PROVE  LocksOK'
  <1>1. /\ UNCHANGED <<locks, targets, reads, snapshot>>
        /\ \A r \in Routes : Building(r)' = Building(r)
    BY DEF DataStoreWorker755, PopAndDiff, StoreRegistered, StorePop, StoreDiff, StoreWrite,
           StorePush, capabilityVars, evaluationVars, Building
  <1>2. CASE StoreRegistered(h)
    <2> DEFINE d == storeItem[h].id
    <2>1. d \in Data
      BY <1>2 DEF StoreRegistered, TypeOK, StoreTypeOK, DataEvent
    <2>2. Writable(DomainOf[d]) /\ StoreWrite(h)
      BY <1>2, <2>1, AllRegistered DEF StoreRegistered
    <2>3. \A i \in Items \ {d} : domainStore'[i] = domainStore[i]
      BY <2>2 DEF StoreWrite, TypeOK, SharedTypeOK
    <2>4. QED
      BY <1>1, <2>1, <2>2, <2>3, WriteKeepsCopies
  <1>3. CASE PopAndDiff(h) \/ StorePush(h)
    <2>1. UNCHANGED domainStore
      BY <1>3 DEF PopAndDiff, StorePop, StoreDiff, StorePush
    <2>2. QED
      BY <1>1, <2>1, LocksFrame
  <1>4. QED
    BY <1>2, <1>3 DEF DataStoreWorker755

\* Evaluate waits for nobody who copies its storage.
LEMMA LocksEvaluate ==
    ASSUME TypeOK, TypeOK', LocksOK, NEW h \in Routes,
           EvaluateCapability(h) \/ EvaluateFacade(h)
    PROVE  LocksOK'
  <1> DEFINE t == Head(targets[h])
  <1>1. t \in Derived /\ Evaluate(h) /\ UNCHANGED locks
    BY DEF EvaluateCapability, EvaluateFacade, Evaluating
  <1>2. EvaluateDiff(h) \/ (Writable(DerivedDomain[t]) /\ EvaluateStore(h))
    BY <1>1, AllRegistered DEF Evaluate
  <1>3. CASE EvaluateStore(h)
    <2>1. /\ capabilityPc[h] = "store" /\ UNCHANGED <<locks, targets, reads, snapshot>>
          /\ capabilityPc' = [capabilityPc EXCEPT ![h] = "publish"]
          /\ \A i \in Items \ {t} : domainStore'[i] = domainStore[i]
      BY <1>1, <1>3 DEF EvaluateStore, TypeOK, SharedTypeOK
    <2>2. \A r \in Routes : Building(r)' = Building(r)
      BY <2>1 DEF Building, TypeOK, CapabilityTypeOK
    <2>3. Writable(DerivedDomain[t])
      BY <1>2, <1>3 DEF EvaluateStore, EvaluateDiff
    <2>4. QED
      BY <1>1, <2>1, <2>2, <2>3, WriteKeepsCopies, ItemAssumption
  <1>4. CASE EvaluateDiff(h)
    <2>1. ~Building(h) /\ UNCHANGED <<locks, domainStore>>
      BY <1>1, <1>4 DEF EvaluateDiff, Building
    <2>2. CASE EvaluateNext(h, Tail(targets[h]))
      BY <2>1, <2>2, NextTargetUnlocked
    <2>3. CASE ~EvaluateNext(h, Tail(targets[h]))
      <3>1. /\ UNCHANGED <<targets, reads>>
            /\ capabilityPc' = [capabilityPc EXCEPT ![h] = "store"]
            /\ snapshot' = [snapshot EXCEPT ![h] = EmptySnapshot]
        BY <1>4, <2>3 DEF EvaluateDiff
      <3>2. ~Building(h)' /\ locks'[h] = <<>>
        BY <2>1, <3>1 DEF Building, TypeOK, CapabilityTypeOK, LocksOK
      <3>3. \A r \in Routes \ {h} :
               capabilityPc'[r] = capabilityPc[r] /\ snapshot'[r] = snapshot[r]
        BY <3>1 DEF TypeOK, CapabilityTypeOK
      <3>4. \A r \in Routes \ {h} :
               /\ Building(r)' = Building(r) /\ LockedSoFar(r)' = LockedSoFar(r)
               /\ CurrentSoFar(Head(targets[r]), r)' = CurrentSoFar(Head(targets[r]), r)
        BY <2>1, <3>1, <3>3 DEF Building, LockedSoFar, CurrentSoFar
      <3>5. QED
        BY <2>1, <3>1, <3>2, <3>4 DEF LocksOK
    <2>4. QED
      BY <2>2, <2>3
  <1>5. QED
    BY <1>2, <1>3, <1>4

\* Taking an input, and publishing, need no lock.
LEMMA LocksPublish ==
    ASSUME TypeOK, TypeOK', LocksOK, NEW h \in Routes,
           PublishData755(h) \/ PublishChanges755(h)
    PROVE  LocksOK'
  <1>1. CASE CapabilityPop(h) /\ UNCHANGED locks
    <2>1. /\ UNCHANGED <<locks, targets, reads, snapshot, domainStore>>
          /\ capabilityPc[h] = "wait"
          /\ capabilityPc' = [capabilityPc EXCEPT ![h] = "data"]
      BY <1>1 DEF CapabilityPop, evaluationVars
    <2>2. \A r \in Routes : Building(r)' = Building(r)
      BY <2>1 DEF Building, TypeOK, CapabilityTypeOK
    <2>3. QED
      BY <2>1, <2>2 DEF LocksOK, LockedSoFar, CurrentSoFar
  <1>2. CASE PublishDataChange(h) /\ UNCHANGED locks
    <2>1. ~Building(h) /\ UNCHANGED <<locks, domainStore>>
          /\ EvaluateNext(h, CapabilityDependencies[changedData[h]])
      BY <1>2 DEF PublishDataChange, Building
    <2>2. QED
      BY <2>1, NextTargetUnlocked
  <1>3. CASE PublishDerivedChange(h) /\ UNCHANGED locks
    <2>1. ~Building(h) /\ UNCHANGED <<locks, domainStore>>
          /\ EvaluateNext(h, FacadesOf(Head(targets[h])) \o Tail(targets[h]))
      BY <1>3 DEF PublishDerivedChange, Building
    <2>2. QED
      BY <2>1, NextTargetUnlocked
  <1>4. QED
    BY <1>1, <1>2, <1>3 DEF PublishData755, PublishChanges755

\* Every step of 755 keeps the locks those of the snapshots being built, and
\* what was copied under them current.
LEMMA LocksStep == ASSUME TypeOK, LocksOK, [Next755]_vars755 PROVE LocksOK'
  <1>1. TypeOK'
    BY TypeStep755
  <1>2. CASE UNCHANGED <<locks, capabilityPc, targets, reads, snapshot, domainStore>>
    BY <1>2, LocksFrame DEF Building
  <1>3. ASSUME NEW h \in Routes, CapabilityWorker755(h) PROVE LocksOK'
    BY <1>1, <1>3, LocksPublish, LocksEvaluate, LockStorageStep, CopyStorageStep
       DEF CapabilityWorker755
  <1>4. ASSUME NEW h \in Routes, DataStoreWorker755(h) PROVE LocksOK'
    BY <1>4, LocksDataStoreWorker
  <1>5. CASE (\E d \in Data, raw \in RawValues : Dispatch755(d, raw))
             \/ (PublisherTake /\ UNCHANGED locks) \/ Finished755 \/ UNCHANGED vars755
    BY <1>2, <1>5 DEF Dispatch755, Dispatch, PublisherTake, Finished755, vars755, vars,
                      capabilityVars, evaluationVars
  <1>6. QED
    BY <1>3, <1>4, <1>5 DEF Next755

(***************************************************************************)
(* If no facade names a capability twice, a snapshot locks its storages in *)
(* ascending order (SnapshotBuilder::Build).                               *)
(***************************************************************************)
THEOREM LocksInOrder ==
    ASSUME NamedOnce
    PROVE  Spec755 => []LocksAscend
  <1>1. Init755 => TypeOK /\ LocksOK
    BY TypeInit, LocksInit DEF Init755
  <1>2. TypeOK /\ LocksOK /\ [Next755]_vars755 => (TypeOK /\ LocksOK)'
    BY TypeStep755, LocksStep
  <1>3. TypeOK /\ LocksOK => LocksAscend
    <2>1. SUFFICES ASSUME TypeOK, LocksOK, NEW r \in Routes, ToLock(r) # <<>>,
                          NEW k \in DOMAIN locks[r]
                   PROVE  locks[r][k] < Head(ToLock(r))
      BY DEF LocksAscend
    <2> DEFINE order == LockOrder(Head(targets[r]))
               next  == Len(locks[r]) + 1
    <2>2. /\ Building(r) /\ Len(locks[r]) \in Nat
          /\ next \in DOMAIN order /\ Head(ToLock(r)) = order[next]
      BY <2>1, ToLockNext
    <2>3. Head(targets[r]) \in Derived
      BY <2>1, <2>2, BuildingTarget DEF Building
    <2>4. DOMAIN order = 1 .. Len(order) /\ Len(order) \in Nat
          /\ \A i, j \in DOMAIN order : i < j => order[i] < order[j]
      BY <2>3, LockOrderProperties, LenProperties
    <2>5. k \in 1 .. Len(locks[r])
      BY <2>1, LenProperties DEF LocksOK
    <2>6. locks[r][k] = order[k]
      BY <2>1, <2>2, <2>5 DEF LocksOK, LockedSoFar
    <2> HIDE DEF order
    <2>7. k \in DOMAIN order /\ k < next
      BY <2>2, <2>4, <2>5
    <2>8. QED
      BY <2>2, <2>4, <2>6, <2>7
  <1>4. QED
    BY <1>1, <1>2, <1>3, PTL DEF Spec755

(***************************************************************************)
(* When a snapshot is complete, all it holds is what is stored at that     *)
(* moment (SnapshotBuilder::Build, copies under all locks).                *)
(***************************************************************************)
THEOREM OneCut == Spec755 => SnapshotIsOneCut
  <1> DEFINE Cut == \A r \in Routes :
                        Building(r) /\ reads'[r] = <<>> /\ targets'[r] = targets[r]
                            => \A i \in Required(Head(targets[r])) :
                                  snapshot'[r][i] = domainStore[i]
  <1>1. Init755 => TypeOK /\ LocksOK
    BY TypeInit, LocksInit DEF Init755
  <1>2. TypeOK /\ LocksOK /\ [Next755]_vars755 => (TypeOK /\ LocksOK)'
    BY TypeStep755, LocksStep
  <1>3. TypeOK /\ LocksOK /\ [Next755]_vars755 => [Cut]_vars755
    <2>1. SUFFICES ASSUME TypeOK, LocksOK, Next755, NEW r \in Routes,
                          Building(r), reads'[r] = <<>>
                   PROVE  \A i \in Required(Head(targets[r])) :
                             snapshot'[r][i] = domainStore[i]
      OBVIOUS
    <2>2. reads'[r] # reads[r] /\ capabilityPc[r] = "snapshot" /\ reads[r] # <<>>
      BY <2>1 DEF Building
    <2>3. ASSUME NEW h \in Routes, CapabilityWorker755(h)
          PROVE  CopyStorage(r)
      <3>1. CASE h = r
        <4>1. ~(PublishData755(r) \/ PublishChanges755(r) \/ LockStorage(r))
          BY <2>2 DEF PublishData755, CapabilityPop, PublishDataChange, PublishChanges755,
                      PublishDerivedChange, LockStorage, vars, evaluationVars
        <4>2. ~(EvaluateCapability(r) \/ EvaluateFacade(r))
          BY <2>2 DEF EvaluateCapability, EvaluateFacade, Evaluate, EvaluateDiff, EvaluateStore
        <4>3. QED
          BY <2>3, <3>1, <4>1, <4>2 DEF CapabilityWorker755
      <3>2. CASE h # r
        <4>1. reads'[r] = reads[r]
          <5>1. CASE \E left : EvaluateNext(h, left)
            BY <2>1, <3>2, <5>1, EvaluateNextSets
          <5>2. CASE UNCHANGED reads
            BY <5>2
          <5>3. CASE CopyStorage(h)
            BY <2>1, <3>2, <5>3, CopyStorageStep
          <5>4. QED
            BY <2>3, <5>1, <5>2, <5>3
               DEF CapabilityWorker755, PublishData755, CapabilityPop, PublishDataChange,
                   PublishChanges755, PublishDerivedChange, LockStorage, vars, evaluationVars,
                   EvaluateCapability, EvaluateFacade, Evaluate, EvaluateDiff, EvaluateStore
        <4>2. QED
          BY <2>2, <4>1
      <3>3. QED
        BY <3>1, <3>2
    <2>4. ASSUME ~(\E h \in Routes : CapabilityWorker755(h)) PROVE FALSE
      <3>1. UNCHANGED reads
        BY <2>1, <2>4 DEF Next755, DataStoreWorker755, PopAndDiff, StorePop, StoreDiff,
              StoreRegistered, StoreWrite, StorePush, Dispatch755, Dispatch, PublisherTake,
              Finished755, vars755, vars, evaluationVars
      <3>2. QED
        BY <2>2, <3>1
    <2>5. CopyStorage(r)
      BY <2>3, <2>4
    <2>6. ASSUME NEW i \in Required(Head(targets[r])) PROVE snapshot'[r][i] = domainStore[i]
      <3>1. (\E k \in DOMAIN reads'[r] : i \in reads'[r][k]) \/ snapshot'[r][i] = domainStore[i]
        BY <2>1, <2>5, CopyStorageStep
      <3>2. DOMAIN reads'[r] = {}
        BY <2>1
      <3>3. QED
        BY <3>1, <3>2
    <2>7. QED
      BY <2>6
  <1>4. QED
    BY <1>1, <1>2, <1>3, PTL DEF Spec755, SnapshotIsOneCut

-----------------------------------------------------------------------------
(***************************************************************************)
(* The queues themselves.  A step of the data path takes a whole push or   *)
(* pop for granted: module EventQueue opens it up, and neither of the two  *)
(* ways a condition variable loses a thread happens to it, for any number  *)
(* of producers and consumers, any policy and any bound on the pushes.     *)
(* Nothing but the type invariant is needed to make the two properties     *)
(* inductive.                                                              *)
(***************************************************************************)
QueueTypeOK ==
    /\ events \in Seq(Event)
    /\ shutdown \in BOOLEAN
    /\ producer \in [Producers -> {"idle", "notify"}]
    /\ stopper \in {"idle", "notify"}
    /\ consumer \in [Consumers -> {"idle", "waiting", "woken", "timedout"}]
    /\ pushes \in Nat

-----------------------------------------------------------------------------
(* Counting the threads in a state *)

\* The three groups of threads the counts are about are finite.
LEMMA GroupsFinite ==
    /\ IsFiniteSet(Waiting) /\ IsFiniteSet(Awake) /\ IsFiniteSet(Owing)
    /\ Cardinality(Awake) \in Nat /\ Cardinality(Owing) \in Nat
  <1>1. Waiting \subseteq Consumers /\ Awake \subseteq Consumers /\ Owing \subseteq Producers
    BY DEF Waiting, Awake, Owing
  <1>2. IsFiniteSet(Waiting) /\ IsFiniteSet(Awake) /\ IsFiniteSet(Owing)
    BY <1>1, EventQueueAssumption, FS_Subset
  <1>3. QED
    BY <1>2, FS_CardinalityType

\* The type invariant is inductive: a critical section leaves a queue of events.
LEMMA QueueTypeNext == QueueTypeOK /\ [QueueNext]_queueVars => QueueTypeOK'
  <1> SUFFICES ASSUME QueueTypeOK, [QueueNext]_queueVars PROVE QueueTypeOK'
    OBVIOUS
  <1> USE DEF QueueTypeOK
  <1>1. ASSUME NEW p \in Producers, NotifyOne(p) PROVE QueueTypeOK'
    BY <1>1 DEF NotifyOne, Waiting
  <1>2. ASSUME NEW p \in Producers, NEW e \in Event, Push(p, e) PROVE QueueTypeOK'
    <2>1. events' \in Seq(Event)
      BY <1>2, RouteInsertProperties DEF Push
    <2>2. QED
      BY <1>2, <2>1 DEF Push
  <1>3. CASE Shutdown
    BY <1>3 DEF Shutdown
  <1>4. CASE NotifyAll
    BY <1>4 DEF NotifyAll, Waiting
  <1>5. ASSUME events # <<>> PROVE Tail(events) \in Seq(Event)
    BY <1>5, TailProperties
  <1>6. ASSUME NEW c \in Consumers, Wait(c) PROVE QueueTypeOK'
    BY <1>5, <1>6 DEF Wait, PopFront, ReturnFalse, Sleep
  <1>7. ASSUME NEW c \in Consumers, TryPop(c) PROVE QueueTypeOK'
    BY <1>5, <1>7 DEF TryPop, PopFront
  <1>8. ASSUME NEW c \in Consumers, Resume(c) PROVE QueueTypeOK'
    BY <1>5, <1>8 DEF Resume, PopFront, ReturnFalse, Sleep
  <1>9. ASSUME NEW c \in Consumers, ResumeTimedOut(c) PROVE QueueTypeOK'
    BY <1>5, <1>9 DEF ResumeTimedOut, PopFront, ReturnFalse
  <1>10. ASSUME NEW c \in Consumers, Timeout(c) PROVE QueueTypeOK'
    BY <1>10 DEF Timeout
  <1>11. ASSUME NEW c \in Consumers, SpuriousWake(c) PROVE QueueTypeOK'
    BY <1>11 DEF SpuriousWake
  <1>12. CASE UNCHANGED queueVars
    BY <1>12 DEF queueVars
  <1>13. QED
    BY <1>1, <1>2, <1>3, <1>4, <1>6, <1>7, <1>8, <1>9, <1>10, <1>11, <1>12 DEF QueueNext

\* One consumer that changes state moves between the groups and no other does.
LEMMA OneConsumerMoves ==
    ASSUME QueueTypeOK, NEW c \in Consumers,
           NEW to \in {"idle", "waiting", "woken", "timedout"},
           consumer' = [consumer EXCEPT ![c] = to]
    PROVE  /\ Waiting' = IF to = "waiting" THEN Waiting \cup {c} ELSE Waiting \ {c}
           /\ Awake' = IF to \in {"woken", "timedout"} THEN Awake \cup {c} ELSE Awake \ {c}
  <1>1. \A d \in Consumers : consumer'[d] = IF d = c THEN to ELSE consumer[d]
    BY DEF QueueTypeOK
  <1>2. QED
    BY <1>1 DEF Waiting, Awake

\* A sleeper that is released is one more thread awake.
LEMMA ReleasedSleeper ==
    ASSUME QueueTypeOK, NEW c \in Waiting, NEW to \in {"woken", "timedout"},
           consumer' = [consumer EXCEPT ![c] = to]
    PROVE  /\ Cardinality(Awake') = Cardinality(Awake) + 1
           /\ Waiting' \subseteq Waiting
  <1>1. c \in Consumers /\ c \notin Awake
    BY DEF Waiting, Awake
  <1>2. Awake' = Awake \cup {c} /\ Waiting' = Waiting \ {c}
    BY <1>1, OneConsumerMoves
  <1>3. QED
    BY <1>1, <1>2, GroupsFinite, FS_AddElement

\* A consumer that returns to its caller is at most one thread awake less.
LEMMA ReturnedConsumer ==
    ASSUME QueueTypeOK, NEW c \in Consumers,
           consumer' = [consumer EXCEPT ![c] = "idle"]
    PROVE  /\ Cardinality(Awake') \in Nat
           /\ Cardinality(Awake') >= Cardinality(Awake) - 1
           /\ Waiting' \subseteq Waiting
  <1>1. Awake' = Awake \ {c} /\ Waiting' = Waiting \ {c}
    BY OneConsumerMoves
  <1>2. Cardinality(Awake \ {c}) = IF c \in Awake THEN Cardinality(Awake) - 1
                                   ELSE Cardinality(Awake)
    BY GroupsFinite, FS_RemoveElement
  <1>3. IsFiniteSet(Awake \ {c}) /\ Cardinality(Awake \ {c}) \in Nat
    BY GroupsFinite, FS_RemoveElement, FS_CardinalityType
  <1>4. Waiting' \subseteq Waiting
    BY <1>1
  <1>5. Cardinality(Awake \ {c}) >= Cardinality(Awake) - 1
    BY <1>2, GroupsFinite
  <1>6. QED
    BY <1>1, <1>3, <1>4, <1>5
-----------------------------------------------------------------------------
(* The two properties *)

\* The initial state has the three parts of the invariant.
LEMMA QueueInitCorrect ==
    QueueInit => QueueTypeOK /\ NobodySleepsThroughShutdown /\ NobodySleepsOverEvents
  <1> SUFFICES ASSUME QueueInit
               PROVE  QueueTypeOK /\ NobodySleepsThroughShutdown /\ NobodySleepsOverEvents
    OBVIOUS
  <1>1. Waiting = {}
    BY DEF QueueInit, Waiting
  <1>2. events \in Seq(Event)
    BY EmptySeq DEF QueueInit
  <1>3. QueueTypeOK
    BY <1>2 DEF QueueInit, QueueTypeOK
  <1>4. QED
    BY <1>1, <1>3 DEF NobodySleepsThroughShutdown, NobodySleepsOverEvents

(***************************************************************************)
(* A consumer goes to sleep under the mutex that Shutdown holds to set the *)
(* flag, so none does once the flag is set, and notify_all releases those  *)
(* that went to sleep before.                                              *)
(***************************************************************************)
LEMMA ThroughShutdownNext ==
    ASSUME QueueTypeOK, NobodySleepsThroughShutdown, [QueueNext]_queueVars
    PROVE  NobodySleepsThroughShutdown'
  <1> SUFFICES ASSUME shutdown', Waiting' # {} PROVE stopper' = "notify"
    BY DEF NobodySleepsThroughShutdown
  <1> USE DEF NobodySleepsThroughShutdown
  <1>1. ASSUME NEW c \in Consumers, ~shutdown, UNCHANGED shutdown PROVE FALSE
    BY <1>1
  <1>2. ASSUME Waiting' \subseteq Waiting, UNCHANGED <<shutdown, stopper>>
        PROVE  stopper' = "notify"
    BY <1>2
  <1>3. ASSUME NEW c \in Waiting, NEW to \in {"woken", "timedout"},
               consumer' = [consumer EXCEPT ![c] = to]
        PROVE  Waiting' \subseteq Waiting
    BY <1>3, ReleasedSleeper
  <1>4. ASSUME NEW c \in Consumers, PopFront(c) \/ ReturnFalse(c)
        PROVE  Waiting' \subseteq Waiting
    BY <1>4, ReturnedConsumer DEF PopFront, ReturnFalse
  <1>5. ASSUME UNCHANGED consumer PROVE Waiting' \subseteq Waiting
    BY <1>5 DEF Waiting
  <1>6. ASSUME NEW p \in Producers, NotifyOne(p) PROVE stopper' = "notify"
    BY <1>6, <1>2, <1>3, <1>5 DEF NotifyOne
  <1>7. ASSUME NEW p \in Producers, NEW e \in Event, Push(p, e) PROVE stopper' = "notify"
    BY <1>7, <1>1 DEF Push
  <1>8. CASE Shutdown
    BY <1>8 DEF Shutdown
  <1>9. CASE NotifyAll
    BY <1>9 DEF NotifyAll, Waiting
  <1>10. ASSUME NEW c \in Consumers, Wait(c) PROVE stopper' = "notify"
    BY <1>10, <1>1, <1>2, <1>4 DEF Wait
  <1>11. ASSUME NEW c \in Consumers, TryPop(c) PROVE stopper' = "notify"
    BY <1>11, <1>2, <1>4 DEF TryPop
  <1>12. ASSUME NEW c \in Consumers, Resume(c) PROVE stopper' = "notify"
    BY <1>12, <1>1, <1>2, <1>4 DEF Resume
  <1>13. ASSUME NEW c \in Consumers, ResumeTimedOut(c) PROVE stopper' = "notify"
    BY <1>13, <1>2, <1>4 DEF ResumeTimedOut
  <1>14. ASSUME NEW c \in Consumers, Timeout(c) PROVE stopper' = "notify"
    BY <1>14, <1>2, <1>3 DEF Timeout
  <1>15. ASSUME NEW c \in Consumers, SpuriousWake(c) PROVE stopper' = "notify"
    BY <1>15, <1>2, <1>3 DEF SpuriousWake
  <1>16. CASE UNCHANGED queueVars
    BY <1>16, <1>2, <1>5 DEF queueVars
  <1>17. QED
    BY <1>6, <1>7, <1>8, <1>9, <1>10, <1>11, <1>12, <1>13, <1>14, <1>15, <1>16 DEF QueueNext

(***************************************************************************)
(* The events a sleeper may leave queued are paid for by the threads that  *)
(* will still look at the queue: a push adds an event and a notification   *)
(* owed, the notification hands its share to the thread it releases, and a *)
(* thread that stops being awake has taken an event or found none.         *)
(***************************************************************************)
LEMMA OverEventsNext ==
    ASSUME QueueTypeOK, NobodySleepsOverEvents, [QueueNext]_queueVars
    PROVE  NobodySleepsOverEvents'
  <1> SUFFICES ASSUME Waiting' # {}
               PROVE  Len(events') <= Cardinality(Awake') + Cardinality(Owing')
    BY DEF NobodySleepsOverEvents
  <1> USE DEF NobodySleepsOverEvents
  <1>0. QueueTypeOK'
    BY QueueTypeNext
  <1>1. Len(events) \in Nat /\ Len(events') \in Nat
    BY <1>0, LenProperties DEF QueueTypeOK
  <1>2. /\ IsFiniteSet(Awake') /\ IsFiniteSet(Owing')
        /\ Cardinality(Awake') \in Nat /\ Cardinality(Owing') \in Nat
    <2>1. Awake' \subseteq Consumers /\ Owing' \subseteq Producers
      BY DEF Awake, Owing
    <2>2. QED
      BY <2>1, EventQueueAssumption, FS_Subset, FS_CardinalityType
  <1>3. UNCHANGED producer => Owing' = Owing
    BY DEF Owing
  <1>4. UNCHANGED consumer => Awake' = Awake /\ Waiting' = Waiting
    BY DEF Awake, Waiting
  <1>5. ASSUME events' = <<>>
        PROVE  Len(events') <= Cardinality(Awake') + Cardinality(Owing')
    BY <1>1, <1>2, <1>5, EmptySeq
  <1>6. ASSUME NEW c \in Consumers, PopFront(c), UNCHANGED producer
        PROVE  Len(events') <= Cardinality(Awake') + Cardinality(Owing')
    <2>1. Len(events') = Len(events) - 1
      BY <1>6, HeadTailProperties DEF PopFront, QueueTypeOK
    <2>2. Waiting # {} /\ Cardinality(Awake') >= Cardinality(Awake) - 1
      BY <1>6, ReturnedConsumer DEF PopFront
    <2>3. QED
      BY <2>1, <2>2, <1>1, <1>2, <1>3, <1>6, GroupsFinite
  <1>7. ASSUME NEW c \in Waiting, NEW to \in {"woken", "timedout"},
               consumer' = [consumer EXCEPT ![c] = to], UNCHANGED <<events, producer>>
        PROVE  Len(events') <= Cardinality(Awake') + Cardinality(Owing')
    <2>1. Cardinality(Awake') = Cardinality(Awake) + 1 /\ Waiting # {}
      BY <1>7, ReleasedSleeper
    <2>2. QED
      BY <2>1, <1>1, <1>3, <1>7, GroupsFinite
  <1>8. ASSUME NEW p \in Producers, NotifyOne(p)
        PROVE  Len(events') <= Cardinality(Awake') + Cardinality(Owing')
    <2>1. p \in Owing /\ Owing' = Owing \ {p}
      BY <1>8 DEF NotifyOne, Owing, QueueTypeOK
    <2>2. Cardinality(Owing') = Cardinality(Owing) - 1
      BY <2>1, GroupsFinite, FS_RemoveElement
    <2>3. CASE Waiting = {} /\ UNCHANGED consumer
      BY <2>3, <1>4
    <2>4. ASSUME NEW c \in Waiting, consumer' = [consumer EXCEPT ![c] = "woken"]
          PROVE  Len(events') <= Cardinality(Awake') + Cardinality(Owing')
      <3>1. Cardinality(Awake') = Cardinality(Awake) + 1 /\ Waiting # {}
        BY <2>4, ReleasedSleeper
      <3>2. QED
        BY <3>1, <2>2, <1>1, <1>8, GroupsFinite DEF NotifyOne
    <2>5. QED
      BY <2>3, <2>4, <1>8 DEF NotifyOne
  <1>9. ASSUME NEW p \in Producers, NEW e \in Event, Push(p, e)
        PROVE  Len(events') <= Cardinality(Awake') + Cardinality(Owing')
    <2>1. Len(events') <= Len(events) + 1
      BY <1>9, RouteInsertLength DEF Push, QueueTypeOK
    <2>2. p \notin Owing /\ Owing' = Owing \cup {p}
      BY <1>9 DEF Push, Owing, QueueTypeOK
    <2>3. Cardinality(Owing') = Cardinality(Owing) + 1
      BY <2>2, GroupsFinite, FS_AddElement
    <2>4. Awake' = Awake /\ Waiting # {}
      BY <1>9, <1>4 DEF Push
    <2>5. QED
      BY <2>1, <2>3, <2>4, <1>1, GroupsFinite
  <1>10. CASE Shutdown
    BY <1>10, <1>3, <1>4 DEF Shutdown
  <1>11. CASE NotifyAll
    BY <1>11 DEF NotifyAll, Waiting
  <1>12. ASSUME NEW c \in Consumers, Wait(c)
         PROVE  Len(events') <= Cardinality(Awake') + Cardinality(Owing')
    BY <1>12, <1>5, <1>6 DEF Wait, ReturnFalse, Sleep
  <1>13. ASSUME NEW c \in Consumers, TryPop(c)
         PROVE  Len(events') <= Cardinality(Awake') + Cardinality(Owing')
    BY <1>13, <1>6 DEF TryPop
  <1>14. ASSUME NEW c \in Consumers, Resume(c)
         PROVE  Len(events') <= Cardinality(Awake') + Cardinality(Owing')
    BY <1>14, <1>5, <1>6 DEF Resume, ReturnFalse, Sleep
  <1>15. ASSUME NEW c \in Consumers, ResumeTimedOut(c)
         PROVE  Len(events') <= Cardinality(Awake') + Cardinality(Owing')
    BY <1>15, <1>5, <1>6 DEF ResumeTimedOut, ReturnFalse
  <1>16. ASSUME NEW c \in Consumers, Timeout(c)
         PROVE  Len(events') <= Cardinality(Awake') + Cardinality(Owing')
    BY <1>16, <1>7 DEF Timeout
  <1>17. ASSUME NEW c \in Consumers, SpuriousWake(c)
         PROVE  Len(events') <= Cardinality(Awake') + Cardinality(Owing')
    BY <1>17, <1>7 DEF SpuriousWake
  <1>18. CASE UNCHANGED queueVars
    BY <1>18, <1>3, <1>4 DEF queueVars
  <1>19. QED
    BY <1>8, <1>9, <1>10, <1>11, <1>12, <1>13, <1>14, <1>15, <1>16, <1>17, <1>18
       DEF QueueNext

\* The queue holds events and every thread is in a state of the model.
THEOREM EventQueueTypeCorrect == QueueSpec => []QueueTypeOK
  <1>1. QueueInit => QueueTypeOK
    BY QueueInitCorrect
  <1>2. QED
    BY <1>1, QueueTypeNext, PTL DEF QueueSpec

(***************************************************************************)
(* No consumer is left in cv_.wait on a queue that is shut down, unless    *)
(* notify_all is still to come, with any number of threads: the join after *)
(* a Shutdown never waits for a thread nobody wakes.                       *)
(***************************************************************************)
THEOREM SleepersAreReleased == QueueSpec => []NobodySleepsThroughShutdown
  <1>1. QueueInit => QueueTypeOK /\ NobodySleepsThroughShutdown
    BY QueueInitCorrect
  <1>2. QueueTypeOK /\ NobodySleepsThroughShutdown /\ [QueueNext]_queueVars
           => (QueueTypeOK /\ NobodySleepsThroughShutdown)'
    BY QueueTypeNext, ThroughShutdownNext
  <1>3. QED
    BY <1>1, <1>2, PTL DEF QueueSpec

(***************************************************************************)
(* No wake-up is lost although Push notifies after it released the mutex,  *)
(* with any number of producers and consumers and with every policy.       *)
(***************************************************************************)
THEOREM NoWakeUpIsLost == QueueSpec => []NobodySleepsOverEvents
  <1>1. QueueInit => QueueTypeOK /\ NobodySleepsOverEvents
    BY QueueInitCorrect
  <1>2. QueueTypeOK /\ NobodySleepsOverEvents /\ [QueueNext]_queueVars
           => (QueueTypeOK /\ NobodySleepsOverEvents)'
    BY QueueTypeNext, OverEventsNext
  <1>3. QED
    BY <1>1, <1>2, PTL DEF QueueSpec
=============================================================================
