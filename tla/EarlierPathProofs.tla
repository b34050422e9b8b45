-------------------------- MODULE EarlierPathProofs --------------------------
(***************************************************************************)
(* Proofs about the data paths of old_0818 and old_0820, for every product *)
(* definition, every policy of every route, and any number of values set.  *)
(***************************************************************************)
EXTENDS EarlierPathProperties, QueueLemmas

-----------------------------------------------------------------------------
(* The inductive invariant *)

DataEvent       == [id : Data, value : Values]
Input           == [id : Data \cup {UnknownData}, value : Values]
Snapshot        == [Data -> Stored]
CapabilityEvent == [id : Data, snapshot : Snapshot]
Notification    == [target : Items, priority : {Low}, compression : CompressionPolicies]

InputTypeOK ==
    /\ revision \in Revisions
    /\ sets \in Nat
    /\ inputQueue \in Seq(Input)
    /\ routed = <<>> \/ \E item \in Input : routed = <<item>>

StoreTypeOK ==
    /\ storeQueue \in [Routes -> Seq(DataEvent)]
    /\ storePc \in [Routes -> {"wait", "diff", "lookup", "store", "snapshot", "push"}]
    /\ storeItem \in [Routes -> DataEvent \cup {NoItem}]
    /\ \A r \in Routes : storePc[r] # "wait" => storeItem[r] \in DataEvent
    /\ announces \in [Routes -> BOOLEAN]

SnapshotTypeOK ==
    /\ registryLock \in Routes \cup {Nobody}
    /\ unread \in [Routes -> SUBSET Domains]
    /\ gathered \in [Routes -> Snapshot]

CapabilityTypeOK ==
    /\ capabilityQueue \in [Routes -> Seq(CapabilityEvent)]
    /\ capabilityPc \in [Routes -> {"wait", "data", "snapshot", "evaluate", "keep"}]
    /\ event \in [Routes -> CapabilityEvent \cup {NoEvent}]
    /\ \A r \in Routes : capabilityPc[r] # "wait" => event[r] \in CapabilityEvent
    /\ targets \in [Routes -> Seq(Capabilities)]
    /\ \A r \in Routes : capabilityPc[r] = "keep" => targets[r] # <<>>
    /\ changes \in [Routes -> Seq(Capabilities)]

SharedTypeOK ==
    /\ domainStore \in Snapshot
    /\ capabilityStore \in [Capabilities -> Stored]
    /\ publisherQueue \in Seq(Notification)
    /\ accepted \in Snapshot
    /\ published \in [Items -> Stored]

TypeOK ==
    InputTypeOK /\ StoreTypeOK /\ SnapshotTypeOK /\ CapabilityTypeOK /\ SharedTypeOK

(***************************************************************************)
(* Each route's threads handle the items of the route and no others, and   *)
(* old_0820 has no router.                                                 *)
(***************************************************************************)
QueueOnRoute(q, r) == \A k \in DOMAIN q : RouteOf[q[k].id] = r

OnRoute ==
    /\ revision = "0820" => inputQueue = <<>> /\ routed = <<>>
    /\ \A r \in Routes :
          /\ QueueOnRoute(storeQueue[r], r)
          /\ storePc[r] # "wait" => RouteOf[storeItem[r].id] = r
          /\ QueueOnRoute(capabilityQueue[r], r)
          /\ capabilityPc[r] # "wait" => RouteOf[event[r].id] = r

\* An item that is not going to be announced is stored with its value already.
SilentStores ==
    \A r \in Routes :
        storePc[r] \in {"lookup", "store"} /\ ~announces[r] =>
            domainStore[storeItem[r].id] = storeItem[r].value

\* What a worker still has to evaluate depends on its event.
TargetsDepend ==
    \A r \in Routes :
        /\ capabilityPc[r] \in {"wait", "data"} => targets[r] = <<>>
        /\ \A c \in ToSet(targets[r]) : event[r].id \in Required(c)

(***************************************************************************)
(* Only the dispatchers (0818) or the capability workers (0820) build      *)
(* snapshots, and only they hold the registry's mutex for long.            *)
(***************************************************************************)
LockHeld ==
    \A r \in Routes :
        /\ revision = "0818" =>
              capabilityPc[r] # "snapshot" /\ (registryLock = r => storePc[r] = "snapshot")
        /\ revision = "0820" =>
              storePc[r] # "snapshot" /\ (registryLock = r => capabilityPc[r] = "snapshot")

(***************************************************************************)
(* 0818: what the dispatcher has copied of its own route is what is stored *)
(* for nobody else stores it.                                              *)
(***************************************************************************)
OwnDataCurrent ==
    revision = "0818" =>
        \A r \in Routes, d \in Data :
            RouteOf[d] = r =>
                /\ storePc[r] = "snapshot" /\ registryLock = r =>
                      DomainId(d) \in unread[r] \/ gathered[r][d] = domainStore[d]
                /\ storePc[r] = "push" => gathered[r][d] = domainStore[d]

PathInv ==
    TypeOK /\ OnRoute /\ SilentStores /\ TargetsDepend /\ LockHeld /\ OwnDataCurrent

(***************************************************************************)
(* Freshness: an item that c requires is to be pushed, or queued, or the   *)
(* worker has in hand what is stored, or the value kept is right.          *)
(***************************************************************************)
ToBePushed(c, r) ==
    storePc[r] \in {"snapshot", "push"} /\ storeItem[r].id \in Required(c)

Queued(c, r) == \E d \in Required(c) : HoldsId(capabilityQueue[r], d)

InHandOf(c, r) ==
    \/ capabilityPc[r] = "data" /\ event[r].id \in Required(c)
    \/ c \in ToSet(targets[r])

HandCurrent(c, r) ==
    /\ capabilityPc[r] = "data" /\ revision = "0818" => Current(event[r].snapshot, c)
    /\ capabilityPc[r] = "snapshot" => CurrentSoFar(c, r)
    /\ capabilityPc[r] \in {"evaluate", "keep"} => Current(event[r].snapshot, c)

\* The queued events whose snapshot has what c requires.
WithCurrent(c) == {e \in CapabilityEvent : Current(e.snapshot, c)}

FreshOf(c, r) ==
    HomeRoute(c, r) =>
        /\ revision = "0818" =>
              ToBePushed(c, r) \/ LastIn(capabilityQueue[r], Required(c), WithCurrent(c))
        /\ (\E d \in Required(c) : domainStore[d] # NoValue) =>
              \/ ToBePushed(c, r) \/ Queued(c, r)
              \/ InHandOf(c, r) /\ HandCurrent(c, r)
              \/ ~InHandOf(c, r) /\ capabilityStore[c] = Built(c, domainStore)

Fresh == \A c \in Capabilities, r \in Routes : FreshOf(c, r)
USE DEF Items, Stored, inputVars, storeVars, snapshotVars, capabilityVars

-----------------------------------------------------------------------------
(* What the steps compute has the type of the variable it goes to *)

\* The two ids that stand for nothing are apart from the product's.
LEMMA NoneApart ==
    /\ UnknownData \notin Data /\ NoValue \notin Values /\ Nobody \notin Routes
    /\ Data \cap Capabilities = {}
  BY ItemAssumption

\* A snapshot before anything is copied (GetAll).
LEMMA EmptySnapshotType == EmptySnapshot \in Snapshot
  BY DEF EmptySnapshot, Snapshot

\* What is required of a capability are data items.
LEMMA RequiredAreData == \A c \in Capabilities : Required(c) \subseteq Data
  <1>1. ASSUME NEW c \in Capabilities PROVE Required(c) \subseteq Data
    <2>1. RequiredData[c] \in Seq(Data)
      BY ItemAssumption
    <2>2. QED
      BY <2>1, LenProperties, ElementOfSeq DEF Required, ToSet
  <1>2. QED
    BY <1>1

\* A build over a snapshot gives a value (CapabilityManager::Evaluate).
LEMMA BuiltType ==
    ASSUME NEW c \in Capabilities, NEW s \in Snapshot
    PROVE  Built(c, s) \in Values
  <1> DEFINE needed == [d \in ToSet(RequiredData[c]) |-> s[d]]
  <1>1. needed \in [ToSet(RequiredData[c]) -> Stored]
    BY RequiredAreData DEF Required, Snapshot
  <1> HIDE DEF needed
  <1>2. Build(c, needed) \in Values
    BY <1>1, FunctionAssumption
  <1>3. QED
    BY <1>2 DEF Built, needed

\* Snapshots that agree on what c requires give c the same value.
LEMMA BuiltAgrees ==
    ASSUME NEW c \in Capabilities, NEW s, NEW t, \A d \in Required(c) : s[d] = t[d]
    PROVE  Built(c, s) = Built(c, t)
  BY DEF Built, Required

\* A product names an item in finitely many places.
LEMMA MentionsFinite == ASSUME NEW d PROVE IsFiniteSet(Mentions(d))
  <1> DEFINE n == Len(CapabilityItems)
             places(i) == {k \in DOMAIN RequiredData[CapabilityItems[i]] :
                              RequiredData[CapabilityItems[i]][k] = d}
             rows == [i \in 1 .. n |-> {i} \X places(i)]
             T == {rows[i] : i \in 1 .. n}
  <1>1. n \in Nat /\ DOMAIN CapabilityItems = 1 .. n /\ IsFiniteSet(1 .. n)
    BY ItemAssumption, LenProperties, FS_Interval
  <1>2. ASSUME NEW i \in 1 .. n PROVE IsFiniteSet(rows[i])
    <2>1. RequiredData[CapabilityItems[i]] \in Seq(Data)
      BY <1>1, ItemAssumption DEF Capabilities, ToSet
    <2>2. IsFiniteSet(DOMAIN RequiredData[CapabilityItems[i]])
      <3>1. ASSUME NEW s \in Seq(Data) PROVE IsFiniteSet(DOMAIN s)
        BY LenProperties, FS_Interval
      <3>2. QED
        BY <2>1, <3>1
    <2>3. IsFiniteSet(places(i)) /\ IsFiniteSet({i})
      BY <2>2, FS_Subset, FS_Singleton
    <2> HIDE DEF places
    <2>4. IsFiniteSet({i} \X places(i))
      BY <2>3, FS_Product
    <2>5. QED
      BY <2>4
  <1> HIDE DEF n, places
  <1>3. IsFiniteSet(T)
    <2>1. rows \in Surjection(1 .. n, T)
      BY DEF Surjection
    <2> HIDE DEF rows, T
    <2>2. QED
      BY <1>1, <2>1, FS_Surjection
  <1>4. Mentions(d) = UNION T
    BY <1>1 DEF Mentions, places
  <1> HIDE DEF rows
  <1>5. QED
    BY <1>2, <1>3, <1>4, FS_UNION

\* The dependent capabilities of an item are those that require it.
LEMMA DependentsListed ==
    ASSUME NEW d, NEW list \in DependentCapabilities(d)
    PROVE  /\ list \in Seq(Capabilities)
           /\ \A c \in Capabilities : c \in ToSet(list) <=> d \in Required(c)
           /\ ToSet(list) \subseteq Capabilities
  <1>1. PICK places \in SetToSeqs(Mentions(d)) :
           list = [k \in DOMAIN places |-> CapabilityItems[places[k][1]]]
    BY DEF DependentCapabilities
  <1> DEFINE m == Len(places)
  <1>2. /\ places \in Seq(Mentions(d)) /\ ToSet(places) = Mentions(d)
        /\ m \in Nat /\ DOMAIN places = 1 .. m
    BY MentionsFinite, SetToSeqsLists, LenProperties
  <1>3. /\ CapabilityItems \in Seq(Capabilities)
        /\ \A i \in DOMAIN CapabilityItems : CapabilityItems[i] \in Capabilities
    BY ItemAssumption DEF Capabilities, ToSet
  <1>4. \A p : p \in Mentions(d) <=>
           \E i \in DOMAIN CapabilityItems :
              \E n \in DOMAIN RequiredData[CapabilityItems[i]] :
                 p = <<i, n>> /\ RequiredData[CapabilityItems[i]][n] = d
    BY DEF Mentions
  <1>5. \A k \in 1 .. m : places[k] \in Mentions(d)
    BY <1>2 DEF ToSet
  <1> HIDE DEF m
  <1>6. \A k \in 1 .. m : list[k] \in Capabilities /\ d \in Required(list[k])
    <2> SUFFICES ASSUME NEW k \in 1 .. m
                 PROVE  list[k] \in Capabilities /\ d \in Required(list[k])
      OBVIOUS
    <2>1. PICK i \in DOMAIN CapabilityItems :
             \E n \in DOMAIN RequiredData[CapabilityItems[i]] :
                places[k] = <<i, n>> /\ RequiredData[CapabilityItems[i]][n] = d
      BY <1>4, <1>5
    <2>2. list[k] = CapabilityItems[i]
      BY <1>1, <1>2, <2>1
    <2>3. QED
      BY <1>3, <2>1, <2>2 DEF Required, ToSet
  <1>7. ASSUME NEW c \in Capabilities, d \in Required(c) PROVE \E k \in 1 .. m : list[k] = c
    <2>1. PICK i \in DOMAIN CapabilityItems : CapabilityItems[i] = c
      BY DEF Capabilities, ToSet
    <2>2. PICK n \in DOMAIN RequiredData[c] : RequiredData[c][n] = d
      BY <1>7 DEF Required, ToSet
    <2>3. <<i, n>> \in ToSet(places)
      BY <1>2, <1>4, <2>1, <2>2
    <2>4. PICK k \in 1 .. m : places[k] = <<i, n>>
      BY <1>2, <2>3 DEF ToSet
    <2>5. QED
      BY <1>1, <1>2, <2>1, <2>4
  <1>8. list \in Seq(Capabilities) /\ DOMAIN list = 1 .. m
    <2>1. list = [k \in 1 .. m |-> list[k]]
      BY <1>1, <1>2
    <2>2. QED
      BY <1>2, <1>6, <2>1
  <1>9. QED
    BY <1>6, <1>7, <1>8 DEF ToSet

\* The publisher's queue after a push stays a queue of notifications.
LEMMA PublisherInsertType ==
    ASSUME publisherQueue \in Seq(Notification), NEW t \in Items
    PROVE  PublisherInsert(publisherQueue, t) \in Seq(Notification)
  <1>1. CompressionOf(t) \in CompressionPolicies
    BY ItemAssumption DEF CompressionOf, CompressionPolicies
  <1>2. [target |-> t, priority |-> Low, compression |-> CompressionOf(t)] \in Notification
    BY <1>1 DEF Notification
  <1>3. QED
    BY <1>2, CompressionInsertType DEF PublisherInsert

\* A push makes its target one of those announced.
LEMMA PublisherInsertTargets ==
    ASSUME publisherQueue \in Seq(Notification), NEW t \in Items, NEW u
    PROVE  HoldsTarget(PublisherInsert(publisherQueue, t), u)
              <=> u = t \/ HoldsTarget(publisherQueue, u)
  <1> DEFINE n == [target |-> t, priority |-> Low, compression |-> CompressionOf(t)]
  <1>1. CompressionOf(t) \in CompressionPolicies
    BY ItemAssumption DEF CompressionOf, CompressionPolicies
  <1>2. n \in Notification /\ n.target = t
    BY <1>1 DEF Notification
  <1> HIDE DEF n
  <1>3. HoldsTarget(PriorityCompressionInsert(publisherQueue, n), u)
           <=> u = n.target \/ HoldsTarget(publisherQueue, u)
    BY <1>2, CompressionKeepsTargets
  <1>4. QED
    BY <1>2, <1>3 DEF PublisherInsert, n
-----------------------------------------------------------------------------
(***************************************************************************)
(* Type correctness, thread by thread.                                     *)
(***************************************************************************)
LEMMA TypeInit == Init => TypeOK
  <1>1. EmptySnapshot \in Snapshot
    BY EmptySnapshotType
  <1>2. QED
    BY <1>1, ItemAssumption
    DEF Init, TypeOK, InputTypeOK, StoreTypeOK, SnapshotTypeOK, CapabilityTypeOK,
        SharedTypeOK, Snapshot

\* What a setter is given is a value for an item, or for no item of the product.
LEMMA SetterTypes ==
    ASSUME NEW raw \in RawValues
    PROVE  /\ raw \in Values
           /\ \A d \in Data : Normalize(d, raw) \in Values
           /\ RawSet \subseteq Data \cup {UnknownData}
           /\ \A d \in Data : RouteOf[d] \in Routes /\ RoutesOf(d) = {RouteOf[d]}
  BY ItemAssumption, FunctionAssumption DEF RoutesOf

\* RIM_SetXxx keeps the types.
LEMMA ApplicationType ==
    ASSUME TypeOK, Application0818 \/ Application0820
    PROVE  TypeOK'
  <1>1. ASSUME NEW d \in Data \cup {UnknownData}, NEW v \in Values,
               inputQueue' = Append(inputQueue, [id |-> d, value |-> v]),
               UNCHANGED storeQueue, PassedOn(d, v)
        PROVE  TypeOK'
    <2>1. [id |-> d, value |-> v] \in Input
      BY <1>1 DEF Input
    <2>2. inputQueue' \in Seq(Input)
      BY <1>1, <2>1, AppendProperties DEF TypeOK, InputTypeOK
    <2>3. accepted' \in Snapshot
      BY <1>1 DEF PassedOn, TypeOK, SharedTypeOK, Snapshot
    <2>4. QED
      BY <1>1, <2>2, <2>3
      DEF TypeOK, InputTypeOK, StoreTypeOK, SnapshotTypeOK, CapabilityTypeOK,
          SharedTypeOK, PassedOn
  <1>2. ASSUME NEW d \in Data, NEW raw \in RawValues, DispatchToRoute(d, raw)
        PROVE  TypeOK'
    <2> DEFINE item == [id |-> d, value |-> Normalize(d, raw)]
               r    == RouteOf[d]
    <2>1. item \in DataEvent /\ r \in Routes /\ RoutesOf(d) = {r} /\ item.value \in Stored
      BY SetterTypes DEF DataEvent
    <2>2. RouteInsert(StorePolicy[r], storeQueue[r], item) \in Seq(DataEvent)
      BY <2>1, RouteInsertProperties DEF TypeOK, StoreTypeOK
    <2>3. storeQueue' = [storeQueue EXCEPT ![r] = RouteInsert(StorePolicy[r], @, item)]
      BY <1>2, <2>1 DEF DispatchToRoute, QueueInsert
    <2>4. StoreTypeOK'
      BY <1>2, <2>2, <2>3 DEF TypeOK, StoreTypeOK, DispatchToRoute, PassedOn
    <2>5. SharedTypeOK'
      BY <1>2, <2>1 DEF TypeOK, SharedTypeOK, DispatchToRoute, PassedOn, Snapshot
    <2>6. InputTypeOK' /\ SnapshotTypeOK' /\ CapabilityTypeOK'
      BY <1>2
      DEF TypeOK, InputTypeOK, SnapshotTypeOK, CapabilityTypeOK, DispatchToRoute, PassedOn
    <2>7. QED
      BY <2>4, <2>5, <2>6 DEF TypeOK
  <1>3. ASSUME NEW d \in Data \cup {UnknownData}, NEW raw \in RawValues,
               DispatchInput(d, raw) \/ PushInput(d, raw)
        PROVE  TypeOK'
    <2>1. CASE DispatchInput(d, raw)
      BY <2>1, <1>1, SetterTypes DEF DispatchInput
    <2>2. CASE PushInput(d, raw)
      BY <2>2, <1>1, SetterTypes DEF PushInput
    <2>3. QED
      BY <1>3, <2>1, <2>2
  <1>4. QED
    BY <1>2, <1>3 DEF Application0818, Application0820

\* The router keeps the types: what it does not drop is an item of the product.
LEMMA RouterType ==
    ASSUME TypeOK, Router0818
    PROVE  TypeOK'
  <1>1. CASE RouterPop
    <2>1. Head(inputQueue) \in Input /\ Tail(inputQueue) \in Seq(Input)
      BY <1>1, TailProperties DEF RouterPop, TypeOK, InputTypeOK
    <2>2. QED
      BY <1>1, <2>1
      DEF TypeOK, InputTypeOK, StoreTypeOK, SnapshotTypeOK, CapabilityTypeOK,
          SharedTypeOK, RouterPop
  <1>2. CASE RouterPush
    <2> DEFINE item == Head(routed)
    <2>1. item \in Input
      BY <1>2 DEF RouterPush, TypeOK, InputTypeOK
    <2>2. ASSUME NEW r \in Routes PROVE storeQueue'[r] \in Seq(DataEvent)
      <3>1. CASE r \in RoutesOf(item.id)
        <4>1. item \in DataEvent
          BY <2>1, <3>1 DEF RoutesOf, Input, DataEvent
        <4>2. RouteInsert(StorePolicy[r], storeQueue[r], item) \in Seq(DataEvent)
          BY <4>1, RouteInsertProperties DEF TypeOK, StoreTypeOK
        <4>3. QED
          BY <1>2, <3>1, <4>2 DEF RouterPush, QueueInsert
      <3>2. CASE r \notin RoutesOf(item.id)
        BY <1>2, <3>2 DEF RouterPush, TypeOK, StoreTypeOK
      <3>3. QED
        BY <3>1, <3>2
    <2>3. storeQueue' \in [Routes -> Seq(DataEvent)]
      BY <1>2, <2>2 DEF RouterPush
    <2>4. QED
      BY <1>2, <2>3
      DEF TypeOK, InputTypeOK, StoreTypeOK, SnapshotTypeOK, CapabilityTypeOK,
          SharedTypeOK, RouterPush
  <1>3. QED
    BY <1>1, <1>2 DEF Router0818

\* The thread that stores keeps the types, program point by program point.
LEMMA StoreThreadType ==
    ASSUME TypeOK, NEW r \in Routes, StoreThread(r)
    PROVE  TypeOK'
  <1>1. CASE StorePop(r)
    <2>1. Head(storeQueue[r]) \in DataEvent /\ Tail(storeQueue[r]) \in Seq(DataEvent)
      BY <1>1, TailProperties DEF StorePop, TypeOK, StoreTypeOK
    <2>2. StoreTypeOK'
      BY <1>1, <2>1 DEF StorePop, TypeOK, StoreTypeOK
    <2>3. QED
      BY <1>1, <2>2
      DEF TypeOK, InputTypeOK, SnapshotTypeOK, CapabilityTypeOK, SharedTypeOK, StorePop
  <1>2. CASE StoreDiff(r) \/ StoreLookup(r)
    BY <1>2
    DEF TypeOK, InputTypeOK, StoreTypeOK, SnapshotTypeOK, CapabilityTypeOK, SharedTypeOK,
        StoreDiff, StoreLookup
  <1>3. CASE StoreWrite(r)
    <2>1. storeItem[r] \in DataEvent
      BY <1>3 DEF StoreWrite, TypeOK, StoreTypeOK
    <2>2. domainStore' \in Snapshot
      BY <1>3, <2>1 DEF StoreWrite, TypeOK, SharedTypeOK, Snapshot, DataEvent
    <2>3. StoreTypeOK'
      BY <1>3 DEF StoreWrite, TypeOK, StoreTypeOK
    <2>4. QED
      BY <1>3, <2>2, <2>3
      DEF TypeOK, InputTypeOK, SnapshotTypeOK, CapabilityTypeOK, SharedTypeOK, StoreWrite
  <1>4. CASE StorePush(r)
    <2> DEFINE travels == IF revision = "0818" THEN gathered[r] ELSE EmptySnapshot
               e       == [id |-> storeItem[r].id, snapshot |-> travels]
    <2>1. EmptySnapshot \in Snapshot /\ gathered[r] \in Snapshot
      BY EmptySnapshotType DEF TypeOK, SnapshotTypeOK
    <2>2. storeItem[r].id \in Data
      BY <1>4 DEF StorePush, TypeOK, StoreTypeOK, DataEvent
    <2>3. e \in CapabilityEvent
      BY <2>1, <2>2 DEF CapabilityEvent
    <2>4. RouteInsert(CapabilityPolicy[r], capabilityQueue[r], e) \in Seq(CapabilityEvent)
      BY <2>3, RouteInsertProperties DEF TypeOK, CapabilityTypeOK
    <2>5. capabilityQueue' \in [Routes -> Seq(CapabilityEvent)]
      BY <1>4, <2>4 DEF StorePush, QueueInsert, TypeOK, CapabilityTypeOK
    <2>6. CapabilityTypeOK'
      BY <1>4, <2>5 DEF StorePush, TypeOK, CapabilityTypeOK
    <2>7. SnapshotTypeOK'
      BY <1>4, <2>1 DEF StorePush, TypeOK, SnapshotTypeOK
    <2>8. QED
      BY <1>4, <2>6, <2>7
      DEF TypeOK, InputTypeOK, StoreTypeOK, SharedTypeOK, StorePush
  <1>5. QED
    BY <1>1, <1>2, <1>3, <1>4 DEF StoreThread

\* GetAll keeps the types; its last step belongs to the thread that called it.
LEMMA GetAllType ==
    ASSUME TypeOK, NEW r \in Routes, GetAllBegin(r) \/ GetAllCopy(r)
    PROVE  TypeOK'
  <1>1. SnapshotTypeOK'
    <2>1. CASE GetAllBegin(r)
      BY <2>1, EmptySnapshotType DEF GetAllBegin, TypeOK, SnapshotTypeOK
    <2>2. CASE GetAllCopy(r)
      <3>1. PICK domain \in unread[r] :
               /\ unread' = [unread EXCEPT ![r] = @ \ {domain}]
               /\ gathered' = [gathered EXCEPT ![r] =
                     [d \in Data |-> IF DomainId(d) = domain THEN domainStore[d]
                                                             ELSE @[d]]]
        BY <2>2 DEF GetAllCopy
      <3>2. [d \in Data |-> IF DomainId(d) = domain THEN domainStore[d]
                                                    ELSE gathered[r][d]] \in Snapshot
        BY DEF TypeOK, SnapshotTypeOK, SharedTypeOK, Snapshot
      <3>3. gathered' \in [Routes -> Snapshot]
        BY <3>1, <3>2 DEF TypeOK, SnapshotTypeOK
      <3>4. unread' \in [Routes -> SUBSET Domains]
        BY <3>1 DEF TypeOK, SnapshotTypeOK
      <3>5. QED
        BY <2>2, <3>3, <3>4 DEF GetAllCopy, TypeOK, SnapshotTypeOK
    <2>3. QED
      BY <2>1, <2>2
  <1>2. QED
    BY <1>1
    DEF TypeOK, InputTypeOK, StoreTypeOK, CapabilityTypeOK, SharedTypeOK,
        GetAllBegin, GetAllCopy

\* The threads that take snapshots keep the types.
LEMMA SnapshotType ==
    ASSUME TypeOK, NEW r \in Routes, ReadSnapshot(r) \/ BuildSnapshot(r)
    PROVE  TypeOK'
  <1>1. CASE GetAllBegin(r) \/ GetAllCopy(r)
    BY <1>1, GetAllType
  <1>2. CASE ReadSnapshot(r) /\ ~(GetAllBegin(r) \/ GetAllCopy(r))
    BY <1>2
    DEF ReadSnapshot, TypeOK, InputTypeOK, StoreTypeOK, SnapshotTypeOK, CapabilityTypeOK,
        SharedTypeOK
  <1>3. CASE BuildSnapshot(r) /\ ~(GetAllBegin(r) \/ GetAllCopy(r))
    <2> DEFINE s == [d \in Data |-> IF DomainId(d) \in SnapshotDomains(event[r].id)
                                    THEN gathered[r][d] ELSE NoValue]
    <2>1. s \in Snapshot
      BY DEF TypeOK, SnapshotTypeOK, Snapshot
    <2> HIDE DEF s
    <2>2. /\ capabilityPc[r] = "snapshot"
          /\ event' = [event EXCEPT ![r].snapshot = s]
          /\ gathered' = [gathered EXCEPT ![r] = EmptySnapshot]
          /\ capabilityPc' = [capabilityPc EXCEPT ![r] = "evaluate"]
          /\ registryLock' = Nobody
          /\ UNCHANGED <<revision, sets, inputVars, storeVars, unread,
                         domainStore, capabilityQueue, targets, changes,
                         capabilityStore, publisherQueue, accepted, published>>
      BY <1>3 DEF BuildSnapshot, s
    <2>3. event[r] \in CapabilityEvent
      BY <2>2 DEF TypeOK, CapabilityTypeOK
    <2>4. event'[r] \in CapabilityEvent /\ \A t \in Routes \ {r} : event'[t] = event[t]
      BY <2>1, <2>2, <2>3 DEF TypeOK, CapabilityTypeOK, CapabilityEvent
    <2>5. event' \in [Routes -> CapabilityEvent \cup {NoEvent}]
      BY <2>2, <2>4 DEF TypeOK, CapabilityTypeOK
    <2>6. CapabilityTypeOK'
      BY <2>2, <2>4, <2>5 DEF TypeOK, CapabilityTypeOK
    <2>7. SnapshotTypeOK'
      BY <2>2, EmptySnapshotType DEF TypeOK, SnapshotTypeOK
    <2>8. QED
      BY <2>2, <2>6, <2>7 DEF TypeOK, InputTypeOK, StoreTypeOK, SharedTypeOK
  <1>4. QED
    BY <1>1, <1>2, <1>3

\* CapabilityWorker keeps the types, program point by program point.
LEMMA CapabilityThreadType ==
    ASSUME TypeOK, NEW r \in Routes, CapabilityThread(r)
    PROVE  TypeOK'
  <1>1. CASE CapabilityPop(r)
    <2>1. /\ Head(capabilityQueue[r]) \in CapabilityEvent
          /\ Tail(capabilityQueue[r]) \in Seq(CapabilityEvent)
      BY <1>1, TailProperties DEF CapabilityPop, TypeOK, CapabilityTypeOK
    <2>2. CapabilityTypeOK'
      BY <1>1, <2>1 DEF CapabilityPop, TypeOK, CapabilityTypeOK
    <2>3. QED
      BY <1>1, <2>2
      DEF TypeOK, InputTypeOK, StoreTypeOK, SnapshotTypeOK, SharedTypeOK, CapabilityPop
  <1>2. CASE PublishData(r)
    <2>1. PICK list \in DependentCapabilities(event[r].id) :
             targets' = [targets EXCEPT ![r] = list]
      BY <1>2 DEF PublishData
    <2>2. list \in Seq(Capabilities)
      BY DependentsListed
    <2>3. CapabilityTypeOK'
      BY <1>2, <2>1, <2>2 DEF PublishData, TypeOK, CapabilityTypeOK
    <2>4. event[r].id \in Items
      BY <1>2 DEF PublishData, TypeOK, CapabilityTypeOK, CapabilityEvent
    <2>5. SharedTypeOK'
      BY <1>2, <2>4, PublisherInsertType DEF PublishData, TypeOK, SharedTypeOK
    <2>6. QED
      BY <1>2, <2>3, <2>5
      DEF TypeOK, InputTypeOK, StoreTypeOK, SnapshotTypeOK, PublishData
  <1>3. CASE EvaluateNext(r)
    <2>1. targets[r] # <<>> /\ Tail(targets[r]) \in Seq(Capabilities)
      BY <1>3, TailProperties DEF EvaluateNext, TypeOK, CapabilityTypeOK
    <2>2. CapabilityTypeOK'
      BY <1>3, <2>1 DEF EvaluateNext, TypeOK, CapabilityTypeOK
    <2>3. QED
      BY <1>3, <2>2
      DEF TypeOK, InputTypeOK, StoreTypeOK, SnapshotTypeOK, SharedTypeOK, EvaluateNext
  <1>4. CASE KeepChanged(r)
    <2> DEFINE c == Head(targets[r])
    <2>1. targets[r] # <<>> /\ c \in Capabilities /\ Tail(targets[r]) \in Seq(Capabilities)
      BY <1>4, TailProperties DEF KeepChanged, TypeOK, CapabilityTypeOK
    <2>2. event[r].snapshot \in Snapshot
      BY <1>4 DEF KeepChanged, TypeOK, CapabilityTypeOK, CapabilityEvent
    <2>3. Built(c, event[r].snapshot) \in Stored
      BY <2>1, <2>2, BuiltType
    <2>4. Append(changes[r], c) \in Seq(Capabilities)
      BY <2>1, AppendProperties DEF TypeOK, CapabilityTypeOK
    <2>5. CapabilityTypeOK'
      BY <1>4, <2>1, <2>4 DEF KeepChanged, TypeOK, CapabilityTypeOK
    <2>6. SharedTypeOK'
      BY <1>4, <2>1, <2>3 DEF KeepChanged, TypeOK, SharedTypeOK
    <2>7. QED
      BY <1>4, <2>5, <2>6
      DEF TypeOK, InputTypeOK, StoreTypeOK, SnapshotTypeOK, KeepChanged
  <1>5. CASE PublishNextChange(r)
    <2>1. CASE changes[r] = <<>>
      <3>1. /\ capabilityPc' = [capabilityPc EXCEPT ![r] = "wait"]
            /\ event' = [event EXCEPT ![r] = NoEvent]
            /\ UNCHANGED <<capabilityQueue, targets, changes, publisherQueue>>
        BY <1>5, <2>1 DEF PublishNextChange
      <3>2. CapabilityTypeOK'
        BY <3>1 DEF TypeOK, CapabilityTypeOK
      <3>3. QED
        BY <1>5, <3>1, <3>2
        DEF PublishNextChange, TypeOK, InputTypeOK, StoreTypeOK, SnapshotTypeOK,
            SharedTypeOK
    <2>2. CASE changes[r] # <<>>
      <3>1. Head(changes[r]) \in Items /\ Tail(changes[r]) \in Seq(Capabilities)
        BY <2>2, TailProperties DEF TypeOK, CapabilityTypeOK
      <3>2. SharedTypeOK'
        BY <1>5, <2>2, <3>1, PublisherInsertType
        DEF PublishNextChange, TypeOK, SharedTypeOK
      <3>3. CapabilityTypeOK'
        BY <1>5, <2>2, <3>1 DEF PublishNextChange, TypeOK, CapabilityTypeOK
      <3>4. QED
        BY <1>5, <3>2, <3>3
        DEF TypeOK, InputTypeOK, StoreTypeOK, SnapshotTypeOK, PublishNextChange
    <2>3. QED
      BY <2>1, <2>2
  <1>6. QED
    BY <1>1, <1>2, <1>3, <1>4, <1>5 DEF CapabilityThread, Evaluate

\* PublisherWorker keeps the types.
LEMMA PublisherTakeType == ASSUME TypeOK, PublisherTake PROVE TypeOK'
  <1> DEFINE t == Head(publisherQueue).target
  <1>1. Head(publisherQueue) \in Notification /\ Tail(publisherQueue) \in Seq(Notification)
    BY TailProperties DEF PublisherTake, TypeOK, SharedTypeOK
  <1>2. t \in Items
    BY <1>1 DEF Notification
  <1>3. (IF t \in Data THEN domainStore[t] ELSE capabilityStore[t]) \in Stored
    BY <1>2 DEF TypeOK, SharedTypeOK, Snapshot
  <1>4. SharedTypeOK'
    BY <1>1, <1>2, <1>3 DEF PublisherTake, TypeOK, SharedTypeOK
  <1>5. QED
    BY <1>4 DEF TypeOK, InputTypeOK, StoreTypeOK, SnapshotTypeOK, CapabilityTypeOK,
                PublisherTake

(***************************************************************************)
(* What a step is: one of a thread of the revision that runs, or a         *)
(* stutter.                                                                *)
(***************************************************************************)
RouteStep(r) ==
    \/ StoreThread(r) \/ CapabilityThread(r)
    \/ revision = "0818" /\ ReadSnapshot(r)
    \/ revision = "0820" /\ BuildSnapshot(r)

\* Every step of the earlier data path is one of these.
LEMMA StepCases ==
    ASSUME [Next]_vars
    PROVE  \/ Application0818 \/ Application0820 \/ Router0818
           \/ \E r \in Routes : RouteStep(r)
           \/ PublisherTake
           \/ UNCHANGED vars
  BY DEF Next, RouteStep, DataStoreDispatcher0818, CapabilityWorker0818,
         DataStoreWorker0820, CapabilityWorker0820, Finished

\* The type invariant is inductive.
LEMMA TypeNext == TypeOK /\ [Next]_vars => TypeOK'
  <1> SUFFICES ASSUME TypeOK, [Next]_vars PROVE TypeOK'
    OBVIOUS
  <1>1. CASE UNCHANGED vars
    BY <1>1 DEF vars, TypeOK, InputTypeOK, StoreTypeOK, SnapshotTypeOK, CapabilityTypeOK,
                SharedTypeOK
  <1>2. ASSUME NEW r \in Routes, RouteStep(r) PROVE TypeOK'
    BY <1>2, StoreThreadType, SnapshotType, CapabilityThreadType DEF RouteStep
  <1>3. QED
    BY <1>1, <1>2, StepCases, ApplicationType, RouterType, PublisherTakeType
-----------------------------------------------------------------------------
(***************************************************************************)
(* Each route's threads handle the items of the route.                     *)
(***************************************************************************)
LEMMA InsertOnRoute ==
    ASSUME NEW S, NEW q \in Seq(S), NEW e \in S, NEW kind, NEW r,
           QueueOnRoute(q, r), RouteOf[e.id] = r
    PROVE  QueueOnRoute(RouteInsert(kind, q, e), r)
  <1> DEFINE p == RouteInsert(kind, q, e)
  <1> HIDE DEF p
  <1>1. ASSUME NEW k \in DOMAIN p PROVE RouteOf[p[k].id] = r
    <2>1. HoldsId(p, p[k].id)
      BY DEF HoldsId
    <2>2. p[k].id = e.id \/ HoldsId(q, p[k].id)
      BY <2>1, RouteInsertIds DEF p
    <2>3. QED
      BY <2>2 DEF HoldsId, QueueOnRoute
  <1>2. QED
    BY <1>1 DEF QueueOnRoute, p

\* What is popped is an item of the queue's route, and so is what is left.
LEMMA PopOnRoute ==
    ASSUME NEW S, NEW q \in Seq(S), q # <<>>, NEW r, QueueOnRoute(q, r)
    PROVE  RouteOf[Head(q).id] = r /\ QueueOnRoute(Tail(q), r)
  <1>1. /\ Len(q) \in Nat \ {0}
        /\ DOMAIN q = 1 .. Len(q)
        /\ Head(q) = q[1]
        /\ DOMAIN Tail(q) = 1 .. Len(q) - 1
        /\ \A k \in 1 .. Len(q) - 1 : Tail(q)[k] = q[k + 1]
    BY TailProperties
  <1>2. 1 \in DOMAIN q /\ \A k \in 1 .. Len(q) - 1 : k + 1 \in DOMAIN q
    BY <1>1
  <1>3. QED
    BY <1>1, <1>2 DEF QueueOnRoute

\* Queues start empty.
LEMMA OnRouteInit == Init => OnRoute
  BY DEF Init, OnRoute, QueueOnRoute

\* What a route's threads do concerns no other route (RouteProvider::Find).
LEMMA OnRouteNext == TypeOK /\ OnRoute /\ [Next]_vars => OnRoute'
  <1> SUFFICES ASSUME TypeOK, OnRoute, [Next]_vars PROVE OnRoute'
    OBVIOUS
  <1>1. CASE UNCHANGED vars
    BY <1>1 DEF vars, OnRoute
  <1>2. CASE Application0818
    BY <1>2 DEF Application0818, DispatchInput, PushInput, PassedOn, OnRoute
  <1>3. ASSUME NEW d \in Data, NEW raw \in RawValues, DispatchToRoute(d, raw) PROVE OnRoute'
    <2> DEFINE item == [id |-> d, value |-> Normalize(d, raw)]
               h    == RouteOf[d]
    <2>1. item \in DataEvent /\ h \in Routes /\ RoutesOf(d) = {h} /\ item.id = d
      BY SetterTypes DEF DataEvent
    <2>2. storeQueue[h] \in Seq(DataEvent) /\ QueueOnRoute(storeQueue[h], h)
      BY <2>1 DEF OnRoute, TypeOK, StoreTypeOK
    <2>3. QueueOnRoute(RouteInsert(StorePolicy[h], storeQueue[h], item), h)
      BY <2>2, <2>1, InsertOnRoute
    <2>4. storeQueue' = [storeQueue EXCEPT ![h] = RouteInsert(StorePolicy[h], @, item)]
      BY <1>3, <2>1 DEF DispatchToRoute, QueueInsert
    <2>5. \A r \in Routes : QueueOnRoute(storeQueue'[r], r)
      BY <2>3, <2>4 DEF OnRoute, TypeOK, StoreTypeOK
    <2>6. QED
      BY <1>3, <2>5 DEF DispatchToRoute, PassedOn, OnRoute
  <1>4. CASE RouterPop
    BY <1>4 DEF RouterPop, OnRoute, TypeOK, InputTypeOK
  <1>5. CASE RouterPush
    <2> DEFINE item == Head(routed)
    <2>1. item \in Input /\ revision # "0820"
      BY <1>5 DEF RouterPush, TypeOK, InputTypeOK, OnRoute
    <2>2. ASSUME NEW r \in Routes PROVE QueueOnRoute(storeQueue'[r], r)
      <3>1. CASE r \in RoutesOf(item.id)
        <4>1. item \in DataEvent /\ RouteOf[item.id] = r
          BY <2>1, <3>1 DEF RoutesOf, Input, DataEvent
        <4>2. storeQueue[r] \in Seq(DataEvent) /\ QueueOnRoute(storeQueue[r], r)
          BY DEF OnRoute, TypeOK, StoreTypeOK
        <4>3. QueueOnRoute(RouteInsert(StorePolicy[r], storeQueue[r], item), r)
          BY <4>2, <4>1, InsertOnRoute
        <4>4. QED
          BY <1>5, <3>1, <4>3 DEF RouterPush, QueueInsert
      <3>2. CASE r \notin RoutesOf(item.id)
        BY <1>5, <3>2 DEF RouterPush, OnRoute
      <3>3. QED
        BY <3>1, <3>2
    <2>3. QED
      BY <1>5, <2>1, <2>2 DEF RouterPush, OnRoute
  <1>6. ASSUME NEW r \in Routes, StorePop(r) PROVE OnRoute'
    <2>1. /\ RouteOf[Head(storeQueue[r]).id] = r
          /\ QueueOnRoute(Tail(storeQueue[r]), r)
      BY <1>6, PopOnRoute DEF StorePop, OnRoute, TypeOK, StoreTypeOK
    <2>2. QED
      BY <1>6, <2>1 DEF StorePop, OnRoute, TypeOK, StoreTypeOK
  <1>7. ASSUME NEW r \in Routes, StoreDiff(r) \/ StoreLookup(r) \/ StoreWrite(r)
        PROVE  OnRoute'
    BY <1>7 DEF StoreDiff, StoreLookup, StoreWrite, OnRoute, TypeOK, StoreTypeOK
  <1>8. ASSUME NEW r \in Routes, StorePush(r) PROVE OnRoute'
    <2> DEFINE travels == IF revision = "0818" THEN gathered[r] ELSE EmptySnapshot
               e       == [id |-> storeItem[r].id, snapshot |-> travels]
    <2>1. e.id = storeItem[r].id /\ e \in CapabilityEvent /\ RouteOf[e.id] = r
      BY <1>8, EmptySnapshotType
      DEF StorePush, OnRoute, TypeOK, StoreTypeOK, SnapshotTypeOK, DataEvent, CapabilityEvent
    <2>2. capabilityQueue[r] \in Seq(CapabilityEvent) /\ QueueOnRoute(capabilityQueue[r], r)
      BY DEF OnRoute, TypeOK, CapabilityTypeOK
    <2>3. QueueOnRoute(RouteInsert(CapabilityPolicy[r], capabilityQueue[r], e), r)
      BY <2>2, <2>1, InsertOnRoute
    <2>4. \A t \in Routes : QueueOnRoute(capabilityQueue'[t], t)
      BY <1>8, <2>3 DEF StorePush, QueueInsert, OnRoute, TypeOK, CapabilityTypeOK
    <2>5. QED
      BY <1>8, <2>4 DEF StorePush, OnRoute, TypeOK, StoreTypeOK
  <1>9. ASSUME NEW r \in Routes, ReadSnapshot(r) PROVE OnRoute'
    BY <1>9 DEF ReadSnapshot, GetAllBegin, GetAllCopy, OnRoute, TypeOK, StoreTypeOK
  <1>10. ASSUME NEW r \in Routes, BuildSnapshot(r) PROVE OnRoute'
    <2>1. CASE GetAllBegin(r) \/ GetAllCopy(r)
      BY <2>1 DEF GetAllBegin, GetAllCopy, OnRoute
    <2>2. CASE ~(GetAllBegin(r) \/ GetAllCopy(r))
      <3>1. \E s : event' = [event EXCEPT ![r].snapshot = s]
        BY <1>10, <2>2 DEF BuildSnapshot
      <3>2. \A t \in Routes : event'[t].id = event[t].id
        BY <3>1 DEF TypeOK, CapabilityTypeOK, CapabilityEvent, NoEvent
      <3>3. QED
        BY <1>10, <2>2, <3>2 DEF BuildSnapshot, OnRoute, TypeOK, CapabilityTypeOK
    <2>3. QED
      BY <2>1, <2>2
  <1>11. ASSUME NEW r \in Routes, CapabilityPop(r) PROVE OnRoute'
    <2>1. /\ RouteOf[Head(capabilityQueue[r]).id] = r
          /\ QueueOnRoute(Tail(capabilityQueue[r]), r)
      BY <1>11, PopOnRoute DEF CapabilityPop, OnRoute, TypeOK, CapabilityTypeOK
    <2>2. QED
      BY <1>11, <2>1 DEF CapabilityPop, OnRoute, TypeOK, CapabilityTypeOK
  <1>12. ASSUME NEW r \in Routes, PublishData(r) \/ EvaluateNext(r) \/ KeepChanged(r)
         PROVE  OnRoute'
    BY <1>12 DEF PublishData, EvaluateNext, KeepChanged, OnRoute, TypeOK, CapabilityTypeOK
  <1>13. ASSUME NEW r \in Routes, PublishNextChange(r) PROVE OnRoute'
    BY <1>13 DEF PublishNextChange, OnRoute, TypeOK, CapabilityTypeOK
  <1>14. CASE PublisherTake
    BY <1>14 DEF PublisherTake, OnRoute
  <1>15. ASSUME NEW r \in Routes, RouteStep(r) PROVE OnRoute'
    BY <1>15, <1>6, <1>7, <1>8, <1>9, <1>10, <1>11, <1>12, <1>13
    DEF RouteStep, StoreThread, CapabilityThread, Evaluate
  <1>16. QED
    BY <1>1, <1>2, <1>3, <1>4, <1>5, <1>14, <1>15, StepCases
    DEF Application0820, Router0818
-----------------------------------------------------------------------------
(***************************************************************************)
(* What the threads of a route know between two steps.                     *)
(***************************************************************************)
LEMMA KnowledgeInit == Init => SilentStores /\ TargetsDepend /\ LockHeld /\ OwnDataCurrent
  <1> SUFFICES ASSUME Init
               PROVE  SilentStores /\ TargetsDepend /\ LockHeld /\ OwnDataCurrent
    OBVIOUS
  <1>1. SilentStores /\ LockHeld /\ OwnDataCurrent
    BY ItemAssumption DEF Init, SilentStores, LockHeld, OwnDataCurrent
  <1>2. \A r \in Routes : targets[r] = <<>>
    BY DEF Init
  <1>3. QED
    BY <1>1, <1>2 DEF TargetsDepend, ToSet

\* Only the thread of a route stores its items (DomainStorage::Store).
LEMMA OnlyOwnStored ==
    ASSUME TypeOK, OnRoute, NEW r \in Routes, StoreWrite(r)
    PROVE  /\ storeItem[r] \in DataEvent /\ RouteOf[storeItem[r].id] = r
           /\ \A d \in Data : domainStore'[d] = IF d = storeItem[r].id THEN storeItem[r].value
                                                ELSE domainStore[d]
  BY DEF StoreWrite, TypeOK, OnRoute, StoreTypeOK, SharedTypeOK, Snapshot, DataEvent

\* No other step changes what is stored.
LEMMA OthersDoNotStore ==
    ASSUME [Next]_vars, \A r \in Routes : ~StoreWrite(r)
    PROVE  domainStore' = domainStore
  <1>1. ASSUME NEW r \in Routes, RouteStep(r) PROVE domainStore' = domainStore
    BY <1>1 DEF RouteStep, StoreThread, CapabilityThread, Evaluate, StorePop, StoreDiff,
                StoreLookup, StorePush, ReadSnapshot, BuildSnapshot, GetAllBegin, GetAllCopy,
                CapabilityPop, PublishData, EvaluateNext, KeepChanged, PublishNextChange
  <1>2. CASE Application0818 \/ Application0820 \/ Router0818 \/ PublisherTake
    BY <1>2 DEF Application0818, Application0820, Router0818, DispatchInput, PushInput,
                DispatchToRoute, PassedOn, RouterPop, RouterPush, PublisherTake
  <1>3. QED
    BY <1>1, <1>2, StepCases DEF vars

\* No other step moves a thread that stores.
LEMMA OthersDoNotMoveStore ==
    ASSUME [Next]_vars, NEW r \in Routes, ~StoreThread(r), ~ReadSnapshot(r), TypeOK
    PROVE  UNCHANGED <<storePc[r], storeItem[r], announces[r]>>
  <1>1. ASSUME NEW s \in Routes, s # r, RouteStep(s)
        PROVE  UNCHANGED <<storePc[r], storeItem[r], announces[r]>>
    BY <1>1 DEF RouteStep, StoreThread, CapabilityThread, Evaluate, StorePop, StoreDiff,
                StoreLookup, StoreWrite, StorePush, ReadSnapshot, BuildSnapshot, GetAllBegin,
                GetAllCopy, CapabilityPop, PublishData, EvaluateNext, KeepChanged,
                PublishNextChange, TypeOK, StoreTypeOK
  <1>2. CASE RouteStep(r)
    BY <1>2 DEF RouteStep, CapabilityThread, Evaluate, BuildSnapshot, GetAllBegin,
                GetAllCopy, CapabilityPop, PublishData, EvaluateNext, KeepChanged,
                PublishNextChange
  <1>3. CASE Application0818 \/ Application0820 \/ Router0818 \/ PublisherTake
    BY <1>3 DEF Application0818, Application0820, Router0818, DispatchInput, PushInput,
                DispatchToRoute, PassedOn, RouterPop, RouterPush, PublisherTake
  <1>4. QED
    BY <1>1, <1>2, <1>3, StepCases DEF vars

\* What compares equal stays equal until it is stored (ProcessItem).
LEMMA SilentStoresNext ==
    TypeOK /\ OnRoute /\ SilentStores /\ [Next]_vars => SilentStores'
  <1> SUFFICES ASSUME TypeOK, OnRoute, SilentStores, [Next]_vars, NEW r \in Routes,
                      storePc'[r] \in {"lookup", "store"}, ~announces'[r]
               PROVE  domainStore'[storeItem'[r].id] = storeItem'[r].value
    BY DEF SilentStores
  <1>1. CASE StoreDiff(r)
    <2>1. /\ UNCHANGED <<storeItem, domainStore>>
          /\ announces'[r] = (~(domainStore[storeItem[r].id] # NoValue
                                 /\ storeItem[r].id \in WithDiff)
                              \/ domainStore[storeItem[r].id] # storeItem[r].value)
      BY <1>1 DEF StoreDiff, TypeOK, StoreTypeOK
    <2>2. QED
      BY <2>1
  <1>2. CASE StoreLookup(r)
    BY <1>2 DEF StoreLookup, SilentStores, TypeOK, StoreTypeOK
  <1>3. CASE StorePop(r) \/ StoreWrite(r) \/ StorePush(r) \/ ReadSnapshot(r)
    <2>1. CASE StorePop(r)
      BY <2>1 DEF StorePop, TypeOK, StoreTypeOK
    <2>2. CASE StoreWrite(r)
      BY <2>2 DEF StoreWrite, TypeOK, StoreTypeOK
    <2>3. CASE StorePush(r)
      BY <2>3 DEF StorePush, TypeOK, StoreTypeOK
    <2>4. CASE ReadSnapshot(r)
      BY <2>4 DEF ReadSnapshot, GetAllBegin, GetAllCopy, SilentStores, TypeOK, StoreTypeOK
    <2>5. QED
      BY <1>3, <2>1, <2>2, <2>3, <2>4
  <1>4. CASE ~StoreThread(r) /\ ~ReadSnapshot(r)
    <2>1. UNCHANGED <<storePc[r], storeItem[r], announces[r]>>
      BY <1>4, OthersDoNotMoveStore
    <2>2. /\ domainStore[storeItem[r].id] = storeItem[r].value
          /\ storeItem[r].id \in Data /\ RouteOf[storeItem[r].id] = r
      BY <2>1 DEF SilentStores, OnRoute, TypeOK, StoreTypeOK, DataEvent
    <2>3. domainStore'[storeItem[r].id] = domainStore[storeItem[r].id]
      <3>1. ASSUME NEW s \in Routes, StoreWrite(s)
            PROVE  domainStore'[storeItem[r].id] = domainStore[storeItem[r].id]
        <4>1. s # r
          BY <1>4, <3>1 DEF StoreThread
        <4>2. QED
          BY <3>1, <4>1, <2>2, OnlyOwnStored
      <3>2. QED
        BY <3>1, OthersDoNotStore
    <2>4. QED
      BY <2>1, <2>2, <2>3
  <1>5. QED
    BY <1>1, <1>2, <1>3, <1>4 DEF StoreThread

\* No other step moves a thread that evaluates.
LEMMA OthersDoNotMoveCapability ==
    ASSUME [Next]_vars, NEW r \in Routes, ~CapabilityThread(r), ~BuildSnapshot(r), TypeOK
    PROVE  UNCHANGED <<capabilityPc[r], event[r], targets[r], changes[r]>>
  <1>1. ASSUME NEW s \in Routes, s # r, RouteStep(s)
        PROVE  UNCHANGED <<capabilityPc[r], event[r], targets[r], changes[r]>>
    <2>1. CASE StoreThread(s) \/ ReadSnapshot(s)
      BY <2>1 DEF StoreThread, StorePop, StoreDiff, StoreLookup, StoreWrite, StorePush,
                  ReadSnapshot, GetAllBegin, GetAllCopy
    <2>2. CASE BuildSnapshot(s)
      BY <1>1, <2>2 DEF BuildSnapshot, GetAllBegin, GetAllCopy, TypeOK, CapabilityTypeOK
    <2>3. CASE CapabilityPop(s) \/ EvaluateNext(s) \/ KeepChanged(s)
      BY <1>1, <2>3 DEF CapabilityPop, EvaluateNext, KeepChanged, TypeOK, CapabilityTypeOK
    <2>4. CASE PublishData(s)
      BY <1>1, <2>4 DEF PublishData, TypeOK, CapabilityTypeOK
    <2>5. CASE PublishNextChange(s)
      BY <1>1, <2>5 DEF PublishNextChange, TypeOK, CapabilityTypeOK
    <2>6. QED
      BY <1>1, <2>1, <2>2, <2>3, <2>4, <2>5 DEF RouteStep, CapabilityThread, Evaluate
  <1>2. CASE RouteStep(r)
    BY <1>2 DEF RouteStep, StoreThread, StorePop, StoreDiff, StoreLookup, StoreWrite,
                StorePush, ReadSnapshot, GetAllBegin, GetAllCopy
  <1>3. CASE Application0818 \/ Application0820 \/ Router0818 \/ PublisherTake
    BY <1>3 DEF Application0818, Application0820, Router0818, DispatchInput, PushInput,
                DispatchToRoute, PassedOn, RouterPop, RouterPush, PublisherTake
  <1>4. QED
    BY <1>1, <1>2, <1>3, StepCases DEF vars

\* No other step touches what a thread copies under the registry's mutex.
LEMMA OthersDoNotCopy ==
    ASSUME [Next]_vars, NEW r \in Routes, ~ReadSnapshot(r), ~BuildSnapshot(r),
           ~StorePush(r), TypeOK
    PROVE  /\ registryLock' = r <=> registryLock = r
           /\ UNCHANGED <<unread[r], gathered[r]>>
  <1>0. registryLock \in Routes \cup {Nobody} /\ Nobody \notin Routes
    BY ItemAssumption DEF TypeOK, SnapshotTypeOK
  <1>1. ASSUME NEW s \in Routes, s # r, RouteStep(s)
        PROVE  /\ registryLock' = r <=> registryLock = r
               /\ UNCHANGED <<unread[r], gathered[r]>>
    <2>1. CASE ReadSnapshot(s) \/ BuildSnapshot(s)
      BY <1>0, <1>1, <2>1 DEF ReadSnapshot, BuildSnapshot, GetAllBegin, GetAllCopy,
                              TypeOK, SnapshotTypeOK
    <2>2. CASE StorePush(s)
      BY <1>1, <2>2 DEF StorePush, TypeOK, SnapshotTypeOK
    <2>3. CASE StorePop(s) \/ StoreDiff(s) \/ StoreLookup(s) \/ StoreWrite(s)
      BY <2>3 DEF StorePop, StoreDiff, StoreLookup, StoreWrite
    <2>4. CASE CapabilityThread(s)
      BY <2>4 DEF CapabilityThread, Evaluate, CapabilityPop, PublishData, EvaluateNext,
                  KeepChanged, PublishNextChange
    <2>5. QED
      BY <1>1, <2>1, <2>2, <2>3, <2>4 DEF RouteStep, StoreThread
  <1>2. CASE RouteStep(r)
    BY <1>2 DEF RouteStep, StoreThread, StorePop, StoreDiff, StoreLookup, StoreWrite,
                CapabilityThread, Evaluate, CapabilityPop, PublishData, EvaluateNext,
                KeepChanged, PublishNextChange
  <1>3. CASE Application0818 \/ Application0820 \/ Router0818 \/ PublisherTake
    BY <1>3 DEF Application0818, Application0820, Router0818, DispatchInput, PushInput,
                DispatchToRoute, PassedOn, RouterPop, RouterPush, PublisherTake
  <1>4. QED
    BY <1>1, <1>2, <1>3, StepCases DEF vars

\* The revision that runs is the one that was built.
LEMMA RevisionStays == ASSUME [Next]_vars PROVE revision' = revision
  <1>1. ASSUME NEW s \in Routes, RouteStep(s) PROVE revision' = revision
    BY <1>1 DEF RouteStep, StoreThread, CapabilityThread, Evaluate, StorePop, StoreDiff,
                StoreLookup, StoreWrite, StorePush, ReadSnapshot, BuildSnapshot, GetAllBegin,
                GetAllCopy, CapabilityPop, PublishData, EvaluateNext, KeepChanged,
                PublishNextChange
  <1>2. CASE Application0818 \/ Application0820 \/ Router0818 \/ PublisherTake
    BY <1>2 DEF Application0818, Application0820, Router0818, DispatchInput, PushInput,
                DispatchToRoute, PassedOn, RouterPop, RouterPush, PublisherTake
  <1>3. QED
    BY <1>1, <1>2, StepCases DEF vars

\* The registry's mutex is held where snapshots are taken (GetAll).
LEMMA LockHeldNext == TypeOK /\ LockHeld /\ [Next]_vars => LockHeld'
  <1> SUFFICES ASSUME TypeOK, LockHeld, [Next]_vars, NEW r \in Routes
               PROVE  /\ revision = "0818" =>
                            /\ capabilityPc'[r] # "snapshot"
                            /\ registryLock' = r => storePc'[r] = "snapshot"
                      /\ revision = "0820" =>
                            /\ storePc'[r] # "snapshot"
                            /\ registryLock' = r => capabilityPc'[r] = "snapshot"
    BY RevisionStays DEF LockHeld
  <1>0. registryLock \in Routes \cup {Nobody} /\ Nobody \notin Routes
    BY ItemAssumption DEF TypeOK, SnapshotTypeOK
  <1>1. CASE ReadSnapshot(r)
    BY <1>0, <1>1 DEF ReadSnapshot, GetAllBegin, GetAllCopy, LockHeld, TypeOK, StoreTypeOK
  <1>2. CASE BuildSnapshot(r)
    BY <1>0, <1>2 DEF BuildSnapshot, GetAllBegin, GetAllCopy, LockHeld, TypeOK,
                      CapabilityTypeOK
  <1>3. CASE StoreThread(r)
    <2>1. registryLock' = registryLock /\ capabilityPc' = capabilityPc
      BY <1>3 DEF StoreThread, StorePop, StoreDiff, StoreLookup, StoreWrite, StorePush
    <2>2. /\ storePc[r] # "snapshot"
          /\ storePc'[r] = "snapshot" => revision = "0818"
      BY <1>3 DEF StoreThread, StorePop, StoreDiff, StoreLookup, StoreWrite, StorePush,
                  TypeOK, StoreTypeOK
    <2>3. QED
      BY <2>1, <2>2 DEF LockHeld
  <1>4. CASE CapabilityThread(r)
    <2>1. registryLock' = registryLock /\ storePc' = storePc
      BY <1>4 DEF CapabilityThread, Evaluate, CapabilityPop, PublishData, EvaluateNext,
                  KeepChanged, PublishNextChange
    <2>2. /\ capabilityPc[r] # "snapshot"
          /\ capabilityPc'[r] = "snapshot" => revision # "0818"
      BY <1>4 DEF CapabilityThread, Evaluate, CapabilityPop, PublishData, EvaluateNext,
                  KeepChanged, PublishNextChange, TypeOK, CapabilityTypeOK
    <2>3. QED
      BY <2>1, <2>2 DEF LockHeld
  <1>5. CASE ~(ReadSnapshot(r) \/ BuildSnapshot(r) \/ StoreThread(r) \/ CapabilityThread(r))
    <2>1. /\ registryLock' = r <=> registryLock = r
          /\ UNCHANGED <<storePc[r], capabilityPc[r]>>
      BY <1>5, OthersDoNotCopy, OthersDoNotMoveStore, OthersDoNotMoveCapability
      DEF StoreThread
    <2>2. QED
      BY <2>1 DEF LockHeld
  <1>6. QED
    BY <1>1, <1>2, <1>3, <1>4, <1>5

\* What is stored for the items of a route stays unless its thread stores one.
LEMMA RouteDataStays ==
    ASSUME [Next]_vars, TypeOK, OnRoute, NEW r \in Routes, ~StoreWrite(r)
    PROVE  \A d \in Data : RouteOf[d] = r => domainStore'[d] = domainStore[d]
  <1>1. ASSUME NEW s \in Routes, StoreWrite(s)
        PROVE  \A d \in Data : RouteOf[d] = r => domainStore'[d] = domainStore[d]
    <2>1. s # r
      BY <1>1
    <2>2. QED
      BY <1>1, <2>1, OnlyOwnStored
  <1>2. QED
    BY <1>1, OthersDoNotStore

\* A worker turns to the rest of its targets.
LEMMA TailMembers ==
    ASSUME NEW S, NEW q \in Seq(S), q # <<>>, NEW c
    PROVE  c \in ToSet(q) <=> c = Head(q) \/ c \in ToSet(Tail(q))
  <1>1. /\ Len(q) \in Nat \ {0}
        /\ DOMAIN q = 1 .. Len(q)
        /\ Head(q) = q[1]
        /\ DOMAIN Tail(q) = 1 .. Len(q) - 1
        /\ \A k \in 1 .. Len(q) - 1 : Tail(q)[k] = q[k + 1]
    BY TailProperties
  <1>2. ASSUME NEW k \in 1 .. Len(q), k # 1
        PROVE  k - 1 \in DOMAIN Tail(q) /\ Tail(q)[k - 1] = q[k]
    <2>1. k - 1 \in 1 .. Len(q) - 1 /\ (k - 1) + 1 = k
      BY <1>1, <1>2
    <2>2. QED
      BY <1>1, <2>1
  <1>3. 1 \in DOMAIN q /\ \A k \in DOMAIN Tail(q) : k + 1 \in DOMAIN q
    BY <1>1
  <1>4. ASSUME NEW k \in DOMAIN q PROVE q[k] = Head(q) \/ \E j \in DOMAIN Tail(q) : Tail(q)[j] = q[k]
    BY <1>1, <1>2
  <1>5. ASSUME NEW j \in DOMAIN Tail(q) PROVE \E k \in DOMAIN q : q[k] = Tail(q)[j]
    BY <1>1, <1>3
  <1>6. ToSet(q) = {q[k] : k \in DOMAIN q} /\ ToSet(Tail(q)) = {Tail(q)[j] : j \in DOMAIN Tail(q)}
    BY DEF ToSet
  <1>7. QED
    BY <1>1, <1>3, <1>4, <1>5, <1>6

\* A worker's targets are those its event concerns (CapabilityDependencyMap).
LEMMA TargetsDependNext == TypeOK /\ TargetsDepend /\ [Next]_vars => TargetsDepend'
  <1> SUFFICES ASSUME TypeOK, TargetsDepend, [Next]_vars, NEW r \in Routes
               PROVE  /\ capabilityPc'[r] \in {"wait", "data"} => targets'[r] = <<>>
                      /\ \A c \in ToSet(targets'[r]) : event'[r].id \in Required(c)
    BY DEF TargetsDepend
  <1>1. CASE CapabilityPop(r)
    <2>1. targets'[r] = <<>>
      BY <1>1 DEF CapabilityPop, TargetsDepend
    <2>2. QED
      BY <2>1 DEF ToSet
  <1>2. CASE PublishData(r)
    <2>1. PICK list \in DependentCapabilities(event[r].id) :
             targets' = [targets EXCEPT ![r] = list]
      BY <1>2 DEF PublishData
    <2>2. targets'[r] = list /\ event' = event /\ capabilityPc'[r] \notin {"wait", "data"}
      BY <1>2, <2>1 DEF PublishData, TypeOK, CapabilityTypeOK
    <2>3. QED
      BY <2>2, DependentsListed
  <1>3. CASE EvaluateNext(r) \/ KeepChanged(r)
    <2>1. /\ targets[r] \in Seq(Capabilities) /\ targets[r] # <<>>
          /\ targets'[r] \in {targets[r], Tail(targets[r])}
          /\ event' = event /\ capabilityPc'[r] \notin {"wait", "data"}
      BY <1>3 DEF EvaluateNext, KeepChanged, TypeOK, CapabilityTypeOK
    <2>2. QED
      BY <2>1, TailMembers DEF TargetsDepend
  <1>4. CASE PublishNextChange(r)
    <2>1. targets'[r] = <<>>
      BY <1>4 DEF PublishNextChange
    <2>2. QED
      BY <2>1 DEF ToSet
  <1>5. CASE BuildSnapshot(r)
    <2>1. CASE GetAllBegin(r) \/ GetAllCopy(r)
      BY <2>1 DEF GetAllBegin, GetAllCopy, TargetsDepend
    <2>2. CASE ~(GetAllBegin(r) \/ GetAllCopy(r))
      <3>1. \E s : event' = [event EXCEPT ![r].snapshot = s]
        BY <1>5, <2>2 DEF BuildSnapshot
      <3>2. event'[r].id = event[r].id
        BY <3>1 DEF TypeOK, CapabilityTypeOK, CapabilityEvent, NoEvent
      <3>3. targets' = targets /\ capabilityPc'[r] = "evaluate"
        BY <1>5, <2>2 DEF BuildSnapshot, TypeOK, CapabilityTypeOK
      <3>4. QED
        BY <3>2, <3>3 DEF TargetsDepend
    <2>3. QED
      BY <2>1, <2>2
  <1>6. CASE ~CapabilityThread(r) /\ ~BuildSnapshot(r)
    BY <1>6, OthersDoNotMoveCapability DEF TargetsDepend
  <1>7. QED
    BY <1>1, <1>2, <1>3, <1>4, <1>5, <1>6 DEF CapabilityThread, Evaluate

\* What one step of GetAll has copied is what is stored (GetAllCopy).
LEMMA CopyIsCurrent ==
    ASSUME TypeOK, NEW r \in Routes, GetAllCopy(r), NEW d \in Data,
           DomainId(d) \in unread[r] \/ gathered[r][d] = domainStore[d]
    PROVE  DomainId(d) \in unread'[r] \/ gathered'[r][d] = domainStore[d]
  <1>1. PICK domain \in unread[r] :
           /\ unread' = [unread EXCEPT ![r] = @ \ {domain}]
           /\ gathered' = [gathered EXCEPT ![r] =
                 [x \in Data |-> IF DomainId(x) = domain THEN domainStore[x] ELSE @[x]]]
    BY DEF GetAllCopy
  <1>2. unread'[r] = unread[r] \ {domain}
    BY <1>1 DEF TypeOK, SnapshotTypeOK
  <1>3. gathered'[r][d] = IF DomainId(d) = domain THEN domainStore[d] ELSE gathered[r][d]
    BY <1>1 DEF TypeOK, SnapshotTypeOK
  <1>4. QED
    BY <1>2, <1>3

\* The snapshot of a dispatcher is current for its own route (0818).
LEMMA OwnDataCurrentNext ==
    TypeOK /\ OnRoute /\ LockHeld /\ OwnDataCurrent /\ [Next]_vars => OwnDataCurrent'
  <1> SUFFICES ASSUME TypeOK, OnRoute, LockHeld, OwnDataCurrent, [Next]_vars,
                      revision = "0818", NEW r \in Routes, NEW d \in Data, RouteOf[d] = r
               PROVE  /\ storePc'[r] = "snapshot" /\ registryLock' = r =>
                            DomainId(d) \in unread'[r] \/ gathered'[r][d] = domainStore'[d]
                      /\ storePc'[r] = "push" => gathered'[r][d] = domainStore'[d]
    BY RevisionStays DEF OwnDataCurrent
  <1>1. CASE StoreThread(r)
    <2>1. CASE StoreWrite(r)
      BY <2>1 DEF StoreWrite, LockHeld, TypeOK, StoreTypeOK
    <2>2. CASE StorePop(r) \/ StoreDiff(r) \/ StoreLookup(r) \/ StorePush(r)
      BY <2>2 DEF StorePop, StoreDiff, StoreLookup, StorePush, TypeOK, StoreTypeOK
    <2>3. QED
      BY <1>1, <2>1, <2>2 DEF StoreThread
  <1>2. CASE ReadSnapshot(r)
    <2>0. domainStore' = domainStore /\ storePc[r] = "snapshot"
      BY <1>2 DEF ReadSnapshot, GetAllBegin, GetAllCopy
    <2>1. CASE GetAllBegin(r)
      <3>1. unread'[r] = Domains /\ storePc' = storePc
        BY <2>1 DEF GetAllBegin, TypeOK, SnapshotTypeOK
      <3>2. QED
        BY <2>0, <3>1 DEF Domains
    <2>2. CASE GetAllCopy(r)
      <3>1. storePc' = storePc /\ registryLock = r
        BY <2>2 DEF GetAllCopy
      <3>2. DomainId(d) \in unread[r] \/ gathered[r][d] = domainStore[d]
        BY <2>0, <3>1 DEF OwnDataCurrent
      <3>3. DomainId(d) \in unread'[r] \/ gathered'[r][d] = domainStore[d]
        BY <2>2, <3>2, CopyIsCurrent
      <3>4. QED
        BY <2>0, <3>1, <3>3
    <2>3. CASE ~GetAllBegin(r) /\ ~GetAllCopy(r)
      <3>1. /\ registryLock = r /\ unread[r] = {} /\ gathered' = gathered
            /\ storePc'[r] = "push"
        BY <1>2, <2>3 DEF ReadSnapshot, TypeOK, StoreTypeOK
      <3>2. gathered[r][d] = domainStore[d]
        BY <2>0, <3>1 DEF OwnDataCurrent
      <3>3. QED
        BY <2>0, <3>1, <3>2
    <2>4. QED
      BY <2>1, <2>2, <2>3
  <1>3. CASE ~StoreThread(r) /\ ~ReadSnapshot(r)
    <2>1. domainStore'[d] = domainStore[d]
      BY <1>3, RouteDataStays DEF StoreThread
    <2>2. storePc'[r] = storePc[r]
      BY <1>3, OthersDoNotMoveStore
    <2>3. ~BuildSnapshot(r)
      BY DEF BuildSnapshot, LockHeld
    <2>4. (registryLock' = r <=> registryLock = r) /\ UNCHANGED <<unread[r], gathered[r]>>
      BY <1>3, <2>3, OthersDoNotCopy DEF StoreThread
    <2>5. QED
      BY <2>1, <2>2, <2>4 DEF OwnDataCurrent
  <1>4. QED
    BY <1>1, <1>2, <1>3

\* PathInv is inductive.
LEMMA PathInit == Init => PathInv
  BY TypeInit, OnRouteInit, KnowledgeInit DEF PathInv

\* Every step keeps it.
LEMMA PathNext == PathInv /\ [Next]_vars => PathInv'
  BY TypeNext, OnRouteNext, SilentStoresNext, TargetsDependNext, LockHeldNext,
     OwnDataCurrentNext DEF PathInv

\* It holds in every state the earlier paths reach.
LEMMA PathInvariant == Spec => []PathInv
  BY PathInit, PathNext, PTL DEF Spec

(***************************************************************************)
(* The variables of the earlier paths have their types, for every product. *)
(***************************************************************************)
THEOREM EarlierPathTypeCorrect == Spec => []TypeOK
  <1>1. PathInv => TypeOK
    BY DEF PathInv
  <1>2. QED
    BY <1>1, PathInvariant, PTL
-----------------------------------------------------------------------------
(***************************************************************************)
(* The last value set is never lost.                                       *)
(***************************************************************************)
\* What the router holds is one item or none.
LEMMA OneRouted ==
    ASSUME NEW item, NEW d, NEW v
    PROVE  /\ HoldsId(<<item>>, d) <=> item.id = d
           /\ LastIs(<<item>>, d, v) <=> (item.id = d => item.value = v)
           /\ ~HoldsId(<<>>, d) /\ LastIs(<<>>, d, v)
  <1>1. DOMAIN <<item>> = {1} /\ <<item>>[1] = item
    OBVIOUS
  <1>2. QED
    BY <1>1 DEF HoldsId, LastIs, IsLastOf

\* Nothing has been set (DomainStorage is empty).
LEMMA LastWriteInit == Init => LastWriteWins
  <1> SUFFICES ASSUME Init PROVE LastWriteWins
    OBVIOUS
  <1>1. \A r \in Routes : storeQueue[r] = <<>> /\ storePc[r] = "wait"
    BY DEF Init
  <1>2. inputQueue = <<>> /\ routed = <<>> /\ accepted = domainStore
    BY DEF Init
  <1>3. \A d \in Data : RouteOf[d] \in Routes
    BY ItemAssumption
  <1>4. \A d \in Data : InHand(d) = accepted[d]
    BY <1>1, <1>2, <1>3 DEF InHand
  <1>5. \A d \in Data : LastIs(<<>>, d, accepted[d])
    BY DEF LastIs
  <1>6. QED
    BY <1>1, <1>2, <1>3, <1>4, <1>5 DEF LastWriteWins

\* Where the last value of item d is.
LastWriteOf(d) ==
    LET queue == storeQueue[RouteOf[d]]
    IN  /\ LastIs(inputQueue, d, accepted[d])
        /\ ~HoldsId(inputQueue, d) =>
              LastIs(routed, d, accepted[d])
        /\ ~HoldsId(inputQueue, d) /\ ~HoldsId(routed, d) =>
              LastIs(queue, d, accepted[d])
        /\ ~HoldsId(inputQueue, d) /\ ~HoldsId(routed, d) /\ ~HoldsId(queue, d) =>
              InHand(d) = accepted[d]

\* A value passed on is the last one from then on (RIM_SetXxx).
LEMMA LastWriteApplication ==
    ASSUME TypeOK, OnRoute, NEW d \in Data, LastWriteOf(d),
           Application0818 \/ Application0820
    PROVE  LastWriteOf(d)'
  <1>1. ASSUME NEW x \in Data \cup {UnknownData}, NEW v \in Values,
               inputQueue' = Append(inputQueue, [id |-> x, value |-> v]),
               UNCHANGED storeQueue, PassedOn(x, v)
        PROVE  LastWriteOf(d)'
    <2> DEFINE e == [id |-> x, value |-> v]
    <2>1. e \in Input /\ e.id = x /\ e.value = v
      BY DEF Input
    <2>2. inputQueue' = RouteInsert("Buffered", inputQueue, e)
      BY <1>1 DEF RouteInsert, FifoInsert
    <2> HIDE DEF e
    <2>3. inputQueue \in Seq(Input)
      BY DEF TypeOK, InputTypeOK
    <2>4. HoldsId(inputQueue', d) <=> d = x \/ HoldsId(inputQueue, d)
      BY <2>1, <2>2, <2>3, RouteInsertIds
    <2>5. accepted'[d] = IF d = x THEN v ELSE accepted[d]
      BY <1>1, NoneApart DEF PassedOn, TypeOK, SharedTypeOK, Snapshot
    <2>6. LastIs(inputQueue', d, accepted'[d])
      BY <2>1, <2>2, <2>3, <2>5, InsertLastIs DEF LastWriteOf
    <2>7. UNCHANGED <<routed, storeQueue, storePc, storeItem, domainStore>>
      BY <1>1 DEF PassedOn
    <2>8. CASE d = x
      BY <2>4, <2>6, <2>8 DEF LastWriteOf
    <2>9. CASE d # x
      <3>1. InHand(d)' = InHand(d)
        BY <2>7 DEF InHand
      <3>2. QED
        BY <2>4, <2>5, <2>6, <2>7, <2>9, <3>1 DEF LastWriteOf
    <2>10. QED
      BY <2>8, <2>9
  <1>2. ASSUME NEW x \in Data, NEW raw \in RawValues, DispatchToRoute(x, raw)
        PROVE  LastWriteOf(d)'
    <2> DEFINE e == [id |-> x, value |-> Normalize(x, raw)]
               h == RouteOf[x]
    <2>1. /\ e \in DataEvent /\ e.id = x /\ e.value = Normalize(x, raw)
          /\ h \in Routes /\ RoutesOf(x) = {h} /\ RouteOf[d] \in Routes
      BY SetterTypes DEF DataEvent
    <2>2. storeQueue' = [storeQueue EXCEPT ![h] = RouteInsert(StorePolicy[h], @, e)]
      BY <1>2, <2>1 DEF DispatchToRoute, QueueInsert
    <2> HIDE DEF e
    <2>3. inputQueue = <<>> /\ routed = <<>> /\ inputQueue' = <<>> /\ routed' = <<>>
      BY <1>2 DEF DispatchToRoute, PassedOn, OnRoute
    <2>4. accepted'[d] = IF d = x THEN e.value ELSE accepted[d]
      BY <1>2, <2>1 DEF DispatchToRoute, PassedOn, TypeOK, SharedTypeOK, Snapshot
    <2>5. storeQueue[h] \in Seq(DataEvent)
      BY <2>1 DEF TypeOK, StoreTypeOK
    <2>6. LastIs(storeQueue[RouteOf[d]], d, accepted[d])
          /\ (~HoldsId(storeQueue[RouteOf[d]], d) => InHand(d) = accepted[d])
      BY <2>3, OneRouted DEF LastWriteOf
    <2>7. InHand(d)' = InHand(d)
      BY <1>2 DEF DispatchToRoute, PassedOn, InHand
    <2>8. LastIs(storeQueue'[RouteOf[d]], d, accepted'[d])
      <3>1. CASE RouteOf[d] = h
        <4>1. storeQueue'[RouteOf[d]] = RouteInsert(StorePolicy[h], storeQueue[h], e)
          BY <2>1, <2>2, <3>1 DEF TypeOK, StoreTypeOK
        <4>2. LastIs(RouteInsert(StorePolicy[h], storeQueue[h], e), d, accepted'[d])
          BY <2>1, <2>4, <2>5, <2>6, <3>1, InsertLastIs
        <4>3. QED
          BY <4>1, <4>2
      <3>2. CASE RouteOf[d] # h
        BY <2>1, <2>2, <2>4, <2>6, <3>2 DEF TypeOK, StoreTypeOK
      <3>3. QED
        BY <3>1, <3>2
    <2>9. HoldsId(storeQueue'[RouteOf[d]], d) <=>
             d = x \/ HoldsId(storeQueue[RouteOf[d]], d)
      <3>1. CASE RouteOf[d] = h
        <4>1. storeQueue'[RouteOf[d]] = RouteInsert(StorePolicy[h], storeQueue[h], e)
          BY <2>1, <2>2, <3>1 DEF TypeOK, StoreTypeOK
        <4>2. QED
          BY <2>1, <2>5, <3>1, <4>1, RouteInsertIds
      <3>2. CASE RouteOf[d] # h
        BY <2>1, <2>2, <3>2 DEF TypeOK, StoreTypeOK
      <3>3. QED
        BY <3>1, <3>2
    <2>10. QED
      BY <2>3, <2>4, <2>6, <2>7, <2>8, <2>9, OneRouted DEF LastWriteOf
  <1>3. ASSUME NEW x \in Data \cup {UnknownData}, NEW raw \in RawValues,
               DispatchInput(x, raw) \/ PushInput(x, raw)
        PROVE  LastWriteOf(d)'
    <2>1. CASE DispatchInput(x, raw)
      BY <2>1, <1>1, SetterTypes DEF DispatchInput
    <2>2. CASE PushInput(x, raw)
      BY <2>2, <1>1, SetterTypes DEF PushInput
    <2>3. QED
      BY <1>3, <2>1, <2>2
  <1>4. QED
    BY <1>2, <1>3 DEF Application0818, Application0820

\* The router overtakes nothing (0818, DataStoreWorker).
LEMMA LastWriteRouter ==
    ASSUME TypeOK, OnRoute, NEW d \in Data, LastWriteOf(d), Router0818
    PROVE  LastWriteOf(d)'
  <1>0. RouteOf[d] \in Routes
    BY ItemAssumption
  <1>1. CASE RouterPop
    <2> DEFINE item == Head(inputQueue)
    <2>1. /\ inputQueue \in Seq(Input) /\ inputQueue # <<>>
          /\ routed = <<>> /\ routed' = <<item>> /\ inputQueue' = Tail(inputQueue)
          /\ UNCHANGED <<accepted, storeQueue, storePc, storeItem, domainStore>>
      BY <1>1 DEF RouterPop, TypeOK, InputTypeOK
    <2> HIDE DEF item
    <2>2. HoldsId(inputQueue, d) <=> d = item.id \/ HoldsId(inputQueue', d)
      BY <2>1, TailIds DEF item
    <2>3. /\ LastIs(inputQueue', d, accepted[d])
          /\ ~HoldsId(inputQueue', d) /\ item.id = d => item.value = accepted[d]
      BY <2>1, PopLastIs DEF LastWriteOf, item
    <2>4. InHand(d)' = InHand(d)
      BY <2>1 DEF InHand
    <2>5. QED
      BY <2>1, <2>2, <2>3, <2>4, OneRouted DEF LastWriteOf
  <1>2. CASE RouterPush
    <2> DEFINE item == Head(routed)
               h    == RouteOf[d]
    <2>1. /\ item \in Input /\ routed = <<item>> /\ routed' = <<>>
          /\ UNCHANGED <<accepted, inputQueue, storePc, storeItem, domainStore>>
      BY <1>2 DEF RouterPush, TypeOK, InputTypeOK
    <2>2. storeQueue[h] \in Seq(DataEvent)
      BY <1>0 DEF TypeOK, StoreTypeOK
    <2>3. storeQueue'[h] = IF h \in RoutesOf(item.id)
                           THEN RouteInsert(StorePolicy[h], storeQueue[h], item)
                           ELSE storeQueue[h]
      BY <1>0, <1>2 DEF RouterPush, QueueInsert
    <2>4. InHand(d)' = InHand(d)
      BY <2>1 DEF InHand
    <2> HIDE DEF item
    <2>5. item.id = d => h \in RoutesOf(item.id)
      BY DEF RoutesOf
    <2>6. HoldsId(storeQueue'[h], d) <=> d = item.id \/ HoldsId(storeQueue[h], d)
      <3>1. CASE h \in RoutesOf(item.id)
        <4>1. item \in DataEvent
          BY <2>1, <3>1 DEF RoutesOf, Input, DataEvent
        <4>2. QED
          BY <2>2, <2>3, <3>1, <4>1, RouteInsertIds
      <3>2. CASE h \notin RoutesOf(item.id)
        BY <2>3, <2>5, <3>2
      <3>3. QED
        BY <3>1, <3>2
    <2>7. ASSUME ~HoldsId(inputQueue, d)
          PROVE  LastIs(storeQueue'[h], d, accepted[d])
      <3>1. item.id = d => item.value = accepted[d]
        BY <2>1, <2>7, OneRouted DEF LastWriteOf
      <3>2. item.id # d => LastIs(storeQueue[h], d, accepted[d])
        BY <2>1, <2>7, OneRouted DEF LastWriteOf
      <3>3. CASE h \in RoutesOf(item.id)
        <4>1. item \in DataEvent
          BY <2>1, <3>3 DEF RoutesOf, Input, DataEvent
        <4>2. QED
          BY <2>2, <2>3, <3>1, <3>2, <3>3, <4>1, InsertLastIs
      <3>4. CASE h \notin RoutesOf(item.id)
        BY <2>3, <2>5, <3>2, <3>4
      <3>5. QED
        BY <3>3, <3>4
    <2>8. QED
      BY <2>1, <2>4, <2>6, <2>7, OneRouted DEF LastWriteOf
  <1>3. QED
    BY <1>1, <1>2 DEF Router0818

\* Storing takes the last value from the queue to the storage by way of the hand.
LEMMA LastWriteStore ==
    ASSUME TypeOK, OnRoute, NEW d \in Data, LastWriteOf(d), NEW r \in Routes,
           StoreThread(r)
    PROVE  LastWriteOf(d)'
  <1> DEFINE h == RouteOf[d]
  <1>0. h \in Routes
    BY ItemAssumption
  <1>1. UNCHANGED <<inputQueue, routed, accepted>>
    BY DEF StoreThread, StorePop, StoreDiff, StoreLookup, StoreWrite, StorePush
  <1>2. CASE StorePop(r)
    <2> DEFINE item == Head(storeQueue[r])
    <2>1. /\ storeQueue[r] \in Seq(DataEvent) /\ storeQueue[r] # <<>>
          /\ storePc[r] = "wait" /\ storePc'[r] = "diff"
          /\ storeItem'[r] = item /\ storeQueue'[r] = Tail(storeQueue[r])
          /\ domainStore' = domainStore
          /\ \A t \in Routes \ {r} : UNCHANGED <<storeQueue[t], storePc[t], storeItem[t]>>
      BY <1>2 DEF StorePop, TypeOK, StoreTypeOK
    <2> HIDE DEF item
    <2>2. CASE h = r
      <3>1. HoldsId(storeQueue[r], d) <=> d = item.id \/ HoldsId(storeQueue'[r], d)
        BY <2>1, TailIds DEF item
      <3>2. InHand(d) = domainStore[d]
        BY <2>1, <2>2 DEF InHand
      <3>3. InHand(d)' = IF item.id = d THEN item.value ELSE domainStore[d]
        BY <2>1, <2>2 DEF InHand
      <3>4. ASSUME ~HoldsId(inputQueue, d), ~HoldsId(routed, d)
            PROVE  /\ LastIs(storeQueue'[r], d, accepted[d])
                   /\ ~HoldsId(storeQueue'[r], d) => InHand(d)' = accepted[d]
        <4>1. LastIs(storeQueue[r], d, accepted[d])
          BY <2>2, <3>4 DEF LastWriteOf
        <4>2. /\ LastIs(storeQueue'[r], d, accepted[d])
              /\ ~HoldsId(storeQueue'[r], d) /\ item.id = d => item.value = accepted[d]
          BY <2>1, <4>1, PopLastIs DEF item
        <4>3. ~HoldsId(storeQueue[r], d) => domainStore[d] = accepted[d]
          BY <2>2, <3>2, <3>4 DEF LastWriteOf
        <4>4. QED
          BY <3>1, <3>3, <4>2, <4>3
      <3>5. QED
        BY <1>1, <2>2, <3>4 DEF LastWriteOf
    <2>3. CASE h # r
      <3>1. UNCHANGED <<storeQueue[h], storePc[h], storeItem[h], domainStore>>
        BY <1>0, <2>1, <2>3
      <3>2. InHand(d)' = InHand(d)
        BY <3>1 DEF InHand
      <3>3. QED
        BY <1>1, <3>1, <3>2 DEF LastWriteOf
    <2>4. QED
      BY <2>2, <2>3
  <1>3. CASE StoreDiff(r) \/ StoreLookup(r) \/ StorePush(r)
    <2>1. /\ UNCHANGED <<storeQueue, storeItem, domainStore>>
          /\ storePc'[h] \in {"diff", "lookup", "store"} <=>
                storePc[h] \in {"diff", "lookup", "store"}
      BY <1>0, <1>3 DEF StoreDiff, StoreLookup, StorePush, TypeOK, StoreTypeOK
    <2>2. InHand(d)' = InHand(d)
      BY <2>1 DEF InHand
    <2>3. QED
      BY <1>1, <2>1, <2>2 DEF LastWriteOf
  <1>4. CASE StoreWrite(r)
    <2>1. /\ storeItem[r] \in DataEvent /\ RouteOf[storeItem[r].id] = r
          /\ domainStore'[d] = IF d = storeItem[r].id THEN storeItem[r].value
                               ELSE domainStore[d]
      BY <1>4, OnlyOwnStored
    <2>2. /\ storePc[r] = "store" /\ storePc'[r] \notin {"diff", "lookup", "store"}
          /\ UNCHANGED <<storeQueue, storeItem>>
          /\ \A t \in Routes \ {r} : storePc'[t] = storePc[t]
      BY <1>4 DEF StoreWrite, TypeOK, StoreTypeOK
    <2>3. InHand(d)' = InHand(d)
      <3>1. CASE h = r
        BY <2>1, <2>2, <3>1 DEF InHand
      <3>2. CASE h # r
        BY <1>0, <2>1, <2>2, <3>2 DEF InHand
      <3>3. QED
        BY <3>1, <3>2
    <2>4. QED
      BY <1>1, <2>2, <2>3 DEF LastWriteOf
  <1>5. QED
    BY <1>2, <1>3, <1>4 DEF StoreThread

\* The last value set stays the last of its item, wherever it is.
LEMMA LastWriteNext == TypeOK /\ OnRoute /\ LastWriteWins /\ [Next]_vars => LastWriteWins'
  <1> SUFFICES ASSUME TypeOK, OnRoute, LastWriteWins, [Next]_vars, NEW d \in Data
               PROVE  LastWriteOf(d)'
    BY DEF LastWriteWins, LastWriteOf
  <1>0. LastWriteOf(d)
    BY DEF LastWriteWins, LastWriteOf
  <1>1. ASSUME NEW r \in Routes, RouteStep(r) PROVE LastWriteOf(d)'
    <2>1. CASE StoreThread(r)
      BY <1>0, <2>1, LastWriteStore
    <2>2. CASE ~StoreThread(r)
      <3>1. UNCHANGED <<inputQueue, routed, accepted, storeQueue, storeItem, domainStore>>
        BY <1>1, <2>2
        DEF RouteStep, CapabilityThread, Evaluate, ReadSnapshot, BuildSnapshot, GetAllBegin,
            GetAllCopy, CapabilityPop, PublishData, EvaluateNext, KeepChanged,
            PublishNextChange
      <3>2. RouteOf[d] \in Routes
        BY ItemAssumption
      <3>3. storePc'[RouteOf[d]] \in {"diff", "lookup", "store"} <=>
               storePc[RouteOf[d]] \in {"diff", "lookup", "store"}
        BY <1>1, <2>2, <3>2
        DEF RouteStep, CapabilityThread, Evaluate, ReadSnapshot, BuildSnapshot, GetAllBegin,
            GetAllCopy, CapabilityPop, PublishData, EvaluateNext, KeepChanged,
            PublishNextChange, TypeOK, StoreTypeOK
      <3>4. InHand(d)' = InHand(d)
        BY <3>1, <3>3 DEF InHand
      <3>5. QED
        BY <1>0, <3>1, <3>4 DEF LastWriteOf
    <2>3. QED
      BY <2>1, <2>2
  <1>2. CASE PublisherTake \/ UNCHANGED vars
    <2>1. UNCHANGED <<inputQueue, routed, accepted, storeQueue, storeItem, storePc, domainStore>>
      BY <1>2 DEF PublisherTake, vars
    <2>2. InHand(d)' = InHand(d)
      BY <2>1 DEF InHand
    <2>3. QED
      BY <1>0, <2>1, <2>2 DEF LastWriteOf
  <1>3. QED
    BY <1>0, <1>1, <1>2, StepCases, LastWriteApplication, LastWriteRouter

(***************************************************************************)
(* No value passed on is lost or overtaken, through one queue or two.      *)
(***************************************************************************)
THEOREM LastWriteCrossesQueues == Spec => []LastWriteWins
  <1>1. PathInv => TypeOK /\ OnRoute
    BY DEF PathInv
  <1>2. QED
    BY <1>1, PathInvariant, LastWriteInit, LastWriteNext, PTL DEF Spec
-----------------------------------------------------------------------------
(***************************************************************************)
(* No change is swallowed.                                                 *)
(***************************************************************************)

\* No other step touches the queue between the two threads of a route.
LEMMA OthersDoNotQueue ==
    ASSUME [Next]_vars, NEW r \in Routes, ~StorePush(r), ~CapabilityPop(r), TypeOK
    PROVE  capabilityQueue'[r] = capabilityQueue[r]
  <1>1. ASSUME NEW s \in Routes, RouteStep(s)
        PROVE  capabilityQueue'[r] = capabilityQueue[r]
    <2>1. CASE StorePush(s) \/ CapabilityPop(s)
      BY <2>1 DEF StorePush, CapabilityPop, TypeOK, CapabilityTypeOK
    <2>2. CASE ~StorePush(s) /\ ~CapabilityPop(s)
      BY <1>1, <2>2
      DEF RouteStep, StoreThread, CapabilityThread, Evaluate, StorePop, StoreDiff,
          StoreLookup, StoreWrite, ReadSnapshot, BuildSnapshot, GetAllBegin, GetAllCopy,
          PublishData, EvaluateNext, KeepChanged, PublishNextChange
    <2>3. QED
      BY <2>1, <2>2
  <1>2. CASE Application0818 \/ Application0820 \/ Router0818 \/ PublisherTake
    BY <1>2 DEF Application0818, Application0820, Router0818, DispatchInput, PushInput,
                DispatchToRoute, PassedOn, RouterPop, RouterPush, PublisherTake
  <1>3. QED
    BY <1>1, <1>2, StepCases DEF vars

\* An announcement stays queued until the publisher takes it (PublisherInputQueue).
LEMMA AnnouncedStays ==
    ASSUME TypeOK, [Next]_vars, ~PublisherTake
    PROVE  /\ published' = published
           /\ \A x : HoldsTarget(publisherQueue, x) => HoldsTarget(publisherQueue', x)
  <1>0. publisherQueue \in Seq(Notification)
    BY DEF TypeOK, SharedTypeOK
  <1>1. ASSUME NEW s \in Routes, RouteStep(s)
        PROVE  /\ published' = published
               /\ \A x : HoldsTarget(publisherQueue, x) => HoldsTarget(publisherQueue', x)
    <2>1. CASE PublishData(s)
      <3>1. event[s].id \in Items
        BY <2>1 DEF PublishData, TypeOK, CapabilityTypeOK, CapabilityEvent
      <3>2. QED
        BY <1>0, <2>1, <3>1, PublisherInsertTargets DEF PublishData
    <2>2. CASE PublishNextChange(s)
      <3>1. changes[s] # <<>> => Head(changes[s]) \in Items
        BY TailProperties DEF TypeOK, CapabilityTypeOK
      <3>2. QED
        BY <1>0, <2>2, <3>1, PublisherInsertTargets DEF PublishNextChange
    <2>3. CASE ~PublishData(s) /\ ~PublishNextChange(s)
      BY <1>1, <2>3
      DEF RouteStep, StoreThread, CapabilityThread, Evaluate, StorePop, StoreDiff,
          StoreLookup, StoreWrite, StorePush, ReadSnapshot, BuildSnapshot, GetAllBegin,
          GetAllCopy, CapabilityPop, EvaluateNext, KeepChanged
    <2>4. QED
      BY <2>1, <2>2, <2>3
  <1>2. CASE Application0818 \/ Application0820 \/ Router0818
    BY <1>2 DEF Application0818, Application0820, Router0818, DispatchInput, PushInput,
                DispatchToRoute, PassedOn, RouterPop, RouterPush
  <1>3. QED
    BY <1>1, <1>2, StepCases DEF vars

\* Taking a notification shows its target to the publisher and no other.
LEMMA TakenIsSeen ==
    ASSUME TypeOK, PublisherTake, NEW x \in Items,
           HoldsTarget(publisherQueue, x), ~HoldsTarget(publisherQueue', x)
    PROVE  published'[x] = IF x \in Data THEN domainStore[x] ELSE capabilityStore[x]
  <1>1. publisherQueue \in Seq(Notification) /\ publisherQueue # <<>>
    BY DEF PublisherTake, TypeOK, SharedTypeOK
  <1>2. x = Head(publisherQueue).target
    BY <1>1, TailTargets DEF PublisherTake
  <1>3. QED
    BY <1>2 DEF PublisherTake, TypeOK, SharedTypeOK

\* Whoever takes a notification changes nothing else that is published.
LEMMA TakenAlone ==
    ASSUME TypeOK, PublisherTake, NEW x \in Items, x # Head(publisherQueue).target
    PROVE  /\ published'[x] = published[x]
           /\ HoldsTarget(publisherQueue, x) => HoldsTarget(publisherQueue', x)
  <1>1. publisherQueue \in Seq(Notification) /\ publisherQueue # <<>>
    BY DEF PublisherTake, TypeOK, SharedTypeOK
  <1>2. QED
    BY <1>1, TailTargets DEF PublisherTake, TypeOK, SharedTypeOK

\* A change on its way to the CapabilityWorker gets there (CapabilityInputQueue).
LEMMA UnannouncedStays ==
    ASSUME TypeOK, OnRoute, [Next]_vars, NEW d \in Data, Unannounced(d)
    PROVE  Unannounced(d)' \/ HoldsTarget(publisherQueue', d)
  <1> DEFINE h == RouteOf[d]
  <1>0. h \in Routes
    BY ItemAssumption
  <1>1. CASE storePc[h] \in {"snapshot", "push"} /\ storeItem[h].id = d
    <2>1. CASE StorePush(h)
      <3> DEFINE travels == IF revision = "0818" THEN gathered[h] ELSE EmptySnapshot
                 e       == [id |-> storeItem[h].id, snapshot |-> travels]
      <3>1. e \in CapabilityEvent /\ e.id = d
        BY <1>0, <1>1, EmptySnapshotType DEF TypeOK, SnapshotTypeOK, CapabilityEvent
      <3>2. capabilityQueue'[h] = RouteInsert(CapabilityPolicy[h], capabilityQueue[h], e)
        BY <1>0, <2>1 DEF StorePush, QueueInsert, TypeOK, CapabilityTypeOK
      <3>3. capabilityQueue[h] \in Seq(CapabilityEvent)
        BY <1>0 DEF TypeOK, CapabilityTypeOK
      <3> HIDE DEF e
      <3>4. HoldsId(capabilityQueue'[h], d)
        BY <3>1, <3>2, <3>3, RouteInsertIds
      <3>5. QED
        BY <3>4 DEF Unannounced
    <2>2. CASE ReadSnapshot(h)
      BY <1>0, <1>1, <2>2
      DEF ReadSnapshot, GetAllBegin, GetAllCopy, Unannounced, TypeOK, StoreTypeOK
    <2>3. CASE ~StorePush(h) /\ ~ReadSnapshot(h)
      <3>1. ~StoreThread(h)
        BY <1>1, <2>3 DEF StoreThread, StorePop, StoreDiff, StoreLookup, StoreWrite
      <3>2. UNCHANGED <<storePc[h], storeItem[h]>>
        BY <1>0, <2>3, <3>1, OthersDoNotMoveStore
      <3>3. QED
        BY <1>1, <3>2 DEF Unannounced
    <2>4. QED
      BY <2>1, <2>2, <2>3
  <1>2. CASE HoldsId(capabilityQueue[h], d)
    <2>0. capabilityQueue[h] \in Seq(CapabilityEvent)
      BY <1>0 DEF TypeOK, CapabilityTypeOK
    <2>1. CASE StorePush(h)
      <3> DEFINE travels == IF revision = "0818" THEN gathered[h] ELSE EmptySnapshot
                 e       == [id |-> storeItem[h].id, snapshot |-> travels]
      <3>1. e \in CapabilityEvent
        BY <1>0, <2>1, EmptySnapshotType
        DEF StorePush, TypeOK, StoreTypeOK, SnapshotTypeOK, DataEvent, CapabilityEvent
      <3>2. capabilityQueue'[h] = RouteInsert(CapabilityPolicy[h], capabilityQueue[h], e)
        BY <1>0, <2>1 DEF StorePush, QueueInsert, TypeOK, CapabilityTypeOK
      <3> HIDE DEF e
      <3>3. HoldsId(capabilityQueue'[h], d)
        BY <1>2, <2>0, <3>1, <3>2, RouteInsertIds
      <3>4. QED
        BY <3>3 DEF Unannounced
    <2>2. CASE CapabilityPop(h)
      <3>1. /\ capabilityQueue[h] # <<>>
            /\ capabilityQueue'[h] = Tail(capabilityQueue[h])
            /\ event'[h] = Head(capabilityQueue[h])
            /\ capabilityPc'[h] = "data"
        BY <1>0, <2>2 DEF CapabilityPop, TypeOK, CapabilityTypeOK
      <3>2. d = event'[h].id \/ HoldsId(capabilityQueue'[h], d)
        BY <1>2, <2>0, <3>1, TailIds
      <3>3. QED
        BY <3>1, <3>2 DEF Unannounced
    <2>3. CASE ~StorePush(h) /\ ~CapabilityPop(h)
      <3>1. capabilityQueue'[h] = capabilityQueue[h]
        BY <1>0, <2>3, OthersDoNotQueue
      <3>2. QED
        BY <1>2, <3>1 DEF Unannounced
    <2>4. QED
      BY <2>1, <2>2, <2>3
  <1>3. CASE capabilityPc[h] = "data" /\ event[h].id = d
    <2>1. CASE PublishData(h)
      <3>1. publisherQueue \in Seq(Notification) /\ d \in Items
        BY DEF TypeOK, SharedTypeOK
      <3>2. QED
        BY <1>3, <2>1, <3>1, PublisherInsertTargets DEF PublishData
    <2>2. CASE ~PublishData(h)
      <3>1. ~CapabilityThread(h) /\ ~BuildSnapshot(h)
        BY <1>3, <2>2 DEF CapabilityThread, Evaluate, CapabilityPop, EvaluateNext,
                          KeepChanged, PublishNextChange, BuildSnapshot
      <3>2. UNCHANGED <<capabilityPc[h], event[h]>>
        BY <1>0, <3>1, OthersDoNotMoveCapability
      <3>3. QED
        BY <1>3, <3>2 DEF Unannounced
    <2>3. QED
      BY <2>1, <2>2
  <1>4. QED
    BY <1>1, <1>2, <1>3 DEF Unannounced

\* A store that changes an item leaves it to be announced (DomainStorage::Store).
LEMMA StoredIsUnannounced ==
    ASSUME PathInv, [Next]_vars, NEW d \in Data, domainStore'[d] # domainStore[d]
    PROVE  Unannounced(d)'
  <1>1. PICK r \in Routes : StoreWrite(r)
    BY OthersDoNotStore
  <1>2. /\ storeItem[r] \in DataEvent /\ RouteOf[storeItem[r].id] = r
        /\ d = storeItem[r].id /\ domainStore[d] # storeItem[r].value
    BY <1>1, OnlyOwnStored DEF PathInv
  <1>3. announces[r]
    BY <1>1, <1>2 DEF PathInv, SilentStores, StoreWrite
  <1>4. storePc'[r] \in {"snapshot", "push"} /\ storeItem' = storeItem
    BY <1>1, <1>3 DEF StoreWrite, PathInv, TypeOK, StoreTypeOK
  <1>5. QED
    BY <1>2, <1>4 DEF Unannounced

\* A capability that changes joins the change set (CapabilityChangeSet), and leaves
\* it for the publisher's queue.
LEMMA ChangesStay ==
    ASSUME TypeOK, [Next]_vars, NEW c \in Capabilities
    PROVE  /\ capabilityStore'[c] # capabilityStore[c] =>
                 \E r \in Routes : c \in ToSet(changes'[r])
           /\ \A r \in Routes :
                 c \in ToSet(changes[r]) =>
                    c \in ToSet(changes'[r]) \/ HoldsTarget(publisherQueue', c)
  <1>1. ASSUME NEW s \in Routes, KeepChanged(s)
        PROVE  /\ capabilityStore'[c] # capabilityStore[c] => c \in ToSet(changes'[s])
               /\ \A r \in Routes : c \in ToSet(changes[r]) => c \in ToSet(changes'[r])
    <2> DEFINE x == Head(targets[s])
    <2>1. /\ x \in Capabilities
          /\ changes[s] \in Seq(Capabilities)
          /\ changes' = [changes EXCEPT ![s] = Append(@, x)]
          /\ c # x => capabilityStore'[c] = capabilityStore[c]
      BY <1>1, TailProperties DEF KeepChanged, TypeOK, CapabilityTypeOK, SharedTypeOK
    <2> HIDE DEF x
    <2>2. changes'[s] = Append(changes[s], x)
          /\ \A r \in Routes \ {s} : changes'[r] = changes[r]
      BY <2>1 DEF TypeOK, CapabilityTypeOK
    <2>3. /\ Len(Append(changes[s], x)) = Len(changes[s]) + 1
          /\ DOMAIN Append(changes[s], x) = 1 .. Len(changes[s]) + 1
          /\ DOMAIN changes[s] = 1 .. Len(changes[s]) /\ Len(changes[s]) \in Nat
          /\ \A k \in 1 .. Len(changes[s]) : Append(changes[s], x)[k] = changes[s][k]
          /\ Append(changes[s], x)[Len(changes[s]) + 1] = x
      BY <2>1, AppendProperties, LenProperties
    <2>4. x \in ToSet(changes'[s]) /\ ToSet(changes[s]) \subseteq ToSet(changes'[s])
      <3>1. Len(changes[s]) + 1 \in DOMAIN changes'[s]
        BY <2>2, <2>3
      <3>2. \A k \in DOMAIN changes[s] : k \in DOMAIN changes'[s] /\ changes'[s][k] = changes[s][k]
        BY <2>2, <2>3
      <3>3. QED
        BY <2>2, <2>3, <3>1, <3>2 DEF ToSet
    <2>5. QED
      BY <2>1, <2>2, <2>4
  <1>2. ASSUME NEW s \in Routes, PublishNextChange(s)
        PROVE  /\ capabilityStore' = capabilityStore
               /\ \A r \in Routes :
                     c \in ToSet(changes[r]) =>
                        c \in ToSet(changes'[r]) \/ HoldsTarget(publisherQueue', c)
    <2>1. CASE changes[s] = <<>>
      BY <1>2, <2>1 DEF PublishNextChange
    <2>2. CASE changes[s] # <<>>
      <3>1. /\ changes[s] \in Seq(Capabilities) /\ Head(changes[s]) \in Items
            /\ publisherQueue \in Seq(Notification)
        BY <2>2, TailProperties DEF TypeOK, CapabilityTypeOK, SharedTypeOK
      <3>2. /\ publisherQueue' = PublisherInsert(publisherQueue, Head(changes[s]))
            /\ changes'[s] = Tail(changes[s])
            /\ \A r \in Routes \ {s} : changes'[r] = changes[r]
            /\ capabilityStore' = capabilityStore
        BY <1>2, <2>2 DEF PublishNextChange, TypeOK, CapabilityTypeOK
      <3>3. HoldsTarget(publisherQueue', Head(changes[s]))
        BY <3>1, <3>2, PublisherInsertTargets
      <3>4. c \in ToSet(changes[s]) => c = Head(changes[s]) \/ c \in ToSet(changes'[s])
        BY <2>2, <3>1, <3>2, TailMembers
      <3>5. QED
        BY <3>2, <3>3, <3>4
    <2>3. QED
      BY <2>1, <2>2
  <1>3. ASSUME NEW s \in Routes, RouteStep(s), ~KeepChanged(s), ~PublishNextChange(s)
        PROVE  UNCHANGED <<changes, capabilityStore>>
    BY <1>3
    DEF RouteStep, StoreThread, CapabilityThread, Evaluate, StorePop, StoreDiff,
        StoreLookup, StoreWrite, StorePush, ReadSnapshot, BuildSnapshot, GetAllBegin,
        GetAllCopy, CapabilityPop, PublishData, EvaluateNext
  <1>4. CASE Application0818 \/ Application0820 \/ Router0818 \/ PublisherTake
    BY <1>4 DEF Application0818, Application0820, Router0818, DispatchInput, PushInput,
                DispatchToRoute, PassedOn, RouterPop, RouterPush, PublisherTake
  <1>5. QED
    BY <1>1, <1>2, <1>3, <1>4, StepCases DEF vars

\* Everything stored is announced or on its way to be.
LEMMA NoChangeSwallowedNext ==
    PathInv /\ NoChangeSwallowed /\ [Next]_vars => NoChangeSwallowed'
  <1> SUFFICES ASSUME PathInv, NoChangeSwallowed, [Next]_vars PROVE NoChangeSwallowed'
    OBVIOUS
  <1>0. TypeOK /\ OnRoute
    BY DEF PathInv
  <1>1. ASSUME NEW d \in Data, domainStore'[d] # published'[d]
        PROVE  HoldsTarget(publisherQueue', d) \/ Unannounced(d)'
    <2>1. CASE domainStore'[d] # domainStore[d]
      BY <2>1, StoredIsUnannounced
    <2>2. CASE domainStore'[d] = domainStore[d] /\ PublisherTake
      <3>1. CASE d = Head(publisherQueue).target
        BY <1>0, <1>1, <2>2, <3>1 DEF PublisherTake, TypeOK, SharedTypeOK
      <3>2. CASE d # Head(publisherQueue).target
        BY <1>0, <1>1, <2>2, <3>2, TakenAlone, UnannouncedStays DEF NoChangeSwallowed
      <3>3. QED
        BY <3>1, <3>2
    <2>3. CASE domainStore'[d] = domainStore[d] /\ ~PublisherTake
      BY <1>0, <1>1, <2>3, AnnouncedStays, UnannouncedStays DEF NoChangeSwallowed
    <2>4. QED
      BY <2>1, <2>2, <2>3
  <1>2. ASSUME NEW c \in Capabilities, capabilityStore'[c] # published'[c]
        PROVE  HoldsTarget(publisherQueue', c) \/ \E r \in Routes : c \in ToSet(changes'[r])
    <2>1. CASE capabilityStore'[c] # capabilityStore[c]
      BY <1>0, <2>1, ChangesStay
    <2>2. CASE capabilityStore'[c] = capabilityStore[c] /\ PublisherTake
      <3>1. CASE c = Head(publisherQueue).target
        BY <1>0, <1>2, <2>2, <3>1, NoneApart DEF PublisherTake, TypeOK, SharedTypeOK
      <3>2. CASE c # Head(publisherQueue).target
        BY <1>0, <1>2, <2>2, <3>2, TakenAlone, ChangesStay DEF NoChangeSwallowed
      <3>3. QED
        BY <3>1, <3>2
    <2>3. CASE capabilityStore'[c] = capabilityStore[c] /\ ~PublisherTake
      BY <1>0, <1>2, <2>3, AnnouncedStays, ChangesStay DEF NoChangeSwallowed
    <2>4. QED
      BY <2>1, <2>2, <2>3
  <1>3. QED
    BY <1>1, <1>2 DEF NoChangeSwallowed

(***************************************************************************)
(* Compression drops notifications and the change set delays them, but no  *)
(* change goes unannounced.                                                *)
(***************************************************************************)
THEOREM NothingSwallowedEarlier == Spec => []NoChangeSwallowed
  <1>1. Init => NoChangeSwallowed
    BY DEF Init, NoChangeSwallowed, EmptySnapshot
  <1>2. QED
    BY <1>1, PathInvariant, NoChangeSwallowedNext, PTL DEF Spec
-----------------------------------------------------------------------------
(***************************************************************************)
(* A capability of one route is never left behind its data.                *)
(***************************************************************************)

\* What a capability of one route requires is stored by that route's thread.
LEMMA HomeIsRequired ==
    ASSUME NEW c \in Capabilities, NEW r \in Routes, HomeRoute(c, r)
    PROVE  \A d \in Required(c) : d \in Data /\ RouteOf[d] = r
  BY RequiredAreData DEF HomeRoute

\* A store of an item that c requires is to be pushed, unless nothing changed.
LEMMA RequiredStays ==
    ASSUME PathInv, [Next]_vars, NEW c \in Capabilities, NEW r \in Routes, HomeRoute(c, r),
           ~ToBePushed(c, r)'
    PROVE  \A d \in Required(c) : domainStore'[d] = domainStore[d]
  <1>1. CASE StoreWrite(r)
    <2>1. /\ storeItem[r] \in DataEvent
          /\ \A d \in Data : domainStore'[d] = IF d = storeItem[r].id THEN storeItem[r].value
                                               ELSE domainStore[d]
      BY <1>1, OnlyOwnStored DEF PathInv
    <2>2. CASE storeItem[r].id \in Required(c)
      <3>1. storeItem' = storeItem
        BY <1>1 DEF StoreWrite
      <3>2. storePc'[r] \notin {"snapshot", "push"}
        BY <2>2, <3>1 DEF ToBePushed
      <3>3. ~announces[r] /\ storePc[r] = "store"
        BY <1>1, <3>2 DEF StoreWrite, PathInv, TypeOK, StoreTypeOK
      <3>4. domainStore[storeItem[r].id] = storeItem[r].value
        BY <3>3 DEF PathInv, SilentStores
      <3>5. QED
        BY <2>1, <3>4, HomeIsRequired
    <2>3. CASE storeItem[r].id \notin Required(c)
      BY <2>1, <2>3, HomeIsRequired
    <2>4. QED
      BY <2>2, <2>3
  <1>2. CASE ~StoreWrite(r)
    BY <1>2, RouteDataStays, HomeIsRequired DEF PathInv
  <1>3. QED
    BY <1>1, <1>2

\* While what c requires stays, a snapshot stays as current as it was.
LEMMA CurrentStays ==
    ASSUME NEW c \in Capabilities, \A d \in Required(c) : domainStore'[d] = domainStore[d]
    PROVE  /\ \A s : Current(s, c)' <=> Current(s, c)
           /\ WithCurrent(c)' = WithCurrent(c)
           /\ Built(c, domainStore') = Built(c, domainStore)
  <1>1. \A s : (\A d \in Required(c) : s[d] = domainStore'[d]) <=> Current(s, c)
    BY DEF Current
  <1>2. \A s : Current(s, c)' <=> (\A d \in Required(c) : s[d] = domainStore'[d])
    BY DEF Current, Required
  <1>3. WithCurrent(c)' = {e \in CapabilityEvent : \A d \in Required(c) : e.snapshot[d] = domainStore'[d]}
    BY DEF WithCurrent, Current, Required
  <1>4. WithCurrent(c)' = WithCurrent(c)
    BY <1>3 DEF WithCurrent, Current
  <1>5. Built(c, domainStore') = Built(c, domainStore)
    BY BuiltAgrees
  <1>6. QED
    BY <1>1, <1>2, <1>4, <1>5

\* What is to be pushed stays so until it is.
LEMMA ToBePushedStays ==
    ASSUME TypeOK, [Next]_vars, NEW c \in Capabilities, NEW r \in Routes, ToBePushed(c, r),
           ~StorePush(r)
    PROVE  ToBePushed(c, r)'
  <1>1. CASE ReadSnapshot(r)
    BY <1>1 DEF ReadSnapshot, GetAllBegin, GetAllCopy, ToBePushed, TypeOK, StoreTypeOK, Required
  <1>2. CASE ~ReadSnapshot(r)
    <2>1. ~StoreThread(r)
      BY DEF StoreThread, StorePop, StoreDiff, StoreLookup, StoreWrite, ToBePushed
    <2>2. UNCHANGED <<storePc[r], storeItem[r]>>
      BY <1>2, <2>1, OthersDoNotMoveStore
    <2>3. QED
      BY <2>2 DEF ToBePushed, Required
  <1>3. QED
    BY <1>1, <1>2

\* What StorePush queues: an event of the item stored, with its snapshot (0818).
LEMMA PushedEvent ==
    ASSUME PathInv, NEW r \in Routes, StorePush(r)
    PROVE  \E e \in CapabilityEvent :
              /\ e.id = storeItem[r].id
              /\ revision = "0818" => e.snapshot = gathered[r]
              /\ capabilityQueue'[r] = RouteInsert(CapabilityPolicy[r], capabilityQueue[r], e)
  <1> DEFINE travels == IF revision = "0818" THEN gathered[r] ELSE EmptySnapshot
             e       == [id |-> storeItem[r].id, snapshot |-> travels]
  <1>1. e \in CapabilityEvent
    BY EmptySnapshotType
    DEF StorePush, PathInv, TypeOK, StoreTypeOK, SnapshotTypeOK, DataEvent, CapabilityEvent
  <1>2. capabilityQueue'[r] = RouteInsert(CapabilityPolicy[r], capabilityQueue[r], e)
    BY DEF StorePush, QueueInsert, PathInv, TypeOK, CapabilityTypeOK
  <1>3. e.id = storeItem[r].id /\ (revision = "0818" => e.snapshot = gathered[r])
    OBVIOUS
  <1>4. QED
    BY <1>1, <1>2, <1>3

(***************************************************************************)
(* 0818: behind every queued event of an item that c requires there is one *)
(* whose snapshot is current, for the store that made the older snapshots  *)
(* stale queues another.                                                   *)
(***************************************************************************)
LEMMA QueueFreshNext ==
    ASSUME PathInv, [Next]_vars, NEW c \in Capabilities, NEW r \in Routes, HomeRoute(c, r),
           revision = "0818",
           ToBePushed(c, r) \/ LastIn(capabilityQueue[r], Required(c), WithCurrent(c))
    PROVE  \/ ToBePushed(c, r)'
           \/ LastIn(capabilityQueue'[r], Required(c), WithCurrent(c)')
  <1>0. capabilityQueue[r] \in Seq(CapabilityEvent) /\ TypeOK
    BY DEF PathInv, TypeOK, CapabilityTypeOK
  <1> SUFFICES ASSUME ~ToBePushed(c, r)'
               PROVE  LastIn(capabilityQueue'[r], Required(c), WithCurrent(c)')
    OBVIOUS
  <1>1. WithCurrent(c)' = WithCurrent(c)
    BY RequiredStays, CurrentStays
  <1>2. CASE StorePush(r)
    <2>1. PICK e \in CapabilityEvent :
             /\ e.id = storeItem[r].id /\ e.snapshot = gathered[r]
             /\ capabilityQueue'[r] = RouteInsert(CapabilityPolicy[r], capabilityQueue[r], e)
      BY <1>2, PushedEvent
    <2>2. e.id \in Required(c) => e \in WithCurrent(c)
      <3>1. \A d \in Required(c) : gathered[r][d] = domainStore[d]
        BY <1>2, HomeIsRequired DEF StorePush, PathInv, OwnDataCurrent
      <3>2. QED
        BY <2>1, <3>1 DEF WithCurrent, Current
    <2>3. e.id \notin Required(c) => LastIn(capabilityQueue[r], Required(c), WithCurrent(c))
      BY <2>1 DEF ToBePushed
    <2>4. LastIn(RouteInsert(CapabilityPolicy[r], capabilityQueue[r], e), Required(c), WithCurrent(c))
      BY <1>0, <2>2, <2>3, RouteInsertLastIn
    <2>5. QED
      BY <1>1, <2>1, <2>4
  <1>3. CASE ~StorePush(r)
    <2>1. LastIn(capabilityQueue[r], Required(c), WithCurrent(c))
      BY <1>0, <1>3, ToBePushedStays
    <2>2. CASE CapabilityPop(r)
      <3>1. capabilityQueue[r] # <<>> /\ capabilityQueue'[r] = Tail(capabilityQueue[r])
        BY <1>0, <2>2 DEF CapabilityPop, TypeOK, CapabilityTypeOK
      <3>2. QED
        BY <1>0, <1>1, <2>1, <3>1, TailLastIn
    <2>3. CASE ~CapabilityPop(r)
      BY <1>0, <1>1, <1>3, <2>1, <2>3, OthersDoNotQueue
    <2>4. QED
      BY <2>2, <2>3
  <1>4. QED
    BY <1>2, <1>3

\* Only the home route's worker gives a capability its value (CapabilityStore).
LEMMA OnlyHomeKeeps ==
    ASSUME PathInv, [Next]_vars, NEW c \in Capabilities, NEW r \in Routes, HomeRoute(c, r),
           ~(KeepChanged(r) /\ Head(targets[r]) = c)
    PROVE  capabilityStore'[c] = capabilityStore[c]
  <1>1. ASSUME NEW s \in Routes, KeepChanged(s), Head(targets[s]) = c PROVE FALSE
    <2>1. targets[s] \in Seq(Capabilities) /\ targets[s] # <<>> /\ capabilityPc[s] = "keep"
      BY <1>1 DEF KeepChanged, PathInv, TypeOK, CapabilityTypeOK
    <2>2. c \in ToSet(targets[s])
      BY <1>1, <2>1, TailMembers
    <2>3. event[s].id \in Required(c) /\ RouteOf[event[s].id] = s
      BY <2>1, <2>2 DEF PathInv, TargetsDepend, OnRoute
    <2>4. s = r
      BY <2>3, HomeIsRequired
    <2>5. QED
      BY <1>1, <2>4
  <1>2. ASSUME NEW s \in Routes, KeepChanged(s)
        PROVE  capabilityStore'[c] = capabilityStore[c]
    BY <1>1, <1>2 DEF KeepChanged, PathInv, TypeOK, SharedTypeOK
  <1>3. ASSUME NEW s \in Routes, RouteStep(s), ~KeepChanged(s)
        PROVE  capabilityStore' = capabilityStore
    BY <1>3
    DEF RouteStep, StoreThread, CapabilityThread, Evaluate, StorePop, StoreDiff,
        StoreLookup, StoreWrite, StorePush, ReadSnapshot, BuildSnapshot, GetAllBegin,
        GetAllCopy, CapabilityPop, PublishData, EvaluateNext, PublishNextChange
  <1>4. CASE Application0818 \/ Application0820 \/ Router0818 \/ PublisherTake
    BY <1>4 DEF Application0818, Application0820, Router0818, DispatchInput, PushInput,
                DispatchToRoute, PassedOn, RouterPop, RouterPush, PublisherTake
  <1>5. QED
    BY <1>2, <1>3, <1>4, StepCases DEF vars

\* A worker that pops an event of c has its newest snapshot in hand, or a newer is queued.
LEMMA PopInHand ==
    ASSUME PathInv, [Next]_vars, NEW c \in Capabilities, NEW r \in Routes, HomeRoute(c, r),
           revision = "0818" =>
              ToBePushed(c, r) \/ LastIn(capabilityQueue[r], Required(c), WithCurrent(c)),
           CapabilityPop(r), Head(capabilityQueue[r]).id \in Required(c)
    PROVE  \/ ToBePushed(c, r)' \/ Queued(c, r)'
           \/ InHandOf(c, r)' /\ HandCurrent(c, r)'
  <1>1. /\ capabilityQueue[r] \in Seq(CapabilityEvent) /\ capabilityQueue[r] # <<>>
        /\ capabilityQueue'[r] = Tail(capabilityQueue[r])
        /\ event'[r] = Head(capabilityQueue[r])
        /\ capabilityPc'[r] = "data"
        /\ UNCHANGED <<storePc, storeItem, domainStore, revision>>
    BY DEF CapabilityPop, PathInv, TypeOK, CapabilityTypeOK
  <1>2. InHandOf(c, r)'
    BY <1>1 DEF InHandOf, Required
  <1>3. CASE revision = "0818" /\ ~ToBePushed(c, r)
    <2>1. \/ Head(capabilityQueue[r]) \in WithCurrent(c)
          \/ \E d \in Required(c) : HoldsId(Tail(capabilityQueue[r]), d)
      BY <1>1, <1>3, TailLastIn
    <2>2. CASE Head(capabilityQueue[r]) \in WithCurrent(c)
      <3>1. Current(event[r].snapshot, c)'
        BY <1>1, <2>2 DEF WithCurrent, Current, Required
      <3>2. QED
        BY <1>1, <1>2, <3>1 DEF HandCurrent
    <2>3. CASE \E d \in Required(c) : HoldsId(Tail(capabilityQueue[r]), d)
      BY <1>1, <2>3 DEF Queued, Required
    <2>4. QED
      BY <2>1, <2>2, <2>3
  <1>4. CASE ToBePushed(c, r)
    BY <1>1, <1>4 DEF ToBePushed, Required
  <1>5. CASE revision # "0818"
    BY <1>1, <1>2, <1>5 DEF HandCurrent
  <1>6. QED
    BY <1>3, <1>4, <1>5

\* An event that is queued stays so until the worker pops it.
LEMMA QueuedStays ==
    ASSUME PathInv, [Next]_vars, NEW c \in Capabilities, NEW r \in Routes, Queued(c, r),
           ~Queued(c, r)'
    PROVE  CapabilityPop(r) /\ Head(capabilityQueue[r]).id \in Required(c)
  <1>0. capabilityQueue[r] \in Seq(CapabilityEvent) /\ TypeOK
    BY DEF PathInv, TypeOK, CapabilityTypeOK
  <1>1. PICK d \in Required(c) : HoldsId(capabilityQueue[r], d)
    BY DEF Queued
  <1>2. ~HoldsId(capabilityQueue'[r], d)
    BY DEF Queued, Required
  <1>3. ASSUME StorePush(r) PROVE FALSE
    <2>1. PICK e \in CapabilityEvent :
             capabilityQueue'[r] = RouteInsert(CapabilityPolicy[r], capabilityQueue[r], e)
      BY <1>3, PushedEvent
    <2>2. QED
      BY <1>0, <1>1, <1>2, <2>1, RouteInsertIds
  <1>4. CapabilityPop(r)
    BY <1>0, <1>1, <1>2, <1>3, OthersDoNotQueue
  <1>5. capabilityQueue[r] # <<>> /\ capabilityQueue'[r] = Tail(capabilityQueue[r])
    BY <1>0, <1>4 DEF CapabilityPop, TypeOK, CapabilityTypeOK
  <1>6. QED
    BY <1>0, <1>1, <1>2, <1>4, <1>5, TailIds

\* A push puts an event of c on the queue.
LEMMA PushIsQueued ==
    ASSUME PathInv, NEW c \in Capabilities, NEW r \in Routes, ToBePushed(c, r), StorePush(r)
    PROVE  Queued(c, r)'
  <1>1. PICK e \in CapabilityEvent :
           /\ e.id = storeItem[r].id
           /\ capabilityQueue'[r] = RouteInsert(CapabilityPolicy[r], capabilityQueue[r], e)
    BY PushedEvent
  <1>2. capabilityQueue[r] \in Seq(CapabilityEvent)
    BY DEF PathInv, TypeOK, CapabilityTypeOK
  <1>3. HoldsId(capabilityQueue'[r], storeItem[r].id)
    BY <1>1, <1>2, RouteInsertIds
  <1>4. QED
    BY <1>3 DEF ToBePushed, Queued, Required

\* What the worker has in hand stays current, up to the value it gives c (Evaluate).
LEMMA HandNext ==
    ASSUME PathInv, [Next]_vars, NEW c \in Capabilities, NEW r \in Routes, HomeRoute(c, r),
           ~ToBePushed(c, r)', InHandOf(c, r), HandCurrent(c, r)
    PROVE  \/ InHandOf(c, r)' /\ HandCurrent(c, r)'
           \/ ~InHandOf(c, r)' /\ capabilityStore'[c] = Built(c, domainStore')
  <1>0. TypeOK /\ OnRoute /\ TargetsDepend /\ LockHeld
    BY DEF PathInv
  <1>1. \A d \in Required(c) : domainStore'[d] = domainStore[d]
    BY RequiredStays
  <1>2. /\ \A s : Current(s, c)' <=> Current(s, c)
        /\ Built(c, domainStore') = Built(c, domainStore)
    BY <1>1, CurrentStays
  <1>3. revision \in {"0818", "0820"} /\ revision' = revision
    BY <1>0, ItemAssumption, RevisionStays DEF TypeOK, InputTypeOK
  <1>4. targets[r] \in Seq(Capabilities) /\ (targets[r] = <<>> => c \notin ToSet(targets[r]))
    BY <1>0 DEF TypeOK, CapabilityTypeOK, ToSet
  <1>5. CASE CapabilityPop(r) \/ PublishNextChange(r)
    <2>1. targets[r] = <<>> /\ capabilityPc[r] # "data"
      BY <1>0, <1>5 DEF CapabilityPop, PublishNextChange, TargetsDepend
    <2>2. QED
      BY <1>4, <2>1 DEF InHandOf
  <1>6. CASE PublishData(r)
    <2>1. capabilityPc[r] = "data" /\ targets[r] = <<>>
      BY <1>0, <1>6 DEF PublishData, TargetsDepend
    <2>2. event[r].id \in Required(c)
      BY <1>4, <2>1 DEF InHandOf
    <2>3. PICK list \in DependentCapabilities(event[r].id) :
             targets' = [targets EXCEPT ![r] = list]
      BY <1>6 DEF PublishData
    <2>4. c \in ToSet(targets'[r])
      BY <1>0, <2>2, <2>3, DependentsListed DEF TypeOK, CapabilityTypeOK
    <2>5. /\ event' = event /\ registryLock' = registryLock
          /\ capabilityPc'[r] = IF revision = "0818" THEN "evaluate" ELSE "snapshot"
      BY <1>0, <1>6 DEF PublishData, TypeOK, CapabilityTypeOK
    <2>6. revision = "0818" => Current(event[r].snapshot, c)'
      BY <1>2, <2>1, <2>5 DEF HandCurrent, Current
    <2>7. revision = "0820" => CurrentSoFar(c, r)'
      BY <1>0, <2>1, <2>5 DEF LockHeld, CurrentSoFar
    <2>8. QED
      BY <1>3, <2>4, <2>5, <2>6, <2>7 DEF InHandOf, HandCurrent
  <1>7. CASE EvaluateNext(r) \/ KeepChanged(r)
    <2>1. capabilityPc[r] \in {"evaluate", "keep"} /\ c \in ToSet(targets[r])
      BY <1>7 DEF EvaluateNext, KeepChanged, InHandOf
    <2>2. Current(event[r].snapshot, c) /\ event' = event
      BY <1>7, <2>1 DEF HandCurrent, EvaluateNext, KeepChanged
    <2>3. Built(c, event[r].snapshot) = Built(c, domainStore')
      BY <1>2, <2>2, BuiltAgrees DEF Current
    <2>4. Current(event[r].snapshot, c)' /\ capabilityPc'[r] \in {"evaluate", "keep"}
      BY <1>0, <1>2, <1>7, <2>2
      DEF EvaluateNext, KeepChanged, Current, TypeOK, CapabilityTypeOK
    <2>5. CASE c \in ToSet(targets'[r])
      BY <2>4, <2>5 DEF InHandOf, HandCurrent
    <2>6. CASE c \notin ToSet(targets'[r])
      <3>1. targets[r] # <<>> /\ targets'[r] \in {targets[r], Tail(targets[r])}
        BY <1>0, <1>4, <1>7, <2>1 DEF EvaluateNext, KeepChanged, TypeOK, CapabilityTypeOK
      <3>2. c = Head(targets[r]) /\ targets'[r] # targets[r]
        BY <1>4, <2>1, <2>6, <3>1, TailMembers
      <3>3. capabilityStore'[c] = Built(c, event[r].snapshot)
        <4>1. CASE EvaluateNext(r)
          <5>1. targets' # targets
            BY <3>2
          <5>2. QED
            BY <3>2, <4>1, <5>1 DEF EvaluateNext
        <4>2. CASE KeepChanged(r)
          BY <1>0, <3>2, <4>2 DEF KeepChanged, TypeOK, SharedTypeOK
        <4>3. QED
          BY <1>7, <4>1, <4>2
      <3>4. ~InHandOf(c, r)'
        BY <2>4, <2>6 DEF InHandOf
      <3>5. QED
        BY <2>3, <3>3, <3>4
    <2>7. QED
      BY <2>5, <2>6
  <1>8. CASE BuildSnapshot(r)
    <2>1. /\ capabilityPc[r] = "snapshot" /\ UNCHANGED <<targets, domainStore>>
          /\ revision = "0820"
      BY <1>0, <1>3, <1>8 DEF BuildSnapshot, GetAllBegin, GetAllCopy, LockHeld
    <2>2. c \in ToSet(targets[r]) /\ CurrentSoFar(c, r)
      BY <2>1 DEF InHandOf, HandCurrent
    <2>3. InHandOf(c, r)'
      BY <2>1, <2>2 DEF InHandOf
    <2>4. CASE GetAllBegin(r)
      <3>1. unread'[r] = Domains /\ capabilityPc' = capabilityPc
        BY <1>0, <2>4 DEF GetAllBegin, TypeOK, SnapshotTypeOK
      <3>2. \A d \in Required(c) : DomainId(d) \in unread'[r]
        BY <3>1, HomeIsRequired DEF Domains
      <3>3. CurrentSoFar(c, r)'
        BY <3>2 DEF CurrentSoFar, Required
      <3>4. QED
        BY <2>1, <2>3, <3>1, <3>3 DEF HandCurrent
    <2>5. CASE GetAllCopy(r)
      <3>1. registryLock = r /\ capabilityPc' = capabilityPc
        BY <2>5 DEF GetAllCopy
      <3>2. ASSUME NEW d \in Required(c)
            PROVE  DomainId(d) \in unread'[r] \/ gathered'[r][d] = domainStore[d]
        <4>1. DomainId(d) \in unread[r] \/ gathered[r][d] = domainStore[d]
          BY <2>2, <3>1, <3>2 DEF CurrentSoFar
        <4>2. d \in Data
          BY <3>2, HomeIsRequired
        <4>3. QED
          BY <1>0, <2>5, <4>1, <4>2, CopyIsCurrent
      <3>3. CurrentSoFar(c, r)'
        BY <2>1, <3>2 DEF CurrentSoFar, Required
      <3>4. QED
        BY <2>1, <2>3, <3>1, <3>3 DEF HandCurrent
    <2>6. CASE ~GetAllBegin(r) /\ ~GetAllCopy(r)
      <3>1. /\ registryLock = r /\ unread[r] = {}
            /\ event' = [event EXCEPT ![r].snapshot =
                  [d \in Data |-> IF DomainId(d) \in SnapshotDomains(event[r].id)
                                  THEN gathered[r][d] ELSE NoValue]]
            /\ capabilityPc'[r] = "evaluate"
        BY <1>0, <1>8, <2>6 DEF BuildSnapshot, TypeOK, CapabilityTypeOK
      <3>2. event'[r].snapshot = [d \in Data |-> IF DomainId(d) \in SnapshotDomains(event[r].id)
                                                 THEN gathered[r][d] ELSE NoValue]
        BY <1>0, <2>1, <3>1 DEF TypeOK, CapabilityTypeOK, CapabilityEvent
      <3>3. event[r].id \in Required(c)
        BY <1>0, <2>2 DEF TargetsDepend
      <3>4. \A d \in Required(c) : DomainId(d) \in SnapshotDomains(event[r].id)
        <4>1. c \in Dependents(event[r].id)
          BY <3>3 DEF Dependents, Required
        <4>2. QED
          BY <4>1 DEF SnapshotDomains, CapabilityDomains, Required
      <3>5. \A d \in Required(c) : event'[r].snapshot[d] = domainStore'[d]
        BY <2>1, <2>2, <3>1, <3>2, <3>4, HomeIsRequired DEF CurrentSoFar
      <3>6. Current(event[r].snapshot, c)'
        BY <3>5 DEF Current, Required
      <3>7. QED
        BY <2>3, <3>1, <3>6 DEF HandCurrent
    <2>7. QED
      BY <2>4, <2>5, <2>6
  <1>9. CASE ~CapabilityThread(r) /\ ~BuildSnapshot(r)
    <2>1. UNCHANGED <<capabilityPc[r], event[r], targets[r]>>
      BY <1>0, <1>9, OthersDoNotMoveCapability
    <2>2. InHandOf(c, r)'
      BY <2>1 DEF InHandOf, Required
    <2>3. Current(event[r].snapshot, c)' <=> Current(event[r].snapshot, c)
      BY <1>2, <2>1 DEF Current, Required
    <2>4. capabilityPc[r] = "snapshot" => CurrentSoFar(c, r)'
      <3>1. SUFFICES ASSUME capabilityPc[r] = "snapshot" PROVE CurrentSoFar(c, r)'
        OBVIOUS
      <3>2. revision = "0820" /\ CurrentSoFar(c, r)
        BY <1>0, <1>3, <3>1 DEF LockHeld, HandCurrent
      <3>3. /\ registryLock' = r <=> registryLock = r
            /\ UNCHANGED <<unread[r], gathered[r]>>
        <4>1. CASE StorePush(r)
          BY <3>2, <4>1 DEF StorePush
        <4>2. CASE ~StorePush(r)
          BY <1>0, <1>9, <3>2, <4>2, OthersDoNotCopy DEF ReadSnapshot
        <4>3. QED
          BY <4>1, <4>2
      <3>4. QED
        BY <1>1, <3>2, <3>3 DEF CurrentSoFar, Required
    <2>5. QED
      BY <1>3, <2>1, <2>2, <2>3, <2>4 DEF HandCurrent
  <1>10. QED
    BY <1>5, <1>6, <1>7, <1>8, <1>9 DEF CapabilityThread, Evaluate

\* A capability that nobody has in hand keeps its value until its data change.
LEMMA SettledNext ==
    ASSUME PathInv, [Next]_vars, NEW c \in Capabilities, NEW r \in Routes, HomeRoute(c, r),
           ~ToBePushed(c, r)', ~InHandOf(c, r), capabilityStore[c] = Built(c, domainStore),
           ~(CapabilityPop(r) /\ Head(capabilityQueue[r]).id \in Required(c))
    PROVE  ~InHandOf(c, r)' /\ capabilityStore'[c] = Built(c, domainStore')
  <1>0. TypeOK /\ OnRoute /\ TargetsDepend
    BY DEF PathInv
  <1>1. Built(c, domainStore') = Built(c, domainStore)
    BY RequiredStays, CurrentStays
  <1>2. targets[r] \in Seq(Capabilities) /\ c \notin ToSet(targets[r])
    BY <1>0 DEF TypeOK, CapabilityTypeOK, InHandOf
  <1>3. capabilityStore'[c] = capabilityStore[c]
    <2>1. ~(KeepChanged(r) /\ Head(targets[r]) = c)
      BY <1>0, <1>2, TailMembers DEF KeepChanged, TypeOK, CapabilityTypeOK
    <2>2. QED
      BY <2>1, OnlyHomeKeeps
  <1>4. ~InHandOf(c, r)'
    <2>1. CASE CapabilityPop(r)
      <3>1. targets' = targets /\ event'[r].id \notin Required(c)
        BY <1>0, <2>1 DEF CapabilityPop, TypeOK, CapabilityTypeOK
      <3>2. QED
        BY <1>2, <3>1 DEF InHandOf, Required
    <2>2. CASE PublishData(r)
      <3>1. PICK list \in DependentCapabilities(event[r].id) :
               targets' = [targets EXCEPT ![r] = list]
        BY <2>2 DEF PublishData
      <3>2. event[r].id \notin Required(c) /\ capabilityPc'[r] # "data"
        BY <1>0, <2>2 DEF PublishData, InHandOf, TypeOK, CapabilityTypeOK
      <3>3. c \notin ToSet(targets'[r])
        BY <1>0, <3>1, <3>2, DependentsListed DEF TypeOK, CapabilityTypeOK
      <3>4. QED
        BY <3>2, <3>3 DEF InHandOf
    <2>3. CASE EvaluateNext(r) \/ KeepChanged(r) \/ PublishNextChange(r)
      <3>1. capabilityPc'[r] # "data"
        BY <1>0, <2>3
        DEF EvaluateNext, KeepChanged, PublishNextChange, TypeOK, CapabilityTypeOK
      <3>2. CASE targets' = targets
        BY <1>2, <3>1, <3>2 DEF InHandOf
      <3>3. CASE targets' # targets
        <4>1. targets[r] # <<>> /\ targets'[r] = Tail(targets[r])
          BY <1>0, <2>3, <3>3
          DEF EvaluateNext, KeepChanged, PublishNextChange, TypeOK, CapabilityTypeOK
        <4>2. c \notin ToSet(targets'[r])
          BY <1>2, <4>1, TailMembers
        <4>3. QED
          BY <3>1, <4>2 DEF InHandOf
      <3>4. QED
        BY <3>2, <3>3
    <2>4. CASE BuildSnapshot(r)
      <3>1. targets' = targets /\ capabilityPc'[r] # "data"
        BY <1>0, <2>4 DEF BuildSnapshot, GetAllBegin, GetAllCopy, TypeOK, CapabilityTypeOK
      <3>2. QED
        BY <1>2, <3>1 DEF InHandOf
    <2>5. CASE ~CapabilityThread(r) /\ ~BuildSnapshot(r)
      BY <1>0, <2>5, OthersDoNotMoveCapability DEF InHandOf, Required
    <2>6. QED
      BY <2>1, <2>2, <2>3, <2>4, <2>5 DEF CapabilityThread, Evaluate
  <1>5. QED
    BY <1>1, <1>3, <1>4

\* A store that makes a snapshot stale is followed by an event with another.
LEMMA FreshNext == PathInv /\ Fresh /\ [Next]_vars => Fresh'
  <1> SUFFICES ASSUME PathInv, Fresh, [Next]_vars,
                      NEW c \in Capabilities, NEW r \in Routes, HomeRoute(c, r)
               PROVE  FreshOf(c, r)'
    BY DEF Fresh, FreshOf, HomeRoute, Required
  <1>0. /\ revision = "0818" =>
              ToBePushed(c, r) \/ LastIn(capabilityQueue[r], Required(c), WithCurrent(c))
        /\ (\E d \in Required(c) : domainStore[d] # NoValue) =>
              \/ ToBePushed(c, r) \/ Queued(c, r)
              \/ InHandOf(c, r) /\ HandCurrent(c, r)
              \/ ~InHandOf(c, r) /\ capabilityStore[c] = Built(c, domainStore)
    BY DEF Fresh, FreshOf
  <1>1. revision' = "0818" =>
           ToBePushed(c, r)' \/ LastIn(capabilityQueue'[r], Required(c), WithCurrent(c)')
    BY <1>0, QueueFreshNext, RevisionStays
  <1>2. ASSUME NEW x \in Required(c), domainStore'[x] # NoValue,
               ~ToBePushed(c, r)', ~Queued(c, r)'
        PROVE  \/ InHandOf(c, r)' /\ HandCurrent(c, r)'
               \/ ~InHandOf(c, r)' /\ capabilityStore'[c] = Built(c, domainStore')
    <2>1. domainStore[x] # NoValue
      BY <1>2, RequiredStays
    <2>2. CASE CapabilityPop(r) /\ Head(capabilityQueue[r]).id \in Required(c)
      BY <1>0, <1>2, <2>2, PopInHand
    <2>3. CASE ~(CapabilityPop(r) /\ Head(capabilityQueue[r]).id \in Required(c))
      <3>1. ~ToBePushed(c, r)
        BY <1>2, ToBePushedStays, PushIsQueued DEF PathInv
      <3>2. ~Queued(c, r)
        BY <1>2, <2>3, QueuedStays
      <3>3. \/ InHandOf(c, r) /\ HandCurrent(c, r)
            \/ ~InHandOf(c, r) /\ capabilityStore[c] = Built(c, domainStore)
        BY <1>0, <2>1, <3>1, <3>2
      <3>4. QED
        BY <1>2, <2>3, <3>3, HandNext, SettledNext
    <2>4. QED
      BY <2>2, <2>3
  <1>3. (\E d \in Required(c) : domainStore'[d] # NoValue) =>
           \/ ToBePushed(c, r)' \/ Queued(c, r)'
           \/ InHandOf(c, r)' /\ HandCurrent(c, r)'
           \/ ~InHandOf(c, r)' /\ capabilityStore'[c] = Built(c, domainStore')
    BY <1>2
  <1>4. QED
    BY <1>1, <1>3 DEF FreshOf, LastIn, Required, Built

\* Nothing is stored, nothing can be stale.
LEMMA FreshInit == Init => Fresh
  <1> SUFFICES ASSUME Init, NEW c \in Capabilities, NEW r \in Routes, HomeRoute(c, r)
               PROVE  FreshOf(c, r)
    BY DEF Fresh, FreshOf
  <1>1. LastIn(capabilityQueue[r], Required(c), WithCurrent(c))
    BY DEF Init, LastIn
  <1>2. \A d \in Required(c) : domainStore[d] = NoValue
    BY HomeIsRequired DEF Init, EmptySnapshot
  <1>3. QED
    BY <1>1, <1>2 DEF FreshOf

\* What is fresh is right or scheduled to be.
LEMMA FreshIsScheduled == PathInv /\ Fresh => NeverLeftStale
  <1> SUFFICES ASSUME PathInv, Fresh, NEW c \in Capabilities, NEW r \in Routes,
                      HomeRoute(c, r), NEW x \in Required(c), domainStore[x] # NoValue
               PROVE  capabilityStore[c] = Built(c, domainStore) \/ Scheduled(c, r)
    BY DEF NeverLeftStale
  <1>1. CASE ToBePushed(c, r)
    BY <1>1 DEF ToBePushed, Scheduled
  <1>2. CASE ~ToBePushed(c, r) /\ Queued(c, r)
    <2>1. PICK k \in DOMAIN capabilityQueue[r] : capabilityQueue[r][k].id \in Required(c)
      BY <1>2 DEF Queued, HoldsId
    <2>2. CASE revision = "0818"
      <3>1. LastIn(capabilityQueue[r], Required(c), WithCurrent(c))
        BY <1>2, <2>2 DEF Fresh, FreshOf
      <3>2. PICK j \in DOMAIN capabilityQueue[r] :
               capabilityQueue[r][j].id \in Required(c) /\ capabilityQueue[r][j] \in WithCurrent(c)
        BY <2>1, <3>1 DEF LastIn
      <3>3. QED
        BY <3>2 DEF Scheduled, WithCurrent
    <2>3. CASE revision # "0818"
      BY <2>1, <2>3 DEF Scheduled
    <2>4. QED
      BY <2>2, <2>3
  <1>3. CASE InHandOf(c, r) /\ HandCurrent(c, r)
    <2>1. CASE capabilityPc[r] = "data" /\ event[r].id \in Required(c)
      BY <1>3, <2>1 DEF HandCurrent, Scheduled
    <2>2. CASE c \in ToSet(targets[r])
      <3>1. targets[r] # <<>>
        BY <2>2 DEF ToSet
      <3>2. capabilityPc[r] \in {"snapshot", "evaluate", "keep"}
        BY <3>1 DEF PathInv, TypeOK, CapabilityTypeOK, TargetsDepend
      <3>3. QED
        BY <1>3, <2>2, <3>2 DEF HandCurrent, Scheduled
    <2>3. QED
      BY <1>3, <2>1, <2>2 DEF InHandOf
  <1>4. QED
    BY <1>1, <1>2, <1>3 DEF Fresh, FreshOf

(***************************************************************************)
(* A capability of one route is never left behind its data, though GetAll  *)
(* may give a snapshot no moment ever had and 0818's travel in a queue.    *)
(***************************************************************************)
THEOREM NeverLeftStaleEarlier == Spec => []NeverLeftStale
  <1>1. Spec => []Fresh
    BY PathInvariant, FreshInit, FreshNext, PTL DEF Spec
  <1>2. QED
    BY <1>1, PathInvariant, FreshIsScheduled, PTL
-----------------------------------------------------------------------------
(***************************************************************************)
(* The CapabilityStore and its threads.                                    *)
(***************************************************************************)

\* All the product's capabilities rest on the data of one route.
OneHome == \E r \in Routes : \A c \in Capabilities : HomeRoute(c, r)

\* A thread in the store has an event some capability requires (Evaluate).
LEMMA InStoreIsHome ==
    ASSUME PathInv, NEW r \in Routes, NEW s \in Routes, InCapabilityStore(s),
           \A c \in Capabilities : HomeRoute(c, r)
    PROVE  s = r
  <1>1. targets[s] # <<>> /\ targets[s] \in Seq(Capabilities) /\ capabilityPc[s] # "wait"
    BY DEF InCapabilityStore, PathInv, TypeOK, CapabilityTypeOK
  <1>2. Head(targets[s]) \in ToSet(targets[s]) /\ Head(targets[s]) \in Capabilities
    BY <1>1, TailMembers, TailProperties
  <1>3. event[s].id \in Required(Head(targets[s])) /\ RouteOf[event[s].id] = s
    BY <1>1, <1>2 DEF PathInv, TargetsDepend, OnRoute
  <1>4. QED
    BY <1>2, <1>3, HomeIsRequired

(***************************************************************************)
(* The CapabilityStore needs no mutex in a product whose capabilities all  *)
(* rest on one route's data, as printer_a's do.                            *)
(***************************************************************************)
THEOREM StoreIsPrivate == ASSUME OneHome PROVE Spec => []OneThreadInCapabilityStore
  <1>1. PathInv => OneThreadInCapabilityStore
    BY OneHome, InStoreIsHome DEF OneHome, OneThreadInCapabilityStore
  <1>2. QED
    BY <1>1, PathInvariant, PTL
=============================================================================
