---------------------------- MODULE RimApiProofs ----------------------------
(***************************************************************************)
(* The calls of an application, for every product and every data: what a   *)
(* setter accepted is what a getter answers, in each revision of the       *)
(* library.                                                                *)
(***************************************************************************)
EXTENDS RimApiProperties, QueueLemmas
-----------------------------------------------------------------------------
(***************************************************************************)
(* Types.  The data is what Given and Normalize give, whatever that is.    *)
(* Where every setter goes through AdapterDispatcher, a value of an item   *)
(* has the type of the item.                                               *)
(***************************************************************************)
Checked == {"0820", "755"}

GivenData == UNION {UNION {UNION {Given(v, d, t) : t \in Types} : d \in Items} : v \in Revisions}
Data      == GivenData \cup UNION {{Normalize(d, data) : data \in GivenData} : d \in Items}
Values    == [type : Types, data : Data]

ValuesOf(v, d) == {value \in Values : v \in Checked => value.type = Declared[v][d]}

\* The events of StoreInputQueue, and of the store queue of a route.
Arriving(v) == {e \in [id : Items \cup {Null}, value : Values] : v \in Firmware \/ e.id # Null}
Routed(v, r) ==
    {e \in [id : Items, value : Values] :
        RouteOf[v][e.id] = r /\ e.value \in ValuesOf(v, e.id)}

TypeOK ==
    /\ revision \in Revisions
    /\ context \in BOOLEAN /\ running \in BOOLEAN
    /\ latched \in BOOLEAN /\ shut \in BOOLEAN
    /\ arrived \in Seq(Arriving(revision))
    /\ DOMAIN queue = Routes
    /\ \A r \in Routes : queue[r] \in Seq(Routed(revision, r))
    /\ DOMAIN storage = Items
    /\ \A d \in Items : storage[d] \in ValuesOf(revision, d) \cup {Null}
    /\ DOMAIN accepted = Items
    /\ \A d \in Items : accepted[d] \in ValuesOf(revision, d) \cup {Null}
    /\ inputs \in Seq(Items)

(***************************************************************************)
(* Without a context nothing runs and nothing is stored, the queues are    *)
(* shut only by the one stop that counts, and a revision has only one of   *)
(* the two kinds of queue, old_0818 apart.                                 *)
(***************************************************************************)
Idle == ~context => ~running /\ router = "off" /\ storage = Nothing

ShutOnce == shut => latched

OneWay ==
    /\ revision \in Checked => arrived = <<>>
    /\ revision \in Firmware => \A r \in Routes : queue[r] = <<>>

(***************************************************************************)
(* The last accepted value of an item the product declares is the last in  *)
(* the first of these places that has one of the item.                     *)
(***************************************************************************)
LatestOf(d) ==
    /\ LastIs(arrived, d, accepted[d])
    /\ ~HoldsId(arrived, d) => LastIs(queue[Route(d)], d, accepted[d])
    /\ ~HoldsId(arrived, d) /\ ~HoldsId(queue[Route(d)], d) => storage[d] = accepted[d]

Latest == Open => \A d \in Items : DeclaredType(d) # Null => LatestOf(d)

(***************************************************************************)
(* A capability that needs a stored item is what its builder makes of the  *)
(* stored items, or the change of one of them waits to be evaluated.       *)
(***************************************************************************)
EvaluatedOf(c) ==
    \/ \A d \in BilRequired[c] : storage[d] = Null
    \/ capabilities[c] = Build(c, storage)
    \/ \E k \in DOMAIN inputs : inputs[k] \in BilRequired[c]

Evaluated == Is("755") => \A c \in BilCapabilities : EvaluatedOf(c)

ApiInv == TypeOK /\ Idle /\ ShutOnce /\ OneWay /\ Latest /\ Evaluated
-----------------------------------------------------------------------------
(***************************************************************************)
(* The steps.  Of a setter, only matters whether what it accepts goes into *)
(* StoreInputQueue or into the store queue of its route.                   *)
(***************************************************************************)
ArriveStep(d, value) ==
    /\ revision \notin Checked
    /\ Accept(d, value) /\ Arrive(d, value)
    /\ UNCHANGED <<revision, context, threadVars, queue, storage, resultVars>>

EnqueueStep(d, value) ==
    /\ revision \in Checked /\ DeclaredType(d) # Null
    /\ Accept(d, value) /\ Enqueue(d, value)
    /\ UNCHANGED <<revision, context, threadVars, arrived, storage, resultVars>>

SetStep ==
    \E d \in Items : \E value \in ValuesOf(revision, d) :
        ArriveStep(d, value) \/ EnqueueStep(d, value)

LifeStep ==
    \/ Create \/ Destroy
    \/ \E routes, reader \in BOOLEAN : Start(routes, reader) \/ Stop(routes, reader)

\* What is given, and what it is normalized to, is data.
LEMMA GivenIsData ==
    ASSUME NEW v \in Revisions, NEW d \in Items, NEW type \in Types, NEW data \in Given(v, d, type)
    PROVE  data \in Data /\ Normalize(d, data) \in Data
  <1>1. data \in GivenData
    BY DEF GivenData
  <1>2. QED
    BY <1>1 DEF Data

\* The types, the declared ones among them, are not Null.
LEMMA DeclaredTypes ==
    /\ Null \notin Types /\ Null \notin Items /\ ErrorList \in Items /\ BilItems \subseteq Items
    /\ \A v \in Revisions, d \in Items :
          /\ Declared[v][d] \in Types \cup {Null}
          /\ Declared[v][d] # Null => RouteOf[v][d] \in Routes
  BY RimApiAssumption

\* A setter that pushes what it is given, in a revision that does not check.
LEMMA PushIsSet ==
    ASSUME revision \in Revisions, revision \notin Checked,
           NEW d \in Items, NEW type \in Types, PushAs(d, type)
    PROVE  SetStep
  <1>1. PICK data \in Given(revision, d, type) :
           /\ Accept(d, Value(type, data))
           /\ Arrive(d, Value(type, data))
           /\ UNCHANGED <<revision, context, threadVars, queue, storage, resultVars>>
    BY DEF PushAs
  <1>2. Value(type, data) \in ValuesOf(revision, d)
    BY GivenIsData DEF Value, Values, ValuesOf
  <1>3. ArriveStep(d, Value(type, data))
    BY <1>1 DEF ArriveStep
  <1>4. QED
    BY <1>2, <1>3 DEF SetStep

\* A setter that goes through AdapterDispatcher.
LEMMA DispatchIsSet ==
    ASSUME revision \in {"0818", "0820", "755"},  revision \in Revisions,
           NEW d \in Items, NEW type \in Types, DispatchAs(d, type)
    PROVE  SetStep
  <1>1. PICK data \in Given(revision, d, type) :
           /\ Accept(d, Value(type, Normalize(d, data)))
           /\ IF Is("0818") THEN Arrive(d, Value(type, Normalize(d, data))) /\ UNCHANGED queue
                            ELSE Enqueue(d, Value(type, Normalize(d, data))) /\ UNCHANGED arrived
    BY DEF DispatchAs
  <1>2. /\ DeclaredType(d) = type
        /\ UNCHANGED <<revision, context, threadVars, storage, resultVars>>
    BY DEF DispatchAs
  <1>3. Value(type, Normalize(d, data)) \in ValuesOf(revision, d)
    BY <1>2, GivenIsData DEF Value, Values, ValuesOf, DeclaredType
  <1>4. \/ ArriveStep(d, Value(type, Normalize(d, data)))
        \/ EnqueueStep(d, Value(type, Normalize(d, data)))
    BY <1>1, <1>2, DeclaredTypes DEF ArriveStep, EnqueueStep, Checked, Is
  <1>5. QED
    BY <1>3, <1>4 DEF SetStep

\* A struct, in a revision that checks.
LEMMA StructIsSet ==
    ASSUME revision \in Checked, revision \in Revisions, NEW d \in Items, NEW size,
           SetStruct(d, size)
    PROVE  SetStep
  <1>1. PICK data \in Given(revision, d, "kBinary") :
           Accept(d, Value("kBinary", data)) /\ Enqueue(d, Value("kBinary", data))
    BY DEF SetStruct
  <1>2. /\ DeclaredType(d) = "kBinary"
        /\ UNCHANGED <<revision, context, threadVars, arrived, storage, resultVars>>
    BY DEF SetStruct
  <1>3. "kBinary" \in Types
    BY DEF Types
  <1>4. Value("kBinary", data) \in ValuesOf(revision, d)
    BY <1>2, <1>3, GivenIsData DEF Value, Values, ValuesOf, DeclaredType
  <1>5. EnqueueStep(d, Value("kBinary", data))
    BY <1>1, <1>2, <1>3, DeclaredTypes DEF EnqueueStep
  <1>6. QED
    BY <1>4, <1>5 DEF SetStep

\* The error list, in a revision that does not.
LEMMA ErrorListIsSet ==
    ASSUME revision \notin Checked, revision \in Revisions, SetErrorList
    PROVE  SetStep
  <1>1. PICK data \in Given(revision, ErrorList, "kBinary") :
           /\ Accept(ErrorList, Value("kBinary", data))
           /\ Arrive(ErrorList, Value("kBinary", data))
    BY DEF SetErrorList
  <1>2. "kBinary" \in Types /\ ErrorList \in Items
    BY RimApiAssumption DEF Types
  <1>3. Value("kBinary", data) \in ValuesOf(revision, ErrorList)
    BY <1>2, GivenIsData DEF Value, Values, ValuesOf
  <1>4. ArriveStep(ErrorList, Value("kBinary", data))
    BY <1>1 DEF ArriveStep, SetErrorList
  <1>5. QED
    BY <1>2, <1>3, <1>4 DEF SetStep

\* The calls of every revision.
LEMMA ApiStep ==
    ASSUME revision \in Revisions,
           Api0818 \/ Api0820 \/ Api755 \/ ApiFW \/ Api744
    PROVE  SetStep \/ LifeStep
  <1>1. /\ "kBool" \in Types /\ "kInt32" \in Types /\ "kDouble" \in Types /\ "kBinary" \in Types
        /\ Scalars \subseteq Types
        /\ ErrorList \in Items /\ TRUE \in BOOLEAN /\ FALSE \in BOOLEAN
    BY DeclaredTypes DEF Types, Scalars
  <1>2. CASE Api0818
    <2>1. revision = "0818" /\ revision \notin Checked
      BY <1>2 DEF Api0818, Is, Create0818, StartStopDestroy0818, SetErrorList0818, SetBool0818,
                  SetInt320818, SetDouble0818, SetBinary0818, Checked
    <2>2. CASE Create0818 \/ StartStopDestroy0818
      BY <2>2, <1>1 DEF Create0818, StartStopDestroy0818, RIManagerContext0818, LifeStep
    <2>3. CASE SetErrorList0818
      BY <2>1, <2>3, ErrorListIsSet DEF SetErrorList0818
    <2>4. CASE \E d \in Items : SetBool0818(d) \/ SetDouble0818(d) \/ SetBinary0818(d)
      BY <2>1, <2>4, <1>1, PushIsSet DEF SetBool0818, SetDouble0818, SetBinary0818
    <2>5. CASE \E d \in Items : SetInt320818(d)
      BY <2>1, <2>5, <1>1, DispatchIsSet DEF SetInt320818
    <2>6. QED
      BY <1>2, <2>2, <2>3, <2>4, <2>5 DEF Api0818
  <1>3. CASE Api0820
    <2>1. revision = "0820" /\ revision \in Checked
      BY <1>3 DEF Api0820, Is, Create0820, StartStopDestroy0820, SetErrorList0820, SetBool0820,
                  SetInt320820, SetDouble0820, SetBinary0820, Checked
    <2>2. CASE Create0820 \/ StartStopDestroy0820
      BY <2>2, <1>1 DEF Create0820, StartStopDestroy0820, RIManagerContext0820, LifeStep
    <2>3. CASE SetErrorList0820
      BY <1>1, <2>1, <2>3, StructIsSet DEF SetErrorList0820
    <2>4. CASE \E d \in Items :
                  SetBool0820(d) \/ SetInt320820(d) \/ SetDouble0820(d) \/ SetBinary0820(d)
      BY <2>1, <2>4, <1>1, DispatchIsSet
         DEF SetBool0820, SetInt320820, SetDouble0820, SetBinary0820
    <2>5. QED
      BY <1>3, <2>2, <2>3, <2>4 DEF Api0820
  <1>4. CASE Api755
    <2>1. revision = "755" /\ revision \in Checked
      BY <1>4 DEF Api755, Is, Initialize755, StartStopDestroy755, SetBool755, SetInt32755,
                  SetDouble755, SetBinary755, SetStruct755, Checked
    <2>2. CASE Initialize755 \/ StartStopDestroy755
      BY <2>2, <1>1 DEF Initialize755, StartStopDestroy755, RIManagerContext755, LifeStep
    <2>3. CASE \E d \in Items : SetStruct755(d)
      BY <2>1, <2>3, StructIsSet DEF SetStruct755
    <2>4. CASE \E d \in Items :
                  SetBool755(d) \/ SetInt32755(d) \/ SetDouble755(d) \/ SetBinary755(d)
      BY <2>1, <2>4, <1>1, DispatchIsSet DEF SetBool755, SetInt32755, SetDouble755, SetBinary755
    <2>5. QED
      BY <1>4, <2>2, <2>3, <2>4 DEF Api755
  <1>5. CASE ApiFW
    <2>1. revision = "0820_FW" /\ revision \notin Checked
      BY <1>5 DEF ApiFW, Is, CreateFW, StartStopDestroyFW, SetErrorListFW, SetBoolFW, SetInt32FW,
                  SetDoubleFW, SetBinaryFW, TestInjectFW, Checked
    <2>2. CASE CreateFW \/ StartStopDestroyFW
      BY <2>2, <1>1 DEF CreateFW, StartStopDestroyFW, RIManagerContextFW, LifeStep
    <2>3. CASE SetErrorListFW
      BY <2>1, <2>3, ErrorListIsSet DEF SetErrorListFW
    <2>4. CASE \E d \in Items :
                  SetBoolFW(d) \/ SetInt32FW(d) \/ SetDoubleFW(d) \/ SetBinaryFW(d) \/ TestInjectFW(d)
      BY <2>1, <2>4, <1>1, PushIsSet
         DEF SetBoolFW, SetInt32FW, SetDoubleFW, SetBinaryFW, TestInjectFW
    <2>5. QED
      BY <1>5, <2>2, <2>3, <2>4 DEF ApiFW
  <1>6. CASE Api744
    <2>1. revision = "744" /\ revision \notin Checked
      BY <1>6 DEF Api744, Is, Create744, StartStopDestroy744, SetErrorList744, SetBool744,
                  SetInt32744, SetDouble744, SetBinary744, TestInject744, Checked
    <2>2. CASE Create744 \/ StartStopDestroy744
      BY <2>2, <1>1 DEF Create744, StartStopDestroy744, RIManagerContext744, LifeStep
    <2>3. CASE SetErrorList744
      BY <2>1, <2>3, ErrorListIsSet DEF SetErrorList744
    <2>4. CASE \E d \in Items :
                  SetBool744(d) \/ SetInt32744(d) \/ SetDouble744(d) \/ SetBinary744(d) \/ TestInject744(d)
      BY <2>1, <2>4, <1>1, PushIsSet
         DEF SetBool744, SetInt32744, SetDouble744, SetBinary744, TestInject744
    <2>5. QED
      BY <1>6, <2>2, <2>3, <2>4 DEF Api744
  <1>7. QED
    BY <1>2, <1>3, <1>4, <1>5, <1>6
-----------------------------------------------------------------------------
(***************************************************************************)
(* Builders and queues.                                                    *)
(***************************************************************************)

\* A builder looks at the required items of its capability and at no other.
LEMMA BuildRequired ==
    ASSUME NEW c \in BilCapabilities, NEW s, NEW t, \A d \in BilRequired[c] : s[d] = t[d]
    PROVE  Build(c, s) = Build(c, t)
  <1>1. CASE c = "PRODUCT_STATE"
    <2>1. /\ s["LAYER_INIT_STATE"] = t["LAYER_INIT_STATE"]
          /\ s["USE_CASE_EXECUTION_STATUS_LIST"] = t["USE_CASE_EXECUTION_STATUS_LIST"]
          /\ s["FAULT_INFO_LIST"] = t["FAULT_INFO_LIST"]
          /\ s["FUNCTION_LIMIT_LIST"] = t["FUNCTION_LIMIT_LIST"]
      BY <1>1 DEF BilRequired, BilCapabilities
    <2>2. /\ Uninitialized(s) <=> Uninitialized(t)
          /\ Faulty(s) <=> Faulty(t)
          /\ Limited(s) <=> Limited(t)
          /\ Busy(s) <=> Busy(t)
      BY <2>1 DEF Uninitialized, Faulty, Limited, Busy, TryGetStruct, Content
    <2>3. BuildProductState(s) = BuildProductState(t)
      BY <2>2 DEF BuildProductState
    <2>4. QED
      BY <1>1, <2>3 DEF Build
  <1>2. CASE c = "SUPPLY_STATUS"
    <2>1. s["SUB_POUCH_SENSOR_VALUE_LIST"] = t["SUB_POUCH_SENSOR_VALUE_LIST"]
      BY <1>2 DEF BilRequired, BilCapabilities
    <2>2. QED
      BY <1>2, <2>1 DEF Build, BuildSupplyStatus, TryGetStruct, Content
  <1>3. CASE c = "PRINT_JOB_STATUS"
    <2>1. s["PRINT_JOB_INFO_LIST"] = t["PRINT_JOB_INFO_LIST"]
      BY <1>3 DEF BilRequired, BilCapabilities
    <2>2. QED
      BY <1>3, <2>1 DEF Build, BuildPrintJobStatus, TryGetStruct, Content
  <1>4. QED
    BY <1>1, <1>2, <1>3 DEF BilCapabilities

\* An empty queue is a queue of anything and holds nothing.
LEMMA EmptyQueue ==
    ASSUME NEW S, NEW d, NEW value
    PROVE  <<>> \in Seq(S) /\ ~HoldsId(<<>>, d) /\ LastIs(<<>>, d, value)
  BY DEF HoldsId, LastIs

\* What Append does to what a queue holds and to the last of an item.
LEMMA AppendLast ==
    ASSUME NEW S, NEW q \in Seq(S), NEW e \in S, NEW d, NEW value
    PROVE  /\ Append(q, e) \in Seq(S)
           /\ HoldsId(Append(q, e), d) <=> d = e.id \/ HoldsId(q, d)
           /\ (IF d = e.id THEN e.value = value ELSE LastIs(q, d, value))
                 => LastIs(Append(q, e), d, value)
  <1>1. Append(q, e) = RouteInsert("Buffered", q, e)
    BY DEF RouteInsert, FifoInsert
  <1>2. QED
    BY <1>1, RouteInsertIds, InsertLastIs
-----------------------------------------------------------------------------
(***************************************************************************)
(* The invariant holds at first and in every new context.                  *)
(***************************************************************************)
LEMMA RenewKeeps ==
    ASSUME revision \in Revisions, context' \in BOOLEAN, Renew
    PROVE  ApiInv'
  <1>1. TypeOK'
    <2>1. \A S : <<>> \in Seq(S)
      BY EmptyQueue
    <2>2. arrived' = <<>> /\ inputs' = <<>> /\ revision' = revision
      BY DEF Renew
    <2>3. DOMAIN queue' = Routes /\ \A r \in Routes : queue'[r] = <<>>
      BY DEF Renew
    <2>4. /\ DOMAIN storage' = Items /\ \A d \in Items : storage'[d] = Null
          /\ DOMAIN accepted' = Items /\ \A d \in Items : accepted'[d] = Null
      BY DEF Renew, Nothing
    <2>5. running' \in BOOLEAN /\ latched' \in BOOLEAN /\ shut' \in BOOLEAN
      BY DEF Renew
    <2>6. QED
      BY <2>1, <2>2, <2>3, <2>4, <2>5 DEF TypeOK
  <1>2. Idle' /\ ShutOnce' /\ OneWay'
    BY DEF Renew, Idle, ShutOnce, OneWay
  <1>3. ASSUME NEW d \in Items, DeclaredType(d)' # Null
        PROVE  LatestOf(d)'
    <2>1. Route(d)' \in Routes
      BY <1>3, DeclaredTypes, <1>1 DEF DeclaredType, Route, TypeOK
    <2>2. arrived' = <<>> /\ queue'[Route(d)'] = <<>> /\ storage'[d] = accepted'[d]
      BY <2>1 DEF Renew, Nothing
    <2>3. QED
      BY <2>2, EmptyQueue DEF LatestOf
  <1>4. Evaluated'
    <2>1. \A c \in BilCapabilities : BilRequired[c] \subseteq BilItems
      BY DEF BilRequired, BilCapabilities, BilItems
    <2>2. \A c \in BilCapabilities : \A d \in BilRequired[c] : storage'[d] = Null
      BY <2>1, DeclaredTypes DEF Renew, Nothing
    <2>3. QED
      BY <2>2 DEF Evaluated, EvaluatedOf
  <1>5. QED
    BY <1>1, <1>2, <1>3, <1>4 DEF ApiInv, Latest

\* No context, nothing stored, all queues empty.
LEMMA ApiInit == Init => ApiInv
  <1> SUFFICES ASSUME Init PROVE ApiInv
    OBVIOUS
  <1>1. TypeOK
    <2>1. \A S : <<>> \in Seq(S)
      BY EmptyQueue
    <2>2. DOMAIN queue = Routes /\ \A r \in Routes : queue[r] = <<>>
      BY DEF Init
    <2>3. /\ DOMAIN storage = Items /\ \A d \in Items : storage[d] = Null
          /\ DOMAIN accepted = Items /\ \A d \in Items : accepted[d] = Null
      BY DEF Init, Nothing
    <2>4. QED
      BY <2>1, <2>2, <2>3 DEF Init, TypeOK
  <1>2. Idle /\ ShutOnce /\ OneWay /\ Latest
    BY DEF Init, Idle, ShutOnce, OneWay, Latest, Open
  <1>3. Evaluated
    <2>1. \A c \in BilCapabilities : BilRequired[c] \subseteq BilItems
      BY DEF BilRequired, BilCapabilities, BilItems
    <2>2. \A c \in BilCapabilities : \A d \in BilRequired[c] : storage[d] = Null
      BY <2>1, DeclaredTypes DEF Init, Nothing
    <2>3. QED
      BY <2>2 DEF Evaluated, EvaluatedOf
  <1>4. QED
    BY <1>1, <1>2, <1>3 DEF ApiInv

\* Starting and stopping moves no value; a stop that shuts the queues is over
\* with the promise of LatestOf.
LEMMA StartStopKeeps ==
    ASSUME ApiInv, NEW routes \in BOOLEAN, NEW reader \in BOOLEAN,
           Start(routes, reader) \/ Stop(routes, reader)
    PROVE  ApiInv'
  <1>1. /\ context /\ context' = context /\ revision' = revision /\ arrived' = arrived
        /\ queue' = queue /\ storage' = storage /\ inputs' = inputs
        /\ capabilities' = capabilities /\ accepted' = accepted
    BY DEF Start, Stop, resultVars
  <1>2. /\ running' \in BOOLEAN /\ latched' \in BOOLEAN /\ shut' \in BOOLEAN
        /\ shut' => latched'
        /\ shut => shut'
    BY DEF Start, Stop, StartRoutes, StopRoutes, ApiInv, TypeOK, ShutOnce
  <1>3. TypeOK'
    BY <1>1, <1>2 DEF ApiInv, TypeOK
  <1>4. Idle' /\ ShutOnce' /\ OneWay'
    BY <1>1, <1>2 DEF ApiInv, Idle, ShutOnce, OneWay
  <1>5. Latest'
    BY <1>1, <1>2 DEF ApiInv, Latest, LatestOf, Open, DeclaredType, Route
  <1>6. Evaluated'
    BY <1>1 DEF ApiInv, Evaluated, EvaluatedOf, Is
  <1>7. QED
    BY <1>3, <1>4, <1>5, <1>6 DEF ApiInv

\* The calls of the life cycle.
LEMMA LifeKeeps ==
    ASSUME ApiInv, LifeStep
    PROVE  ApiInv'
  <1>1. CASE Create \/ Destroy
    BY <1>1, RenewKeeps DEF Create, Destroy, ApiInv, TypeOK
  <1>2. QED
    BY <1>1, StartStopKeeps DEF LifeStep
-----------------------------------------------------------------------------
(***************************************************************************)
(* The steps that move a value.                                            *)
(***************************************************************************)

\* Into StoreInputQueue: of item d it is the last there, and what is not
\* declared has an id of no item, or is of no interest to LatestOf.
LEMMA ArriveKeeps ==
    ASSUME ApiInv, NEW d \in Items, NEW value \in ValuesOf(revision, d), ArriveStep(d, value)
    PROVE  ApiInv'
  <1> DEFINE e == [id |-> ToInternalDataId(d), value |-> value]
  <1>1. /\ revision \notin Checked
        /\ arrived' = Append(arrived, e)
        /\ accepted' = [accepted EXCEPT ![d] = value]
        /\ revision' = revision /\ context' = context /\ router' = router
        /\ running' = running /\ latched' = latched /\ shut' = shut
        /\ queue' = queue /\ storage' = storage /\ inputs' = inputs
        /\ capabilities' = capabilities
    BY DEF ArriveStep, Accept, Arrive, threadVars, resultVars
  <1>2. e \in Arriving(revision)
    BY DeclaredTypes DEF ValuesOf, Arriving, ToInternalDataId
  <1>3. /\ DOMAIN accepted' = Items
        /\ \A c \in Items : accepted'[c] = IF c = d THEN value ELSE accepted[c]
    BY <1>1 DEF ApiInv, TypeOK
  <1>4. TypeOK'
    <2>1. arrived' \in Seq(Arriving(revision))
      BY <1>1, <1>2, AppendLast DEF ApiInv, TypeOK
    <2>2. QED
      BY <1>1, <1>3, <2>1 DEF ApiInv, TypeOK
  <1>5. Idle' /\ ShutOnce' /\ OneWay'
    BY <1>1 DEF ApiInv, Idle, ShutOnce, OneWay
  <1>6. ASSUME Open, NEW c \in Items, DeclaredType(c) # Null
        PROVE  LatestOf(c)'
    <2>1. /\ HoldsId(arrived', c) <=> c = e.id \/ HoldsId(arrived, c)
          /\ (IF c = e.id THEN e.value = accepted'[c] ELSE LastIs(arrived, c, accepted'[c]))
                => LastIs(arrived', c, accepted'[c])
      BY <1>1, <1>2, AppendLast DEF ApiInv, TypeOK
    <2>2. LatestOf(c)
      BY <1>6 DEF ApiInv, Latest
    <2>3. c = e.id <=> c = d
      BY <1>6, DeclaredTypes DEF ToInternalDataId
    <2>4. CASE c = d
      <3>1. HoldsId(arrived', c) /\ LastIs(arrived', c, accepted'[c])
        BY <1>3, <2>1, <2>3, <2>4
      <3>2. QED
        BY <3>1 DEF LatestOf
    <2>5. CASE c # d
      <3>1. accepted'[c] = accepted[c] /\ (HoldsId(arrived', c) <=> HoldsId(arrived, c))
        BY <1>3, <2>1, <2>3, <2>5
      <3>2. LastIs(arrived', c, accepted'[c])
        BY <2>1, <2>2, <2>3, <2>5, <3>1 DEF LatestOf
      <3>3. QED
        BY <1>1, <2>2, <3>1, <3>2 DEF LatestOf, Route
    <2>6. QED
      BY <2>4, <2>5
  <1>7. Latest'
    BY <1>1, <1>6 DEF Latest, Open, DeclaredType
  <1>8. Evaluated'
    BY <1>1 DEF ApiInv, Evaluated, EvaluatedOf, Is
  <1>9. QED
    BY <1>4, <1>5, <1>7, <1>8 DEF ApiInv

\* Into the store queue of its route, in a revision where nothing arrives.
LEMMA EnqueueKeeps ==
    ASSUME ApiInv, NEW d \in Items, NEW value \in ValuesOf(revision, d), EnqueueStep(d, value)
    PROVE  ApiInv'
  <1> DEFINE e == [id |-> d, value |-> value]
             r == Route(d)
  <1>1. /\ revision \in Checked /\ DeclaredType(d) # Null
        /\ arrived' = arrived /\ arrived = <<>>
        /\ accepted' = [accepted EXCEPT ![d] = value]
        /\ revision' = revision /\ context' = context /\ router' = router
        /\ running' = running /\ latched' = latched /\ shut' = shut
        /\ storage' = storage /\ inputs' = inputs /\ capabilities' = capabilities
    BY DEF EnqueueStep, Accept, threadVars, resultVars, ApiInv, OneWay
  <1>2. r \in Routes /\ e \in Routed(revision, r)
    BY <1>1, DeclaredTypes DEF ApiInv, TypeOK, DeclaredType, Route, ValuesOf, Routed
  <1>3. /\ DOMAIN accepted' = Items
        /\ \A c \in Items : accepted'[c] = IF c = d THEN value ELSE accepted[c]
    BY <1>1 DEF ApiInv, TypeOK
  <1>4. /\ DOMAIN queue' = Routes
        /\ \A h \in Routes :
              queue'[h] = IF h = r /\ ~shut THEN RouteInsert(StorePolicy[r], queue[r], e)
                                            ELSE queue[h]
    BY <1>2 DEF EnqueueStep, Enqueue, ApiInv, TypeOK
  <1>5. TypeOK'
    <2>1. RouteInsert(StorePolicy[r], queue[r], e) \in Seq(Routed(revision, r))
      BY <1>2, RouteInsertProperties DEF ApiInv, TypeOK
    <2>2. QED
      BY <1>1, <1>3, <1>4, <2>1 DEF ApiInv, TypeOK
  <1>6. Idle' /\ ShutOnce' /\ OneWay'
    <2>1. revision \notin Firmware
      BY <1>1 DEF Checked, Firmware
    <2>2. QED
      BY <1>1, <2>1 DEF ApiInv, Idle, ShutOnce, OneWay
  <1>7. ASSUME Open, NEW c \in Items, DeclaredType(c) # Null
        PROVE  LatestOf(c)'
    <2>1. LatestOf(c) /\ ~HoldsId(arrived, c) /\ Route(c) \in Routes
      BY <1>1, <1>7, EmptyQueue, DeclaredTypes
         DEF ApiInv, TypeOK, Latest, DeclaredType, Route
    <2>2. LastIs(queue[Route(c)], c, accepted[c])
      BY <2>1 DEF LatestOf
    <2>3. CASE Route(c) = r
      <3>1. /\ HoldsId(queue'[r], c) <=> c = d \/ HoldsId(queue[r], c)
            /\ (IF c = d THEN value = accepted'[c] ELSE LastIs(queue[r], c, accepted'[c]))
                  => LastIs(queue'[r], c, accepted'[c])
        BY <1>2, <1>4, <1>7, RouteInsertIds, InsertLastIs DEF ApiInv, TypeOK, Open
      <3>2. LastIs(queue'[r], c, accepted'[c])
        BY <1>3, <2>2, <2>3, <3>1
      <3>3. c # d => accepted'[c] = accepted[c]
        BY <1>3
      <3>4. QED
        BY <1>1, <2>1, <2>3, <3>1, <3>2, <3>3, EmptyQueue DEF LatestOf, Route
    <2>4. CASE Route(c) # r
      <3>1. c # d /\ queue'[Route(c)] = queue[Route(c)] /\ accepted'[c] = accepted[c]
        BY <1>3, <1>4, <2>1, <2>4
      <3>2. QED
        BY <1>1, <2>1, <3>1, EmptyQueue DEF LatestOf, Route
    <2>5. QED
      BY <2>3, <2>4
  <1>8. Latest'
    BY <1>1, <1>7 DEF Latest, Open, DeclaredType
  <1>9. Evaluated'
    BY <1>1 DEF ApiInv, Evaluated, EvaluatedOf, Is
  <1>10. QED
    BY <1>5, <1>6, <1>8, <1>9 DEF ApiInv

\* The reader of old_0818 takes the first of what arrived to its route.
LEMMA RouterPassKeeps ==
    ASSUME ApiInv, RouterPass
    PROVE  ApiInv'
  <1> DEFINE item == Head(arrived)
             r    == Route(item.id)
  <1>1. /\ revision = "0818" /\ revision \notin Checked /\ revision \notin Firmware
        /\ arrived # <<>> /\ arrived' = Tail(arrived)
        /\ revision' = revision /\ context' = context /\ router' = router
        /\ running' = running /\ latched' = latched /\ shut' = shut
        /\ storage' = storage /\ inputs' = inputs /\ capabilities' = capabilities
        /\ accepted' = accepted
    BY DEF RouterPass, Is, threadVars, resultVars, Checked, Firmware
  <1>2. /\ item \in Arriving(revision)
        /\ Tail(arrived) \in Seq(Arriving(revision))
    BY <1>1, TailProperties DEF ApiInv, TypeOK
  <1>3. item.id \in Items /\ item.value \in ValuesOf(revision, item.id)
    BY <1>1, <1>2 DEF Arriving, ValuesOf
  <1>4. DeclaredType(item.id) # Null => r \in Routes /\ item \in Routed(revision, r)
    BY <1>2, <1>3, DeclaredTypes DEF ApiInv, TypeOK, DeclaredType, Route, Routed, Arriving
  <1>5. item = [id |-> item.id, value |-> item.value]
    BY <1>2 DEF Arriving
  <1>6. /\ DOMAIN queue' = Routes
        /\ \A h \in Routes :
              queue'[h] = IF h = r /\ ~shut /\ DeclaredType(item.id) # Null
                          THEN RouteInsert(StorePolicy[r], queue[r], item) ELSE queue[h]
    <2>1. CASE DeclaredType(item.id) = Null
      BY <2>1 DEF RouterPass, ApiInv, TypeOK
    <2>2. CASE DeclaredType(item.id) # Null
      <3>1. Enqueue(item.id, item.value)
        BY <2>2 DEF RouterPass
      <3>2. QED
        BY <1>4, <1>5, <2>2, <3>1 DEF Enqueue, ApiInv, TypeOK
    <2>3. QED
      BY <2>1, <2>2
  <1>7. TypeOK'
    <2>1. DeclaredType(item.id) # Null =>
             RouteInsert(StorePolicy[r], queue[r], item) \in Seq(Routed(revision, r))
      BY <1>4, RouteInsertProperties DEF ApiInv, TypeOK
    <2>2. QED
      BY <1>1, <1>2, <1>6, <2>1 DEF ApiInv, TypeOK
  <1>8. Idle' /\ ShutOnce' /\ OneWay'
    BY <1>1 DEF ApiInv, Idle, ShutOnce, OneWay
  <1>9. ASSUME Open, NEW c \in Items, DeclaredType(c) # Null
        PROVE  LatestOf(c)'
    <2>1. LatestOf(c) /\ Route(c) \in Routes
      BY <1>9, DeclaredTypes DEF ApiInv, TypeOK, Latest, DeclaredType, Route
    <2>2. /\ LastIs(arrived', c, accepted[c])
          /\ ~HoldsId(arrived', c) /\ item.id = c => item.value = accepted[c]
          /\ HoldsId(arrived, c) <=> c = item.id \/ HoldsId(arrived', c)
      BY <1>1, <2>1, PopLastIs, TailIds DEF ApiInv, TypeOK, LatestOf
    <2>3. CASE item.id = c
      <3>1. r = Route(c) /\ queue'[r] = RouteInsert(StorePolicy[r], queue[r], item)
        BY <1>6, <1>9, <2>1, <2>3 DEF Open
      <3>2. HoldsId(queue'[r], c)
        BY <1>4, <1>9, <2>3, <3>1, RouteInsertIds DEF ApiInv, TypeOK
      <3>3. ~HoldsId(arrived', c) => LastIs(queue'[r], c, accepted[c])
        BY <1>4, <1>9, <2>2, <2>3, <3>1, InsertLastIs DEF ApiInv, TypeOK
      <3>4. QED
        BY <1>1, <2>2, <3>1, <3>2, <3>3 DEF LatestOf, Route
    <2>4. CASE item.id # c
      <3>1. HoldsId(arrived', c) <=> HoldsId(arrived, c)
        BY <2>2, <2>4
      <3>2. /\ LastIs(queue[Route(c)], c, accepted[c]) => LastIs(queue'[Route(c)], c, accepted[c])
            /\ HoldsId(queue'[Route(c)], c) <=> HoldsId(queue[Route(c)], c)
        <4>1. CASE Route(c) = r /\ DeclaredType(item.id) # Null
          BY <1>4, <1>6, <1>9, <2>4, <4>1, InsertLastIs, RouteInsertIds
             DEF ApiInv, TypeOK, Open
        <4>2. CASE Route(c) # r \/ DeclaredType(item.id) = Null
          BY <1>6, <2>1, <4>2
        <4>3. QED
          BY <4>1, <4>2
      <3>3. QED
        BY <1>1, <2>1, <2>2, <3>1, <3>2 DEF LatestOf, Route
    <2>5. QED
      BY <2>3, <2>4
  <1>10. Latest'
    BY <1>1, <1>9 DEF Latest, Open, DeclaredType
  <1>11. Evaluated'
    BY <1>1 DEF ApiInv, Evaluated, EvaluatedOf, Is
  <1>12. QED
    BY <1>7, <1>8, <1>10, <1>11 DEF ApiInv

\* The thread that reads StoreInputQueue comes to its end.
LEMMA RouterEndKeeps ==
    ASSUME ApiInv, RouterEnd
    PROVE  ApiInv'
  <1>1. /\ router = "on" /\ arrived' = arrived
        /\ revision' = revision /\ context' = context
        /\ running' = running /\ latched' = latched /\ shut' = shut
        /\ queue' = queue /\ storage' = storage /\ inputs' = inputs
        /\ capabilities' = capabilities /\ accepted' = accepted
    BY DEF RouterEnd, resultVars
  <1>2. TypeOK' /\ ShutOnce' /\ OneWay'
    BY <1>1 DEF ApiInv, TypeOK, ShutOnce, OneWay
  <1>3. Idle'
    BY <1>1 DEF ApiInv, Idle
  <1>4. Latest' /\ Evaluated'
    BY <1>1 DEF ApiInv, Latest, LatestOf, Open, DeclaredType, Route, Evaluated, EvaluatedOf, Is
  <1>5. QED
    BY <1>2, <1>3, <1>4 DEF ApiInv

\* The firmware's worker stores the first of what arrived.
LEMMA FirmwareStoreKeeps ==
    ASSUME ApiInv, FirmwareStore
    PROVE  ApiInv'
  <1> DEFINE item == Head(arrived)
  <1>1. /\ revision \in Firmware /\ router = "on" /\ arrived # <<>>
        /\ arrived' = Tail(arrived)
        /\ revision' = revision /\ context' = context /\ router' = router
        /\ running' = running /\ latched' = latched /\ shut' = shut
        /\ queue' = queue /\ inputs' = inputs /\ capabilities' = capabilities
        /\ accepted' = accepted
    BY DEF FirmwareStore, threadVars, resultVars
  <1>2. item \in Arriving(revision) /\ Tail(arrived) \in Seq(Arriving(revision))
    BY <1>1, TailProperties DEF ApiInv, TypeOK
  <1>3. /\ item.id \in Items \cup {Null}
        /\ item.id \in Items => item.value \in ValuesOf(revision, item.id)
    BY <1>1, <1>2 DEF Arriving, ValuesOf, Checked, Firmware
  <1>4. /\ DOMAIN storage' = Items
        /\ \A c \in Items : storage'[c] = IF c = item.id THEN item.value ELSE storage[c]
    BY <1>3, DeclaredTypes DEF FirmwareStore, ApiInv, TypeOK
  <1>5. TypeOK'
    BY <1>1, <1>2, <1>3, <1>4 DEF ApiInv, TypeOK
  <1>6. Idle' /\ ShutOnce' /\ OneWay'
    BY <1>1 DEF ApiInv, Idle, ShutOnce, OneWay, Checked, Firmware
  <1>7. ASSUME Open, NEW c \in Items, DeclaredType(c) # Null
        PROVE  LatestOf(c)'
    <2>1. LatestOf(c) /\ queue[Route(c)] = <<>>
      BY <1>1, <1>7, DeclaredTypes
         DEF ApiInv, TypeOK, Latest, OneWay, DeclaredType, Route
    <2>2. /\ LastIs(arrived', c, accepted[c])
          /\ ~HoldsId(arrived', c) /\ item.id = c => item.value = accepted[c]
          /\ HoldsId(arrived, c) <=> c = item.id \/ HoldsId(arrived', c)
      BY <1>1, <2>1, PopLastIs, TailIds DEF ApiInv, TypeOK, LatestOf
    <2>3. ~HoldsId(queue[Route(c)], c) /\ LastIs(queue[Route(c)], c, accepted[c])
      BY <2>1, EmptyQueue
    <2>4. ~HoldsId(arrived', c) => storage'[c] = accepted[c]
      BY <1>4, <2>1, <2>2, <2>3 DEF LatestOf
    <2>5. QED
      BY <1>1, <2>2, <2>3, <2>4 DEF LatestOf, Route
  <1>8. Latest'
    BY <1>1, <1>7 DEF Latest, Open, DeclaredType
  <1>9. Evaluated'
    BY <1>1 DEF Evaluated, Is, Firmware
  <1>10. QED
    BY <1>5, <1>6, <1>8, <1>9 DEF ApiInv

(***************************************************************************)
(* The store worker of a route stores the first of its queue.  A value     *)
(* that is no change leaves the stored items as they are, and one that is  *)
(* has its id waiting for the capability worker.                           *)
(***************************************************************************)
LEMMA RouteStoreKeeps ==
    ASSUME ApiInv, NEW r \in Routes, RouteStore(r)
    PROVE  ApiInv'
  <1> DEFINE item == Head(queue[r])
  <1>1. /\ running /\ queue[r] # <<>>
        /\ arrived' = arrived
        /\ revision' = revision /\ context' = context /\ router' = router
        /\ running' = running /\ latched' = latched /\ shut' = shut
        /\ capabilities' = capabilities /\ accepted' = accepted
    BY DEF RouteStore, threadVars
  <1>2. /\ queue[r] \in Seq(Routed(revision, r))
        /\ item \in Routed(revision, r) /\ Tail(queue[r]) \in Seq(Routed(revision, r))
    <2>1. queue[r] \in Seq(Routed(revision, r))
      BY DEF ApiInv, TypeOK
    <2>2. QED
      BY <1>1, <2>1, TailProperties
  <1>3. /\ item.id \in Items /\ item.value \in ValuesOf(revision, item.id)
        /\ item.value \in Values
        /\ Route(item.id) = r
    BY <1>2 DEF Routed, Route, ValuesOf
  <1>4. /\ DOMAIN storage' = Items
        /\ \A c \in Items : storage'[c] = IF c = item.id THEN item.value ELSE storage[c]
    BY <1>3 DEF RouteStore, ApiInv, TypeOK
  <1>5. /\ DOMAIN queue' = Routes
        /\ \A h \in Routes : queue'[h] = IF h = r THEN Tail(queue[r]) ELSE queue[h]
    BY DEF RouteStore, ApiInv, TypeOK
  <1>6. inputs' = IF Is("755") /\ Changes(item.id, item.value)
                  THEN Append(inputs, item.id) ELSE inputs
    BY DEF RouteStore
  <1>7. TypeOK'
    <2>1. Append(inputs, item.id) \in Seq(Items)
      BY <1>3 DEF ApiInv, TypeOK
    <2>2. QED
      BY <1>1, <1>2, <1>3, <1>4, <1>5, <1>6, <2>1 DEF ApiInv, TypeOK
  <1>8. Idle' /\ ShutOnce' /\ OneWay'
    <2>1. revision \notin Firmware
      BY <1>1 DEF ApiInv, OneWay
    <2>2. QED
      BY <1>1, <2>1 DEF ApiInv, Idle, ShutOnce, OneWay
  <1>9. ASSUME Open, NEW c \in Items, DeclaredType(c) # Null
        PROVE  LatestOf(c)'
    <2>1. LatestOf(c) /\ Route(c) \in Routes
      BY <1>9, DeclaredTypes DEF ApiInv, TypeOK, Latest, DeclaredType, Route
    <2>2. CASE Route(c) = r
      <3>1. HoldsId(queue[r], c) <=> c = item.id \/ HoldsId(queue'[r], c)
        BY <1>1, <1>2, <1>5, TailIds
      <3>2. ASSUME ~HoldsId(arrived, c)
            PROVE  /\ LastIs(queue'[r], c, accepted[c])
                   /\ ~HoldsId(queue'[r], c) => storage'[c] = accepted[c]
        <4>1. LastIs(queue[r], c, accepted[c])
          BY <2>1, <2>2, <3>2 DEF LatestOf
        <4>2. /\ LastIs(queue'[r], c, accepted[c])
              /\ ~HoldsId(queue'[r], c) /\ item.id = c => item.value = accepted[c]
          BY <1>1, <1>2, <1>5, <4>1, PopLastIs
        <4>3. ~HoldsId(queue'[r], c) /\ item.id # c => storage[c] = accepted[c]
          BY <2>1, <2>2, <3>1, <3>2 DEF LatestOf
        <4>4. QED
          BY <1>4, <4>2, <4>3
      <3>3. QED
        BY <1>1, <2>1, <2>2, <3>2 DEF LatestOf, Route
    <2>3. CASE Route(c) # r
      <3>1. c # item.id /\ queue'[Route(c)] = queue[Route(c)]
        BY <1>3, <1>5, <2>1, <2>3
      <3>2. storage'[c] = storage[c]
        BY <1>4, <3>1
      <3>3. QED
        BY <1>1, <2>1, <3>1, <3>2 DEF LatestOf, Route
    <2>4. QED
      BY <2>2, <2>3
  <1>10. Latest'
    BY <1>1, <1>9 DEF Latest, Open, DeclaredType
  <1>11. ASSUME Is("755"), NEW c \in BilCapabilities
         PROVE  EvaluatedOf(c)'
    <2>1. EvaluatedOf(c)
      BY <1>11 DEF ApiInv, Evaluated
    <2>2. BilRequired[c] \subseteq Items
      <3>1. BilRequired[c] \subseteq BilItems
        BY DEF BilRequired, BilCapabilities, BilItems
      <3>2. QED
        BY <3>1, DeclaredTypes
    <2>3. inputs \in Seq(Items)
      BY DEF ApiInv, TypeOK
    <2>4. CASE Changes(item.id, item.value) /\ item.id \in BilRequired[c]
      <3>1. inputs' = Append(inputs, item.id)
        BY <1>6, <1>11, <2>4
      <3>2. Len(inputs) + 1 \in DOMAIN inputs' /\ inputs'[Len(inputs) + 1] = item.id
        BY <1>3, <2>3, <3>1
      <3>3. QED
        BY <2>4, <3>2 DEF EvaluatedOf
    <2>5. CASE ~(Changes(item.id, item.value) /\ item.id \in BilRequired[c])
      <3>1. \A d \in BilRequired[c] : storage'[d] = storage[d]
        <4>1. CASE ~Changes(item.id, item.value)
          <5>1. /\ storage[item.id] # Null
                /\ storage[item.id].type = item.value.type
                /\ storage[item.id].data = item.value.data
            BY <4>1 DEF Changes
          <5>2. storage[item.id] \in Values
            BY <1>3, <5>1 DEF ApiInv, TypeOK, ValuesOf
          <5>3. storage[item.id] = item.value
            BY <1>3, <5>1, <5>2 DEF Values
          <5>4. QED
            BY <1>4, <2>2, <5>3
        <4>2. CASE item.id \notin BilRequired[c]
          BY <1>4, <2>2, <4>2
        <4>3. QED
          BY <2>5, <4>1, <4>2
      <3>2. Build(c, storage') = Build(c, storage)
        BY <3>1, BuildRequired
      <3>3. ASSUME NEW k \in DOMAIN inputs PROVE k \in DOMAIN inputs' /\ inputs'[k] = inputs[k]
        BY <1>3, <1>6, <2>3, <3>3
      <3>4. QED
        BY <1>1, <2>1, <3>1, <3>2, <3>3 DEF EvaluatedOf
    <2>6. QED
      BY <2>4, <2>5
  <1>12. Evaluated'
    BY <1>1, <1>11 DEF Evaluated, Is
  <1>13. QED
    BY <1>7, <1>8, <1>10, <1>12 DEF ApiInv

\* The capability worker builds what needs the changed item.
LEMMA EvaluateKeeps ==
    ASSUME ApiInv, EvaluateInput
    PROVE  ApiInv'
  <1>1. /\ inputs # <<>> /\ inputs' = Tail(inputs) /\ arrived' = arrived
        /\ revision' = revision /\ context' = context /\ router' = router
        /\ running' = running /\ latched' = latched /\ shut' = shut
        /\ queue' = queue /\ storage' = storage /\ accepted' = accepted
    BY DEF EvaluateInput, threadVars
  <1>2. /\ inputs \in Seq(Items)
        /\ Tail(inputs) \in Seq(Items)
        /\ DOMAIN inputs = 1 .. Len(inputs) /\ Len(inputs) \in Nat
        /\ DOMAIN Tail(inputs) = 1 .. Len(inputs) - 1
        /\ Head(inputs) = inputs[1]
        /\ \A k \in 1 .. Len(inputs) - 1 : Tail(inputs)[k] = inputs[k + 1]
    BY <1>1, TailProperties DEF ApiInv, TypeOK
  <1>3. TypeOK'
    BY <1>1, <1>2 DEF ApiInv, TypeOK
  <1>4. Idle' /\ ShutOnce' /\ OneWay'
    BY <1>1 DEF ApiInv, Idle, ShutOnce, OneWay
  <1>5. Latest'
    BY <1>1 DEF ApiInv, Latest, LatestOf, Open, DeclaredType, Route
  <1>6. ASSUME Is("755"), NEW c \in BilCapabilities
        PROVE  EvaluatedOf(c)'
    <2>1. EvaluatedOf(c)
      BY <1>6 DEF ApiInv, Evaluated
    <2>2. capabilities'[c] = IF Head(inputs) \in BilRequired[c] THEN Build(c, storage)
                             ELSE capabilities[c]
      BY DEF EvaluateInput
    <2>3. CASE Head(inputs) \in BilRequired[c]
      <3>1. capabilities'[c] = Build(c, storage)
        BY <2>2, <2>3
      <3>2. QED
        BY <1>1, <3>1 DEF EvaluatedOf
    <2>4. CASE Head(inputs) \notin BilRequired[c]
      <3>1. capabilities'[c] = capabilities[c]
        BY <2>2, <2>4
      <3>2. ASSUME NEW k \in DOMAIN inputs, inputs[k] \in BilRequired[c]
            PROVE  k - 1 \in DOMAIN inputs' /\ inputs'[k - 1] \in BilRequired[c]
        <4>1. k \in 1 .. Len(inputs) /\ k # 1
          BY <1>2, <2>4, <3>2
        <4>2. k - 1 \in 1 .. Len(inputs) - 1 /\ (k - 1) + 1 = k
          BY <1>2, <4>1
        <4>3. QED
          BY <1>1, <1>2, <3>2, <4>2
      <3>3. QED
        BY <1>1, <2>1, <3>1, <3>2 DEF EvaluatedOf
    <2>5. QED
      BY <2>3, <2>4
  <1>7. Evaluated'
    BY <1>1, <1>6 DEF Evaluated, Is
  <1>8. QED
    BY <1>3, <1>4, <1>5, <1>7 DEF ApiInv

\* Every step keeps the invariant.
LEMMA ApiNext ==
    ASSUME ApiInv, [Next]_vars
    PROVE  ApiInv'
  <1>1. revision \in Revisions
    BY DEF ApiInv, TypeOK
  <1>2. CASE Workers
    BY <1>2, RouterPassKeeps, RouterEndKeeps, FirmwareStoreKeeps, RouteStoreKeeps,
       EvaluateKeeps DEF Workers
  <1>3. CASE Api0818 \/ Api0820 \/ Api755 \/ ApiFW \/ Api744
    <2>1. SetStep \/ LifeStep
      BY <1>1, <1>3, ApiStep
    <2>2. QED
      BY <2>1, LifeKeeps, ArriveKeeps, EnqueueKeeps DEF SetStep
  <1>4. CASE UNCHANGED vars
    BY <1>4 DEF vars, ApiInv, TypeOK, Idle, ShutOnce, OneWay, Latest, LatestOf, Open,
                DeclaredType, Route, Evaluated, EvaluatedOf, Is
  <1>5. QED
    BY <1>2, <1>3, <1>4 DEF Next

\* The invariant of the calls.
LEMMA ApiInvariant == Spec => []ApiInv
  BY ApiInit, ApiNext, PTL DEF Spec
-----------------------------------------------------------------------------
(***************************************************************************)
(* The three promises.                                                     *)
(***************************************************************************)

\* An item of which nothing is on its way is stored as it was accepted.
LEMMA StoredAsAccepted ==
    ASSUME ApiInv, Open, NEW d \in Items, DeclaredType(d) # Null, Arrived(d)
    PROVE  storage[d] = accepted[d]
  BY DEF ApiInv, Latest, LatestOf, Arrived

\* What the getter of a type answers for an item that is stored as such.
LEMMA GetAnswers ==
    ASSUME revision \in AllRevisions, context, NEW d \in Items, NEW type \in Types,
           storage[d] # Null, storage[d].type = type
    PROVE  Get(d, type) = Answer("RI_SUCCESS", storage[d].data)
  <1>1. GetAs(d, type) = Answer("RI_SUCCESS", storage[d].data)
    BY DEF GetAs, Readable
  <1>2. type = "kBinary" => FindBinary(d) = GetAs(d, type)
    BY <1>1 DEF FindBinary, Answer
  <1>3. CASE revision = "0818"
    BY <1>1, <1>3 DEF Get, Is, Types, GetBool0818, GetInt320818, GetDouble0818, GetBinary0818
  <1>4. CASE revision = "0820"
    BY <1>1, <1>4 DEF Get, Is, Types, GetBool0820, GetInt320820, GetDouble0820, GetBinary0820
  <1>5. CASE revision = "755"
    BY <1>1, <1>5 DEF Get, Is, Types, GetBool755, GetInt32755, GetDouble755, GetBinary755
  <1>6. CASE revision = "0820_FW"
    BY <1>1, <1>2, <1>6 DEF Get, Is, Types, GetBoolFW, GetInt32FW, GetDoubleFW, GetBinaryFW
  <1>7. CASE revision = "744"
    BY <1>1, <1>2, <1>7 DEF Get, Is, Types, GetBool744, GetInt32744, GetDouble744, GetBinary744
  <1>8. QED
    BY <1>3, <1>4, <1>5, <1>6, <1>7 DEF AllRevisions

(***************************************************************************)
(* What a setter accepted is what the getters answer, in every revision,   *)
(* for every product and whatever the data: once nothing of the item is on *)
(* its way, RIM_GetXxx of the accepted type gives it back, and the error   *)
(* list is read if and only if it has the size of one.                     *)
(***************************************************************************)
THEOREM ReadsBack == Spec => []AcceptedIsRead
  <1>1. ASSUME ApiInv PROVE AcceptedIsRead
    <2>1. revision \in AllRevisions
      BY <1>1, RimApiAssumption DEF ApiInv, TypeOK
    <2>2. ASSUME Open, NEW d \in Items, accepted[d] # Null, DeclaredType(d) # Null, Arrived(d)
          PROVE  /\ Get(d, accepted[d].type) = Answer("RI_SUCCESS", accepted[d].data)
                 /\ d = ErrorList /\ ~Is("755") => ErrorListIsRead
      <3>1. storage[d] = accepted[d]
        BY <1>1, <2>2, StoredAsAccepted
      <3>2. accepted[d].type \in Types
        BY <1>1, <2>2 DEF ApiInv, TypeOK, ValuesOf, Values
      <3>3. Get(d, accepted[d].type) = Answer("RI_SUCCESS", accepted[d].data)
        BY <2>1, <2>2, <3>1, <3>2, GetAnswers DEF Open
      <3>4. ASSUME d = ErrorList, ~Is("755") PROVE ErrorListIsRead
        <4>1. GetErrorList.status = "RI_SUCCESS" <=>
                 accepted[d].type = "kBinary" /\ accepted[d].data.size = ErrorListSize
          BY <2>2, <3>1, <3>4
             DEF GetErrorList, OfSize, FindBinary, GetAs, Answer, Readable, Open
        <4>2. OfSize(GetAs(d, "kBinary"), ErrorListSize).status = "RI_SUCCESS" <=>
                 accepted[d].type = "kBinary" /\ accepted[d].data.size = ErrorListSize
          BY <2>2, <3>1 DEF OfSize, GetAs, Answer, Readable, Open
        <4>3. QED
          BY <2>1, <3>4, <4>1, <4>2
             DEF ErrorListIsRead, AllRevisions, Is, GetErrorList0818, GetErrorList0820,
                 GetErrorList744, GetErrorListFW, GetBinary0818, GetBinary0820
      <3>5. QED
        BY <3>3, <3>4
    <2>3. QED
      BY <2>2 DEF AcceptedIsRead
  <1>2. QED
    BY <1>1, ApiInvariant, PTL

(***************************************************************************)
(* Where AdapterDispatcher checks every setter (old_0820, Rev755_FW), an   *)
(* item that is stored is readable as what the product declares it to be:  *)
(* the type of a stored value is that of its item, all along its way.      *)
(***************************************************************************)
THEOREM StoredIsReadable == Spec => []StaysReadable
  <1>1. ASSUME ApiInv PROVE StaysReadable
    <2>1. ASSUME revision \in {"0820", "755"}, NEW d \in Items, storage[d] # Null
          PROVE  Get(d, DeclaredType(d)).status = "RI_SUCCESS"
      <3>1. storage[d].type = DeclaredType(d) /\ DeclaredType(d) \in Types
        <4>1. storage[d] \in ValuesOf(revision, d)
          BY <1>1, <2>1 DEF ApiInv, TypeOK
        <4>2. QED
          BY <2>1, <4>1 DEF ValuesOf, Values, Checked, DeclaredType
      <3>2. context
        <4>1. storage # Nothing
          BY <2>1 DEF Nothing
        <4>2. QED
          BY <1>1, <4>1 DEF ApiInv, Idle
      <3>3. revision \in AllRevisions
        BY <2>1 DEF AllRevisions
      <3>4. Get(d, DeclaredType(d)) = Answer("RI_SUCCESS", storage[d].data)
        BY <2>1, <3>1, <3>2, <3>3, GetAnswers
      <3>5. QED
        BY <3>4 DEF Answer
    <2>2. QED
      BY <2>1 DEF StaysReadable
  <1>2. QED
    BY <1>1, ApiInvariant, PTL

(***************************************************************************)
(* Rev755_FW with bil: from the fault list that a setter accepted to the   *)
(* answer ERROR of RIM_GetCapabilityInt32, across both queues and for      *)
(* every order of changes and evaluations.                                 *)
(***************************************************************************)
THEOREM FaultReachesApplication == Spec => []FaultIsShown
  <1> DEFINE fault == "FAULT_INFO_LIST"
  <1>1. ASSUME ApiInv, Is("755"), Open, Processed, inputs = <<>>, accepted[fault] # Null,
               Faulty(accepted), ~Uninitialized(accepted)
        PROVE  /\ GetCapabilityInt32755("PRODUCT_STATE") = Answer("RI_SUCCESS", "ERROR")
               /\ GetCapabilityOther755("PRODUCT_STATE").status = "RI_INTERNAL_ERROR"
               /\ GetStruct755(fault).status = "RI_SUCCESS"
    <2>1. \A d \in Items : storage[d] = accepted[d]
      <3>1. SUFFICES ASSUME NEW d \in Items PROVE storage[d] = accepted[d]
        OBVIOUS
      <3>2. revision \in Checked
        BY <1>1 DEF Is, Checked
      <3>3. CASE DeclaredType(d) = Null
        <4>1. ValuesOf(revision, d) = {}
          BY <3>2, <3>3, DeclaredTypes DEF ValuesOf, Values, DeclaredType
        <4>2. QED
          BY <1>1, <4>1 DEF ApiInv, TypeOK
      <3>4. CASE DeclaredType(d) # Null
        <4>1. Route(d) \in Routes
          BY <1>1, <3>4, DeclaredTypes DEF ApiInv, TypeOK, DeclaredType, Route
        <4>2. arrived = <<>> /\ queue[Route(d)] = <<>>
          BY <1>1, <3>2, <4>1 DEF ApiInv, OneWay, Processed
        <4>3. Arrived(d)
          BY <4>2, EmptyQueue DEF Arrived
        <4>4. QED
          BY <1>1, <3>4, <4>3, StoredAsAccepted
      <3>5. QED
        BY <3>3, <3>4
    <2>2. /\ fault \in BilItems /\ fault \in Items
          /\ "LAYER_INIT_STATE" \in Items
          /\ "PRODUCT_STATE" \in BilCapabilities
          /\ fault \in BilRequired["PRODUCT_STATE"]
      BY DeclaredTypes DEF BilItems, BilCapabilities, BilRequired
    <2>3. Faulty(storage) /\ ~Uninitialized(storage) /\ storage[fault] # Null
      BY <1>1, <2>1, <2>2 DEF Faulty, Uninitialized, TryGetStruct, Content
    <2>4. capabilities["PRODUCT_STATE"] = "ERROR"
      <3>1. EvaluatedOf("PRODUCT_STATE")
        BY <1>1, <2>2 DEF ApiInv, Evaluated
      <3>2. DOMAIN inputs = {}
        BY <1>1
      <3>3. capabilities["PRODUCT_STATE"] = Build("PRODUCT_STATE", storage)
        BY <2>2, <2>3, <3>1, <3>2 DEF EvaluatedOf
      <3>4. QED
        BY <2>3, <3>3 DEF Build, BuildProductState
    <2>5. "ERROR" # Null /\ context
      BY <1>1, BilAssumption DEF ProductStates, Open
    <2>6. GetCapability("PRODUCT_STATE") = Answer("RI_SUCCESS", "ERROR")
      BY <2>4, <2>5 DEF GetCapability
    <2>7. /\ GetCapabilityInt32755("PRODUCT_STATE") = Answer("RI_SUCCESS", "ERROR")
          /\ GetCapabilityOther755("PRODUCT_STATE").status = "RI_INTERNAL_ERROR"
      BY <2>6 DEF GetCapabilityInt32755, GetCapabilityOther755, Answer
    <2>8. GetStruct755(fault).status = "RI_SUCCESS"
      BY <2>3, <2>5 DEF GetStruct755, OfSize, GetBinary755, GetAs, Answer, Readable, Faulty,
                        TryGetStruct
    <2>9. QED
      BY <2>7, <2>8
  <1>2. ApiInv => FaultIsShown
    BY <1>1 DEF FaultIsShown
  <1>3. QED
    BY <1>2, ApiInvariant, PTL
=============================================================================
