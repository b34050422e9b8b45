------------------------------- MODULE RimApi -------------------------------
(***************************************************************************)
(* The calls of an application, RIM_Create to RIM_Destroy and RIM_SetXxx   *)
(* and RIM_GetXxx of every type, in the earlier and the firmware revisions *)
(* of the library, and what the workers do with the values in between:     *)
(*                                                                         *)
(*   "0818"       old_0818: some setters check, some push what they get    *)
(*   "0820"       old_0820: all setters go through AdapterDispatcher       *)
(*   "755"        Rev755_FW with the product bil, see BilProduct           *)
(*   "0820_FW", "744"  the firmware trees: no setter checks.  The library  *)
(*                core they are linked with is not in the repository; here *)
(*                its store worker keeps what it is given of each item.    *)
(*                                                                         *)
(* The calls come one after the other; module Lifecycle has the threads    *)
(* that a call starts and joins, ValueStore the bytes that a binary value  *)
(* points at (here the caller leaves them alone).  A call that is refused  *)
(* changes nothing and is no step.  A value is its type and its data.      *)
(***************************************************************************)
EXTENDS QueuePolicies, BilProduct

CONSTANTS
    Revisions,
    Items,              \* data ids an application may pass
    ErrorList,          \* RI_DATA_ERROR_LIST of printer_a
    ErrorListSize,      \* sizeof(RI_FAULT_INFO_LIST)
    Routes,
    Declared,           \* revision -> item -> its type in the product, or Null
    RouteOf,            \* revision -> item -> its route, Null if not declared
    StorePolicy,        \* QueueKinds of a route's store queue
    Given(_, _, _),     \* the data considered for a revision, an item and a type
    Normalize(_, _),    \* DataItemDefinition::normalize of an item, on data
    MaxSets             \* revision -> bound: setter calls that return RI_SUCCESS

AllRevisions == {"0818", "0820", "755", "0820_FW", "744"}
Firmware     == {"0820_FW", "744"}
Types        == {"kBool", "kInt32", "kDouble", "kBinary"}
Scalars      == {"kBool", "kInt32", "kDouble"}

ASSUME RimApiAssumption ==
    /\ Revisions \subseteq AllRevisions
    /\ Declared \in [Revisions -> [Items -> Types \cup {Null}]]
    /\ RouteOf \in [Revisions -> [Items -> Routes \cup {Null}]]
    /\ \A v \in Revisions, d \in Items : (Declared[v][d] = Null) <=> (RouteOf[v][d] = Null)
    /\ BilItems \cup {ErrorList} \subseteq Items
    /\ Null \notin Items \cup Types
    /\ ErrorListSize \in Nat
    /\ StorePolicy \in [Routes -> QueueKinds]
    /\ MaxSets \in [Revisions -> Nat]

VARIABLES
    revision,      \* the code that runs
    context,       \* g_context is not null
    arrived,       \* StoreInputQueue of "0818" and the firmware: [id, value]
    router,        \* the thread that reads it: "off", "on" or "ended"
    routerShut,    \* ... and whether it is shut down
    queue,         \* store queue of each route
    running,       \* the routes' workers were started
    latched,       \* RoutePipeline::stopped_, RouteExecutor::stopped_
    shut,          \* the routes' queues are shut down
    storage,       \* the stored value of an item, or Null
    inputs,        \* "755": CapabilityInputs, each a changed id
    capabilities,  \* "755": CapabilityStore
    sets,          \* how many values were accepted
    accepted       \* history: the value last accepted for an item, or Null

vars == <<revision, context, arrived, router, routerShut, queue, running, latched,
          shut, storage, inputs, capabilities, sets, accepted>>

threadVars == <<router, routerShut, running, latched, shut>>
resultVars == <<inputs, capabilities>>

Is(v) == revision = v

DeclaredType(d) == Declared[revision][d]
Route(d)        == RouteOf[revision][d]

Value(type, data) == [type |-> type, data |-> data]

Nothing == [d \in Items |-> Null]

NoResults == [c \in BilCapabilities |-> Null]

Init ==
    /\ revision \in Revisions
    /\ context = FALSE
    /\ arrived = <<>> /\ router = "off" /\ routerShut = FALSE
    /\ queue = [r \in Routes |-> <<>>]
    /\ running = FALSE /\ latched = FALSE /\ shut = FALSE
    /\ storage = Nothing
    /\ inputs = <<>> /\ capabilities = NoResults
    /\ sets = 0
    /\ accepted = Nothing
-----------------------------------------------------------------------------
(* RIM_Create, RIM_Start, RIM_Stop, RIM_Destroy. *)

\* A new RIManagerContext holds nothing yet, and one that is gone no more.
Renew ==
    /\ arrived' = <<>> /\ router' = "off" /\ routerShut' = FALSE
    /\ queue' = [r \in Routes |-> <<>>]
    /\ running' = FALSE /\ latched' = FALSE /\ shut' = FALSE
    /\ storage' = Nothing
    /\ inputs' = <<>> /\ capabilities' = NoResults
    /\ accepted' = Nothing
    /\ UNCHANGED <<revision, sets>>

Create  == ~context /\ context' = TRUE /\ Renew
Destroy == context /\ context' = FALSE /\ Renew

StartRoutes == running' = TRUE

(***************************************************************************)
(* RoutePipeline::Stop and RouteExecutor::Stop work once.  The store       *)
(* worker of a route shuts its queue down only if it was started, so a     *)
(* stop before the first start uses that one time up.                      *)
(***************************************************************************)
StopRoutes ==
    IF latched THEN UNCHANGED <<running, latched, shut>>
    ELSE latched' = TRUE /\ shut' = running /\ running' = FALSE

\* DataStoreWorker::Run and Stop of "0818": Stop shuts the queue down always.
StartRouter == router' = IF router = "off" THEN "on" ELSE router
StopRouter  == router' = "off" /\ routerShut' = TRUE

Start(routes, reader) ==
    /\ context
    /\ IF routes THEN StartRoutes ELSE UNCHANGED running
    /\ IF reader THEN StartRouter ELSE UNCHANGED router
    /\ UNCHANGED <<revision, context, arrived, routerShut, queue, latched, shut,
                   storage, resultVars, sets, accepted>>

Stop(routes, reader) ==
    /\ context
    /\ IF routes THEN StopRoutes ELSE UNCHANGED <<running, latched, shut>>
    /\ IF reader THEN StopRouter ELSE UNCHANGED <<router, routerShut>>
    /\ UNCHANGED <<revision, context, arrived, queue, storage, resultVars, sets, accepted>>
-----------------------------------------------------------------------------
(* The setters. *)

Accept(d, value) ==
    /\ context /\ sets < MaxSets[revision]
    /\ sets' = sets + 1
    /\ accepted' = [accepted EXCEPT ![d] = value]

\* Into a queue, which drops what comes after its shutdown without a word.
Enqueue(d, value) ==
    queue' = IF shut THEN queue
             ELSE [queue EXCEPT ![Route(d)] =
                     RouteInsert(StorePolicy[Route(d)], @, [id |-> d, value |-> value])]

\* The firmware's ids have a number of their own; what has none is kUnknown.
ToInternalDataId(d) ==
    IF revision \in Firmware /\ DeclaredType(d) = Null THEN Null ELSE d

\* StoreInputQueue::Push, which does not look at shutdown_.
Arrive(d, value) ==
    arrived' = Append(arrived, [id |-> ToInternalDataId(d), value |-> value])

\* A setter that pushes what it is given, whatever the product says of d.
PushAs(d, type) ==
    \E data \in Given(revision, d, type) :
        /\ Accept(d, Value(type, data))
        /\ Arrive(d, Value(type, data))
        /\ UNCHANGED <<revision, context, threadVars, queue, storage, resultVars>>

\* Mutant: the type is not compared.
DispatchUnchecked(d, type) ==
    /\ DeclaredType(d) # Null
    /\ \E data \in Given(revision, d, type) :
        LET value == Value(type, IF type = DeclaredType(d) THEN Normalize(d, data) ELSE data)
        IN  /\ Accept(d, value)
            /\ IF Is("0818") THEN Arrive(d, value) /\ UNCHANGED queue
                             ELSE Enqueue(d, value) /\ UNCHANGED arrived
    /\ UNCHANGED <<revision, context, threadVars, storage, resultVars>>

\* A setter that goes through AdapterDispatcher::Dispatch.
DispatchAs(d, type) ==
    /\ DeclaredType(d) = type
    /\ \E data \in Given(revision, d, type) :
        LET value == Value(type, Normalize(d, data))
        IN  /\ Accept(d, value)
            /\ IF Is("0818") THEN Arrive(d, value) /\ UNCHANGED queue
                             ELSE Enqueue(d, value) /\ UNCHANGED arrived
    /\ UNCHANGED <<revision, context, threadVars, storage, resultVars>>

\* SetStruct of bil and printer_a: RIM_SetBinary with the size of the struct.
SetStruct(d, size) ==
    /\ DeclaredType(d) = "kBinary"
    /\ \E data \in Given(revision, d, "kBinary") :
        /\ data.size = size
        /\ Accept(d, Value("kBinary", data))
        /\ Enqueue(d, Value("kBinary", data))
    /\ UNCHANGED <<revision, context, threadVars, arrived, storage, resultVars>>
-----------------------------------------------------------------------------
(* The getters: a status, and the data when it is RI_SUCCESS. *)

Answer(status, data) == [status |-> status, data |-> data]

\* RIMValueAccessor: a value is read as the type it carries and no other.
Readable(value, type) == value.type = type

GetAs(d, type) ==
    IF ~context THEN Answer("RI_NOT_INITIALIZED", Null)
    ELSE IF storage[d] = Null THEN Answer("RI_NO_DATA", Null)
    ELSE IF ~Readable(storage[d], type) THEN Answer("RI_INTERNAL_ERROR", Null)
    ELSE Answer("RI_SUCCESS", storage[d].data)

\* GetStruct: what RIM_GetBinary found must have the size of the struct.
OfSize(found, size) ==
    IF found.status = "RI_SUCCESS" /\ found.data.size # size
    THEN Answer("RI_INTERNAL_ERROR", Null) ELSE found

\* ValueStore::FindBinary (not in the repository) answers for binaries only.
FindBinary(d) ==
    LET found == GetAs(d, "kBinary")
    IN  IF found.status = "RI_INTERNAL_ERROR" THEN Answer("RI_NO_DATA", Null) ELSE found

\* RIM_SetErrorList and RIM_GetErrorList of the firmware; SetStruct of "0818".
SetErrorList ==
    /\ \E data \in Given(revision, ErrorList, "kBinary") :
        /\ data.size = ErrorListSize
        /\ Accept(ErrorList, Value("kBinary", data))
        /\ Arrive(ErrorList, Value("kBinary", data))
    /\ UNCHANGED <<revision, context, threadVars, queue, storage, resultVars>>

GetErrorList == OfSize(FindBinary(ErrorList), ErrorListSize)

GetCapability(c) ==
    IF ~context THEN Answer("RI_NOT_INITIALIZED", Null)
    ELSE IF capabilities[c] = Null THEN Answer("RI_NO_DATA", Null)
    ELSE Answer("RI_SUCCESS", capabilities[c])
-----------------------------------------------------------------------------
(* The workers. *)

\* IdentityDiff, when there is a value to compare with.
Changes(d, value) ==
    \/ storage[d] = Null
    \/ storage[d].type # value.type
    \/ storage[d].data # value.data

\* The reader of "0818": an item the product does not declare has no route.
RouterPass ==
    /\ Is("0818") /\ router = "on" /\ arrived # <<>>
    /\ IF DeclaredType(Head(arrived).id) = Null THEN UNCHANGED queue
       ELSE Enqueue(Head(arrived).id, Head(arrived).value)
    /\ arrived' = Tail(arrived)
    /\ UNCHANGED <<revision, context, threadVars, storage, resultVars, sets, accepted>>

\* After a shutdown the reader goes on until its queue is empty.
RouterEnd ==
    /\ router = "on" /\ routerShut /\ arrived = <<>>
    /\ router' = "ended"
    /\ UNCHANGED <<revision, context, arrived, routerShut, queue, running, latched,
                   shut, storage, resultVars, sets, accepted>>

\* DataStoreWorker of the firmware's library.
FirmwareStore ==
    LET item == Head(arrived)
    IN  /\ revision \in Firmware /\ router = "on" /\ arrived # <<>>
        /\ arrived' = Tail(arrived)
        /\ storage' = IF item.id = Null THEN storage
                      ELSE [storage EXCEPT ![item.id] = item.value]
        /\ UNCHANGED <<revision, context, threadVars, queue, resultVars, sets, accepted>>

\* Mutant: a value of another type than the stored one is taken for no change.
StoreSameTypeOnly(r) ==
    LET item == Head(queue[r])
    IN  /\ running /\ ~shut /\ queue[r] # <<>>
        /\ queue' = [queue EXCEPT ![r] = Tail(@)]
        /\ storage' = IF storage[item.id] # Null /\ storage[item.id].type # item.value.type
                      THEN storage ELSE [storage EXCEPT ![item.id] = item.value]
        /\ inputs' = IF Is("755") /\ Changes(item.id, item.value)
                     THEN Append(inputs, item.id) ELSE inputs
        /\ UNCHANGED <<revision, context, threadVars, arrived, capabilities, sets, accepted>>

\* The store worker of a route.  In "755" a change goes on to the capability
\* worker by its id.
RouteStore(r) ==
    LET item == Head(queue[r])
    IN  /\ running /\ ~shut /\ queue[r] # <<>>
        /\ queue' = [queue EXCEPT ![r] = Tail(@)]
        /\ storage' = [storage EXCEPT ![item.id] = item.value]
        /\ inputs' = IF Is("755") /\ Changes(item.id, item.value)
                     THEN Append(inputs, item.id) ELSE inputs
        /\ UNCHANGED <<revision, context, threadVars, arrived, capabilities, sets, accepted>>

\* CapabilityManager::Evaluate for the capabilities that need the changed item,
\* each on a snapshot that is one cut (module Path755, SnapshotIsOneCut).
EvaluateInput ==
    /\ running /\ ~shut /\ inputs # <<>>
    /\ capabilities' =
          [c \in BilCapabilities |->
              IF Head(inputs) \in BilRequired[c] THEN Build(c, storage)
              ELSE capabilities[c]]
    /\ inputs' = Tail(inputs)
    /\ UNCHANGED <<revision, context, threadVars, arrived, queue, storage, sets, accepted>>

Workers ==
    \/ RouterPass \/ RouterEnd
    \/ FirmwareStore
    \/ \E r \in Routes : RouteStore(r)
    \/ EvaluateInput
-----------------------------------------------------------------------------
(* old_0818 *)

RIManagerContext0818 == Create
Create0818           == Is("0818") /\ RIManagerContext0818
StartStopDestroy0818 == Is("0818") /\ (Start(TRUE, TRUE) \/ Stop(TRUE, TRUE) \/ Destroy)

SetBool0818(d)   == Is("0818") /\ PushAs(d, "kBool")
SetInt320818(d)  == Is("0818") /\ DispatchAs(d, "kInt32")
SetDouble0818(d) == Is("0818") /\ PushAs(d, "kDouble")
SetBinary0818(d) == Is("0818") /\ PushAs(d, "kBinary")

GetBool0818(d)   == GetAs(d, "kBool")
GetInt320818(d)  == GetAs(d, "kInt32")
GetDouble0818(d) == GetAs(d, "kDouble")
GetBinary0818(d) == GetAs(d, "kBinary")

SetErrorList0818 == Is("0818") /\ SetErrorList
GetErrorList0818 == OfSize(GetBinary0818(ErrorList), ErrorListSize)

Api0818 ==
    \/ Create0818 \/ StartStopDestroy0818 \/ SetErrorList0818
    \/ \E d \in Items :
          SetBool0818(d) \/ SetInt320818(d) \/ SetDouble0818(d) \/ SetBinary0818(d)
-----------------------------------------------------------------------------
(* old_0820 *)

RIManagerContext0820 == Create
Create0820           == Is("0820") /\ RIManagerContext0820
StartStopDestroy0820 == Is("0820") /\ (Start(TRUE, FALSE) \/ Stop(TRUE, FALSE) \/ Destroy)

SetBool0820(d)   == Is("0820") /\ DispatchAs(d, "kBool")
SetInt320820(d)  == Is("0820") /\ DispatchAs(d, "kInt32")
SetDouble0820(d) == Is("0820") /\ DispatchAs(d, "kDouble")
SetBinary0820(d) == Is("0820") /\ DispatchAs(d, "kBinary")

GetBool0820(d)   == GetAs(d, "kBool")
GetInt320820(d)  == GetAs(d, "kInt32")
GetDouble0820(d) == GetAs(d, "kDouble")
GetBinary0820(d) == GetAs(d, "kBinary")

SetErrorList0820 == Is("0820") /\ SetStruct(ErrorList, ErrorListSize)
GetErrorList0820 == OfSize(GetBinary0820(ErrorList), ErrorListSize)

Api0820 ==
    \/ Create0820 \/ StartStopDestroy0820 \/ SetErrorList0820
    \/ \E d \in Items :
          SetBool0820(d) \/ SetInt320820(d) \/ SetDouble0820(d) \/ SetBinary0820(d)
-----------------------------------------------------------------------------
(* Rev755_FW *)

RIManagerContext755 == Create
Initialize755       == Is("755") /\ RIManagerContext755
StartStopDestroy755 == Is("755") /\ (Start(TRUE, FALSE) \/ Stop(TRUE, FALSE) \/ Destroy)

SetBool755(d)   == Is("755") /\ DispatchAs(d, "kBool")
SetInt32755(d)  == Is("755") /\ DispatchAs(d, "kInt32")
SetDouble755(d) == Is("755") /\ DispatchAs(d, "kDouble")
SetBinary755(d) == Is("755") /\ DispatchAs(d, "kBinary")

GetBool755(d)   == GetAs(d, "kBool")
GetInt32755(d)  == GetAs(d, "kInt32")
GetDouble755(d) == GetAs(d, "kDouble")
GetBinary755(d) == GetAs(d, "kBinary")

\* Every capability of bil is a kInt32.
GetCapabilityInt32755(c) == GetCapability(c)
GetCapabilityOther755(c) ==
    LET found == GetCapability(c)
    IN  IF found.status = "RI_SUCCESS" THEN Answer("RI_INTERNAL_ERROR", Null) ELSE found

\* SetLayerInitState, SetPrintJobInfoList, ... and their getters.
SetStruct755(d) == Is("755") /\ d \in BilItems /\ SetStruct(d, SizeOf[d])
GetStruct755(d) == OfSize(GetBinary755(d), SizeOf[d])

Api755 ==
    \/ Initialize755 \/ StartStopDestroy755
    \/ \E d \in Items :
          SetBool755(d) \/ SetInt32755(d) \/ SetDouble755(d) \/ SetBinary755(d)
             \/ SetStruct755(d)
-----------------------------------------------------------------------------
(* 0820_FW *)

RIManagerContextFW == Create
CreateFW           == Is("0820_FW") /\ RIManagerContextFW
StartStopDestroyFW == Is("0820_FW") /\ (Start(FALSE, TRUE) \/ Stop(FALSE, TRUE) \/ Destroy)

\* RIM_TestInjectTemperature, RIM_TestInjectUpperDoorOpen, ...: an item of the
\* product is pushed as what it is declared.
TestInjectFW(d) ==
    Is("0820_FW") /\ DeclaredType(d) \in Scalars /\ PushAs(d, DeclaredType(d))

SetBoolFW(d)      == Is("0820_FW") /\ PushAs(d, "kBool")
SetInt32FW(d)     == Is("0820_FW") /\ PushAs(d, "kInt32")
SetDoubleFW(d)    == Is("0820_FW") /\ PushAs(d, "kDouble")
SetBinaryFW(d)    == Is("0820_FW") /\ PushAs(d, "kBinary")

GetBoolFW(d)      == GetAs(d, "kBool")
GetInt32FW(d)     == GetAs(d, "kInt32")
GetDoubleFW(d)    == GetAs(d, "kDouble")
GetBinaryFW(d)    == FindBinary(d)

SetErrorListFW == Is("0820_FW") /\ SetErrorList
GetErrorListFW == GetErrorList

ApiFW ==
    \/ CreateFW \/ StartStopDestroyFW \/ SetErrorListFW
    \/ \E d \in Items :
          SetBoolFW(d) \/ SetInt32FW(d) \/ SetDoubleFW(d) \/ SetBinaryFW(d) \/ TestInjectFW(d)
-----------------------------------------------------------------------------
(* Rev744_FW *)

RIManagerContext744 == Create
Create744           == Is("744") /\ RIManagerContext744
StartStopDestroy744 == Is("744") /\ (Start(FALSE, TRUE) \/ Stop(FALSE, TRUE) \/ Destroy)

TestInject744(d) ==
    Is("744") /\ DeclaredType(d) \in Scalars /\ PushAs(d, DeclaredType(d))

SetBool744(d)      == Is("744") /\ PushAs(d, "kBool")
SetInt32744(d)     == Is("744") /\ PushAs(d, "kInt32")
SetDouble744(d)    == Is("744") /\ PushAs(d, "kDouble")
SetBinary744(d)    == Is("744") /\ PushAs(d, "kBinary")

GetBool744(d)      == GetAs(d, "kBool")
GetInt32744(d)     == GetAs(d, "kInt32")
GetDouble744(d)    == GetAs(d, "kDouble")
GetBinary744(d)    == FindBinary(d)

SetErrorList744 == Is("744") /\ SetErrorList
GetErrorList744 == GetErrorList

Api744 ==
    \/ Create744 \/ StartStopDestroy744 \/ SetErrorList744
    \/ \E d \in Items :
          SetBool744(d) \/ SetInt32744(d) \/ SetDouble744(d) \/ SetBinary744(d) \/ TestInject744(d)
-----------------------------------------------------------------------------
Next == Workers \/ Api0818 \/ Api0820 \/ Api755 \/ ApiFW \/ Api744

Spec == Init /\ [][Next]_vars

\* RIM_GetBool, ... by the type that is asked for.
Get(d, type) ==
    CASE Is("0818") /\ type = "kBool"   -> GetBool0818(d)
      [] Is("0818") /\ type = "kInt32"  -> GetInt320818(d)
      [] Is("0818") /\ type = "kDouble" -> GetDouble0818(d)
      [] Is("0818") /\ type = "kBinary" -> GetBinary0818(d)
      [] Is("0820") /\ type = "kBool"   -> GetBool0820(d)
      [] Is("0820") /\ type = "kInt32"  -> GetInt320820(d)
      [] Is("0820") /\ type = "kDouble" -> GetDouble0820(d)
      [] Is("0820") /\ type = "kBinary" -> GetBinary0820(d)
      [] Is("755") /\ type = "kBool"    -> GetBool755(d)
      [] Is("755") /\ type = "kInt32"   -> GetInt32755(d)
      [] Is("755") /\ type = "kDouble"  -> GetDouble755(d)
      [] Is("755") /\ type = "kBinary"  -> GetBinary755(d)
      [] Is("0820_FW") /\ type = "kBool"   -> GetBoolFW(d)
      [] Is("0820_FW") /\ type = "kInt32"  -> GetInt32FW(d)
      [] Is("0820_FW") /\ type = "kDouble" -> GetDoubleFW(d)
      [] Is("0820_FW") /\ type = "kBinary" -> GetBinaryFW(d)
      [] Is("744") /\ type = "kBool"    -> GetBool744(d)
      [] Is("744") /\ type = "kInt32"   -> GetInt32744(d)
      [] Is("744") /\ type = "kDouble"  -> GetDouble744(d)
      [] Is("744") /\ type = "kBinary"  -> GetBinary744(d)
=============================================================================
