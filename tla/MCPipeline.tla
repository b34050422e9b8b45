----------------------------- MODULE MCPipeline -----------------------------
(***************************************************************************)
(* The data path on a small product cut from printer_a: temperature in the *)
(* environment domain and a door in the door domain on ROUTE_VALUE, toner  *)
(* in the consumable domain on ROUTE_DATA; the capability Environment      *)
(* needs the temperature, PrintReady two data items, and the facade        *)
(* OperationReady both capabilities.  With TonerRequired, PrintReady rests *)
(* on the door and the toner, so it is evaluated by the CapabilityWorkers  *)
(* of two routes; without, on the temperature and the door, data of one    *)
(* route, as everything is in printer_a.                                   *)
(***************************************************************************)
EXTENDS PipelineProperties

CONSTANTS
    temperature, door, toner,           \* data items
    environment, printReady,            \* capabilities
    operationReady,                     \* facade
    valueRoute, dataRoute,
    TonerRequired

Maps == INSTANCE ProductMaps

\* The product's tables.
DataItems ==
    << [id |-> temperature, domain |-> "Environment"],
       [id |-> door,        domain |-> "Door"],
       [id |-> toner,       domain |-> "Consumable"] >>

PrintReadyItems == IF TonerRequired THEN <<door, toner>> ELSE <<temperature, door>>

CapabilityItems ==
    << [id |-> environment, required |-> <<temperature>>],
       [id |-> printReady,  required |-> PrintReadyItems] >>

FacadeItems == << [id |-> operationReady, required |-> <<environment, printReady>>] >>

\* What ProductContext makes of them, spelled out for TLC.
MCData         == {temperature, door, toner}
MCCapabilities == {environment, printReady}
MCFacades      == {operationReady}
MCRoutes       == {valueRoute, dataRoute}
MCDomains      == 1 .. 3
MCRouteOf      == [d \in MCData |-> IF d = toner THEN dataRoute ELSE valueRoute]
MCDomainOf     == [d \in MCData |-> IF d = temperature THEN 1 ELSE IF d = door THEN 2 ELSE 3]
MCRequiredData ==
    [c \in MCCapabilities |-> IF c = environment THEN <<temperature>> ELSE PrintReadyItems]
MCRequiredCapabilities == [f \in MCFacades |-> <<environment, printReady>>]
MCSnapshotDomains ==
    [c \in MCCapabilities |-> IF c = environment THEN <<1>>
                              ELSE IF TonerRequired THEN <<2, 3>> ELSE <<1, 2>>]
MCCapabilityDependencies ==
    [d \in MCData |->
        IF d = temperature
        THEN IF TonerRequired THEN <<environment>> ELSE <<environment, printReady>>
        ELSE IF d = toner /\ ~TonerRequired THEN <<>> ELSE <<printReady>>]
MCFacadeDependencies == [c \in MCCapabilities |-> <<operationReady>>]

ASSUME MapsAreComputed ==
    /\ MCDomainOf = Maps!DataDomainMap(DataItems)
    /\ \A k \in DOMAIN CapabilityItems :
          MCSnapshotDomains[CapabilityItems[k].id] =
             Maps!RequiredDomains(DataItems, CapabilityItems[k])
    /\ \A d \in MCData :
          MCCapabilityDependencies[d] = Maps!Dependents(CapabilityItems, d)
    /\ \A c \in MCCapabilities :
          MCFacadeDependencies[c] = Maps!Dependents(FacadeItems, c)

(***************************************************************************)
(* A raw value is 1 for a temperature at or over the limit, an open door   *)
(* or a toner level that matters, 0 otherwise.  NormalizeTemperatureSensorA*)
(* adds 273.15 to what it is given: here a stored value is a raw one moved *)
(* by Kelvin, so that it is never mistaken for the 0 that                  *)
(* BuildEnvironmentCapability and BuildPrintReadyCapability start from     *)
(* when an input is absent.  Every other item is stored as it was set      *)
(* (IdentityNormalize).                                                    *)
(***************************************************************************)
Kelvin             == 2
MCRawValues        == {0, 1}
MCValues           == MCRawValues \cup {Kelvin + raw : raw \in MCRawValues}
MCNormalize(d, raw) == IF d = temperature THEN Kelvin + raw ELSE raw
MCBuild(t, s) ==
    LET ready == CASE t = environment    -> s[temperature] = Kelvin + 1
                   [] t = printReady     -> \A d \in DOMAIN s : s[d] \notin {1, Kelvin + 1}
                   [] t = operationReady -> s[environment] # 1 /\ s[printReady] = 1
    IN  IF ready THEN 1 ELSE 0

\* A product may leave diff out (nullptr): every value is then stored.
MCWithDiff == MCData \ {toner}

MCStorePolicy ==
    [r \in MCRoutes |-> IF r = valueRoute THEN "Buffered" ELSE "Coalescing"]
MCCapabilityPolicy ==
    [r \in MCRoutes |-> IF r = valueRoute THEN "Coalescing" ELSE "Buffered"]
MCCompression ==
    [i \in MCData \cup MCCapabilities \cup MCFacades |->
        IF i \in MCData THEN "KeepLatest"
        ELSE IF i \in MCCapabilities THEN "KeepOldest" ELSE "None"]
=============================================================================
