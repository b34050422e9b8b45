------------------------------ MODULE MCRimApi ------------------------------
(***************************************************************************)
(* The old revisions and the firmware have printer_a cut down to the       *)
(* temperature (normalized), a door and the error list on ROUTE_ERROR,     *)
(* whose store queue coalesces; one more id is not declared.  "755" has    *)
(* the items of bil that PRODUCT_STATE and SUPPLY_STATUS rest on and       *)
(* PRINT_JOB_STATUS, and a scalar (bil has none, test_product has).        *)
(* A struct has size 2, and size 1 is one too short.                       *)
(***************************************************************************)
EXTENDS RimApiProperties

CONSTANTS temperature, door, staple, errors, unknown, valueRoute, errorRoute

PrinterA == {temperature, door, staple, errors, unknown}
MCItems  == PrinterA \cup BilItems
MCRoutes == {valueRoute, errorRoute}

PrinterAType(d) ==
    CASE d = temperature -> "kDouble" [] d = door -> "kBool" [] d = staple -> "kInt32"
      [] d = errors -> "kBinary" [] OTHER -> Null

BilType(d) ==
    IF d \in BilItems THEN "kBinary"
    ELSE IF d \in {temperature, door, staple} THEN PrinterAType(d) ELSE Null

MCDeclared ==
    [v \in Revisions |-> [d \in MCItems |-> IF v = "755" THEN BilType(d) ELSE PrinterAType(d)]]

MCRouteOf ==
    [v \in Revisions |->
        [d \in MCItems |-> IF MCDeclared[v][d] = Null THEN Null
                           ELSE IF d = errors THEN errorRoute ELSE valueRoute]]

MCStorePolicy == [r \in MCRoutes |-> IF r = errorRoute THEN "Coalescing" ELSE "Buffered"]

MCSizeOf == [d \in BilItems |-> 2]

Struct(size, content) == [size |-> size, content |-> content]

\* The contents of a struct that the builders tell apart.
Contents(d) ==
    CASE d = "LAYER_INIT_STATE" -> [Layers -> {"UNINIT", "INIT"}]
      [] d = "USE_CASE_EXECUTION_STATUS_LIST" -> {[p \in Pipelines |-> "BUSY"]}
      [] d = "SUB_POUCH_SENSOR_VALUE_LIST" -> {[c \in Colors |-> "NEAR_EMPTY"]}
      [] d \in {"FAULT_INFO_LIST"} -> {0, 1}
      [] OTHER -> {1}

Binaries(d) ==
    {Struct(2, content) : content \in Contents(d)}
       \cup (IF d \in {"LAYER_INIT_STATE", "FAULT_INFO_LIST"} THEN {Struct(1, 0)} ELSE {})

\* What is set: bil's structs in "755"; elsewhere two values of the type an
\* item has, and one of every other type for three of the items.
BilGiven(d, type) ==
    CASE type = "kBinary" -> IF d \in BilItems THEN Binaries(d) ELSE {Struct(2, 0)}
      [] OTHER -> IF d \in {"FAULT_INFO_LIST", temperature, door, staple} THEN {0} ELSE {}

PrinterAGiven(d, type) ==
    CASE type = PrinterAType(d) ->
            IF type = "kBinary" THEN {Struct(2, 0), Struct(1, 0)} ELSE {0, 1}
      [] OTHER -> IF d = staple THEN {}
                  ELSE IF type = "kBinary" THEN {Struct(2, 0)} ELSE {0}

MCGiven(v, d, type) ==
    IF v = "755" THEN BilGiven(d, type)
    ELSE IF d \in PrinterA THEN PrinterAGiven(d, type) ELSE {}

\* The firmware's one queue does not need the third value.
MCMaxSets == [v \in Revisions |-> IF v \in Firmware THEN 2 ELSE 3]

Kelvin == 273
MCNormalize(d, data) == IF d = temperature THEN data + Kelvin ELSE data
=============================================================================
