----------------------------- MODULE BilProduct -----------------------------
(***************************************************************************)
(* The capabilities of the product bil (Rev755_FW/RIManager/products/bil): *)
(* what each is built from, and how.  Every data item of bil is a C struct *)
(* kept as bytes.  Here a struct is its size and its content, of which     *)
(* only what the builders look at is kept.                                 *)
(***************************************************************************)
EXTENDS Integers

CONSTANTS
    Layers, Pipelines, Colors,   \* indices of the arrays in the structs
    SizeOf,                      \* sizeof of the struct of an item
    Null

BilItems ==
    {"LAYER_INIT_STATE", "PRINT_JOB_INFO_LIST", "USE_CASE_EXECUTION_STATUS_LIST",
     "SUB_POUCH_SENSOR_VALUE_LIST", "FAULT_INFO_LIST", "FUNCTION_LIMIT_LIST"}

\* What PRODUCT_STATE can be.
ProductStates == {"UNINIT", "ERROR", "RECOVERY", "BUSY", "IDLE"}

ASSUME BilAssumption == SizeOf \in [BilItems -> Nat] /\ Null \notin ProductStates

BilCapabilities == {"PRODUCT_STATE", "SUPPLY_STATUS", "PRINT_JOB_STATUS"}

BilRequired ==
    [c \in BilCapabilities |->
        CASE c = "PRODUCT_STATE" ->
                {"LAYER_INIT_STATE", "USE_CASE_EXECUTION_STATUS_LIST",
                 "FAULT_INFO_LIST", "FUNCTION_LIMIT_LIST"}
          [] c = "SUPPLY_STATUS"    -> {"SUB_POUCH_SENSOR_VALUE_LIST"}
          [] c = "PRINT_JOB_STATUS" -> {"PRINT_JOB_INFO_LIST"}]

(***************************************************************************)
(* TryGetStruct: an item that is absent, is not binary, or whose bytes are *)
(* not as many as the struct has, gives nothing; its rule is passed over.  *)
(***************************************************************************)
TryGetStruct(snapshot, d) ==
    /\ snapshot[d] # Null
    /\ snapshot[d].type = "kBinary"
    /\ snapshot[d].data.size = SizeOf[d]

Content(snapshot, d) == snapshot[d].data.content

Uninitialized(snapshot) ==
    /\ TryGetStruct(snapshot, "LAYER_INIT_STATE")
    /\ \E layer \in Layers : Content(snapshot, "LAYER_INIT_STATE")[layer] # "INIT"

Faulty(snapshot) ==
    /\ TryGetStruct(snapshot, "FAULT_INFO_LIST")
    /\ Content(snapshot, "FAULT_INFO_LIST") > 0

Limited(snapshot) ==
    /\ TryGetStruct(snapshot, "FUNCTION_LIMIT_LIST")
    /\ Content(snapshot, "FUNCTION_LIMIT_LIST") > 0

Busy(snapshot) ==
    /\ TryGetStruct(snapshot, "USE_CASE_EXECUTION_STATUS_LIST")
    /\ \E p \in Pipelines : Content(snapshot, "USE_CASE_EXECUTION_STATUS_LIST")[p] = "BUSY"

\* Mutant: a restriction hides a fault.
RecoveryBeforeError(snapshot) ==
    CASE Uninitialized(snapshot) -> "UNINIT"
      [] ~Uninitialized(snapshot) /\ Limited(snapshot) -> "RECOVERY"
      [] ~Uninitialized(snapshot) /\ ~Limited(snapshot) /\ Faulty(snapshot) -> "ERROR"
      [] OTHER -> IF Busy(snapshot) THEN "BUSY" ELSE "IDLE"

BuildProductState(snapshot) ==
    CASE Uninitialized(snapshot) -> "UNINIT"
      [] ~Uninitialized(snapshot) /\ Faulty(snapshot) -> "ERROR"
      [] ~Uninitialized(snapshot) /\ ~Faulty(snapshot) /\ Limited(snapshot) -> "RECOVERY"
      [] OTHER -> IF Busy(snapshot) THEN "BUSY" ELSE "IDLE"

BuildSupplyStatus(snapshot) ==
    IF /\ TryGetStruct(snapshot, "SUB_POUCH_SENSOR_VALUE_LIST")
       /\ \E color \in Colors :
             Content(snapshot, "SUB_POUCH_SENSOR_VALUE_LIST")[color]
                \in {"EMPTY", "NEAR_EMPTY"}
    THEN "ABNORMAL" ELSE "NORMAL"

BuildPrintJobStatus(snapshot) ==
    IF /\ TryGetStruct(snapshot, "PRINT_JOB_INFO_LIST")
       /\ Content(snapshot, "PRINT_JOB_INFO_LIST") > 0
    THEN "ABNORMAL" ELSE "NORMAL"

Build(c, snapshot) ==
    CASE c = "PRODUCT_STATE"    -> BuildProductState(snapshot)
      [] c = "SUPPLY_STATUS"    -> BuildSupplyStatus(snapshot)
      [] c = "PRINT_JOB_STATUS" -> BuildPrintJobStatus(snapshot)
=============================================================================
