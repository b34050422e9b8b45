---------------------------- MODULE MCEarlierPath ----------------------------
(***************************************************************************)
(* The earlier revisions on a product cut from their printer_a:            *)
(* temperature (environment domain) and toner (consumable domain) on       *)
(* ROUTE_VALUE, an error list on ROUTE_ERROR in the environment domain;    *)
(* Environment needs the temperature, PrintReady both value items, and it  *)
(* names the toner twice, which no validation of these revisions refuses.  *)
(* The error list is a binary: in old_0818 RIM_SetBinary skips the         *)
(* dispatcher.                                                             *)
(***************************************************************************)
EXTENDS EarlierPathProperties

CONSTANTS
    temperature, toner, errorList,      \* data items
    environment, printReady,            \* capabilities
    valueRoute, errorRoute

MCRequiredData ==
    [c \in {environment, printReady} |->
        IF c = environment THEN <<temperature>> ELSE <<toner, temperature, toner>>]
MCDataItems       == <<temperature, toner, errorList>>
MCCapabilityItems == <<environment, printReady>>
MCDomainOf ==
    [d \in ToSet(MCDataItems) |-> IF d = toner THEN "Consumable" ELSE "Environment"]
MCRouteOf ==
    [d \in ToSet(MCDataItems) |-> IF d = errorList THEN errorRoute ELSE valueRoute]
MCStorePolicy ==
    [r \in Routes |-> IF r = errorRoute THEN "Coalescing" ELSE "Buffered"]
MCCapabilityPolicy == [r \in Routes |-> "Buffered"]
MCCompressionTable ==
    [c \in {environment, printReady} |->
        IF c = environment THEN "KeepLatest" ELSE "KeepOldest"]

\* A raw temperature is moved by Kelvin, as in MCPipeline.
Kelvin                  == 2
MCNormalize(d, raw)     == IF d = temperature THEN Kelvin + raw ELSE raw
MCBuild(c, s) ==
    IF c = environment THEN IF s[temperature] = Kelvin + 1 THEN 1 ELSE 0
    ELSE IF s[temperature] # Kelvin + 1 /\ s[toner] # 1 THEN 1 ELSE 0
=============================================================================
