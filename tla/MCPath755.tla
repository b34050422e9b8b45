------------------------------ MODULE MCPath755 ------------------------------
(***************************************************************************)
(* MCPipeline's product under the storage rules of Rev755_FW: the toner is *)
(* in the environment domain with the temperature, the door in its own.    *)
(***************************************************************************)
EXTENDS Path755

CONSTANTS
    temperature, door, toner, environment, printReady, operationReady,
    valueRoute, dataRoute

MCData    == {temperature, door, toner}
MCDerived == {environment, printReady, operationReady}

MCRouteOf  == [d \in MCData |-> IF d = toner THEN dataRoute ELSE valueRoute]
MCDomainOf == [d \in MCData |-> IF d = door THEN 2 ELSE 1]
MCRequiredData ==
    [c \in {environment, printReady} |->
        IF c = environment THEN <<temperature>> ELSE <<temperature, door, toner>>]
MCRequiredCapabilities  == [f \in {operationReady} |-> <<printReady, environment>>]
MCSnapshotDomains ==
    [c \in {environment, printReady} |-> IF c = environment THEN <<1>> ELSE <<1, 2>>]
MCCapabilityDependencies ==
    [d \in MCData |-> IF d = temperature THEN <<environment, printReady>> ELSE <<printReady>>]
MCFacadeDependencies    == [c \in {environment, printReady} |-> <<operationReady>>]
MCDerivedDomain ==
    [t \in MCDerived |-> IF t = environment THEN 3 ELSE IF t = printReady THEN 4 ELSE 5]
MCPolicy                == [r \in Routes |-> "Buffered"]
MCCompression ==
    [i \in MCData \cup MCDerived |-> IF i \in MCData THEN "KeepLatest" ELSE "KeepOldest"]
MCNormalize(d, raw)     == raw
MCBuild(t, s) == IF \E i \in DOMAIN s : s[i] = 1 THEN 1 ELSE 0
=============================================================================
