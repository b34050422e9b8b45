---------------------------- MODULE MCValueStore ----------------------------
(***************************************************************************)
(* Four items of printer_a on three routes: TemperatureSensorA and         *)
(* UpperDoorOpen on ROUTE_VALUE, TonerLevel on ROUTE_DATA and ErrorList on *)
(* ROUTE_ERROR, whose store queue coalesces.  Bytes are 0 and 1 and a      *)
(* sequence's hash is its sum modulo 2, so that <<0, 1>> and <<1, 0>>      *)
(* collide as two long sequences may under a 64-bit hash.  TonerLevel has  *)
(* no diff function here, which a definition may leave out.                *)
(***************************************************************************)
EXTENDS ValueStoreProperties

CONSTANTS temperature, door, toner, errors, valueRoute, dataRoute, errorRoute,
          nan, caller, entry

Item(type, normalize, diff, route) ==
    [rawValueType |-> type, storeValueType |-> type, normalize |-> normalize,
     diff |-> diff, routeId |-> route]

MCItems == {temperature, door, toner, errors}

MCDefinition ==
    (temperature :> Item("kDouble", "NormalizeTemperatureSensorA", TRUE, valueRoute)) @@
    (door        :> Item("kBool",   "IdentityNormalize", TRUE, valueRoute)) @@
    (toner       :> Item("kInt32",  "IdentityNormalize", FALSE, dataRoute)) @@
    (errors      :> Item("kBinary", "IdentityNormalize", TRUE, errorRoute))

MCRoutes == {valueRoute, dataRoute, errorRoute}

MCStorePolicy ==
    [r \in MCRoutes |-> IF r = errorRoute THEN "Coalescing" ELSE "Buffered"]

MCHash(bytes)     == FoldSeq(LAMBDA x, y : x + y, 0, bytes) % 2
MCKelvin(celsius) == IF celsius = nan THEN nan ELSE celsius + 273
MCDoubles         == {0, nan}
=============================================================================
