SPECIFICATION Spec
\* The application may stop calling.
CHECK_DEADLOCK FALSE
CONSTANTS
    temperature = temperature
    door = door
    toner = toner
    errors = errors
    valueRoute = valueRoute
    dataRoute = dataRoute
    errorRoute = errorRoute
    nan = nan
    caller = caller
    entry = entry
    Null = null
    Caller = caller
    Entry = entry
    NaN = nan
    Items <- MCItems
    Definition <- MCDefinition
    Routes <- MCRoutes
    StorePolicy <- MCStorePolicy
    Bytes = {0, 1}
    MaxSize = 2
    Bools = {0, 2}
    Int32s = {0, 1}
    Doubles <- MCDoubles
    Hash <- MCHash
    Kelvin <- MCKelvin
    MaxCalls = 3
    MaxWrites = 3
INVARIANTS
    NoReinterpretation
    LastValueRead
PROPERTY
    StoredBytesStay
