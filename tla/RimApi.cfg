SPECIFICATION Spec
\* The application may stop calling.
CHECK_DEADLOCK FALSE
CONSTANTS
    temperature = temperature
    door = door
    staple = staple
    errors = errors
    unknown = unknown
    ErrorList = errors
    ErrorListSize = 2
    valueRoute = valueRoute
    errorRoute = errorRoute
    Null = null
    Layers = {1}
    Pipelines = {1}
    Colors = {1}
    SizeOf <- MCSizeOf
    Revisions = {"0818", "0820", "755", "0820_FW", "744"}
    Items <- MCItems
    Routes <- MCRoutes
    Declared <- MCDeclared
    RouteOf <- MCRouteOf
    StorePolicy <- MCStorePolicy
    Given <- MCGiven
    Normalize <- MCNormalize
    MaxSets <- MCMaxSets
INVARIANTS
    AcceptedIsRead
    StaysReadable
    FaultIsShown
