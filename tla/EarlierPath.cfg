SPECIFICATION Spec
CONSTANTS
  temperature = temperature
  toner = toner
  errorList = errorList
  environment = environment
  printReady = printReady
  valueRoute = valueRoute
  errorRoute = errorRoute
  UnknownData = UnknownData
  NoValue = NoValue
  Revisions = {"0818", "0820"}
  DataItems <- MCDataItems
  CapabilityItems <- MCCapabilityItems
  RequiredData <- MCRequiredData
  DomainOf <- MCDomainOf
  RouteOf <- MCRouteOf
  Routes = {valueRoute, errorRoute}
  StorePolicy <- MCStorePolicy
  CapabilityPolicy <- MCCapabilityPolicy
  CompressionTable <- MCCompressionTable
  Values = {0, 1, 2, 3}
  RawValues = {0, 1}
  Normalize <- MCNormalize
  WithDiff = {temperature, toner}
  Build <- MCBuild
  RawSet = {errorList, UnknownData}
  MaxSets = 3
INVARIANTS
  LastWriteWins
  NoChangeSwallowed
  NeverLeftStale
  OneThreadInCapabilityStore
