SPECIFICATION Spec755
CONSTANTS
  temperature = temperature
  door = door
  toner = toner
  environment = environment
  printReady = printReady
  operationReady = operationReady
  valueRoute = valueRoute
  dataRoute = dataRoute
  NoValue = NoValue
  NoData = NoData
  Data <- MCData
  Capabilities = {environment, printReady}
  Facades = {operationReady}
  Routes = {valueRoute, dataRoute}
  Domains = {1, 2}
  Values = {0, 1}
  RawValues = {0, 1}
  Normalize <- MCNormalize
  WithDiff <- MCData
  Build <- MCBuild
  RouteOf <- MCRouteOf
  DomainOf <- MCDomainOf
  RequiredData <- MCRequiredData
  RequiredCapabilities <- MCRequiredCapabilities
  SnapshotDomains <- MCSnapshotDomains
  CapabilityDependencies <- MCCapabilityDependencies
  FacadeDependencies <- MCFacadeDependencies
  StorePolicy <- MCPolicy
  CapabilityPolicy <- MCPolicy
  Compression <- MCCompression
  MaxDispatches = 2
  DomainCount = 2
  DerivedDomain <- MCDerivedDomain
INVARIANTS
  LocksAscend
  NeverLeftStale
PROPERTIES
  SnapshotIsOneCut
