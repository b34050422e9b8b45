SPECIFICATION FairSpec
CONSTANTS
  temperature = temperature
  door = door
  toner = toner
  environment = environment
  printReady = printReady
  operationReady = operationReady
  valueRoute = valueRoute
  dataRoute = dataRoute
  TonerRequired = FALSE
  NoValue = NoValue
  NoData = NoData
  Data <- MCData
  Capabilities <- MCCapabilities
  Facades <- MCFacades
  Routes <- MCRoutes
  Domains <- MCDomains
  Values <- MCValues
  RawValues <- MCRawValues
  Normalize <- MCNormalize
  WithDiff <- MCWithDiff
  Build <- MCBuild
  RouteOf <- MCRouteOf
  DomainOf <- MCDomainOf
  RequiredData <- MCRequiredData
  RequiredCapabilities <- MCRequiredCapabilities
  SnapshotDomains <- MCSnapshotDomains
  CapabilityDependencies <- MCCapabilityDependencies
  FacadeDependencies <- MCFacadeDependencies
  StorePolicy <- MCStorePolicy
  CapabilityPolicy <- MCCapabilityPolicy
  Compression <- MCCompression
  MaxDispatches = 3
INVARIANTS
  TypeOK
  LastWriteWins
  NoChangeSwallowed
  NeverLeftStale
PROPERTIES
  FeedsPublisher
  EventuallySettles
CHECK_DEADLOCK FALSE
