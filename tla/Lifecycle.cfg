SPECIFICATION FairSpec
CONSTANTS
    r1 = r1
    r2 = r2
    Publisher = Publisher
    Callback = Callback
    Router = Router
    Revisions = {"top", "755", "0818", "0820"}
    RouteOrder <- MCOneRoute
    MaxQueued = 1
    MaxCalls <- MCMaxCalls
PROPERTIES
    EveryCallReturns
    StartedMeansServed
CHECK_DEADLOCK FALSE
INVARIANTS
    NeverTerminates
    NoThreadOutlivesContext
    QuietAfterStop
