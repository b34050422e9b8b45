SPECIFICATION Spec
CONSTANTS
  error = error
  value = value
  summary = summary
  orphan = orphan
  panel = panel
  log = log
  web = web
  clock = clock
  meter = meter
  Never = Never
  Targets = {error, value, summary, orphan}
  TargetId <- MCTargetId
  Routed <- MCRouted
  Compression <- MCCompression
  MinimumInterval <- MCMinimumInterval
  Subscribers = {panel, log, web, clock, meter}
  MailboxLimit = 1
  MaxDelivered = 5
  Plans <- OldPlans
INVARIANTS
  TargetsAreIndependent
CHECK_DEADLOCK FALSE
