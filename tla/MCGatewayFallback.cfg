SPECIFICATION Spec
CONSTANTS
  fp16 = fp16
  triage = triage
  None = None
  Poller = Poller
  Bedrock = Bedrock
  Upstreams = {fp16}
  Position <- MCPosition
  Metered = {fp16}
  Routes <- MCRoutes
  Default = fp16
  MaxQueue = 0
  Requests = {r1, r2}
  Asks <- MCAsks
  Samples = {0}
  Statuses = {200, 302, 500}
  PoolCap = 1
  MaxReports = 2
  MaxEvents = 1
  MaxCrashes = 0
INVARIANT NoFallbackWhileHealthy
