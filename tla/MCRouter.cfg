SPECIFICATION FairSpec
CONSTANTS
  fp16 = fp16
  awq = awq
  triage = triage
  other = other
  None = None
  Upstreams <- MCUpstreams
  Position <- MCPosition
  Metered = {fp16}
  Routes <- MCRoutes
  Default = fp16
  Tasks <- MCTasks
  MaxQueue = 1
  Burst = 2
  MaxGlitches = 1
INVARIANTS
  TypeOK
  DownAfterTwoFailures
  BacklogBound
  FailoverBound
PROPERTIES
  DeadIsNoticed
  AliveIsNoticed
  ReliefIsNoticed
