SPECIFICATION FairSpec
CONSTANTS
  Warm = {w1, w2}
  Load = {q1, q2, q3}
  Sampler = Sampler
  Concurrency = 2
  MaxConn = 2
  MaxRows = 2
INVARIANTS
  TypeOK
  MeasuredApart
  NothingOutlivesRun
  ReportedIsComplete
PROPERTY RunEnds
CHECK_DEADLOCK FALSE
