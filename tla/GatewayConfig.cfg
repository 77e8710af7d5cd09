SPECIFICATION ConfigSpec
CONSTANTS
  Names = {fp16, awq, fp8}
  TaskSet = {triage, report}
  Blank = Blank
  Unset = Unset
  Nobody = Nobody
  MaxItems = 3
INVARIANTS
  EveryUpstreamTriedOnce
  ListAgreesWithRank
CHECK_DEADLOCK FALSE
