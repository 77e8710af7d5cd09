SPECIFICATION Spec
CONSTANTS
  Codes <- MCCodes
  Inverters = {1, 2}
  Times = {1, 2}
  Tools = {"nuravolt_list_plants", "nuravolt_get_soiling_forecast"}
  MaxRequests = 2
  MaxLines = 2
  MaxRuns = 2
  MaxResults = 2
  MaxSpent = 5
  Answers <- MCAnswers
  Slo <- MCSlo
  Asks <- MCAsks
INVARIANT
  QualityIsStructured
CHECK_DEADLOCK FALSE
