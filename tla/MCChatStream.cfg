SPECIFICATION FairSpec
CONSTANTS
  r1 = r1
  Requests <- MCRequests
  Words <- MCWords
  Tokens <- MCTokens
  TtftSleep = 1
  TpotSleep = 1
  MaxTime = 4
INVARIANTS
  TypeOK
  TextIsPrefix
  TimesAddUp
  NotFasterThanServed
  CountedBeforeTold
PROPERTIES
  ContractSpec
  ServerForgets
CHECK_DEADLOCK FALSE
