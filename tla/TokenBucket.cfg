SPECIFICATION Spec
CONSTANTS
  Rate = 3
  Minute = 4
  MaxTime = 9
INVARIANTS
  TypeOK
  WindowBound
  Balance
PROPERTIES
  PacedClientServed
  ContractSpec
