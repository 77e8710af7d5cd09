SPECIFICATION Spec
CONSTANTS
  Replicas = {r1, r2}
  Rate = 2
  Minute = 3
  MaxTime = 4
  MaxRestarts = 1
INVARIANT FleetBound
