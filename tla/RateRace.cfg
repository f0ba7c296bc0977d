\* Two racing requests spend a token twice.
CONSTANTS
  Req = {r1, r2, r3, r4}
  None = None
  Capacity = 2
  Unit = 2
  MaxConcurrent = 2
  MaxSkew = 0
  MaxFaults = 0
  Horizon = 3
SPECIFICATION Spec
SYMMETRY Symmetric
CHECK_DEADLOCK FALSE
INVARIANT RacesNeverOverdraw
