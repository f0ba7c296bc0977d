\* Four requests, two at a time, clocks up to a second apart and a time of six half
\* seconds, one error of Redis.
CONSTANTS
  Req = {r1, r2, r3, r4}
  None = None
  Capacity = 2
  Unit = 2
  MaxConcurrent = 2
  MaxSkew = 2
  MaxFaults = 1
  Horizon = 6
SPECIFICATION Spec
SYMMETRY Symmetric
CHECK_DEADLOCK FALSE
INVARIANTS IInv NeverOverdrawn
PROPERTY PatienceRewarded
