\* The second message of a batch is refused.
CONSTANTS
  Msg = {m1, m2}
  Poison = {m2}
  BatchSize = 2
  QueueCap = 2
  MaxRetries = 2
  MaxFaults = 0
SPECIFICATION Spec
CHECK_DEADLOCK FALSE
INVARIANT BatchRolledBack
