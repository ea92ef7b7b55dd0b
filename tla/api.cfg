SPECIFICATION Spec
CONSTANTS
  Client = {c1}
  None = None
  Burst = 2
  Cost = 3
  Rate = 2
  Second = 1
  Idle = 3
  MaxTime = 6
  Nobody = Nobody
  Spender = {t1}
  MaxCommits = 3
INVARIANTS
  AdmittedWithinRate
  ReadsHoldTogether
PROPERTIES
  RetryAfterHolds
\* The clock and the writer stop at their bounds.
CHECK_DEADLOCK FALSE
