CONSTANTS
  Message = {m1, m2}
  Worker = {w1, w2}
  MaxAttempts = 3
  None = None
SPECIFICATION Spec
SYMMETRY Symmetry
CHECK_DEADLOCK FALSE
INVARIANTS
  AttemptIsExclusive
  DeadLettersAreNoticed
