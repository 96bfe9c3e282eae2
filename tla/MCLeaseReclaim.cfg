CONSTANTS
  Message = {m1}
  Worker = {w1, w2}
  MaxAttempts = 3
  None = None
SPECIFICATION Spec
CHECK_DEADLOCK FALSE
INVARIANT ExpiredLeaseIsReclaimable
