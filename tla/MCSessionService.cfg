CONSTANTS
  Session = {s1}
  None = None
  MaxAttempt = 3
  Command = {c1, c2, c3}
  Client = {m1, m2}
  Text = {t1}
  MaxRevision = 2
  MaxRejected = 1
  MaxStops = 1
SPECIFICATION ServiceSpec
SYMMETRY Symmetry
CHECK_DEADLOCK FALSE
INVARIANTS
  InterruptHitsItsTarget
  ActiveTurnIsDriven
  OneRuntime
  RuntimeIsCurrent
  FifoDelivery
  NoLostUpdate
  OneItemPerClientMessage
PROPERTIES
  ConfirmedByItsInterrupt
