CONSTANTS
  Session = {s1}
  None = None
  MaxAttempt = 3
  Command = {c1, c2}
  Client = {m1}
  Text = {t1}
  MaxRevision = 1
  MaxRejected = 1
  MaxStops = 1
SPECIFICATION TimedSpec
CHECK_DEADLOCK FALSE
PROPERTIES
  InterruptSettles
  QueueDrains
