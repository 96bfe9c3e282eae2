CONSTANTS
  Session = {s1, s2}
  None = None
  MaxAttempt = 3
  Command = {c1, c2, c3}
  Client = {m1, m2}
  Text = {t1}
  MaxRevision = 2
  MaxRejected = 1
SPECIFICATION Spec
CONSTRAINT Budget
SYMMETRY Symmetry
CHECK_DEADLOCK FALSE
INVARIANTS
  OneActiveSession
  SeedKeptUntilBound
  TurnKeepsItsSession
  NothingStranded
PROPERTIES
  TriggersNeverFire
