CONSTANTS
  Runs = {r1, r2}
  Asks = {a1, a2}
  Answerers = {orchestrator, user}
  NoRun = NoRun
  MaxAutoContinues = 1
  MaxAttempt = 3
  MaxCrashes = 1
SPECIFICATION Spec
SYMMETRY Symmetry
CHECK_DEADLOCK FALSE
INVARIANTS
  PausedWithItsAsk
  ActiveRunIsDriven
  OneRuntimePerWorktree
PROPERTIES
  TriggersNeverFire
  ImplementsRunExchange
