CONSTANTS
  Runs = {r1}
  Asks = {a1}
  Answerers = {orchestrator}
  NoRun = NoRun
  MaxAutoContinues = 0
  MaxAttempt = 3
  MaxCrashes = 0
SPECIFICATION Spec
CHECK_DEADLOCK FALSE
PROPERTY AnswerReachesItsRun
