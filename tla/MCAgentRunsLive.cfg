CONSTANTS
  Runs = {r1, r2}
  Asks = {a1}
  Answerers = {user}
  NoRun = NoRun
  MaxAutoContinues = 1
  MaxAttempt = 3
  MaxCrashes = 1
SPECIFICATION FairSpec
CHECK_DEADLOCK FALSE
PROPERTIES
  ExhaustedIsHandled
  RunsEndOrWait
