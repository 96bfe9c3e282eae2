CONSTANTS
  Run = {r1}
  Contract = {k1}
  MaxRows = 2
  MaxBreaks = 2
  MaxFailures = 1
SPECIFICATION LiveSpec
CHECK_DEADLOCK FALSE
INVARIANTS
  RunsConverge
  AgedOutStaysGone
PROPERTIES
  RunsAreShown
