\* A verdict comes while recovery still drives sealed work, after one stop.
SPECIFICATION Spec
CONSTANTS
  c1 = c1
  Contract = {c1}
  AutoMerge = {}
  Continued = {}
  Unwanted = {}
  MaxCommits = 1
  MaxOutside = 0
  MaxFaults = 0
  MaxCrashes = 1
PROPERTIES
  RedriveConverges
CHECK_DEADLOCK FALSE
