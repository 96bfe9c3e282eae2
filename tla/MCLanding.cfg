\* One contract whose work is delivered, reviewed, continued, landed and abandoned while
\* others commit or hold its files, a fault occurs and the process stops.
SPECIFICATION FairSpec
CONSTANTS
  c1 = c1
  Contract = {c1}
  AutoMerge = {c1}
  Continued = {c1}
  Unwanted = {c1}
  MaxCommits = 1
  MaxOutside = 1
  MaxFaults = 1
  MaxCrashes = 1
INVARIANTS
  MergedWorkIsRecorded
  WorkIsNeverLost
  WorktreeIsHeld
PROPERTIES
  MergesVerifiedWork
  ReceiptIsFinal
  LandedIsReclaimed
  ReservationSettles
CHECK_DEADLOCK FALSE
