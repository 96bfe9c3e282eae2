SPECIFICATION FairSpec
CONSTANTS
  Turn = {t1, t2}
  SelfTurn = {u1}
  Call = {c1}
  None = None
  MaxFaults = 1
  MaxLag = 1
  Legacy = 1
INVARIANTS ScreenFollowsTheLog ContextConflictNeedsAnOverlap TurnsEndOnce CardsAreTheOpenAsks
CHECK_DEADLOCK FALSE
PROPERTIES FeedCatchesUp
