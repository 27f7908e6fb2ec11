CONSTANTS
  Callers = {p1, p2}
  Threshold = 3
  Base = 1
  MaxTimeout = 3
SPECIFICATION FairSpec
INVARIANTS TypeOK ClosedMeansBelow OpenHasStart
PROPERTIES OpenEnds
