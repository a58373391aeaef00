\* Four inputs in any order over two turns, at any time, one of them dropped; any
\* script may be refused, lost, or delayed.
CONSTANTS
  Refresh = 1
  Linger = 2
  MaxEngaged = 2
  StowMargin = 1
  StowMove = 1
  MaxTimeout = 4
  WakePose = "keep"
  Horizons = {2}
  Span = 1
  Attempts = 2
  MaxTurns = 2
  MaxInputs = 4
  MaxDropped = 1
SPECIFICATION FairSpec
INVARIANTS UpUntilTheStow QuietMeansDown ThinkIsNotCut
PROPERTY HeadComesDown
CHECK_DEADLOCK FALSE
