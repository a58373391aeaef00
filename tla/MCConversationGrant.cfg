\* Two wakes, each with its command, of which the first is still being judged
\* when the second is carved.
CONSTANTS
  OnsetChunks = 1
  HangoverChunks = 1
  ContinuationChunks = 1
  Preroll = 1
  MaxUtterance = 4
  Policy = "WakeGated"
  SustainChunks = 1
  MuteTail = 1
  ArmSlack = 1
  WakeTail = 1
  CommandWait = 8
  RecentWindow = 16
  UnreachableClip = TRUE
  Window = 2
  MaxSegments = 2
  Modes = {"Wake"}
  Levels <- AllLevels
  Results = {"text", "poor"}
  MaxSample = 6
  MaxTurns = 2
  MaxWakes = 2
  MaxFaults = 0
SPECIFICATION Spec
INVARIANT DeclineBringsHeadDown
CHECK_DEADLOCK FALSE
