\* Each chunk is a sample, each threshold of the endpointer one chunk: a wake, an
\* onset, a pause, a continuation and a second wake fit into MaxSample.
CONSTANTS
  OnsetChunks = 1
  HangoverChunks = 1
  ContinuationChunks = 1
  Preroll = 1
  MaxUtterance = 4
  Policy = "WakeGated"
  SustainChunks = 1
  MuteTail = 1
  ArmSlack = 1
  WakeTail = 1
  CommandWait = 2
  RecentWindow = 16
  UnreachableClip = TRUE
  Window = 2
  MaxSegments = 2
  Modes = {"Wake", "Speech", "Mute"}
  Levels <- AllLevels
  Results = {"text", "poor", "error"}
  MaxSample = 4
  MaxTurns = 2
  MaxWakes = 2
  MaxFaults = 1
SPECIFICATION Spec
INVARIANTS AssertsHold AbsentMeansUnminted NoStrandedHead
PROPERTIES VerdictOnNewestCarve DispatchedOnce RestoredDeadlineStands
CHECK_DEADLOCK FALSE
