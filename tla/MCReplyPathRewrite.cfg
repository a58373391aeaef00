\* Three turns of one clip and two barge-ins.
CONSTANTS
  Clip <- ThreeTurns
  Body <- ThreeBodies
  JobQueueDepth = 1
  SpeakQueueDepth = 1
  Lead = 1
  Hop = 1
  MaxElapsed = 4
  MAX_CONTEXT_SEGMENTS = 2
  OpenTurns = {2}
  MaxBarges = 2
SPECIFICATION Spec
INVARIANT StartedOnce

CHECK_DEADLOCK FALSE
