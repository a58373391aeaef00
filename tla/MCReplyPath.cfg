\* Two turns, the second of two clips, two barge-ins at any point; queues of one;
\* the connection may close and any write may fail.
CONSTANTS
  Clip <- TwoTurns
  Body <- TwoTurnBodies
  JobQueueDepth = 1
  SpeakQueueDepth = 1
  Lead = 1
  Hop = 1
  MaxElapsed = 5
  MAX_CONTEXT_SEGMENTS = 2
  OpenTurns = {2}
  MaxBarges = 2
SPECIFICATION FairSpec
INVARIANTS BacklogInOrder FloorIsTrue SettlementIsTrue OneMarkSuffices
PROPERTIES OneTrueEnding CompletesWhenHeard EveryCommandEnds
CHECK_DEADLOCK FALSE
