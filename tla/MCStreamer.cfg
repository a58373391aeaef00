\* Two utterances through a channel of two messages, a ring that is lapped, one
\* socket loss; threads may exit, so the pod may stop.
SPECIFICATION Spec
CONSTANTS
  ChanCap = 2
  OnsetCount = 1
  HangoverTicks = 1
  DoaEveryN = 1
  MaxOnsets = 2
  RingCap = 2
  Preroll = 1
  MaxChunk = 2
  MaxHead = 3
  FrameSamples = 2
  FramesPerWake = 1
  PendingCap = 1
  MaxFaults = 1
  MayDie = TRUE
INVARIANTS TailIsSent ReleaseReachesItsSegment
PROPERTY ImplementsUplinkProtocol
CHECK_DEADLOCK FALSE
