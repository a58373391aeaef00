\* Three log names, one segment a log, a quota of one log: one crash or disk fault,
\* one pin and two passes of the pruner, at any point.
CONSTANTS
  MaxPath = 3
  MaxSegs = 1
  PodCapBytes = 1
  CapBytes = 0
  MaxFaults = 1
  MaxPins = 1
  MaxPasses = 2
SPECIFICATION Spec
INVARIANTS PinnedIsKept OpenIsNeverUnlinked SegmentsKept
PROPERTY LateVerdictSpares
CHECK_DEADLOCK FALSE
