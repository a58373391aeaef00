\* Cap 3 with counters that wrap at 6; six bytes in frames of 1 or 2, so the
\* counters wrap once and every run can be split, short-written or retried.
CONSTANTS
  Cap = 3
  Modulus = 6
  MarkCap = 1
  MaxFrame = 2
  MaxWritten = 6
  MaxResets = 2
  MaxMarks = 2
  BaseTarget = 2
  MaxTarget = 3
  WriteUnit = 2
  PassBudget = 2
  MaxRecoveries = 1
SPECIFICATION FairSpec
INVARIANTS PlaysInOrder RingStaysSound
PROPERTY EveryByteLeaves
CHECK_DEADLOCK FALSE
