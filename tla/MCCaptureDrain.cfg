\* Cap 2 with counters that wrap at 4; five bytes, two resets, one mark, one tone
\* test and one codec fault, at any point.
CONSTANTS
  Cap = 2
  Modulus = 4
  MarkCap = 1
  MaxFrame = 2
  MaxWritten = 5
  MaxResets = 2
  MaxMarks = 1
  BaseTarget = 1
  MaxTarget = 2
  WriteUnit = 2
  PassBudget = 2
  MaxTones = 1
  MaxFaults = 1
SPECIFICATION FairSpec
INVARIANTS PlaysInOrder NothingSilenced
PROPERTY EveryByteLeaves
CHECK_DEADLOCK FALSE
