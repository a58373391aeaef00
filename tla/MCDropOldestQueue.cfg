\* Two handles, capacity 1, four pushes: enough to fill, shed, close and sweep
\* while both senders are inside a call.
CONSTANTS
  Sender = {s1, s2}
  Capacity = 1
  MaxPush = 4
SPECIFICATION FairSpec
INVARIANTS LaneAccounting NoLostWakeup NoOrphans
PROPERTIES ImplementsTwoLaneFifo EveryItemLeaves
CHECK_DEADLOCK FALSE
