\* Three overlapping connections and one empty segment; the pod may stop.
SPECIFICATION FairSpec
CONSTANTS
  Pod = pod
  MaxConns = 3
  MaxConnections = 3
  SegmentQueueDepth = 1
  MaxSegments = 1
  MaxSamples = 0
  MaxWire = 1
  MayReboot = FALSE
  MaxStray = 0
  PerPodCap = 1
  MaxPods = 1
  MaxSegmentSamples = 1
  MaxTelemetryReadings = 0
INVARIANTS SoleReader TailBeforeAnnouncement
CHECK_DEADLOCK FALSE
PROPERTY TasksEnd
