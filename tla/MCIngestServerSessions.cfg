\* Two connections, one permit, one stray frame, a reboot: two segments of up to
\* two samples, split at a host cap of two.
SPECIFICATION Spec
CONSTANTS
  Pod = pod
  MaxConns = 2
  MaxConnections = 1
  SegmentQueueDepth = 1
  MaxSegments = 2
  MaxSamples = 2
  MaxWire = 2
  MayReboot = TRUE
  MaxStray = 1
  PerPodCap = 1
  MaxPods = 1
  MaxSegmentSamples = 2
  MaxTelemetryReadings = 1
INVARIANTS AssemblerFollowsSession ArrivesWhole
CHECK_DEADLOCK FALSE
