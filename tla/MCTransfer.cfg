CONSTANTS
  Half = 8
  Streams = {1, 2}
  UseForwardTsn = TRUE
  MaxRexmit = 0
  InitialTsn = 14
  MaxTsns = 6
  Scenarios <- MCScenarios
  Lossy = {"SACK"}
  MaxGap = 7
  Unlimited = Unlimited
  MaxDataRetransmits = Unlimited
  NoTsn = NoTsn
SPECIFICATION Spec
CHECK_DEADLOCK FALSE
INVARIANTS
  FlightContiguous T3Covers BufferedExact SsnsConsecutive OneSplitMessage
  ReliableDelivered SkipsOnlyAbandoned SackNeverRefused ProbeAvailable RecoveryEnds
PROPERTY PointsAdvance
