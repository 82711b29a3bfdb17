CONSTANTS
  Half = 8
  Streams = {1}
  UseForwardTsn = TRUE
  MaxRexmit = 0
  InitialTsn = 14
  MaxTsns = 6
  Scenarios <- UnsentScenarios
  Lossy = {"SACK"}
  MaxGap = 7
  Unlimited = Unlimited
  MaxDataRetransmits = Unlimited
  NoTsn = NoTsn
SPECIFICATION Spec
CHECK_DEADLOCK FALSE
INVARIANT SsnsConsecutive
