CONSTANTS
  Half = 4
  Streams = {1}
  UseForwardTsn = TRUE
  MaxRexmit = 0
  InitialTsn = 7
  MaxTsns = 2
  Scenarios <- LiveScenarios
  Lossy = {"DATA", "SACK", "FORWARD-TSN"}
  MaxGap = 3
  Unlimited = Unlimited
  MaxDataRetransmits = Unlimited
  NoTsn = NoTsn
SPECIFICATION FairSpec
CHECK_DEADLOCK FALSE
PROPERTY EverythingSettles
