\* One stream is closed and its identifier used again; no timeout.
CONSTANTS
  A = A
  B = B
  s1 = s1
  s2 = s2
  Peers <- MCPeers
  Ids <- MCIds
  MaxRetransmits = NoLimit
  NoLimit = NoLimit
  None = None
  MaxOpens = 2
  MaxWrites = 2
  MaxStops = 1
  MaxTimeouts = 0
  MaxRequests = 3
SPECIFICATION Spec
CHECK_DEADLOCK FALSE
PROPERTY OpenStaysOpen
