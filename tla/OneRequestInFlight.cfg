\* Both ends close streams; no timeout.
CONSTANTS
  A = A
  B = B
  s1 = s1
  s2 = s2
  Peers <- MCPeers
  Ids <- MCIds
  MaxRetransmits = NoLimit
  NoLimit = NoLimit
  None = None
  MaxOpens = 2
  MaxWrites = 2
  MaxStops = 2
  MaxTimeouts = 0
  MaxRequests = 3
SPECIFICATION Spec
SYMMETRY Symmetry
CHECK_DEADLOCK FALSE
INVARIANT OneRequestInFlight
