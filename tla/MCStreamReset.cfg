\* Two streams opened, two messages, two closes, one request that times out.
CONSTANTS
  A = A
  B = B
  s1 = s1
  s2 = s2
  Peers <- MCPeers
  Ids <- MCIds
  MaxRetransmits = 0
  NoLimit = NoLimit
  None = None
  MaxOpens = 2
  MaxWrites = 2
  MaxStops = 2
  MaxTimeouts = 1
  MaxRequests = 3
SPECIFICATION Spec
SYMMETRY Symmetry
CHECK_DEADLOCK FALSE
INVARIANTS
  CompleteAfterFinished TerminalOwed ReadInOrder NothingLost GenerationsSeparate
  TurnComes
