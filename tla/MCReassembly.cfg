CONSTANTS
  Half = 32
  HalfSsn = 8
  MaxFlight = 4
  InitialTsn = 62
  Layouts <- MCLayouts
  Capacity = 3
  MaxMessageSize = 4
  NoSsn = NoSsn
SPECIFICATION Spec
CHECK_DEADLOCK FALSE
INVARIANTS
  BytesExact AcknowledgedIsKept ReadableNotified NeverPinned SizeLimitExact
  
PROPERTY ImplementsStream
