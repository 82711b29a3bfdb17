\* The client writes and shuts down.
SPECIFICATION Spec
CONSTANTS
    NoLimit = NoLimit
    MaxInitRetransmits = 1
    MayClose <- Nobody
    MayShutdown <- OnlyClient
    MayWrite <- OnlyClient
    MayExhaust <- Nobody
    MayForward <- Nobody
    MayLose = FALSE
    MayRepeat = FALSE
INVARIANT ShutdownWaitsForData
\* Both ends may come to rest for good.
CHECK_DEADLOCK FALSE
