\* A lossy network, unlimited handshake retransmission, a client that may
\* shut down.
SPECIFICATION FairSpec
CONSTANTS
    NoLimit = NoLimit
    MaxInitRetransmits = NoLimit
    MayClose <- Nobody
    MayShutdown <- OnlyClient
    MayWrite <- Nobody
    MayExhaust <- Nobody
    MayForward <- Nobody
    MayLose = TRUE
    MayRepeat = FALSE
PROPERTY HandshakeCompletes
 
\* Both ends may come to rest for good.
CHECK_DEADLOCK FALSE
