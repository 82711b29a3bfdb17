\* Every API call at both ends; a datagram, once sent, can arrive any number
\* of times and in any order, or never.
SPECIFICATION Spec
CONSTANTS
    NoLimit = NoLimit
    MaxInitRetransmits = 1
    MayClose <- OnlyServer
    MayShutdown <- Peers
    MayWrite <- OnlyServer
    MayExhaust <- OnlyClient
    MayForward <- OnlyClient
    MayLose = FALSE
    MayRepeat = TRUE
INVARIANTS
    TimerDiscipline
    HandshakeAgreement
    
    ResponderDrains
    NoHalfOpenShutdown
PROPERTY ClientClosedIsFinal
\* Both ends may come to rest for good.
CHECK_DEADLOCK FALSE
