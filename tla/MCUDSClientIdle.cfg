\* What UDSClientPoll returns while a request is under way.
CONSTANTS
    UserRequests <- Resets
    UserOptions <- ResetOptions
    DefaultOptions <- NoOptions
    Careful = FALSE
    P2 = 0
    P2Star = 1
    ServerTimings <- NoTimings
    FileSize = 0
    BlockLengths <- NoBlockLengths
    SendBufLen = 2
    LengthMod = 6
    CounterMod = 4
    MaxUserRequests = 1
    MaxPending = 1
    MaxFaults = 1
SPECIFICATION Spec

PROPERTY IdleMeansIdle
