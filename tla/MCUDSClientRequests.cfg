\* Requests of the user alone, with every option, an error ignored or not.
CONSTANTS
    UserRequests <- Resets
    UserOptions <- ResetOptions
    DefaultOptions <- NoOptions
    Careful = FALSE
    P2 = 0
    P2Star = 1
    ServerTimings <- NoTimings
    FileSize = 0
    BlockLengths <- NoBlockLengths
    SendBufLen = 2
    LengthMod = 6
    CounterMod = 4
    MaxUserRequests = 3
    MaxPending = 1
    MaxFaults = 1
SPECIFICATION Spec
INVARIANTS TypeOK OwnAnswer AnswersInOrder
PROPERTY RequestEnds
