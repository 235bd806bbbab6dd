\* A download, and requests of the user between its requests.
CONSTANTS
    UserRequests <- Sessions
    UserOptions <- SessionOptions
    DefaultOptions <- NegRespIsErr
    Careful = TRUE
    P2 = 0
    P2Star = 1
    ServerTimings <- SlowerServer
    FileSize = 3
    BlockLengths <- AnyBlockLengths
    SendBufLen = 2
    LengthMod = 6
    CounterMod = 4
    MaxUserRequests = 2
    MaxPending = 1
    MaxFaults = 1
SPECIFICATION Spec
INVARIANTS FileInOrder CompletedMeansStored
PROPERTY DownloadEnds
