CONSTANTS
    Sizes = {1, 4, 5}
    RecvBufSize = 4
    BlockSize = 2
    SnMod = 2
    MaxWft = 1
    Timeout = 1
    MaxMsgs = 3
    MaxFaults = 2
    MaxWaits = 2
SPECIFICATION Spec
INVARIANTS TypeOK WholeMessages FlowRespected
PROPERTIES NeverTwice LinksEnd Delivered
