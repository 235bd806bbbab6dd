CONSTANTS
  MaxMsgs = 3
  MaxLen = 2
  BufLen = 2
  MaxConns = 1
  Window = 1
  Clients = {"prompt"}
SPECIFICATION Spec
INVARIANT
  AckDiscardsOnlyProcessed
