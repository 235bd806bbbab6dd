CONSTANTS
  MaxMsgs = 3
  MaxLen = 3
  BufLen = 2
  MaxConns = 3
  Window = 2
  Clients = {"slow", "impatient"}
SPECIFICATION Spec
INVARIANTS
  TypeOK
  InOrderAtMostOnce
  OneStaleAnswer
PROPERTIES
  ImplementsMailbox
  NothingStuck
CHECK_DEADLOCK FALSE
