CONSTANTS
  NoRequest = NoRequest
  Requests <- ResetRequests
  Answers = {"kPositiveResponse", "kServiceNotSupported"}
  SeqMod = 3
  P2 = 1
  P2StarWait = 1
  S3 = 0
  BootDelay = 0
  AuthFailDelay = 0
  PowerDown = 2
  MaxLag = 1
  MaxAge = 0
SPECIFICATION Spec
INVARIANT
  AcceptedResetIsScheduled
