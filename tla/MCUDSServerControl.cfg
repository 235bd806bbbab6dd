CONSTANTS
  NoRequest = NoRequest
  Requests <- ControlRequests
  Answers = {"kPositiveResponse", "kGeneralReject", "kServiceNotSupported"}
  SeqMod = 3
  P2 = 1
  P2StarWait = 1
  S3 = 2
  BootDelay = 1
  AuthFailDelay = 1
  PowerDown = 2
  MaxLag = 1
  MaxAge = 8
SPECIFICATION Spec
INVARIANTS
  AttemptsRateLimited
  ResetFollowsResponse
PROPERTY
  ResetHappens
