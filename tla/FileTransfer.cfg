CONSTANTS
  NoRequest = NoRequest
  NoFile = NoFile
  Files = {fw}
  RebootsDevice = FALSE
  Requests <- ProgramSocRequests
  Answers = {"kPositiveResponse", "kGeneralReject", "kServiceNotSupported", "kSubFunctionNotSupported", "kRequestOutOfRange", "kIncorrectMessageLengthOrInvalidFormat", "kFailurePreventsExecutionOfRequestedAction", "kGeneralProgrammingFailure", "kUploadDownloadNotAccepted", "kRequestCorrectlyReceived_ResponsePending"}
  SeqMod = 2
  P2 = 0
  P2StarWait = 0
  S3 = 0
  BootDelay = 0
  AuthFailDelay = 0
  PowerDown = 1
  MaxLag = 1
  MaxAge = 0
  FileSize = 5
  BlockSize = 2
  MaxLate = 2
  MaxLosses = 1
  MaxCrashes = 1
SPECIFICATION TransferSpec
INVARIANTS
  StoredInOrder
  RetryHeals
  LeftOpenOnlyIfLost
  WarnedOfDamage
  NeverReturns
PROPERTY
  ProgramSocEnds
CHECK_DEADLOCK FALSE
