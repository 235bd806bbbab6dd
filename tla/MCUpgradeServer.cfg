CONSTANTS
  NoRequest = NoRequest
  NoFile = NoFile
  Files = {fw, other}
  RebootsDevice = TRUE
  Requests <- AppRequests
  Answers = {"kPositiveResponse", "kGeneralReject", "kServiceNotSupported", "kSubFunctionNotSupported", "kRequestOutOfRange", "kIncorrectMessageLengthOrInvalidFormat", "kFailurePreventsExecutionOfRequestedAction", "kGeneralProgrammingFailure", "kUploadDownloadNotAccepted", "kRequestCorrectlyReceived_ResponsePending"}
  SeqMod = 2
  P2 = 0
  P2StarWait = 0
  S3 = 0
  BootDelay = 0
  AuthFailDelay = 0
  PowerDown = 1
  MaxLag = 1
  MaxAge = 0
SPECIFICATION AllSpec
INVARIANTS
  AppTypeOK
  FileFollowsTransfer
  ExitedFileKept
PROPERTY
  HeardAgain
