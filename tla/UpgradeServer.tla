---------------------------- MODULE UpgradeServer ----------------------------
(***************************************************************************)
(* The upgrade application, upgrade_server/src/upgrade_server.cpp, plugged *)
(* into the UDS server as srv->fn: UDSServer's steps, where the answer     *)
(* `ev' of srv->fn is now what the Handle... method answers, and the       *)
(* method's effects are part of the same step.  An event the method does   *)
(* not get (ev = NoEvent) changes nothing here.                            *)
(*                                                                         *)
(* A file is the number of leading bytes of the transfer that truncated it *)
(* last; stdio and the page cache lie between it and the medium.  The      *)
(* process may be killed and the power may be cut at any step.             *)
(***************************************************************************)
EXTENDS UDSServer

CONSTANTS
    Files,          \* what the paths of RequestFileTransfer resolve to
    NoFile,         \* fw_filename_ is empty
    RebootsDevice   \* RebootDevice reboots (T5), or does nothing (Test)

ASSUME FilesAssumption == NoFile \notin Files
ASSUME RebootsDeviceAssumption == RebootsDevice \in BOOLEAN

VARIABLES
    fw_filename_,
    fw_file_,       \* [file, buffered]: the open FILE and what stdio holds back
    content,        \* length of each file as programs see it, or Absent, Damaged
    synced,         \* the files whose content is on the medium
    upgrade_thread_,\* "none", "running", "ended" (still joinable)
    serving,        \* FALSE: the process terminated, or waits for ever
    rebooting,      \* system("reboot") was issued
    exited          \* history: the file the last transfer exit closed, its length

app == <<fw_filename_, fw_file_, content, synced, upgrade_thread_, serving,
         rebooting, exited>>
allVars == <<vars, app>>

Absent == -1
Damaged == -2
NoHandle == [file |-> NoFile, buffered |-> 0]
NotExited == [file |-> NoFile, len |-> 0]

AppInit ==
    /\ fw_filename_ = NoFile /\ fw_file_ = NoHandle
    /\ content = [f \in Files |-> Absent] /\ synced = Files
    /\ upgrade_thread_ = "none" /\ serving = TRUE /\ rebooting = FALSE
    /\ exited = NotExited

disk == <<content, synced>>
Dies == serving' = FALSE

-----------------------------------------------------------------------------
(***************************************************************************)
(* The handlers: which answer they give, what they do.                     *)
(***************************************************************************)
(* Mutant: the file is opened without being truncated.                     *)
HandleRequestFileTransferAppends(req, ev) ==
    /\ req.sid = "0x38"
    /\ \E f \in Files :
          /\ fw_filename_' = f
          /\ ev = kPositiveResponse
          /\ fw_file_' = [file |-> f, buffered |-> 0]
          /\ content' = [content EXCEPT ![f] = IF @ < 0 THEN 0 ELSE @]
          /\ synced' = synced \ {f}
          /\ exited' = IF exited.file = f THEN NotExited ELSE exited
    /\ UNCHANGED <<upgrade_thread_, serving, rebooting>>

(* fopen(.., "wb+") truncates; the old fw_file_, if any, is lost open.     *)
HandleRequestFileTransfer(req, ev) ==
    /\ req.sid = "0x38"
    /\ \E f \in Files :
          /\ fw_filename_' = f
          /\ \/ /\ ev = kPositiveResponse
                /\ fw_file_' = [file |-> f, buffered |-> 0]
                /\ content' = [content EXCEPT ![f] = 0]
                /\ synced' = synced \ {f}
                /\ exited' = IF exited.file = f THEN NotExited ELSE exited
             \/ /\ ev = "kUploadDownloadNotAccepted"
                /\ fw_file_' = NoHandle
                /\ UNCHANGED <<content, synced, exited>>
    /\ UNCHANGED <<upgrade_thread_, serving, rebooting>>

(* fwrite: stdio passes on some of what it holds, and may write less than  *)
(* it was asked to.                                                        *)
HandleTransferData(req, ev) ==
    /\ req.sid = "0x36"
    /\ \/ /\ fw_file_ = NoHandle /\ ev = "kGeneralProgrammingFailure"
          /\ UNCHANGED <<fw_file_, content, synced>>
       \/ /\ fw_file_ # NoHandle
          /\ \E written \in 0..req.len : \E held \in 0..fw_file_.buffered + written :
                LET flushed == fw_file_.buffered + written - held IN
                /\ ev = IF written = req.len THEN kPositiveResponse
                                             ELSE "kGeneralProgrammingFailure"
                /\ fw_file_' = [fw_file_ EXCEPT !.buffered = held]
                /\ content' = [content EXCEPT ![fw_file_.file] = @ + flushed]
                /\ synced' = IF flushed > 0 THEN synced \ {fw_file_.file} ELSE synced
    /\ UNCHANGED <<fw_filename_, upgrade_thread_, serving, rebooting, exited>>

(* Mutant: without sync.                                                   *)
HandleRequestTransferExitNoSync(req, ev) ==
    /\ req.sid = "0x37" /\ ev = kPositiveResponse
    /\ fw_file_ # NoHandle
    /\ content' = [content EXCEPT ![fw_file_.file] = @ + fw_file_.buffered]
    /\ exited' = [file |-> fw_file_.file, len |-> content'[fw_file_.file]]
    /\ fw_file_' = NoHandle
    /\ UNCHANGED <<synced, fw_filename_, upgrade_thread_, serving, rebooting>>

(* fclose of a NULL pointer is undefined: the process dies.  What fclose   *)
(* could not write is lost and not noticed.  sync writes all files.        *)
HandleRequestTransferExit(req, ev) ==
    /\ req.sid = "0x37" /\ ev = kPositiveResponse
    /\ \/ /\ fw_file_ = NoHandle /\ Dies
          /\ UNCHANGED <<fw_file_, content, synced, exited>>
       \/ /\ fw_file_ # NoHandle
          /\ \E flushed \in 0..fw_file_.buffered :
                content' = [content EXCEPT ![fw_file_.file] = @ + flushed]
          /\ exited' = [file |-> fw_file_.file, len |-> content'[fw_file_.file]]
          /\ fw_file_' = NoHandle
          /\ synced' = Files
          /\ UNCHANGED serving
    /\ UNCHANGED <<fw_filename_, upgrade_thread_, rebooting>>

kStartRoutine == 1
kRequestRoutineResults == 3

(* Routine 0x0202.  md5sum without a file name reads the server's standard *)
(* input: it answers a digest, or it never does.  A file that is not there *)
(* gives no output: result.erase(npos) throws, and nobody catches.  The    *)
(* verdict is a status record of a positive response either way.           *)
CheckSum(req, ev) ==
    LET missing == {f \in Files : content[f] = Absent} IN
    \/ req.sub % 128 # kStartRoutine /\ ev = "kSubFunctionNotSupported" /\ UNCHANGED app
    \/ req.sub % 128 = kStartRoutine /\ ev = kIncorrectLength /\ UNCHANGED app
    \/ /\ req.sub % 128 = kStartRoutine /\ ev = kPositiveResponse
       /\ \/ fw_filename_ \notin missing /\ UNCHANGED serving
          \/ fw_filename_ \in missing \cup {NoFile} /\ Dies
       /\ UNCHANGED <<fw_filename_, fw_file_, disk, upgrade_thread_, rebooting, exited>>

(* Routine 0xFF02.  The thread is never joined: assigning a second one to  *)
(* upgrade_thread_ is std::terminate.                                      *)
UpgradeFw(req, ev) ==
    \/ /\ req.sub % 128 = kStartRoutine /\ ev = kPositiveResponse
       /\ \/ /\ upgrade_thread_ = "none"
             /\ upgrade_thread_' = "running"
             /\ UNCHANGED serving
          \/ /\ upgrade_thread_ # "none" /\ Dies
             /\ UNCHANGED upgrade_thread_
       /\ UNCHANGED <<fw_filename_, fw_file_, disk, rebooting, exited>>
    \/ req.sub % 128 = kRequestRoutineResults /\ ev = kPositiveResponse /\ UNCHANGED app
    \/ /\ req.sub % 128 \notin {kStartRoutine, kRequestRoutineResults}
       /\ ev = "kSubFunctionNotSupported" /\ UNCHANGED app

(* Mutant: while the upgrade runs, its result is pending.                  *)
HandleRoutineCtrlPends(req, ev) ==
    /\ req.sid = "0x31"
    /\ \/ upgrade_thread_ = "running" /\ ev = kResponsePending /\ UNCHANGED app
       \/ upgrade_thread_ # "running" /\ UpgradeFw(req, ev)

(* Routine 0x0203 answers 0 to kStartRoutine; others are not supported.    *)
HandleRoutineCtrl(req, ev) ==
    /\ req.sid = "0x31"
    /\ \/ CheckSum(req, ev)
       \/ UpgradeFw(req, ev)
       \/ req.sub % 128 = kStartRoutine /\ ev = kPositiveResponse /\ UNCHANGED app
       \/ ev = "kSubFunctionNotSupported" /\ UNCHANGED app

(* What the handlers that keep no state of this module answer.             *)
AnswersOf(sid) ==
    CASE sid \in {"0x10", "0x11"} -> {kPositiveResponse}
      [] sid = "0x22" -> {kPositiveResponse, "kRequestOutOfRange"}
      [] sid = "0x2E" -> {kPositiveResponse, "kRequestOutOfRange",
                          "kFailurePreventsExecutionOfRequestedAction"}
      [] sid = "0x27" -> {kPositiveResponse, "kGeneralReject"}
      [] sid \in {"0x23", "0x28", "0x34", "0x35"} -> {"kServiceNotSupported"}
      [] OTHER -> {}

(* ProcessUdsEvent *)
ProcessUdsEvent(req, ev) ==
    \/ ev = NoEvent /\ UNCHANGED app
    \/ HandleRequestFileTransfer(req, ev)
    \/ HandleTransferData(req, ev)
    \/ HandleRequestTransferExit(req, ev)
    \/ HandleRoutineCtrl(req, ev)
    \/ ev \in AnswersOf(req.sid) /\ UNCHANGED app

(* Mutant: RebootDevice is not called.                                     *)
HandleDoScheduledResetStays == UNCHANGED app

(* HandleDoScheduledReset, in the poll that finds the reset timer expired. *)
HandleDoScheduledReset ==
    IF ecuResetScheduled # 0 /\ Expired("ecuReset") /\ RebootsDevice
    THEN rebooting' = TRUE
         /\ UNCHANGED <<fw_filename_, fw_file_, disk, upgrade_thread_, serving, exited>>
    ELSE UNCHANGED app

-----------------------------------------------------------------------------
(***************************************************************************)
(* The server process.                                                     *)
(***************************************************************************)
Serve(ev) ==
    /\ serving
    /\ PollNewRequest(ev)
    /\ ProcessUdsEvent(inbox, ev)

(* fn never answers 0x78, so that PollPending and PollEvaluated have no    *)
(* part here (AppTypeOK: RCRRP stays FALSE).                               *)
Poll ==
    /\ serving
    /\ \/ PollTimers /\ HandleDoScheduledReset
       \/ (PollIdle \/ PollWait \/ PollRespond) /\ UNCHANGED app

Step == Poll \/ \E ev \in Events : Serve(ev)

UpgradeEnds ==
    /\ serving /\ upgrade_thread_ = "running"
    /\ upgrade_thread_' = "ended"
    /\ UNCHANGED <<vars, fw_filename_, fw_file_, disk, serving, rebooting, exited>>

(* A new process: UDSServerInit and the constructors, over the same disk.  *)
Boot ==
    /\ pc' = "poll" /\ inbox' = NoRequest
    /\ sessionType' = 1 /\ securityLevel' = 0
    /\ xfer' = [NoTransfer EXCEPT !.seq = 0]
    /\ ecuResetScheduled' = 0 /\ notReadyToReceive' = FALSE
    /\ RCRRP' = FALSE /\ requestInProgress' = FALSE
    /\ timer' = [p2 |-> Due(P2), s3 |-> Due(S3), bootDelay |-> Due(BootDelay),
                 authFail |-> Due(0), ecuReset |-> 0]
    /\ rc' = kPositiveResponse /\ resp' = NoResponse
    /\ blocks' = 0 /\ fails' = 0 /\ lag' = 0 /\ age' = 0
    /\ fw_filename_' = NoFile /\ fw_file_' = NoHandle
    /\ upgrade_thread_' = "none" /\ serving' = TRUE /\ rebooting' = FALSE
    /\ UNCHANGED exited

(* The process is killed (also by SIGINT: the destructor of the static     *)
(* DoIPTp finds joinable threads) and started again: what stdio held is    *)
(* lost, what the kernel has stays.                                        *)
Kill == Boot /\ UNCHANGED disk

(* The power is cut: what was not synced may be lost.                      *)
PowerCut ==
    /\ Boot
    /\ \E lost \in SUBSET (Files \ synced) :
          content' = [f \in Files |-> IF f \in lost THEN Damaged ELSE content[f]]
    /\ synced' = Files

(* An orderly reboot: the page cache is written.                           *)
Reboot == rebooting /\ Boot /\ synced' = Files /\ UNCHANGED content

AllInit == Init /\ AppInit

AllNext ==
    \/ Step
    \/ UpgradeEnds
    \/ Kill \/ PowerCut \/ Reboot
    \/ (Tick \/ \E req \in Requests : Receive(req)) /\ UNCHANGED app

(* main() polls for ever, time passes, and a reboot that was ordered comes. *)
AllFairness ==
    /\ WF_allVars(Step)
    /\ WF_allVars(Tick /\ UNCHANGED app)
    /\ WF_allVars(Reboot)

AllSpec == AllInit /\ [][AllNext]_allVars /\ AllFairness

-----------------------------------------------------------------------------
(***************************************************************************)
(* Properties.                                                             *)
(***************************************************************************)
(* Types; and the application never leaves a request pending, so that the  *)
(* server's 0x78 steps are not needed in AllNext.                          *)
AppTypeOK ==
    /\ TypeOK /\ ~RCRRP
    /\ fw_filename_ \in Files \cup {NoFile}
    /\ fw_file_ \in [file : Files, buffered : Nat] \cup {NoHandle}
    /\ content \in [Files -> Nat \cup {Absent, Damaged}] /\ synced \subseteq Files
    /\ upgrade_thread_ \in {"none", "running", "ended"}
    /\ serving \in BOOLEAN /\ rebooting \in BOOLEAN
    /\ exited \in [file : Files, len : Nat] \cup {NotExited}

(* The server's idea of the transfer and the application's file agree in   *)
(* every state of a transfer, whatever failed before: the file is open, it *)
(* is the one the request named, and with what stdio holds back it has as  *)
(* many bytes as the server counted.  So a block is never written to a     *)
(* NULL file or behind an earlier transfer's bytes, and the exit never     *)
(* closes NULL.                                                            *)
FileFollowsTransfer ==
    xfer.active =>
        /\ fw_file_ # NoHandle /\ fw_file_.file = fw_filename_
        /\ content[fw_filename_] + fw_file_.buffered = xfer.bytes

(* A file that a transfer exit closed (fclose, sync) keeps what it had     *)
(* then, across kills, power cuts and failed transfers of other files,     *)
(* until a RequestFileTransfer names it again.                             *)
ExitedFileKept ==
    exited # NotExited => content[exited.file] = exited.len

(* A server that is deaf because of a reset it accepted is heard again:    *)
(* the reset comes, and it boots the device.                               *)
HeardAgain == notReadyToReceive ~> ~notReadyToReceive
=============================================================================
