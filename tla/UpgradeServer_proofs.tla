-------------------------- MODULE UpgradeServer_proofs --------------------------
(***************************************************************************)
(* Proofs about the upgrade application in the UDS server, for every set   *)
(* of requests and files and every choice of the durations, with kills,    *)
(* power cuts and reboots at any step.                                     *)
(***************************************************************************)
EXTENDS UpgradeServer, UDSServer_proofs

AppTyped ==
    /\ fw_filename_ \in Files \cup {NoFile}
    /\ fw_file_ \in [file : Files, buffered : Nat] \cup {NoHandle}
    /\ content \in [Files -> Nat \cup {Absent, Damaged}] /\ synced \subseteq Files
    /\ upgrade_thread_ \in {"none", "running", "ended"}
    /\ serving \in BOOLEAN /\ rebooting \in BOOLEAN
    /\ exited \in [file : Files, len : Nat] \cup {NotExited}

(* A file that is open has been truncated, and nothing lost it since. *)
OpenFileThere == fw_file_ # NoHandle => content[fw_file_.file] \in Nat

(* A file that an exit closed is on the medium, and nobody writes to it. *)
ExitedFileSafe ==
    exited # NotExited =>
        /\ exited.file \in synced /\ content[exited.file] = exited.len
        /\ fw_file_ # NoHandle => fw_file_.file # exited.file

AppInv == AppTyped /\ OpenFileThere /\ ExitedFileSafe

IInv == TypeOK /\ ~RCRRP /\ AppInv /\ FileFollowsTransfer

(* A handle or an exit that is there names a file. *)
LEMMA Named ==
    ASSUME AppTyped
    PROVE  /\ fw_file_ # NoHandle <=> fw_file_ \in [file : Files, buffered : Nat]
           /\ exited # NotExited <=> exited \in [file : Files, len : Nat]
           /\ NoHandle.buffered = 0
<1>1. NoHandle.file = NoFile /\ NotExited.file = NoFile /\ NoHandle.buffered = 0
    BY DEF NoHandle, NotExited
<1>2. NoHandle \notin [file : Files, buffered : Nat] BY <1>1, FilesAssumption
<1>3. NotExited \notin [file : Files, len : Nat] BY <1>1, FilesAssumption
<1> QED BY <1>1, <1>2, <1>3 DEF AppTyped

-----------------------------------------------------------------------------
(***************************************************************************)
(* The handlers keep the files in order.                                   *)
(***************************************************************************)
LEMMA RequestFileTransferApp ==
    ASSUME AppInv, NEW req, NEW ev, HandleRequestFileTransfer(req, ev)
    PROVE  AppInv'
<1> USE DEF AppInv, AppTyped
<1>1. PICK f \in Files :
        /\ fw_filename_' = f
        /\ \/ /\ fw_file_' = [file |-> f, buffered |-> 0]
              /\ content' = [content EXCEPT ![f] = 0]
              /\ synced' = synced \ {f}
              /\ exited' = IF exited.file = f THEN NotExited ELSE exited
           \/ /\ fw_file_' = NoHandle
              /\ UNCHANGED <<content, synced, exited>>
    BY DEF HandleRequestFileTransfer
<1>2. UNCHANGED <<upgrade_thread_, serving, rebooting>> BY DEF HandleRequestFileTransfer
<1>3. CASE /\ fw_file_' = [file |-> f, buffered |-> 0]
           /\ content' = [content EXCEPT ![f] = 0]
           /\ synced' = synced \ {f}
           /\ exited' = IF exited.file = f THEN NotExited ELSE exited
    <2>1. AppTyped' BY <1>1, <1>2, <1>3
    <2>2. fw_file_'.file = f /\ content'[f] = 0 BY <1>3
    <2>3. OpenFileThere' BY <2>2 DEF OpenFileThere
    <2>4. ExitedFileSafe'
        <3>1. SUFFICES ASSUME exited' # NotExited
              PROVE  /\ exited'.file \in synced' /\ content'[exited'.file] = exited'.len
                     /\ fw_file_'.file # exited'.file
            BY DEF ExitedFileSafe, NotExited, NoHandle
        <3>2. exited' = exited /\ exited.file # f BY <1>3, <3>1
        <3>3. exited.file \in synced /\ content[exited.file] = exited.len
            BY <3>1, <3>2 DEF ExitedFileSafe
        <3> QED BY <1>3, <2>2, <3>2, <3>3
    <2> QED BY <2>1, <2>3, <2>4
<1>4. CASE fw_file_' = NoHandle /\ UNCHANGED <<content, synced, exited>>
    <2>1. AppTyped' BY <1>1, <1>2, <1>4
    <2>2. OpenFileThere' /\ ExitedFileSafe'
        BY <1>4 DEF OpenFileThere, ExitedFileSafe, NoHandle, NotExited
    <2> QED BY <2>1, <2>2
<1> QED BY <1>1, <1>3, <1>4

(* fwrite moves bytes from the request to stdio and from stdio to the file. *)
LEMMA TransferDataApp ==
    ASSUME AppInv, NEW req \in Requests, NEW ev, HandleTransferData(req, ev)
    PROVE  /\ AppInv'
           /\ fw_filename_' = fw_filename_
           /\ ev = kPositiveResponse /\ fw_file_ # NoHandle =>
                /\ fw_file_' # NoHandle /\ fw_file_'.file = fw_file_.file
                /\ content'[fw_file_.file] + fw_file_'.buffered
                     = content[fw_file_.file] + fw_file_.buffered + req.len
           /\ ev \in {kPositiveResponse, "kGeneralProgrammingFailure"}
           /\ fw_file_ = NoHandle => ev = "kGeneralProgrammingFailure"
<1> USE DEF AppInv
<1>0. req.len \in Nat BY RequestsAssumption DEF Request
<1>1. UNCHANGED <<fw_filename_, upgrade_thread_, serving, rebooting, exited>>
    BY DEF HandleTransferData
<1>2. CASE /\ fw_file_ = NoHandle /\ ev = "kGeneralProgrammingFailure"
           /\ UNCHANGED <<fw_file_, content, synced>>
    <2>1. AppInv' BY <1>1, <1>2 DEF AppTyped, OpenFileThere, ExitedFileSafe, NoHandle, NotExited
    <2> QED BY <1>1, <1>2, <2>1
<1>3. CASE fw_file_ # NoHandle
    <2> DEFINE f == fw_file_.file
               b == fw_file_.buffered
    <2>1. f \in Files /\ b \in Nat /\ content[f] \in Nat
          /\ fw_file_ = [file |-> f, buffered |-> b]
        BY <1>3, Named DEF OpenFileThere
    <2>2. PICK written \in 0..req.len : \E held \in 0..b + written :
             /\ ev = IF written = req.len THEN kPositiveResponse
                                          ELSE "kGeneralProgrammingFailure"
             /\ fw_file_' = [fw_file_ EXCEPT !.buffered = held]
             /\ content' = [content EXCEPT ![f] = @ + (b + written - held)]
             /\ synced' = IF b + written - held > 0 THEN synced \ {f} ELSE synced
        BY <1>3 DEF HandleTransferData
    <2>3. PICK held \in 0..b + written :
             /\ ev = IF written = req.len THEN kPositiveResponse
                                          ELSE "kGeneralProgrammingFailure"
             /\ fw_file_' = [fw_file_ EXCEPT !.buffered = held]
             /\ content' = [content EXCEPT ![f] = @ + (b + written - held)]
             /\ synced' = IF b + written - held > 0 THEN synced \ {f} ELSE synced
        BY <2>2
    <2>4. fw_file_' = [file |-> f, buffered |-> held] BY <2>1, <2>3
    <2> HIDE DEF f, b
    <2>5. /\ held \in Nat /\ written \in Nat /\ b + written - held \in Nat
        BY <1>0, <2>1, <2>2, <2>3
    <2>6. /\ content' \in [Files -> Nat \cup {Absent, Damaged}]
          /\ content'[f] = content[f] + (b + written - held)
          /\ content'[f] \in Nat
          /\ \A g \in Files \ {f} : content'[g] = content[g]
        <3>1. content \in [Files -> Nat \cup {Absent, Damaged}] BY DEF AppTyped
        <3>2. content[f] + (b + written - held) \in Nat BY <2>1, <2>5
        <3> QED BY <2>1, <2>3, <3>1, <3>2
    <2>7. synced' \subseteq Files /\ \A g \in synced : g # f => g \in synced'
        BY <2>3 DEF AppTyped
    <2>8. fw_file_'.file = f /\ fw_file_'.buffered = held BY <2>4
    <2>9. fw_file_' \in [file : Files, buffered : Nat] BY <2>1, <2>4, <2>5
    <2>10. AppTyped' BY <1>1, <2>6, <2>7, <2>9 DEF AppTyped
    <2>11. fw_file_' # NoHandle BY <2>1, <2>8, FilesAssumption DEF NoHandle
    <2>12. OpenFileThere' BY <2>6, <2>8 DEF OpenFileThere
    <2>13. ExitedFileSafe'
        <3>1. exited # NotExited => exited.file # f BY <1>3 DEF ExitedFileSafe, f
        <3>2. exited # NotExited => exited.file \in Files BY Named
        <3> QED BY <1>1, <2>6, <2>7, <2>8, <3>1, <3>2 DEF ExitedFileSafe, NoHandle, NotExited
    <2>14. ev = kPositiveResponse => written = req.len BY <2>3 DEF kPositiveResponse
    <2>15. ev = kPositiveResponse =>
             content'[f] + fw_file_'.buffered = content[f] + b + req.len
        BY <1>0, <2>1, <2>5, <2>6, <2>8, <2>14
    <2> QED BY <1>1, <1>3, <2>3, <2>8, <2>10, <2>11, <2>12, <2>13, <2>15 DEF f, b
<1> QED BY <1>2, <1>3 DEF HandleTransferData

(* The exit: fclose, then sync. *)
LEMMA TransferExitApp ==
    ASSUME AppInv, NEW req, NEW ev, HandleRequestTransferExit(req, ev)
    PROVE  AppInv'
<1> USE DEF AppInv
<1>1. UNCHANGED <<fw_filename_, upgrade_thread_, rebooting>> BY DEF HandleRequestTransferExit
<1>2. CASE fw_file_ = NoHandle /\ Dies /\ UNCHANGED <<fw_file_, content, synced, exited>>
    BY <1>1, <1>2 DEF Dies, AppTyped, OpenFileThere, ExitedFileSafe, NoHandle, NotExited
<1>3. CASE fw_file_ # NoHandle
    <2> DEFINE f == fw_file_.file
    <2>1. f \in Files /\ fw_file_.buffered \in Nat /\ content[f] \in Nat
        BY <1>3, Named DEF OpenFileThere
    <2>2. PICK flushed \in 0..fw_file_.buffered :
            content' = [content EXCEPT ![f] = @ + flushed]
        BY <1>3 DEF HandleRequestTransferExit
    <2>3. /\ exited' = [file |-> f, len |-> content'[f]]
          /\ fw_file_' = NoHandle /\ synced' = Files /\ UNCHANGED serving
        BY <1>3 DEF HandleRequestTransferExit
    <2>4. /\ content' \in [Files -> Nat \cup {Absent, Damaged}] /\ content'[f] \in Nat
        BY <2>1, <2>2 DEF AppTyped
    <2> HIDE DEF f
    <2>5. AppTyped' BY <1>1, <2>1, <2>3, <2>4 DEF AppTyped
    <2>6. OpenFileThere' BY <2>3 DEF OpenFileThere, NoHandle
    <2>7. ExitedFileSafe' BY <2>1, <2>3 DEF ExitedFileSafe, NoHandle
    <2> QED BY <2>5, <2>6, <2>7
<1> QED BY <1>2, <1>3 DEF HandleRequestTransferExit

(* No other handler touches a file. *)
FilesUntouched == UNCHANGED <<fw_filename_, fw_file_, content, synced, exited>>

LEMMA UntouchedApp ==
    ASSUME AppInv, FilesUntouched, upgrade_thread_' \in {"none", "running", "ended"},
           serving' \in BOOLEAN, rebooting' \in BOOLEAN
    PROVE  AppInv'
BY DEF AppInv, AppTyped, OpenFileThere, ExitedFileSafe, FilesUntouched, NoHandle, NotExited

LEMMA RoutineCtrlApp ==
    ASSUME AppInv, NEW req, NEW ev, HandleRoutineCtrl(req, ev)
    PROVE  AppInv' /\ FilesUntouched /\ ev # kResponsePending /\ req.sid = "0x31"
<1>1. FilesUntouched
    BY DEF HandleRoutineCtrl, CheckSum, UpgradeFw, app, disk, FilesUntouched
<1>2. /\ upgrade_thread_' \in {"none", "running", "ended"}
      /\ serving' \in BOOLEAN /\ rebooting' \in BOOLEAN
    BY DEF HandleRoutineCtrl, CheckSum, UpgradeFw, app, AppInv, AppTyped, Dies
<1>3. ev # kResponsePending /\ req.sid = "0x31"
    BY DEF HandleRoutineCtrl, CheckSum, UpgradeFw, kResponsePending, kPositiveResponse, kIncorrectLength
<1> QED BY <1>1, <1>2, <1>3, UntouchedApp

(* What the application does with an event, by the service it is for. *)
LEMMA EventApp ==
    ASSUME AppInv, NEW req \in Requests, NEW ev, ProcessUdsEvent(req, ev)
    PROVE  /\ AppInv' /\ ev # kResponsePending
           /\ \/ HandleRequestFileTransfer(req, ev)
              \/ HandleTransferData(req, ev)
              \/ HandleRequestTransferExit(req, ev)
              \/ /\ FilesUntouched
                 /\ ev = NoEvent \/ req.sid \notin {"0x36", "0x37", "0x38"}
                 /\ req.sid \in {"0x34", "0x35"} => ev # kPositiveResponse
<1> USE DEF kPositiveResponse, kResponsePending, kIncorrectLength
<1>1. CASE HandleRequestFileTransfer(req, ev)
    BY <1>1, RequestFileTransferApp DEF HandleRequestFileTransfer
<1>2. CASE HandleTransferData(req, ev) BY <1>2, TransferDataApp
<1>3. CASE HandleRequestTransferExit(req, ev)
    BY <1>3, TransferExitApp DEF HandleRequestTransferExit
<1>4. CASE HandleRoutineCtrl(req, ev)
    BY <1>4, RoutineCtrlApp
<1>5. CASE ev = NoEvent /\ UNCHANGED app
    <2>1. FilesUntouched /\ UNCHANGED <<upgrade_thread_, serving, rebooting>>
        BY <1>5 DEF app, FilesUntouched
    <2> QED BY <1>5, <2>1, UntouchedApp DEF AppInv, AppTyped, NoEvent
<1>6. CASE ev \in AnswersOf(req.sid) /\ UNCHANGED app
    <2>1. FilesUntouched /\ UNCHANGED <<upgrade_thread_, serving, rebooting>>
        BY <1>6 DEF app, FilesUntouched
    <2>2. /\ ev # kResponsePending
          /\ req.sid \notin {"0x36", "0x37", "0x38"}
          /\ req.sid \in {"0x34", "0x35"} => ev # kPositiveResponse
        BY <1>6 DEF AnswersOf
    <2> QED BY <2>1, <2>2, UntouchedApp DEF AppInv, AppTyped
<1> QED BY <1>1, <1>2, <1>3, <1>4, <1>5, <1>6 DEF ProcessUdsEvent

-----------------------------------------------------------------------------
(***************************************************************************)
(* What the server makes of the answer.                                    *)
(***************************************************************************)
(* A request is delayed only if fn says so. *)
LEMMA NotPending ==
    ASSUME NEW req, NEW ev, ev # kResponsePending, EvaluateServiceResponse(req, ev)
    PROVE  rc' # kResponsePending
<1>1. \A code : code # kResponsePending /\ (Reply(req, code) \/ Reject(req, ev, code))
        => rc' # kResponsePending
    BY DEF Reply, Reject
<1>2. Accept(req, ev) \/ Refuse(req, ev) => rc' # kResponsePending
    BY DEF Accept, Refuse, Reply, kResponsePending, kPositiveResponse
<1> USE DEF kResponsePending, kPositiveResponse, kIncorrectLength, DecodeFails
<1>3. CASE StatelessService(req, ev)
    BY <1>1, <1>2, <1>3 DEF StatelessService, ReadDataByIdentifier, ReadMemoryByAddress,
       CommunicationControl, WriteDataByIdentifier, RoutineControl, ControlDTCSetting,
       NoService
<1>4. CASE TransferService(req, ev)
    BY <1>1, <1>2, <1>4 DEF TransferService, RequestUpDownload, RequestFileTransfer,
       TransferData, RequestTransferExit
<1>5. CASE SecurityAccess(req, ev)
    BY <1>1, <1>2, <1>5 DEF SecurityAccess, SendKey, RequestSeed
<1>6. CASE DiagnosticSessionControl(req, ev) \/ ECUReset(req, ev) \/ TesterPresent(req, ev)
    BY <1>1, <1>2, <1>6 DEF DiagnosticSessionControl, ECUReset, TesterPresent
<1> QED BY <1>3, <1>4, <1>5, <1>6 DEF EvaluateServiceResponse

(* A transfer that is active after an evaluation was left alone, began, or *)
(* went on by one block.                                                   *)
LEMMA EvaluateXfer ==
    ASSUME TypeOK, NEW req \in Requests, NEW ev, ev # kResponsePending,
           EvaluateServiceResponse(req, ev), xfer'.active
    PROVE  \/ xfer' = xfer /\ (ev = NoEvent \/ req.sid \notin {"0x36", "0x37", "0x38"})
           \/ req.sid = "0x38" /\ ev = kPositiveResponse /\ xfer'.bytes = 0
           \/ req.sid \in {"0x34", "0x35"} /\ ev = kPositiveResponse
           \/ /\ req.sid = "0x36" /\ ev = kPositiveResponse
              /\ xfer.active /\ xfer'.bytes = xfer.bytes + req.len
<1> USE DEF kResponsePending, kPositiveResponse
<1>1. xfer \in Xfer BY DEF TypeOK
<1>2. ~ResetTransfer BY DEF ResetTransfer, NoTransfer
<1>3. CASE xfer' = xfer /\ req.sid \notin {"0x36", "0x37", "0x38"} BY <1>3
<1>4. CASE TransferService(req, ev)
    <2>1. CASE RequestUpDownload(req, ev)
        BY <2>1 DEF RequestUpDownload, Accept
    <2>2. CASE RequestFileTransfer(req, ev)
        <3>1. CASE Accept(req, ev)
            <4>1. xfer'.bytes = 0
                BY <2>2, <3>1, <1>1 DEF RequestFileTransfer, StartTransfer, NoTransfer, Accept,
                   Refuse, DecodeFails, Reject, NoEvent
            <4> QED BY <2>2, <3>1, <4>1 DEF RequestFileTransfer, Accept
        <3>2. CASE ~Accept(req, ev)
            <4>1. xfer' = xfer BY <2>2, <3>2 DEF RequestFileTransfer
            <4> QED BY <2>2, <3>2, <4>1 DEF RequestFileTransfer, DecodeFails, Reject
        <3> QED BY <3>1, <3>2
    <2>3. CASE TransferData(req, ev)
        <3>1. CASE ~xfer.active
            BY <2>3, <3>1, <1>2 DEF TransferData
        <3>2. CASE xfer.active
            <4>1. /\ ev = kPositiveResponse
                  /\ xfer' = [xfer EXCEPT !.seq = NextSeq, !.bytes = @ + req.len]
                BY <2>3, <3>2, <1>2 DEF TransferData, Accept
            <4> QED BY <2>3, <3>2, <4>1, <1>1 DEF TransferData, Xfer
        <3> QED BY <3>1, <3>2
    <2>4. CASE RequestTransferExit(req, ev)
        BY <2>4, <1>2 DEF RequestTransferExit, Reject
    <2> QED BY <1>4, <2>1, <2>2, <2>3, <2>4 DEF TransferService
<1>5. CASE StatelessService(req, ev)
    BY <1>3, <1>5 DEF StatelessService, ReadDataByIdentifier, ReadMemoryByAddress,
       CommunicationControl, WriteDataByIdentifier, RoutineControl, ControlDTCSetting,
       NoService
<1>6. CASE DiagnosticSessionControl(req, ev) BY <1>3, <1>6 DEF DiagnosticSessionControl
<1>7. CASE ECUReset(req, ev) BY <1>3, <1>7 DEF ECUReset
<1>8. CASE SecurityAccess(req, ev) BY <1>3, <1>8 DEF SecurityAccess
<1>9. CASE TesterPresent(req, ev) BY <1>3, <1>9 DEF TesterPresent
<1> QED BY <1>4, <1>5, <1>6, <1>7, <1>8, <1>9 DEF EvaluateServiceResponse

-----------------------------------------------------------------------------
(***************************************************************************)
(* The steps.                                                              *)
(***************************************************************************)
LEMMA ServeStep ==
    ASSUME IInv, NEW ev \in Events, Serve(ev)
    PROVE  IInv'
<1> USE DEF IInv
<1>1. /\ PollNewRequest(ev) /\ ProcessUdsEvent(inbox, ev)
      /\ EvaluateServiceResponse(inbox, ev)
      /\ RCRRP' = (RCRRP \/ rc' = kResponsePending)
    BY DEF Serve, PollNewRequest
<1>2. inbox \in Requests BY <1>1 DEF PollNewRequest, TypeOK
<1>3. [Next]_vars BY <1>1 DEF Next, PollStep
<1>4. TypeOK' BY <1>3, TypeStep
<1>5. /\ AppInv' /\ ev # kResponsePending
      /\ \/ HandleRequestFileTransfer(inbox, ev)
         \/ HandleTransferData(inbox, ev)
         \/ HandleRequestTransferExit(inbox, ev)
         \/ /\ FilesUntouched
            /\ ev = NoEvent \/ inbox.sid \notin {"0x36", "0x37", "0x38"}
            /\ inbox.sid \in {"0x34", "0x35"} => ev # kPositiveResponse
    BY <1>1, <1>2, EventApp
<1>6. ~RCRRP' BY <1>1, <1>5, NotPending
<1>7. FileFollowsTransfer'
    <2>1. SUFFICES ASSUME xfer'.active PROVE FileFollowsTransfer'
        BY DEF FileFollowsTransfer
    <2>2. \/ xfer' = xfer /\ (ev = NoEvent \/ inbox.sid \notin {"0x36", "0x37", "0x38"})
          \/ inbox.sid = "0x38" /\ ev = kPositiveResponse /\ xfer'.bytes = 0
          \/ inbox.sid \in {"0x34", "0x35"} /\ ev = kPositiveResponse
          \/ /\ inbox.sid = "0x36" /\ ev = kPositiveResponse
             /\ xfer.active /\ xfer'.bytes = xfer.bytes + inbox.len
        BY <1>1, <1>2, <1>5, <2>1, EvaluateXfer
    <2>3. CASE HandleRequestFileTransfer(inbox, ev)
        <3>1. inbox.sid = "0x38" /\ ev # NoEvent
            BY <2>3 DEF HandleRequestFileTransfer, NoEvent, kPositiveResponse
        <3>2. ev = kPositiveResponse /\ xfer'.bytes = 0 BY <2>2, <3>1
        <3>3. PICK f \in Files : /\ fw_filename_' = f
                                 /\ fw_file_' = [file |-> f, buffered |-> 0]
                                 /\ content' = [content EXCEPT ![f] = 0]
            BY <2>3, <3>2 DEF HandleRequestFileTransfer, kPositiveResponse
        <3>4. fw_file_'.file = f /\ fw_file_'.buffered = 0 /\ content'[f] = 0
            BY <3>3 DEF AppInv, AppTyped
        <3>5. fw_file_' # NoHandle BY <3>3, <3>4, FilesAssumption DEF NoHandle
        <3> QED BY <3>2, <3>3, <3>4, <3>5 DEF FileFollowsTransfer
    <2>4. CASE HandleTransferData(inbox, ev)
        <3>1. inbox.sid = "0x36" BY <2>4 DEF HandleTransferData
        <3>2. /\ fw_filename_' = fw_filename_ /\ ev # NoEvent
              /\ ev = kPositiveResponse /\ fw_file_ # NoHandle =>
                   /\ fw_file_' # NoHandle /\ fw_file_'.file = fw_file_.file
                   /\ content'[fw_file_.file] + fw_file_'.buffered
                        = content[fw_file_.file] + fw_file_.buffered + inbox.len
            BY <1>2, <2>4, TransferDataApp DEF NoEvent, kPositiveResponse
        <3>3. ev = kPositiveResponse /\ xfer.active /\ xfer'.bytes = xfer.bytes + inbox.len
            BY <2>2, <3>1, <3>2
        <3>4. /\ fw_file_ # NoHandle /\ fw_file_.file = fw_filename_
              /\ content[fw_filename_] + fw_file_.buffered = xfer.bytes
            BY <3>3 DEF FileFollowsTransfer
        <3> QED BY <3>2, <3>3, <3>4 DEF FileFollowsTransfer, NoHandle
    <2>5. CASE HandleRequestTransferExit(inbox, ev)
        BY <2>2, <2>5 DEF HandleRequestTransferExit, NoEvent, kPositiveResponse
    <2>6. CASE /\ FilesUntouched
               /\ ev = NoEvent \/ inbox.sid \notin {"0x36", "0x37", "0x38"}
               /\ inbox.sid \in {"0x34", "0x35"} => ev # kPositiveResponse
        <3>1. xfer' = xfer BY <2>2, <2>6 DEF NoEvent, kPositiveResponse
        <3> QED BY <2>6, <3>1 DEF FilesUntouched, FileFollowsTransfer, NoHandle
    <2> QED BY <1>5, <2>3, <2>4, <2>5, <2>6
<1> QED BY <1>4, <1>5, <1>6, <1>7

(* Steps of the server, the clock and the client that do not call a        *)
(* handler, or only the one for the reset; and the end of the upgrade.     *)
Quiet ==
    /\ [Next]_vars /\ UNCHANGED <<xfer, RCRRP>> /\ FilesUntouched
    /\ upgrade_thread_' \in {"none", "running", "ended"}
    /\ serving' \in BOOLEAN /\ rebooting' \in BOOLEAN

LEMMA QuietStep ==
    ASSUME IInv, Quiet
    PROVE  IInv'
<1>1. TypeOK' BY TypeStep DEF IInv, Quiet
<1>2. AppInv' BY UntouchedApp DEF IInv, Quiet
<1>3. FileFollowsTransfer'
    BY DEF IInv, Quiet, FileFollowsTransfer, FilesUntouched, NoHandle
<1> QED BY <1>1, <1>2, <1>3 DEF IInv, Quiet

LEMMA PollIsQuiet ==
    ASSUME IInv, Poll
    PROVE  Quiet
<1>1. UNCHANGED <<xfer, RCRRP>> /\ [Next]_vars
    <2>1. PollTimers \/ PollIdle \/ PollWait \/ PollRespond BY DEF Poll
    <2>2. UNCHANGED <<xfer, RCRRP>>
        BY <2>1 DEF PollTimers, PollIdle, PollWait, PollRespond, progress
    <2> QED BY <2>1, <2>2 DEF Next, PollStep
<1>2. /\ FilesUntouched /\ UNCHANGED <<upgrade_thread_, serving>> /\ rebooting' \in {rebooting, TRUE}
    BY DEF Poll, HandleDoScheduledReset, FilesUntouched, app, disk
<1> QED BY <1>1, <1>2 DEF Quiet, IInv, AppInv, AppTyped

(* A new process over what the disk has: nothing that an exit closed is    *)
(* lost.                                                                   *)
LEMMA BootStep ==
    ASSUME IInv, Boot, content' \in [Files -> Nat \cup {Absent, Damaged}],
           synced' \subseteq Files, synced \subseteq synced',
           \A f \in synced : content'[f] = content[f]
    PROVE  IInv'
<1>1. TypeOK'
    <2>1. xfer' = [active |-> FALSE, seq |-> 0, bytes |-> 0, total |-> 0]
        BY DEF Boot, NoTransfer
    <2>2. xfer' \in Xfer BY <2>1, DurationsAssumption DEF Xfer
    <2>3. timer' \in [TimerName -> Nat]
        BY DurationsAssumption DEF Boot, TimerName, Due
    <2>4. rc' \in Codes /\ resp' \in Codes
        BY DEF Boot, Codes, ServerCodes, kPositiveResponse
    <2>5. /\ pc' \in {"poll", "serve", "evaluated", "respond"}
          /\ inbox' \in Requests \cup {NoRequest}
          /\ requestInProgress' => inbox' # NoRequest
          /\ notReadyToReceive' \in BOOLEAN
          /\ RCRRP' \in BOOLEAN /\ requestInProgress' \in BOOLEAN
        BY Zenon DEF Boot
    <2>6. /\ sessionType' \in 0..127 /\ securityLevel' \in 0..255
          /\ ecuResetScheduled' \in 0..63
          /\ lag' \in 0..MaxLag
          /\ blocks' \in Nat /\ fails' \in Nat /\ age' \in 0..MaxAge
        BY DurationsAssumption DEF Boot
    <2> QED BY <2>2, <2>3, <2>4, <2>5, <2>6 DEF TypeOK
<1>2. ~RCRRP' /\ ~xfer'.active BY DEF Boot, NoTransfer
<1>3. FileFollowsTransfer' BY <1>2 DEF FileFollowsTransfer
<1>4. AppTyped'
    BY DEF Boot, IInv, AppInv, AppTyped
<1>5. OpenFileThere' BY DEF Boot, OpenFileThere, NoHandle
<1>6. ExitedFileSafe'
    BY DEF Boot, IInv, AppInv, ExitedFileSafe, NoHandle, NotExited
<1> QED BY <1>1, <1>2, <1>3, <1>4, <1>5, <1>6 DEF IInv, AppInv

LEMMA InvariantStep ==
    ASSUME IInv, [AllNext]_allVars
    PROVE  IInv'
<1>0. AppTyped BY DEF IInv, AppInv
<1>1. CASE \E ev \in Events : Serve(ev) BY <1>1, ServeStep
<1>2. CASE Poll BY <1>2, PollIsQuiet, QuietStep
<1>3. CASE UpgradeEnds
    BY <1>0, <1>3, QuietStep DEF UpgradeEnds, Quiet, FilesUntouched, AppTyped, disk, vars, progress
<1>4. CASE Kill
    BY <1>0, <1>4, BootStep DEF Kill, disk, AppTyped
<1>5. CASE PowerCut
    <2>1. PICK lost \in SUBSET (Files \ synced) :
            content' = [f \in Files |-> IF f \in lost THEN Damaged ELSE content[f]]
        BY <1>5 DEF PowerCut
    <2>2. Boot /\ synced' = Files BY <1>5 DEF PowerCut
    <2>3. content' \in [Files -> Nat \cup {Absent, Damaged}] BY <1>0, <2>1 DEF AppTyped
    <2>4. \A f \in synced : content'[f] = content[f] BY <1>0, <2>1 DEF AppTyped
    <2> QED BY <1>0, <2>2, <2>3, <2>4, BootStep DEF AppTyped
<1>6. CASE Reboot
    BY <1>0, <1>6, BootStep DEF Reboot, AppTyped
<1>7. CASE (Tick \/ \E req \in Requests : Receive(req)) /\ UNCHANGED app
    <2>1. [Next]_vars /\ UNCHANGED <<xfer, RCRRP>>
        BY <1>7 DEF Next, Tick, Receive, progress
    <2>2. FilesUntouched /\ UNCHANGED <<upgrade_thread_, serving, rebooting>>
        BY <1>7 DEF app, FilesUntouched
    <2> QED BY <1>0, <2>1, <2>2, QuietStep DEF Quiet, AppTyped
<1>8. CASE UNCHANGED allVars
    <2>1. UNCHANGED vars /\ FilesUntouched /\ UNCHANGED <<upgrade_thread_, serving, rebooting>>
        BY <1>8 DEF allVars, app, FilesUntouched
    <2> QED BY <1>0, <2>1, QuietStep DEF Quiet, AppTyped, vars, progress
<1> QED BY <1>1, <1>2, <1>3, <1>4, <1>5, <1>6, <1>7, <1>8 DEF AllNext, Step

LEMMA InitIInv == AllInit => IInv
<1> SUFFICES ASSUME AllInit PROVE IInv
    OBVIOUS
<1>1. TypeOK BY InitType DEF AllInit
<1>2. ~RCRRP /\ ~xfer.active BY DEF AllInit, Init, NoTransfer
<1>3. AppTyped BY DEF AllInit, AppInit, AppTyped
<1>4. OpenFileThere /\ ExitedFileSafe
    BY DEF AllInit, AppInit, OpenFileThere, ExitedFileSafe
<1> QED BY <1>1, <1>2, <1>3, <1>4 DEF IInv, AppInv, FileFollowsTransfer

LEMMA Invariant == AllSpec => []IInv
<1>1. IInv /\ [AllNext]_allVars => IInv' BY InvariantStep
<1> QED BY <1>1, InitIInv, PTL DEF AllSpec

-----------------------------------------------------------------------------
(***************************************************************************)
(* The theorems.                                                           *)
(***************************************************************************)
(* Types, and the application never leaves a request pending. *)
THEOREM AppTypeCorrect == AllSpec => []AppTypeOK
<1>1. IInv => AppTypeOK BY DEF IInv, AppInv, AppTyped, AppTypeOK
<1> QED BY <1>1, Invariant, PTL

(* In every state of a transfer the file is open, the right one, and as    *)
(* long as the server thinks.                                              *)
THEOREM FileFollows == AllSpec => []FileFollowsTransfer
<1>1. IInv => FileFollowsTransfer BY DEF IInv
<1> QED BY <1>1, Invariant, PTL

(* What a transfer exit closed survives kills, power cuts and whatever the *)
(* client does to other files.                                             *)
THEOREM ExitedKept == AllSpec => []ExitedFileKept
<1>1. IInv => ExitedFileKept BY DEF IInv, AppInv, ExitedFileSafe, ExitedFileKept
<1> QED BY <1>1, Invariant, PTL
=============================================================================
