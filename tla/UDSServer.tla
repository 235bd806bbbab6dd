----------------------------- MODULE UDSServer -----------------------------
(***************************************************************************)
(* The UDS (ISO 14229) server of upgrade_server/src/iso14229.c: the poll   *)
(* loop UDSServerPoll, evaluateServiceResponse and the service handlers    *)
(* _0x10_ ... _0x85_, over a transport that keeps the contract written at  *)
(* UDSTpHandle in iso14229.h (one message until ack_recv).                 *)
(*                                                                         *)
(* The application's event handler srv->fn is open: a step picks its       *)
(* answer `ev' from Answers.  UpgradeServer.tla closes it.                 *)
(*                                                                         *)
(* Time: every timer is kept as the number of ticks left until             *)
(* UDSTimeAfter(UDSMillis(), timer) becomes true, 0 meaning it is true.    *)
(* The 32-bit wrap of the millisecond clock is outside this module.        *)
(***************************************************************************)
EXTENDS Integers

CONSTANTS
    Requests,      \* the messages a client may send (a subset of Request)
    NoRequest,     \* the transport holds no message
    Answers,       \* what srv->fn may answer to an event
    SeqMod,        \* 2^8: xferBlockSequenceCounter is a uint8_t
    P2, P2StarWait, S3, BootDelay, AuthFailDelay,  \* durations, in ticks
    PowerDown,     \* the powerDownTimeMillis fn leaves in UDSECUResetArgs_t
    MaxLag,        \* bound: ticks between the starts of two polls
    MaxAge         \* bound: ticks after boot in which `fails' is counted

(***************************************************************************)
(* Response codes (enum UDSDiagnosticNegativeResponse...), named as in the *)
(* header; only the codes the control flow tells apart.                    *)
(***************************************************************************)
kPositiveResponse   == "kPositiveResponse"
kResponsePending    == "kRequestCorrectlyReceived_ResponsePending"
kIncorrectLength    == "kIncorrectMessageLengthOrInvalidFormat"
SuppressedIfFunctional ==
    {"kServiceNotSupported", "kSubFunctionNotSupported",
     "kServiceNotSupportedInActiveSession",
     "kSubFunctionNotSupportedInActiveSession", "kRequestOutOfRange"}

ServerCodes ==                  \* what the services answer of their own
    SuppressedIfFunctional \cup
    {kPositiveResponse, kIncorrectLength, "kResponseTooLong", "kGeneralProgrammingFailure",
     "kConditionsNotCorrect", "kUploadDownloadNotAccepted", "kRequestSequenceError",
     "kTransferDataSuspended", "kRequiredTimeDelayNotExpired", "kExceedNumberOfAttempts"}

NoResponse == "NoResponse"   \* send_len = 0
NoEvent    == "NoEvent"      \* the service decided without calling srv->fn
\* fn answers kPositiveResponse, but copied too little into the response, or
\* left a maxNumberOfBlockLength below 3.
Insufficient == "Insufficient"

SIDs == {"0x10", "0x11", "0x22", "0x23", "0x27", "0x28", "0x2E", "0x31",
         "0x34", "0x35", "0x36", "0x37", "0x38", "0x3E", "0x85", "other"}

(***************************************************************************)
(* A request, by what the handlers read of it.  form: "ok", "short" (a     *)
(* length check fails) or "range" (an address, size or length format is    *)
(* out of range).  sub: byte 1 (sub-function or mode of operation; for     *)
(* 0x36 the block sequence counter).  len: the payload's length, or the    *)
(* announced size.  functional: A_TA_Type is functional.                   *)
(***************************************************************************)
Request == [sid : SIDs, form : {"ok", "short", "range"}, sub : 0..255,
            len : Nat, functional : BOOLEAN]

ASSUME RequestsAssumption ==
    /\ Requests \subseteq Request
    /\ NoRequest \notin Request
ASSUME AnswersAssumption ==
    /\ kPositiveResponse \in Answers
    /\ NoEvent \notin Answers /\ NoResponse \notin Answers
ASSUME DurationsAssumption ==
    /\ SeqMod \in Nat /\ SeqMod >= 2
    /\ P2 \in Nat /\ P2StarWait \in Nat /\ S3 \in Nat /\ PowerDown \in Nat
    /\ BootDelay \in Nat /\ AuthFailDelay \in Nat
    /\ MaxLag \in Nat /\ MaxLag >= 1 /\ MaxAge \in Nat

-----------------------------------------------------------------------------
VARIABLES
    pc,                 \* where the main thread is in UDSServerPoll
    inbox,              \* the transport's receive slot, r->recv_buf
    sessionType, securityLevel,
    xfer,               \* [active, seq, bytes, total]: the xfer* fields
    ecuResetScheduled, notReadyToReceive, RCRRP, requestInProgress,
    timer,              \* ticks left of each deadline
    rc,                 \* what evaluateServiceResponse returned
    resp,               \* what r->send_buf holds for the client
    lag,                \* ticks since the last poll began
    blocks,             \* history: blocks accepted in the current transfer
    fails, age          \* history: failed key validations, ticks since boot

session  == <<sessionType, securityLevel>>
reset    == <<ecuResetScheduled, notReadyToReceive>>
response == <<rc, resp>>
progress == <<RCRRP, requestInProgress>>
history  == <<blocks, fails>>
clock    == <<lag, age>>
vars == <<pc, inbox, session, xfer, reset, progress, timer, response, history, clock>>

TimerName == {"p2", "s3", "authFail", "bootDelay", "ecuReset"}

\* UDSTimeAfter(UDSMillis(), t) is strict: a deadline d ticks away has passed
\* after d + 1 ticks.
Due(d) == d + 1
Expired(t) == timer[t] = 0
StartTimer(t, d) == timer' = [timer EXCEPT ![t] = Due(d)]

NoTransfer == [active |-> FALSE, seq |-> 1, bytes |-> 0, total |-> 0]

(* UDSServerInit; the memset leaves xferBlockSequenceCounter at 0. *)
Init ==
    /\ pc = "poll" /\ inbox = NoRequest
    /\ sessionType = 1 /\ securityLevel = 0
    /\ xfer = [NoTransfer EXCEPT !.seq = 0]
    /\ ecuResetScheduled = 0 /\ notReadyToReceive = FALSE
    /\ RCRRP = FALSE /\ requestInProgress = FALSE
    /\ timer = [p2 |-> Due(P2), s3 |-> Due(S3), bootDelay |-> Due(BootDelay),
                authFail |-> Due(0), ecuReset |-> 0]
    /\ rc = kPositiveResponse /\ resp = NoResponse
    /\ blocks = 0 /\ fails = 0 /\ lag = 0 /\ age = 0

-----------------------------------------------------------------------------
(***************************************************************************)
(* What a service leaves in the response.                                  *)
(***************************************************************************)
HasSubFunction(req) ==
    req.sid \in {"0x10", "0x11", "0x27", "0x28", "0x31", "0x3E", "0x85"}

SuppressBit(req) == HasSubFunction(req) /\ req.sub >= 128

(* The end of evaluateServiceResponse: what remains in send_buf. *)
Deliver(req, code, wire) ==
    IF \/ req.functional /\ code \in SuppressedIfFunctional
       \/ SuppressBit(req) /\ code = kPositiveResponse
    THEN NoResponse ELSE wire

Reply(req, code) == rc' = code /\ resp' = Deliver(req, code, code)

(* The service answers `code' before it has called srv->fn. *)
Reject(req, ev, code) == ev = NoEvent /\ Reply(req, code)

(* The service answers what srv->fn answered, and fn refused or delayed. *)
Refuse(req, ev) == ev \in Answers \ {kPositiveResponse, Insufficient} /\ Reply(req, ev)

(* The service answers positively after srv->fn did. *)
Accept(req, ev) == ev = kPositiveResponse /\ Reply(req, kPositiveResponse)

-----------------------------------------------------------------------------
(***************************************************************************)
(* Services that change no field of UDSServer_t.                           *)
(***************************************************************************)
ReadDataByIdentifier(req, ev) ==
    /\ req.sid = "0x22"
    /\ \/ req.form = "short" /\ Reject(req, ev, kIncorrectLength)
       \/ req.form = "range" /\ Reject(req, ev, "kResponseTooLong")
       \/ req.form = "ok" /\ (Accept(req, ev) \/ Refuse(req, ev))

(* decodeAddressAndLength, shared by 0x23, 0x34 and 0x35. *)
DecodeFails(req, ev) ==
    \/ req.form = "short" /\ Reject(req, ev, kIncorrectLength)
    \/ req.form = "range" /\ Reject(req, ev, "kRequestOutOfRange")

(* A response of the wrong length returns an error code but leaves the     *)
(* positive response in send_buf.                                          *)
ReadMemoryByAddress(req, ev) ==
    /\ req.sid = "0x23"
    /\ \/ DecodeFails(req, ev)
       \/ req.form = "ok" /\ (Accept(req, ev) \/ Refuse(req, ev))
       \/ /\ req.form = "ok" /\ ev = Insufficient
          /\ rc' = "kGeneralProgrammingFailure"
          /\ resp' = Deliver(req, rc', kPositiveResponse)

CommunicationControl(req, ev) ==
    /\ req.sid = "0x28"
    /\ \/ req.form = "short" /\ Reject(req, ev, kIncorrectLength)
       \/ req.form # "short" /\ (Accept(req, ev) \/ Refuse(req, ev))

WriteDataByIdentifier(req, ev) ==
    /\ req.sid = "0x2E"
    /\ \/ req.form = "short" /\ Reject(req, ev, kIncorrectLength)
       \/ req.form # "short" /\ (Accept(req, ev) \/ Refuse(req, ev))

(* kStartRoutine, kStopRoutine and kRequestRoutineResults reach fn. *)
RoutineControl(req, ev) ==
    /\ req.sid = "0x31"
    /\ \/ req.form = "short" /\ Reject(req, ev, kIncorrectLength)
       \/ /\ req.form # "short" /\ req.sub % 128 \in 1..3
          /\ Accept(req, ev) \/ Refuse(req, ev)
       \/ /\ req.form # "short" /\ req.sub % 128 \notin 1..3
          /\ Reject(req, ev, "kRequestOutOfRange")

ControlDTCSetting(req, ev) ==
    /\ req.sid = "0x85"
    /\ \/ req.form = "short" /\ Reject(req, ev, kIncorrectLength)
       \/ req.form # "short" /\ Reject(req, ev, kPositiveResponse)

(* getServiceForSID returned NULL: no suppression, even if functional. *)
NoService(req, ev) ==
    /\ req.sid = "other" /\ ev = NoEvent
    /\ rc' = "kServiceNotSupported" /\ resp' = "kServiceNotSupported"

StatelessService(req, ev) ==
    /\ \/ ReadDataByIdentifier(req, ev)
       \/ ReadMemoryByAddress(req, ev)
       \/ CommunicationControl(req, ev)
       \/ WriteDataByIdentifier(req, ev)
       \/ RoutineControl(req, ev)
       \/ ControlDTCSetting(req, ev)
       \/ NoService(req, ev)
    /\ UNCHANGED <<session, xfer, reset, timer, history>>

-----------------------------------------------------------------------------
(***************************************************************************)
(* Sessions, reset and security access.                                    *)
(***************************************************************************)
kDefaultSession == 1

(* recv_buf[1] & 0x4F *)
SessionOf(sub) == (sub % 16) + 64 * ((sub \div 64) % 2)

DiagnosticSessionControl(req, ev) ==
    /\ req.sid = "0x10"
    /\ \/ /\ \/ req.form = "short" /\ Reject(req, ev, kIncorrectLength)
             \/ req.form # "short" /\ Refuse(req, ev)
          /\ UNCHANGED <<sessionType, timer>>
       \/ /\ req.form # "short" /\ Accept(req, ev)
          /\ sessionType' = SessionOf(req.sub)
          /\ IF sessionType' = kDefaultSession THEN UNCHANGED timer
                                               ELSE StartTimer("s3", S3)
    /\ UNCHANGED <<securityLevel, xfer, reset, history>>

(* Mutants: a reset that leaves the server listening; a reset whose delay  *)
(* is not taken from the arguments fn filled in.                           *)
ECUResetListening(req, ev) ==
    /\ req.sid = "0x11" /\ req.form # "short" /\ Accept(req, ev)
    /\ ecuResetScheduled' = req.sub % 64
    /\ StartTimer("ecuReset", PowerDown)
    /\ UNCHANGED <<session, xfer, history, notReadyToReceive>>

ECUResetAtOnce(req, ev) ==
    /\ req.sid = "0x11" /\ req.form # "short" /\ Accept(req, ev)
    /\ notReadyToReceive' = TRUE
    /\ ecuResetScheduled' = req.sub % 64
    /\ StartTimer("ecuReset", 0)
    /\ UNCHANGED <<session, xfer, history>>

(* recv_buf[1] & 0x3F; a type of 0 is accepted like any other. *)
ECUReset(req, ev) ==
    /\ req.sid = "0x11"
    /\ \/ /\ \/ req.form = "short" /\ Reject(req, ev, kIncorrectLength)
             \/ req.form # "short" /\ Refuse(req, ev)
          /\ UNCHANGED <<reset, timer>>
       \/ /\ req.form # "short" /\ Accept(req, ev)
          /\ notReadyToReceive' = TRUE
          /\ ecuResetScheduled' = req.sub % 64
          /\ StartTimer("ecuReset", PowerDown)
    /\ UNCHANGED <<session, xfer, history>>

(* UDSSecurityAccessLevelIsReserved, with the mask it applies first. *)
LevelIsReserved(sub) ==
    LET l == sub % 64
    IN  l = 0 \/ (67 <= l /\ l >= 94) \/ l = 127

(* Mutant: a wrong key does not start the failure delay. *)
SendKeyNoDelay(req, ev) ==
    /\ req.sub % 2 = 0 /\ Refuse(req, ev)
    /\ fails' = fails + (IF age < MaxAge THEN 1 ELSE 0)
    /\ UNCHANGED <<timer, securityLevel>>

(* sendKey: an even sub-function.  Every answer of fn other than           *)
(* kPositiveResponse starts the failure delay, 0x78 included.              *)
SendKey(req, ev) ==
    /\ req.sub % 2 = 0
    /\ \/ /\ Refuse(req, ev)
          /\ StartTimer("authFail", AuthFailDelay)
          /\ fails' = fails + (IF age < MaxAge THEN 1 ELSE 0)
          /\ UNCHANGED securityLevel
       \/ /\ Accept(req, ev)
          /\ securityLevel' = req.sub - 1
          /\ UNCHANGED <<timer, fails>>

(* requestSeed: an odd sub-function. *)
RequestSeed(req, ev) ==
    /\ req.sub % 2 = 1
    /\ \/ req.sub = securityLevel /\ Reject(req, ev, kPositiveResponse)
       \/ /\ req.sub # securityLevel
          /\ \/ Accept(req, ev) \/ Refuse(req, ev)
             \/ ev = Insufficient /\ Reply(req, "kGeneralProgrammingFailure")
    /\ UNCHANGED <<securityLevel, timer, fails>>

SecurityAccess(req, ev) ==
    /\ req.sid = "0x27"
    /\ \/ /\ \/ LevelIsReserved(req.sub) /\ Reject(req, ev, kIncorrectLength)
             \/ /\ ~LevelIsReserved(req.sub) /\ ~Expired("bootDelay")
                /\ Reject(req, ev, "kRequiredTimeDelayNotExpired")
             \/ /\ ~LevelIsReserved(req.sub) /\ Expired("bootDelay") /\ ~Expired("authFail")
                /\ Reject(req, ev, "kExceedNumberOfAttempts")
          /\ UNCHANGED <<securityLevel, timer, fails>>
       \/ /\ ~LevelIsReserved(req.sub) /\ Expired("bootDelay") /\ Expired("authFail")
          /\ SendKey(req, ev) \/ RequestSeed(req, ev)
    /\ UNCHANGED <<sessionType, xfer, reset, blocks>>

TesterPresent(req, ev) ==
    /\ req.sid = "0x3E"
    /\ \/ /\ \/ req.form = "short" /\ Reject(req, ev, kIncorrectLength)
             \/ /\ req.form # "short" /\ req.sub \notin {0, 128}
                /\ Reject(req, ev, "kSubFunctionNotSupported")
          /\ UNCHANGED timer
       \/ /\ req.form # "short" /\ req.sub \in {0, 128}
          /\ Reject(req, ev, kPositiveResponse)
          /\ StartTimer("s3", S3)
    /\ UNCHANGED <<session, xfer, reset, history>>

-----------------------------------------------------------------------------
(***************************************************************************)
(* The transfer services.                                                  *)
(***************************************************************************)
StartTransfer(total) ==
    /\ xfer' = [NoTransfer EXCEPT !.active = TRUE, !.total = total]
    /\ blocks' = 0

(* RequestDownload and RequestUpload differ in the event only. *)
RequestUpDownload(req, ev) ==
    /\ req.sid \in {"0x34", "0x35"}
    /\ \/ /\ \/ xfer.active /\ Reject(req, ev, "kConditionsNotCorrect")
             \/ ~xfer.active /\ DecodeFails(req, ev)
             \/ /\ ~xfer.active /\ req.form = "ok"
                /\ \/ Refuse(req, ev)
                   \/ ev = Insufficient /\ Reply(req, "kGeneralProgrammingFailure")
          /\ UNCHANGED <<xfer, blocks>>
       \/ /\ ~xfer.active /\ req.form = "ok" /\ Accept(req, ev)
          /\ StartTransfer(req.len)

kAddFile == 1
kReplaceFile == 3

(* Only AddFile and ReplaceFile carry a file size. *)
RequestFileTransfer(req, ev) ==
    /\ req.sid = "0x38"
    /\ \/ /\ \/ xfer.active /\ Reject(req, ev, "kConditionsNotCorrect")
             \/ ~xfer.active /\ DecodeFails(req, ev)
             \/ ~xfer.active /\ req.form = "ok" /\ Refuse(req, ev)
          /\ UNCHANGED <<xfer, blocks>>
       \/ /\ ~xfer.active /\ req.form = "ok" /\ Accept(req, ev)
          /\ StartTransfer(IF req.sub \in {kAddFile, kReplaceFile} THEN req.len ELSE 0)

(* Mutant: only the flag is cleared. *)
ResetTransferFlagOnly == xfer' = [xfer EXCEPT !.active = FALSE] /\ UNCHANGED blocks

(* Mutant: nothing is cleared. *)
ResetTransferNot == UNCHANGED <<xfer, blocks>>

(* ResetTransfer *)
ResetTransfer == xfer' = NoTransfer /\ UNCHANGED blocks

(* Mutant: the counter is not checked. *)
OutOfSequenceNever(req) == FALSE

(* The counter is checked, and advanced, on the first evaluation only. *)
OutOfSequence(req) == ~RCRRP /\ req.sub # xfer.seq
\* Mutants: no uint8_t wrap; advanced again at every evaluation.
NextSeqUnbounded == IF RCRRP THEN xfer.seq ELSE xfer.seq + 1
NextSeqEveryTime == (xfer.seq + 1) % SeqMod
NextSeq == IF RCRRP THEN xfer.seq ELSE (xfer.seq + 1) % SeqMod

(* Every failure of an active transfer goes through the label `fail'. *)
TransferData(req, ev) ==
    /\ req.sid = "0x36"
    /\ \/ /\ ~xfer.active /\ Reject(req, ev, "kUploadDownloadNotAccepted")
          /\ UNCHANGED <<xfer, blocks>>
       \/ /\ xfer.active
          /\ \/ req.form = "short" /\ Reject(req, ev, kIncorrectLength)
             \/ /\ req.form # "short" /\ OutOfSequence(req)
                /\ Reject(req, ev, "kRequestSequenceError")
             \/ /\ req.form # "short" /\ ~OutOfSequence(req)
                /\ xfer.bytes + req.len > xfer.total
                /\ Reject(req, ev, "kTransferDataSuspended")
             \/ /\ req.form # "short" /\ ~OutOfSequence(req)
                /\ xfer.bytes + req.len <= xfer.total
                /\ ev # kResponsePending /\ Refuse(req, ev)
          /\ ResetTransfer
       \/ /\ xfer.active /\ req.form # "short" /\ ~OutOfSequence(req)
          /\ xfer.bytes + req.len <= xfer.total
          /\ \/ /\ Accept(req, ev)
                /\ xfer' = [xfer EXCEPT !.seq = NextSeq, !.bytes = @ + req.len]
                /\ blocks' = blocks + 1
             \/ /\ ev = kResponsePending /\ Refuse(req, ev)
                /\ xfer' = [xfer EXCEPT !.seq = NextSeq]
                /\ UNCHANGED blocks

(* Mutant: a refused exit leaves the transfer active. *)
RequestTransferExitKeeps(req, ev) ==
    /\ req.sid = "0x37"
    /\ xfer.active /\ Refuse(req, ev)
    /\ UNCHANGED <<xfer, blocks>>

RequestTransferExit(req, ev) ==
    /\ req.sid = "0x37"
    /\ \/ /\ ~xfer.active /\ Reject(req, ev, "kUploadDownloadNotAccepted")
          /\ UNCHANGED <<xfer, blocks>>
       \/ /\ xfer.active /\ ev = kResponsePending /\ Refuse(req, ev)
          /\ UNCHANGED <<xfer, blocks>>
       \/ /\ xfer.active
          /\ Accept(req, ev) \/ (ev # kResponsePending /\ Refuse(req, ev))
          /\ ResetTransfer

TransferService(req, ev) ==
    /\ \/ RequestUpDownload(req, ev)
       \/ RequestFileTransfer(req, ev)
       \/ TransferData(req, ev)
       \/ RequestTransferExit(req, ev)
    /\ UNCHANGED <<session, reset, timer, fails>>

-----------------------------------------------------------------------------
(***************************************************************************)
(* evaluateServiceResponse and UDSServerPoll.                              *)
(***************************************************************************)
EvaluateServiceResponse(req, ev) ==
    \/ StatelessService(req, ev)
    \/ DiagnosticSessionControl(req, ev)
    \/ ECUReset(req, ev)
    \/ SecurityAccess(req, ev)
    \/ TesterPresent(req, ev)
    \/ TransferService(req, ev)

Events == Answers \cup {NoEvent}

(* The transport hands the server a message once the last was acknowledged. *)
Receive(req) ==
    /\ inbox = NoRequest
    /\ inbox' = req
    /\ UNCHANGED <<pc, session, xfer, reset, progress, timer, response, history, clock>>

Tick ==
    /\ lag < MaxLag
    /\ lag' = lag + 1
    /\ timer' = [t \in TimerName |-> IF timer[t] > 0 THEN timer[t] - 1 ELSE 0]
    /\ age' = IF age < MaxAge THEN age + 1 ELSE age
    /\ UNCHANGED <<pc, inbox, session, xfer, reset, progress, response, history>>

(* Mutant: a server that is not ready to receive skips its timers. *)
PollTimersWhenReady ==
    /\ pc = "poll" /\ pc' = "serve" /\ lag' = 0
    /\ ecuResetScheduled' = IF ~notReadyToReceive /\ Expired("ecuReset")
                            THEN 0 ELSE ecuResetScheduled
    /\ UNCHANGED <<inbox, session, xfer, notReadyToReceive, progress, timer,
                   response, history, age>>

(* The poll's start.  UDS_SRV_EVT_SessionTimeout reaches fn, which cannot  *)
(* be seen here; UDS_SRV_EVT_DoScheduledReset has fn clear the schedule.   *)
PollTimers ==
    /\ pc = "poll"
    /\ pc' = "serve" /\ lag' = 0
    /\ ecuResetScheduled' = IF ecuResetScheduled # 0 /\ Expired("ecuReset")
                            THEN 0 ELSE ecuResetScheduled
    /\ UNCHANGED <<inbox, session, xfer, notReadyToReceive, progress, timer,
                   response, history, age>>

(* Not ready, or nothing to peek at. *)
PollIdle ==
    /\ pc = "serve" /\ ~requestInProgress
    /\ notReadyToReceive \/ inbox = NoRequest
    /\ pc' = "poll"
    /\ UNCHANGED <<inbox, session, xfer, reset, progress, timer, response, history, clock>>

(* Mutant: a request is heard whether the server is ready or not. *)
PollNewRequestAnyway(ev) ==
    /\ pc = "serve" /\ ~requestInProgress /\ inbox # NoRequest
    /\ EvaluateServiceResponse(inbox, ev)
    /\ requestInProgress' = TRUE
    /\ RCRRP' = (RCRRP \/ rc' = kResponsePending)
    /\ pc' = "poll"
    /\ UNCHANGED <<inbox, clock>>

PollNewRequest(ev) ==
    /\ pc = "serve" /\ ~requestInProgress
    /\ ~notReadyToReceive /\ inbox # NoRequest
    /\ EvaluateServiceResponse(inbox, ev)
    /\ requestInProgress' = TRUE
    /\ RCRRP' = (RCRRP \/ rc' = kResponsePending)
    /\ pc' = "poll"
    /\ UNCHANGED <<inbox, clock>>

(* A pending request is evaluated again in every poll ... *)
PollPending(ev) ==
    /\ pc = "serve" /\ requestInProgress /\ RCRRP
    /\ EvaluateServiceResponse(inbox, ev)
    /\ pc' = "evaluated"
    /\ UNCHANGED <<inbox, progress, clock>>

(* Mutants: the end of pending is not noted; only the deafness stays.      *)
PollEvaluatedForgets ==
    /\ pc = "evaluated" /\ pc' = "respond"
    /\ notReadyToReceive' = (rc = kResponsePending)
    /\ StartTimer("p2", P2)
    /\ UNCHANGED <<inbox, session, xfer, ecuResetScheduled, progress, response,
                   history, clock>>

PollEvaluatedStaysDeaf ==
    /\ pc = "evaluated" /\ pc' = "respond"
    /\ notReadyToReceive' = TRUE
    /\ RCRRP' = (rc = kResponsePending)
    /\ IF RCRRP' THEN UNCHANGED timer ELSE StartTimer("p2", P2)
    /\ UNCHANGED <<inbox, session, xfer, ecuResetScheduled, requestInProgress,
                   response, history, clock>>

(* ... and stays pending or not by what came out. *)
PollEvaluated ==
    /\ pc = "evaluated"
    /\ IF rc = kResponsePending
       THEN /\ notReadyToReceive' = TRUE
            /\ UNCHANGED <<RCRRP, timer>>
       ELSE /\ RCRRP' = FALSE
            /\ notReadyToReceive' = FALSE
            /\ StartTimer("p2", P2)
    /\ pc' = "respond"
    /\ UNCHANGED <<inbox, session, xfer, ecuResetScheduled, requestInProgress,
                   response, history, clock>>

AtRespond ==
    pc = "respond" \/ (pc = "serve" /\ requestInProgress /\ ~RCRRP)

PollWait ==
    /\ AtRespond /\ ~Expired("p2")
    /\ pc' = "poll"
    /\ UNCHANGED <<inbox, session, xfer, reset, progress, timer, response, history, clock>>

(* UDSTpSend of r->send_buf.  The final response releases the transport.   *)
PollRespond ==
    /\ AtRespond /\ Expired("p2")
    /\ IF RCRRP
       THEN /\ StartTimer("p2", P2StarWait)
            /\ UNCHANGED <<inbox, requestInProgress>>
       ELSE /\ StartTimer("p2", P2)
            /\ inbox' = NoRequest
            /\ requestInProgress' = FALSE
    /\ pc' = "poll"
    /\ UNCHANGED <<session, xfer, reset, RCRRP, response, history, clock>>

PollStep ==
    \/ PollTimers
    \/ PollIdle
    \/ \E ev \in Events : PollNewRequest(ev)
    \/ \E ev \in Events : PollPending(ev)
    \/ PollEvaluated
    \/ PollWait
    \/ PollRespond

Next ==
    \/ \E req \in Requests : Receive(req)
    \/ Tick
    \/ PollStep

(* main() polls for ever, time passes, and fn does not answer 0x78 for     *)
(* ever to one request.                                                    *)
FnDecides == \E ev \in Events \ {kResponsePending} : PollPending(ev)

Fairness == WF_vars(PollStep) /\ WF_vars(Tick) /\ SF_vars(FnDecides)

Spec == Init /\ [][Next]_vars /\ Fairness

-----------------------------------------------------------------------------
(***************************************************************************)
(* Properties.                                                             *)
(***************************************************************************)
Xfer == [active : BOOLEAN, seq : 0..SeqMod-1, bytes : Nat, total : Nat]
Codes == ServerCodes \cup Answers \cup {NoResponse}

(* Every variable keeps its type: in particular the block counter stays a  *)
(* value of its width (xferBlockSequenceCounter++ wraps), and a message is *)
(* in the transport whenever a request is in progress.                     *)
TypeOK ==
    /\ pc \in {"poll", "serve", "evaluated", "respond"}
    /\ inbox \in Requests \cup {NoRequest}
    /\ requestInProgress => inbox # NoRequest
    /\ sessionType \in 0..127 /\ securityLevel \in 0..255
    /\ xfer \in Xfer
    /\ ecuResetScheduled \in 0..63 /\ notReadyToReceive \in BOOLEAN
    /\ RCRRP \in BOOLEAN /\ requestInProgress \in BOOLEAN
    /\ timer \in [TimerName -> Nat]
    /\ rc \in Codes /\ resp \in Codes
    /\ lag \in 0..MaxLag
    /\ blocks \in Nat /\ fails \in Nat /\ age \in 0..MaxAge

(* The server never counts more bytes than the client announced, and every *)
(* way out of a transfer (exit, refused block, write error) goes through   *)
(* ResetTransfer, so that no counter survives into the next one.           *)
XferConsistent ==
    IF xfer.active THEN xfer.bytes <= xfer.total
                   ELSE xfer.bytes = 0 /\ xfer.total = 0 /\ xfer.seq <= 1

(* A block fn keeps pending has advanced the counter but is not accepted.  *)
PendingBlock ==
    requestInProgress /\ inbox.sid = "0x36" /\ rc = kResponsePending

(* blockSequenceCounter is, modulo its width, 1 + the blocks accepted: a   *)
(* block that is evaluated again and again while fn answers 0x78 advances  *)
(* it exactly once.                                                        *)
XferSequence ==
    xfer.active =>
        xfer.seq = (1 + blocks + (IF PendingBlock THEN 1 ELSE 0)) % SeqMod

(* What the client is told is what the server did: a TransferData response *)
(* is positive or pending exactly if the transfer goes on, no transfer     *)
(* survives the final answer to an exit, and a transfer that was accepted  *)
(* has begun with nothing received.                                        *)
ReplyTellsTransfer ==
    requestInProgress =>
        /\ inbox.sid = "0x36" => (xfer.active <=> rc \in {kPositiveResponse, kResponsePending})
        /\ inbox.sid = "0x37" => (xfer.active <=> rc = kResponsePending)
        /\ inbox.sid \in {"0x34", "0x35", "0x38"} /\ rc = kPositiveResponse
             => xfer.active /\ xfer.bytes = 0 /\ xfer.seq = 1

(* The delays of 0x27 (iso14229.h:151-159) hold over any history: n failed *)
(* keys take at least the boot delay and n - 1 failure delays.             *)
AttemptsRateLimited ==
    fails > 0 => (fails - 1) * Due(AuthFailDelay) + Due(BootDelay) <= age

(* ecuResetTimer delays the reset until the response has been sent         *)
(* (iso14229.h:733): when a poll is about to issue DoScheduledReset, no    *)
(* response is owed.                                                       *)
ResetFollowsResponse ==
    pc = "poll" /\ ecuResetScheduled # 0 /\ Expired("ecuReset") => ~requestInProgress

(* notReadyToReceive stands for two conditions (iso14229.h:762-767): a     *)
(* request that is pending, which ends, and an accepted reset (9.3.1),     *)
(* which lasts.  A server that accepts a reset when it first hears of it   *)
(* hears nothing more, whatever fn left pending before; and one that does  *)
(* not hears again and again.  Not so a reset that was itself pending: the *)
(* end of pending takes its deafness away.                                 *)
ResetAtOnce ==
    /\ requestInProgress /\ ~RCRRP /\ notReadyToReceive
    /\ inbox.sid = "0x11" /\ rc = kPositiveResponse

ResetIsFinal == [](ResetAtOnce => []notReadyToReceive)

DeafForGood ==
    /\ ResetIsFinal
    /\ []<>~notReadyToReceive \/ <>ResetAtOnce

(* A positive response to ECUReset announces UDS_SRV_EVT_DoScheduledReset  *)
(* (iso14229.h:782), for which ecuResetScheduled must be nonzero (:732).   *)
AcceptedResetIsScheduled ==
    requestInProgress /\ inbox.sid = "0x11" /\ rc = kPositiveResponse
        => ecuResetScheduled # 0

(* Every request gets its final response, however often fn delays it.      *)
Answered == requestInProgress ~> ~requestInProgress

(* A scheduled reset is issued.                                            *)
ResetHappens == ecuResetScheduled # 0 ~> ecuResetScheduled = 0
=============================================================================
