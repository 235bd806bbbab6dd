--------------------------- MODULE UDSServer_proofs ---------------------------
(***************************************************************************)
(* Proofs about the UDS server for every set of requests, every behaviour  *)
(* of the event handler fn and every choice of the durations.              *)
(***************************************************************************)
EXTENDS UDSServer, TLAPS

(* What a service leaves behind has the right type. *)
ServiceType ==
    /\ sessionType' \in 0..127 /\ securityLevel' \in 0..255
    /\ xfer' \in Xfer
    /\ ecuResetScheduled' \in 0..63 /\ notReadyToReceive' \in BOOLEAN
    /\ timer' \in [TimerName -> Nat]
    /\ rc' \in Codes /\ resp' \in Codes
    /\ blocks' \in Nat /\ fails' \in Nat

(* Whatever a service answers, it answers with a code. *)
LEMMA ReplyType ==
    ASSUME NEW req, NEW code \in Codes, Reply(req, code)
    PROVE  rc' \in Codes /\ resp' \in Codes
BY DEF Reply, Deliver, Codes

(* The three ways to answer give codes. *)
LEMMA AnswerType ==
    ASSUME NEW req, NEW ev
    PROVE  /\ Accept(req, ev) => rc' \in Codes /\ resp' \in Codes
           /\ Refuse(req, ev) => rc' \in Codes /\ resp' \in Codes
           /\ \A code \in ServerCodes :
                 Reject(req, ev, code) \/ Reply(req, code) => rc' \in Codes /\ resp' \in Codes
BY ReplyType DEF Accept, Refuse, Reject, Codes, ServerCodes

(* A timer may be started with any natural duration. *)
LEMMA TimerType ==
    ASSUME timer \in [TimerName -> Nat], NEW t \in TimerName, NEW d \in Nat, StartTimer(t, d)
    PROVE  timer' \in [TimerName -> Nat]
BY DEF StartTimer, Due

LEMMA StatelessServiceType ==
    ASSUME TypeOK, NEW req \in Requests, NEW ev, StatelessService(req, ev)
    PROVE  ServiceType
<1>1. rc' \in Codes /\ resp' \in Codes
    <2>1. CASE ReadDataByIdentifier(req, ev)
        BY <2>1, AnswerType DEF ReadDataByIdentifier, ServerCodes, SuppressedIfFunctional, kIncorrectLength
    <2>2. CASE ReadMemoryByAddress(req, ev)
        BY <2>2, AnswerType DEF ReadMemoryByAddress, DecodeFails, ServerCodes, SuppressedIfFunctional, kIncorrectLength,
           Deliver, Codes, NoResponse, kPositiveResponse
    <2>3. CASE CommunicationControl(req, ev)
        BY <2>3, AnswerType DEF CommunicationControl, ServerCodes, SuppressedIfFunctional, kIncorrectLength
    <2>4. CASE WriteDataByIdentifier(req, ev)
        BY <2>4, AnswerType DEF WriteDataByIdentifier, ServerCodes, SuppressedIfFunctional, kIncorrectLength
    <2>5. CASE RoutineControl(req, ev)
        BY <2>5, AnswerType DEF RoutineControl, ServerCodes, SuppressedIfFunctional, kIncorrectLength
    <2>6. CASE ControlDTCSetting(req, ev)
        BY <2>6, AnswerType DEF ControlDTCSetting, ServerCodes, SuppressedIfFunctional, kIncorrectLength, kPositiveResponse
    <2>7. CASE NoService(req, ev)
        BY <2>7 DEF NoService, Codes, ServerCodes, SuppressedIfFunctional
    <2> QED BY <2>1, <2>2, <2>3, <2>4, <2>5, <2>6, <2>7 DEF StatelessService
<1> QED BY <1>1 DEF StatelessService, ServiceType, TypeOK, session, reset, history

LEMMA DiagnosticSessionControlType ==
    ASSUME TypeOK, NEW req \in Requests, NEW ev, DiagnosticSessionControl(req, ev)
    PROVE  ServiceType
<1>1. rc' \in Codes /\ resp' \in Codes
    BY AnswerType DEF DiagnosticSessionControl, ServerCodes, SuppressedIfFunctional, kIncorrectLength
<1>2. req.sub \in 0..255 BY RequestsAssumption DEF Request
<1>3. SessionOf(req.sub) \in 0..127 BY <1>2 DEF SessionOf
<1>4. timer' \in [TimerName -> Nat]
    BY TimerType, DurationsAssumption DEF DiagnosticSessionControl, TypeOK, TimerName
<1>5. sessionType' \in 0..127 BY <1>3 DEF DiagnosticSessionControl, TypeOK
<1> QED BY <1>1, <1>4, <1>5 DEF DiagnosticSessionControl, ServiceType, TypeOK, reset, history

LEMMA ECUResetType ==
    ASSUME TypeOK, NEW req \in Requests, NEW ev, ECUReset(req, ev)
    PROVE  ServiceType
<1>1. rc' \in Codes /\ resp' \in Codes
    BY AnswerType DEF ECUReset, ServerCodes, SuppressedIfFunctional, kIncorrectLength
<1>2. req.sub % 64 \in 0..63 BY RequestsAssumption DEF Request
<1>3. timer' \in [TimerName -> Nat]
    BY TimerType, DurationsAssumption DEF ECUReset, TypeOK, TimerName
<1>4. ecuResetScheduled' \in 0..63
    BY <1>2 DEF ECUReset, TypeOK, reset
<1>5. notReadyToReceive' \in BOOLEAN
    BY Zenon DEF ECUReset, TypeOK, reset
<1> QED BY <1>1, <1>3, <1>4, <1>5 DEF ECUReset, ServiceType, TypeOK, session, history

LEMMA SecurityAccessType ==
    ASSUME TypeOK, NEW req \in Requests, NEW ev, SecurityAccess(req, ev)
    PROVE  ServiceType
<1>1. req.sub \in 0..255 BY RequestsAssumption DEF Request
<1>2. rc' \in Codes /\ resp' \in Codes
    BY AnswerType DEF SecurityAccess, SendKey, RequestSeed, ServerCodes, SuppressedIfFunctional, kIncorrectLength, kPositiveResponse
<1>3. timer' \in [TimerName -> Nat]
    BY TimerType, DurationsAssumption DEF SecurityAccess, SendKey, RequestSeed, TypeOK, TimerName
<1>4. ~LevelIsReserved(req.sub) => req.sub - 1 \in 0..255
    BY <1>1 DEF LevelIsReserved
<1>5. securityLevel' \in 0..255
    BY <1>4 DEF SecurityAccess, SendKey, RequestSeed, TypeOK
<1>6. fails' \in Nat BY DEF SecurityAccess, SendKey, RequestSeed, TypeOK
<1> QED BY <1>2, <1>3, <1>5, <1>6 DEF SecurityAccess, ServiceType, TypeOK, reset

LEMMA TesterPresentType ==
    ASSUME TypeOK, NEW req \in Requests, NEW ev, TesterPresent(req, ev)
    PROVE  ServiceType
<1>1. rc' \in Codes /\ resp' \in Codes
    BY AnswerType DEF TesterPresent, ServerCodes, SuppressedIfFunctional, kIncorrectLength, kPositiveResponse
<1>2. timer' \in [TimerName -> Nat]
    BY TimerType, DurationsAssumption DEF TesterPresent, TypeOK, TimerName
<1> QED BY <1>1, <1>2 DEF TesterPresent, ServiceType, TypeOK, session, reset, history

(* The block counter stays a value of its width. *)
LEMMA NextSeqType ==
    ASSUME xfer \in Xfer
    PROVE  NextSeq \in 0..SeqMod-1
BY DurationsAssumption DEF Xfer, NextSeq

LEMMA TransferServiceType ==
    ASSUME TypeOK, NEW req \in Requests, NEW ev, TransferService(req, ev)
    PROVE  ServiceType
<1>1. req.len \in Nat BY RequestsAssumption DEF Request
<1>2. xfer \in Xfer /\ blocks \in Nat BY DEF TypeOK
<1>3. NoTransfer \in Xfer BY DurationsAssumption DEF NoTransfer, Xfer
<1>4. \A n \in Nat : StartTransfer(n) => xfer' \in Xfer /\ blocks' \in Nat
    <2>1. TAKE n \in Nat
    <2>2. HAVE StartTransfer(n)
    <2>3. xfer' = [active |-> TRUE, seq |-> 1, bytes |-> 0, total |-> n]
        BY <2>2 DEF StartTransfer, NoTransfer
    <2>4. [active |-> TRUE, seq |-> 1, bytes |-> 0, total |-> n] \in Xfer
        BY DurationsAssumption DEF Xfer
    <2> QED BY <2>2, <2>3, <2>4 DEF StartTransfer
<1>5. /\ rc' \in Codes /\ resp' \in Codes
      /\ xfer' \in Xfer /\ blocks' \in Nat
    <2>1. CASE RequestUpDownload(req, ev)
        BY <2>1, <1>1, <1>2, <1>4, AnswerType
        DEF RequestUpDownload, DecodeFails, ServerCodes, SuppressedIfFunctional, kIncorrectLength
    <2>2. CASE RequestFileTransfer(req, ev)
        BY <2>2, <1>1, <1>2, <1>4, AnswerType
        DEF RequestFileTransfer, DecodeFails, ServerCodes, SuppressedIfFunctional, kIncorrectLength
    <2>3. CASE TransferData(req, ev)
        <3>1. rc' \in Codes /\ resp' \in Codes
            BY <2>3, AnswerType
            DEF TransferData, ServerCodes, SuppressedIfFunctional, kIncorrectLength
        <3>2. xfer' \in Xfer /\ blocks' \in Nat
            <4>1. CASE UNCHANGED <<xfer, blocks>> BY <4>1, <1>2
            <4>2. CASE ResetTransfer BY <4>2, <1>2, <1>3 DEF ResetTransfer
            <4>3. CASE /\ xfer' = [xfer EXCEPT !.seq = NextSeq, !.bytes = @ + req.len]
                       /\ blocks' = blocks + 1
                <5>1. NextSeq \in 0..SeqMod-1 BY <1>2, NextSeqType
                <5>2. xfer.bytes + req.len \in Nat BY <1>1, <1>2 DEF Xfer
                <5>3. xfer' \in Xfer BY <4>3, <1>2, <5>1, <5>2 DEF Xfer
                <5> QED BY <4>3, <1>2, <5>3
            <4>4. CASE xfer' = [xfer EXCEPT !.seq = NextSeq] /\ UNCHANGED blocks
                BY <4>4, <1>2, NextSeqType DEF Xfer
            <4> QED BY <2>3, <4>1, <4>2, <4>3, <4>4 DEF TransferData
        <3> QED BY <3>1, <3>2
    <2>4. CASE RequestTransferExit(req, ev)
        BY <2>4, <1>2, <1>3, AnswerType
        DEF RequestTransferExit, ResetTransfer, ServerCodes, SuppressedIfFunctional
    <2> QED BY <2>1, <2>2, <2>3, <2>4 DEF TransferService
<1> QED BY <1>5 DEF TransferService, ServiceType, TypeOK, session, reset

LEMMA EvaluateType ==
    ASSUME TypeOK, NEW req \in Requests, NEW ev, EvaluateServiceResponse(req, ev)
    PROVE  ServiceType
BY StatelessServiceType, DiagnosticSessionControlType, ECUResetType, SecurityAccessType,
   TesterPresentType, TransferServiceType DEF EvaluateServiceResponse

(* Every step keeps every type. *)
LEMMA TypeStep ==
    ASSUME TypeOK, [Next]_vars
    PROVE  TypeOK'
<1> USE DurationsAssumption
<1>1. CASE \E req \in Requests : Receive(req)
    BY <1>1, RequestsAssumption DEF Receive, TypeOK, session, reset, progress, response, history, clock
<1>2. CASE Tick
    BY <1>2 DEF Tick, TypeOK, TimerName, session, reset, progress, response, history
<1>3. CASE PollTimers
    BY <1>3 DEF PollTimers, TypeOK, session, progress, response, history
<1>4. CASE PollIdle
    BY <1>4 DEF PollIdle, TypeOK, session, reset, progress, response, history, clock
<1>5. ASSUME NEW ev \in Events, PollNewRequest(ev) PROVE TypeOK'
    <2>1. ServiceType BY <1>5, EvaluateType DEF PollNewRequest, TypeOK
    <2> QED BY <2>1, <1>5 DEF ServiceType, PollNewRequest, TypeOK, clock
<1>6. ASSUME NEW ev \in Events, PollPending(ev) PROVE TypeOK'
    <2>1. ServiceType BY <1>6, EvaluateType DEF PollPending, TypeOK
    <2> QED BY <2>1, <1>6 DEF ServiceType, PollPending, TypeOK, clock, progress
<1>7. CASE PollEvaluated
    BY <1>7, TimerType DEF PollEvaluated, TypeOK, TimerName, session, response, history, clock
<1>8. CASE PollWait
    BY <1>8 DEF PollWait, TypeOK, session, reset, progress, response, history, clock
<1>9. CASE PollRespond
    <2>1. timer' \in [TimerName -> Nat]
        BY <1>9, TimerType DEF PollRespond, TypeOK, TimerName
    <2> QED BY <1>9, <2>1 DEF PollRespond, TypeOK, session, reset, response, history, clock
<1>10. CASE UNCHANGED vars
    BY <1>10 DEF vars, TypeOK, session, reset, progress, response, history, clock
<1> QED BY <1>1, <1>2, <1>3, <1>4, <1>5, <1>6, <1>7, <1>8, <1>9, <1>10 DEF Next, PollStep

LEMMA InitType ==
    ASSUME Init
    PROVE  TypeOK
<1>1. xfer = [active |-> FALSE, seq |-> 0, bytes |-> 0, total |-> 0]
    BY DEF Init, NoTransfer
<1>2. xfer \in Xfer BY <1>1, DurationsAssumption DEF Xfer
<1>3. timer \in [TimerName -> Nat]
    BY DurationsAssumption DEF Init, TimerName, Due
<1>4. rc \in Codes /\ resp \in Codes
    BY DEF Init, Codes, ServerCodes, kPositiveResponse
<1>5. /\ pc \in {"poll", "serve", "evaluated", "respond"}
      /\ inbox \in Requests \cup {NoRequest}
      /\ requestInProgress => inbox # NoRequest
      /\ notReadyToReceive \in BOOLEAN
      /\ RCRRP \in BOOLEAN /\ requestInProgress \in BOOLEAN
    BY Zenon DEF Init
<1>6. /\ sessionType \in 0..127 /\ securityLevel \in 0..255
      /\ ecuResetScheduled \in 0..63
      /\ lag \in 0..MaxLag
      /\ blocks \in Nat /\ fails \in Nat /\ age \in 0..MaxAge
    BY DurationsAssumption DEF Init
<1> QED BY <1>2, <1>3, <1>4, <1>5, <1>6 DEF TypeOK

(* Type correctness, for any client, any fn and any durations. *)
THEOREM TypeCorrect == Spec => []TypeOK
BY InitType, TypeStep, PTL DEF Spec

-----------------------------------------------------------------------------
(***************************************************************************)
(* The transfer counters.                                                  *)
(***************************************************************************)
(* Where the main thread is says whether a response is owed, and RCRRP is  *)
(* what the last evaluation said, except between an evaluation and the     *)
(* update of RCRRP.                                                        *)
Flow ==
    /\ pc = "evaluated" => RCRRP
    /\ pc = "respond" => requestInProgress
    /\ RCRRP => requestInProgress
    /\ requestInProgress /\ pc # "evaluated" => (RCRRP <=> rc = kResponsePending)

(* Facts of arithmetic about the width of the block counter. *)
LEMMA MulGE ==
    ASSUME NEW a \in Nat, NEW b \in Nat, b >= 1
    PROVE  a * b >= a /\ a * b \in Nat
OBVIOUS

(* A remainder is unique. *)
LEMMA ModUnique ==
    ASSUME NEW m \in Nat, m >= 1, NEW k \in Nat, NEW r \in 0..m-1
    PROVE  (m * k + r) % m = r
<1> DEFINE x == m * k + r
           d == x \div m
           e == x % m
<1>0. x \in Nat BY MulGE
<1>1. x = m * d + e /\ e \in 0..m-1 /\ d \in Nat BY <1>0
<1> HIDE DEF d, e
<1>2. CASE d >= k + 1
    <2>1. PICK j \in Nat : j >= 1 /\ d = k + j BY <1>1, <1>2
    <2>2. m * d = m * k + m * j BY <2>1
    <2>3. m * j >= m BY <2>1, MulGE
    <2> QED BY <2>2, <2>3, <1>1, <1>0
<1>3. CASE k >= d + 1
    <2>1. PICK j \in Nat : j >= 1 /\ k = d + j BY <1>1, <1>3
    <2>2. m * k = m * d + m * j BY <2>1, <1>1
    <2>3. m * j >= m BY <2>1, MulGE
    <2> QED BY <2>2, <2>3, <1>1, <1>0
<1>4. CASE d = k
    BY <1>4, <1>1 DEF e
<1> QED BY <1>2, <1>3, <1>4, <1>1

(* Counting one more block modulo the counter's width. *)
LEMMA ModSucc ==
    ASSUME NEW a \in Nat, NEW m \in Nat, m >= 2
    PROVE  ((a % m) + 1) % m = (a + 1) % m
<1>1. /\ a = m * (a \div m) + (a % m)
      /\ a % m \in 0..m-1 /\ a \div m \in Nat
    OBVIOUS
<1> DEFINE q == a \div m
           r == a % m
<1>2. CASE r + 1 < m
    <2>1. a + 1 = m * q + (r + 1) BY <1>1
    <2>2. (m * q + (r + 1)) % m = r + 1
        <3>1. r + 1 \in 0..m-1 /\ q \in Nat BY <1>1, <1>2
        <3> HIDE DEF q, r
        <3> QED BY <3>1, ModUnique
    <2>3. (r + 1) % m = r + 1 BY <1>1, <1>2
    <2> QED BY <2>1, <2>2, <2>3
<1>3. CASE r + 1 = m
    <2>1. a + 1 = m * (q + 1) + 0 BY <1>1, <1>3
    <2>2. (m * (q + 1) + 0) % m = 0
        <3>1. 0 \in 0..m-1 /\ q + 1 \in Nat BY <1>1
        <3> HIDE DEF q
        <3> QED BY <3>1, ModUnique
    <2>3. (r + 1) % m = 0 BY <1>1, <1>3
    <2> QED BY <2>1, <2>2, <2>3
<1> QED BY <1>1, <1>2, <1>3

(* The counter's value as the blocks accepted, one more if one is pending. *)
Counted(n, pending) == (1 + n + (IF pending THEN 1 ELSE 0)) % SeqMod

(* What one evaluation of the request in the transport guarantees. *)
TransferGuarantee ==
    /\ XferConsistent'
    /\ xfer'.active =>
          xfer'.seq = Counted(blocks', inbox.sid = "0x36" /\ rc' = kResponsePending)
    /\ inbox.sid = "0x36" => (xfer'.active <=> rc' \in {kPositiveResponse, kResponsePending})
    /\ inbox.sid = "0x37" => (xfer'.active <=> rc' = kResponsePending)
    /\ inbox.sid \in {"0x34", "0x35", "0x38"} /\ rc' = kPositiveResponse
         => xfer'.active /\ xfer'.bytes = 0 /\ xfer'.seq = 1

LEMMA StartTransferGuarantee ==
    ASSUME NEW n \in Nat, StartTransfer(n)
    PROVE  /\ xfer'.active /\ xfer'.bytes = 0 /\ xfer'.seq = 1
           /\ blocks' = 0
           /\ XferConsistent'
           /\ xfer'.seq = Counted(blocks', FALSE)
<1>1. xfer' = [active |-> TRUE, seq |-> 1, bytes |-> 0, total |-> n]
    BY DEF StartTransfer, NoTransfer
<1>2. xfer'.active /\ xfer'.bytes = 0 /\ xfer'.seq = 1 /\ xfer'.total = n BY <1>1
<1>3. (1 + 0 + 0) % SeqMod = 1 BY DurationsAssumption
<1>4. blocks' = 0 BY DEF StartTransfer
<1>5. XferConsistent' BY <1>2 DEF XferConsistent
<1>6. xfer'.seq = Counted(blocks', FALSE) BY <1>2, <1>3, <1>4 DEF Counted
<1> QED BY <1>2, <1>4, <1>5, <1>6

LEMMA TransferDataGuarantee ==
    ASSUME TypeOK, XferConsistent, inbox \in Requests, NEW ev, TransferData(inbox, ev),
           xfer.active => xfer.seq = Counted(blocks, RCRRP)
    PROVE  TransferGuarantee
<1> USE DEF kPositiveResponse, kResponsePending
<1>1. inbox.sid = "0x36" /\ inbox.len \in Nat
    BY RequestsAssumption DEF TransferData, Request
<1>2. xfer \in Xfer /\ blocks \in Nat BY DEF TypeOK
<1>3. CASE ~xfer.active
    <2>1. UNCHANGED <<xfer, blocks>> /\ rc' = "kUploadDownloadNotAccepted"
        BY <1>3 DEF TransferData, Reject, Reply
    <2> QED BY <2>1, <1>1, <1>3 DEF TransferGuarantee, XferConsistent
<1>4. CASE xfer.active /\ ResetTransfer /\ rc' \notin {kPositiveResponse, kResponsePending}
    <2>1. xfer' = [active |-> FALSE, seq |-> 1, bytes |-> 0, total |-> 0]
        BY <1>4 DEF ResetTransfer, NoTransfer
    <2> QED BY <2>1, <1>4, <1>1 DEF TransferGuarantee, XferConsistent
<1>5. ASSUME xfer.active PROVE NextSeq = Counted(blocks, TRUE)
    <2>1. CASE RCRRP BY <2>1, <1>5 DEF NextSeq
    <2>2. CASE ~RCRRP
        <3>1. xfer.seq = (1 + blocks) % SeqMod BY <2>2, <1>5, <1>2 DEF Counted
        <3>2. NextSeq = (xfer.seq + 1) % SeqMod BY <2>2 DEF NextSeq
        <3>3. 1 + blocks \in Nat BY <1>2
        <3> QED BY <3>1, <3>2, <3>3, ModSucc, DurationsAssumption DEF Counted
    <2> QED BY <2>1, <2>2
<1>6. CASE /\ xfer.active /\ rc' = kPositiveResponse
           /\ xfer.bytes + inbox.len <= xfer.total
           /\ xfer' = [xfer EXCEPT !.seq = NextSeq, !.bytes = @ + inbox.len]
           /\ blocks' = blocks + 1
    <2>1. /\ xfer'.active /\ xfer'.bytes = xfer.bytes + inbox.len
          /\ xfer'.total = xfer.total /\ xfer'.seq = NextSeq
        BY <1>6, <1>2 DEF Xfer
    <2>2. NextSeq = Counted(blocks', FALSE) BY <1>5, <1>6, <1>2 DEF Counted
    <2> QED BY <2>1, <2>2, <1>1, <1>6 DEF TransferGuarantee, XferConsistent, Counted
<1>7. CASE /\ xfer.active /\ rc' = kResponsePending
           /\ xfer' = [xfer EXCEPT !.seq = NextSeq] /\ UNCHANGED blocks
    <2>1. /\ xfer'.active /\ xfer'.bytes = xfer.bytes
          /\ xfer'.total = xfer.total /\ xfer'.seq = NextSeq
        BY <1>7, <1>2 DEF Xfer
    <2> QED BY <2>1, <1>5, <1>1, <1>7 DEF TransferGuarantee, XferConsistent, Counted
<1> QED
    BY <1>3, <1>4, <1>6, <1>7 DEF TransferData, Accept, Refuse, Reject, Reply, kIncorrectLength

LEMMA EvaluateGuarantee ==
    ASSUME TypeOK, XferConsistent, XferSequence, inbox \in Requests,
           PendingBlock <=> (RCRRP /\ inbox.sid = "0x36"),
           NEW ev, EvaluateServiceResponse(inbox, ev)
    PROVE  TransferGuarantee
<1> USE DEF kPositiveResponse, kResponsePending
<1>1. inbox.len \in Nat BY RequestsAssumption DEF Request
<1>2. xfer.active => xfer.seq = Counted(blocks, RCRRP /\ inbox.sid = "0x36")
    BY DEF XferSequence, Counted
<1>3. CASE TransferData(inbox, ev)
    BY <1>2, <1>3, TransferDataGuarantee DEF TransferData, Counted
<1>4. CASE UNCHANGED <<xfer, blocks>> /\ inbox.sid \notin {"0x34", "0x35", "0x36", "0x37", "0x38"}
    BY <1>2, <1>4 DEF TransferGuarantee, XferConsistent, Counted
<1>5. CASE RequestUpDownload(inbox, ev)
    <2>1. inbox.sid \in {"0x34", "0x35"} BY <1>5 DEF RequestUpDownload
    <2>2. CASE UNCHANGED <<xfer, blocks>> /\ rc' # kPositiveResponse
        BY <1>2, <2>1, <2>2 DEF TransferGuarantee, XferConsistent, Counted
    <2>3. CASE StartTransfer(inbox.len)
        BY <1>1, <2>1, <2>3, StartTransferGuarantee DEF TransferGuarantee, Counted
    <2> QED BY <1>5, <2>2, <2>3
        DEF RequestUpDownload, DecodeFails, Reject, Refuse, Reply, kIncorrectLength
<1>6. CASE RequestFileTransfer(inbox, ev)
    <2>1. inbox.sid = "0x38" BY <1>6 DEF RequestFileTransfer
    <2>2. CASE UNCHANGED <<xfer, blocks>> /\ rc' # kPositiveResponse
        BY <1>2, <2>1, <2>2 DEF TransferGuarantee, XferConsistent, Counted
    <2>3. ASSUME NEW n \in Nat, StartTransfer(n) PROVE TransferGuarantee
        BY <2>1, <2>3, StartTransferGuarantee DEF TransferGuarantee, Counted
    <2> QED BY <1>1, <1>6, <2>2, <2>3
        DEF RequestFileTransfer, DecodeFails, Reject, Refuse, Reply, kIncorrectLength
<1>7. CASE RequestTransferExit(inbox, ev)
    <2>1. inbox.sid = "0x37" BY <1>7 DEF RequestTransferExit
    <2>2. CASE UNCHANGED <<xfer, blocks>> /\ (xfer.active <=> rc' = kResponsePending)
        BY <1>2, <2>1, <2>2 DEF TransferGuarantee, XferConsistent, Counted
    <2>3. CASE ResetTransfer /\ rc' # kResponsePending
        <3>1. xfer' = [active |-> FALSE, seq |-> 1, bytes |-> 0, total |-> 0]
            BY <2>3 DEF ResetTransfer, NoTransfer
        <3> QED BY <3>1, <2>1, <2>3 DEF TransferGuarantee, XferConsistent
    <2> QED BY <1>7, <2>2, <2>3
        DEF RequestTransferExit, Accept, Reject, Refuse, Reply
<1>8. CASE StatelessService(inbox, ev)
    BY <1>4, <1>8 DEF StatelessService, ReadDataByIdentifier, ReadMemoryByAddress,
       CommunicationControl, WriteDataByIdentifier, RoutineControl, ControlDTCSetting,
       NoService, history
<1>9. CASE DiagnosticSessionControl(inbox, ev)
    BY <1>4, <1>9 DEF DiagnosticSessionControl, history
<1>10. CASE ECUReset(inbox, ev) BY <1>4, <1>10 DEF ECUReset, history
<1>11. CASE SecurityAccess(inbox, ev) BY <1>4, <1>11 DEF SecurityAccess
<1>12. CASE TesterPresent(inbox, ev) BY <1>4, <1>12 DEF TesterPresent, history
<1> QED BY <1>3, <1>5, <1>6, <1>7, <1>8, <1>9, <1>10, <1>11, <1>12
    DEF EvaluateServiceResponse, TransferService

(* The transfer's inductive invariant. *)
TransferInv == Flow /\ XferConsistent /\ XferSequence /\ ReplyTellsTransfer

LEMMA TransferStep ==
    ASSUME TypeOK, TransferInv, [Next]_vars
    PROVE  TransferInv'
<1> USE DEF TransferInv
<1>1. CASE \/ \E req \in Requests : Receive(req)
           \/ Tick \/ PollTimers \/ PollIdle \/ PollWait
    <2>1. UNCHANGED <<xfer, blocks, rc, requestInProgress, RCRRP>>
        BY <1>1 DEF Receive, Tick, PollTimers, PollIdle, PollWait, progress, response, history
    <2>2. requestInProgress => UNCHANGED inbox
        BY <1>1 DEF Receive, Tick, PollTimers, PollIdle, PollWait, TypeOK
    <2>3. pc' = pc \/ (pc' \in {"poll", "serve"} /\ pc # "evaluated")
        BY <1>1 DEF Receive, Tick, PollTimers, PollIdle, PollWait, AtRespond
    <2>4. Flow' BY <2>1, <2>3, Zenon DEF Flow
    <2>5. XferConsistent' BY <2>1 DEF XferConsistent
    <2>6. XferSequence' /\ ReplyTellsTransfer'
        BY <2>1, <2>2 DEF XferSequence, PendingBlock, ReplyTellsTransfer
    <2> QED BY <2>4, <2>5, <2>6
<1>2. ASSUME NEW ev \in Events, PollNewRequest(ev) PROVE TransferInv'
    <2>1. inbox \in Requests /\ inbox' = inbox BY <1>2 DEF PollNewRequest, TypeOK
    <2>2. PendingBlock <=> (RCRRP /\ inbox.sid = "0x36")
        BY <1>2 DEF PollNewRequest, PendingBlock, Flow
    <2>3. TransferGuarantee BY <1>2, <2>1, <2>2, EvaluateGuarantee DEF PollNewRequest
    <2>4. requestInProgress' /\ pc' = "poll" /\ (RCRRP' <=> rc' = kResponsePending)
        BY <1>2 DEF PollNewRequest, Flow
    <2>5. Flow' BY <2>4 DEF Flow
    <2>6. XferSequence' BY <2>1, <2>3, <2>4 DEF TransferGuarantee, XferSequence, PendingBlock, Counted
    <2>7. ReplyTellsTransfer' BY <2>1, <2>3 DEF TransferGuarantee, ReplyTellsTransfer
    <2> QED BY <2>3, <2>5, <2>6, <2>7 DEF TransferGuarantee
<1>3. ASSUME NEW ev \in Events, PollPending(ev) PROVE TransferInv'
    <2>1. inbox \in Requests /\ inbox' = inbox BY <1>3 DEF PollPending, TypeOK
    <2>2. PendingBlock <=> (RCRRP /\ inbox.sid = "0x36")
        BY <1>3 DEF PollPending, PendingBlock, Flow
    <2>3. TransferGuarantee BY <1>3, <2>1, <2>2, EvaluateGuarantee DEF PollPending
    <2>4. requestInProgress' /\ RCRRP' /\ pc' = "evaluated"
        BY <1>3 DEF PollPending, progress
    <2>5. Flow' BY <2>4 DEF Flow
    <2>6. XferSequence' BY <2>1, <2>3, <2>4 DEF TransferGuarantee, XferSequence, PendingBlock, Counted
    <2>7. ReplyTellsTransfer' BY <2>1, <2>3 DEF TransferGuarantee, ReplyTellsTransfer
    <2> QED BY <2>3, <2>5, <2>6, <2>7 DEF TransferGuarantee
<1>4. CASE PollEvaluated
    <2>1. UNCHANGED <<xfer, blocks, rc, requestInProgress, inbox>> /\ pc' = "respond"
        BY <1>4 DEF PollEvaluated, response, history
    <2>2. RCRRP /\ requestInProgress BY <1>4 DEF PollEvaluated, Flow
    <2>3. RCRRP' <=> rc = kResponsePending BY <1>4, <2>2 DEF PollEvaluated
    <2>4. Flow' BY <2>1, <2>2, <2>3 DEF Flow
    <2> QED BY <2>1, <2>4 DEF XferConsistent, XferSequence, PendingBlock, ReplyTellsTransfer
<1>5. CASE PollRespond
    <2>1. UNCHANGED <<xfer, blocks, rc, RCRRP>> /\ pc' = "poll" /\ pc # "evaluated"
        BY <1>5 DEF PollRespond, AtRespond, response, history
    <2>2. requestInProgress BY <1>5 DEF PollRespond, AtRespond, Flow
    <2>3. CASE RCRRP
        <3>1. UNCHANGED <<inbox, requestInProgress>> BY <1>5, <2>3 DEF PollRespond
        <3>2. Flow' BY <2>1, <2>2, <2>3, <3>1 DEF Flow
        <3> QED BY <2>1, <3>1, <3>2 DEF XferConsistent, XferSequence, PendingBlock, ReplyTellsTransfer
    <2>4. CASE ~RCRRP
        <3>1. requestInProgress' = FALSE BY <1>5, <2>4 DEF PollRespond
        <3>2. rc # kResponsePending BY <2>1, <2>2, <2>4 DEF Flow
        <3>3. Flow' BY <2>1, <2>4, <3>1 DEF Flow
        <3> QED BY <2>1, <3>1, <3>2, <3>3
            DEF XferConsistent, XferSequence, PendingBlock, ReplyTellsTransfer
    <2> QED BY <2>3, <2>4
<1>6. CASE UNCHANGED vars
    BY <1>6 DEF vars, Flow, XferConsistent, XferSequence, PendingBlock, ReplyTellsTransfer,
       progress, response, history
<1> QED BY <1>1, <1>2, <1>3, <1>4, <1>5, <1>6 DEF Next, PollStep

(* The transfer's invariant holds in every state. *)
LEMMA TransferInvariant == Spec => []TransferInv
<1>1. ASSUME Init PROVE TransferInv
    <2>1. xfer = [active |-> FALSE, seq |-> 0, bytes |-> 0, total |-> 0]
        BY <1>1 DEF Init, NoTransfer
    <2> QED BY <1>1, <2>1 DEF Init, TransferInv, Flow, XferConsistent, XferSequence, ReplyTellsTransfer
<1> QED BY <1>1, TypeCorrect, TransferStep, PTL DEF Spec

(* The server never counts more bytes than the client announced, and no    *)
(* counter of a transfer survives it.                                      *)
THEOREM TransferBounded == Spec => []XferConsistent
<1>1. TransferInv => XferConsistent BY DEF TransferInv
<1> QED BY <1>1, TransferInvariant, PTL

(* The block counter is right in every state, modulo its width.            *)
THEOREM BlocksCounted == Spec => []XferSequence
<1>1. TransferInv => XferSequence BY DEF TransferInv
<1> QED BY <1>1, TransferInvariant, PTL

(* What the client is told of a transfer is what the server did with it.   *)
THEOREM TransferToldTruly == Spec => []ReplyTellsTransfer
<1>1. TransferInv => ReplyTellsTransfer BY DEF TransferInv
<1> QED BY <1>1, TransferInvariant, PTL

-----------------------------------------------------------------------------
(***************************************************************************)
(* The rate of failed keys.                                                *)
(***************************************************************************)
(* Counted while age runs: every failure but the time still to wait has    *)
(* been paid for by AuthFailDelay, the first one by BootDelay.             *)
RateInv ==
    /\ timer.authFail <= Due(AuthFailDelay)
    /\ age < MaxAge => Due(BootDelay) <= age + timer.bootDelay
    /\ fails > 0 /\ age < MaxAge
         => fails * Due(AuthFailDelay) + Due(BootDelay) <= age + timer.authFail
    /\ AttemptsRateLimited

(* Starting one timer leaves the others alone. *)
LEMMA OtherTimers ==
    ASSUME timer \in [TimerName -> Nat], NEW t \in TimerName, NEW d, StartTimer(t, d)
    PROVE  /\ timer'[t] = Due(d)
           /\ \A u \in TimerName \ {t} : timer'[u] = timer[u]
BY DEF StartTimer

(* Only a failed key touches the failure delay, and it was over. *)
LEMMA EvaluateRate ==
    ASSUME TypeOK, NEW req, NEW ev, EvaluateServiceResponse(req, ev)
    PROVE  /\ timer'.bootDelay = timer.bootDelay
           /\ \/ timer'.authFail = timer.authFail /\ fails' = fails
              \/ /\ timer.bootDelay = 0 /\ timer.authFail = 0
                 /\ timer'.authFail = Due(AuthFailDelay)
                 /\ fails' = fails + (IF age < MaxAge THEN 1 ELSE 0)
<1> USE DEF TimerName
<1>1. timer \in [TimerName -> Nat] BY DEF TypeOK
<1>2. CASE StatelessService(req, ev) \/ TransferService(req, ev)
    BY <1>2 DEF StatelessService, TransferService, history
<1>3. CASE DiagnosticSessionControl(req, ev)
    BY <1>1, <1>3, OtherTimers DEF DiagnosticSessionControl, history
<1>4. CASE ECUReset(req, ev) BY <1>1, <1>4, OtherTimers DEF ECUReset, history
<1>5. CASE TesterPresent(req, ev) BY <1>1, <1>5, OtherTimers DEF TesterPresent, history
<1>6. CASE SecurityAccess(req, ev)
    <2>1. CASE UNCHANGED <<timer, fails>> BY <2>1
    <2>2. CASE SendKey(req, ev) /\ Expired("bootDelay") /\ Expired("authFail")
        BY <1>1, <2>2, OtherTimers DEF SendKey, Expired
    <2> QED BY <1>6, <2>1, <2>2 DEF SecurityAccess, RequestSeed
<1> QED BY <1>2, <1>3, <1>4, <1>5, <1>6 DEF EvaluateServiceResponse

(* One more failure costs one more delay. *)
LEMMA FailureCost ==
    ASSUME NEW f \in Nat, NEW d \in Nat, NEW b \in Nat, NEW a \in Nat,
           f > 0 => f * d + b <= a,
           b <= a
    PROVE  /\ (f + 1) * d + b <= a + d
           /\ ((f + 1) - 1) * d + b <= a
<1>1. f * d \in Nat /\ (f + 1) * d = f * d + d /\ (f + 1) - 1 = f BY MulGE
<1>2. CASE f = 0 BY <1>1, <1>2
<1>3. CASE f > 0 BY <1>1, <1>3
<1> QED BY <1>2, <1>3

(* Every step keeps the accounts of failures and delays. *)
LEMMA RateStep ==
    ASSUME TypeOK, RateInv, [Next]_vars
    PROVE  RateInv'
<1> DEFINE D == Due(AuthFailDelay)
           B == Due(BootDelay)
<1>1. D \in Nat /\ B \in Nat /\ D >= 1 /\ D = AuthFailDelay + 1
    BY DurationsAssumption DEF Due
<1>2. /\ timer \in [TimerName -> Nat] /\ timer.authFail \in Nat /\ timer.bootDelay \in Nat
      /\ fails \in Nat /\ age \in 0..MaxAge /\ MaxAge \in Nat /\ fails * D \in Nat
    BY <1>1, DurationsAssumption DEF TypeOK, TimerName
<1> HIDE DEF D, B
<1>3. /\ timer.authFail <= D
      /\ age < MaxAge => B <= age + timer.bootDelay
      /\ fails > 0 /\ age < MaxAge => fails * D + B <= age + timer.authFail
      /\ fails > 0 => (fails - 1) * D + B <= age
    BY DEF RateInv, AttemptsRateLimited, D, B
<1>4. SUFFICES
      /\ timer'.authFail <= D
      /\ age' < MaxAge => B <= age' + timer'.bootDelay
      /\ fails' > 0 /\ age' < MaxAge => fails' * D + B <= age' + timer'.authFail
      /\ fails' > 0 => (fails' - 1) * D + B <= age'
    BY DEF RateInv, AttemptsRateLimited, D, B
<1>5. CASE UNCHANGED <<fails, age>> /\ timer'.authFail = timer.authFail
                                    /\ timer'.bootDelay = timer.bootDelay
    BY <1>3, <1>5
<1>6. CASE Tick
    <2>1. /\ timer'.authFail = (IF timer.authFail > 0 THEN timer.authFail - 1 ELSE 0)
          /\ timer'.bootDelay = (IF timer.bootDelay > 0 THEN timer.bootDelay - 1 ELSE 0)
        BY <1>6 DEF Tick, TimerName
    <2>2. fails' = fails BY <1>6 DEF Tick, history
    <2>3. age' = IF age < MaxAge THEN age + 1 ELSE age BY <1>6 DEF Tick
    <2> QED BY <1>1, <1>2, <1>3, <2>1, <2>2, <2>3
<1>7. ASSUME NEW ev \in Events, PollNewRequest(ev) \/ PollPending(ev)
      PROVE  /\ timer'.authFail <= D
             /\ age' < MaxAge => B <= age' + timer'.bootDelay
             /\ fails' > 0 /\ age' < MaxAge => fails' * D + B <= age' + timer'.authFail
             /\ fails' > 0 => (fails' - 1) * D + B <= age'
    <2>1. age' = age /\ EvaluateServiceResponse(inbox, ev)
        BY <1>7 DEF PollNewRequest, PollPending, clock
    <2>2. timer'.bootDelay = timer.bootDelay BY <2>1, EvaluateRate
    <2>3. CASE timer'.authFail = timer.authFail /\ fails' = fails
        BY <1>5, <2>1, <2>2, <2>3
    <2>4. CASE /\ timer.bootDelay = 0 /\ timer.authFail = 0
               /\ timer'.authFail = D
               /\ fails' = fails + (IF age < MaxAge THEN 1 ELSE 0)
        <3>1. CASE age < MaxAge
            <4>1. fails' = fails + 1 BY <2>4, <3>1
            <4>2. B <= age /\ (fails > 0 => fails * D + B <= age)
                BY <1>1, <1>2, <1>3, <2>4, <3>1
            <4>3. (fails + 1) * D + B <= age + D /\ ((fails + 1) - 1) * D + B <= age
                BY <1>1, <1>2, <4>2, FailureCost
            <4> QED BY <1>1, <1>2, <1>3, <2>1, <2>2, <2>4, <4>1, <4>3
        <3>2. CASE ~(age < MaxAge)
            <4>1. fails' = fails BY <1>2, <2>4, <3>2
            <4> QED BY <1>1, <1>2, <1>3, <2>1, <2>2, <2>4, <3>2, <4>1
        <3> QED BY <3>1, <3>2
    <2> QED BY <2>1, <2>3, <2>4, EvaluateRate DEF D
<1>8. CASE PollEvaluated
    BY <1>2, <1>5, <1>8, OtherTimers DEF PollEvaluated, TimerName, history, clock
<1>9. CASE PollRespond
    BY <1>2, <1>5, <1>9, OtherTimers DEF PollRespond, TimerName, history, clock
<1>10. CASE \/ \E req \in Requests : Receive(req)
            \/ PollTimers \/ PollIdle \/ PollWait \/ UNCHANGED vars
    BY <1>5, <1>10 DEF Receive, PollTimers, PollIdle, PollWait, vars, history, clock
<1> QED BY <1>6, <1>7, <1>8, <1>9, <1>10 DEF Next, PollStep

(* Over any run n keys can only have failed in the time of the boot delay  *)
(* and n - 1 failure delays.                                               *)
THEOREM KeysRateLimited == Spec => []AttemptsRateLimited
<1>1. Init => RateInv
    BY DurationsAssumption DEF Init, RateInv, AttemptsRateLimited, Due
<1>2. RateInv => AttemptsRateLimited BY DEF RateInv
<1> QED BY <1>1, <1>2, TypeCorrect, RateStep, PTL DEF Spec

-----------------------------------------------------------------------------
(***************************************************************************)
(* Reset.  fn never delays its answer, and the power-down time is at least *)
(* P2 and one polling period, as in the deployed server (500 ms and 50 ms  *)
(* with a poll every millisecond).                                         *)
(***************************************************************************)
ResetAssumption ==
    kResponsePending \notin Answers /\ PowerDown >= P2 + MaxLag

(* While a response and a reset are both due, the reset is late enough for *)
(* the response's deadline and the start of one more poll.                 *)
ResetInv ==
    /\ ~RCRRP /\ rc # kResponsePending /\ pc \in {"poll", "serve"}
    /\ ecuResetScheduled # 0 => notReadyToReceive
    /\ timer.p2 <= Due(P2)
    /\ ecuResetScheduled # 0 /\ requestInProgress =>
         /\ timer.p2 > 0 => timer.ecuReset >= timer.p2 + MaxLag
         /\ timer.p2 = 0 /\ pc = "poll" => timer.ecuReset >= 1 + MaxLag - lag

(* What an evaluation may do to a reset and to the response's deadline. *)
LEMMA EvaluateReset ==
    ASSUME TypeOK, ResetAssumption, NEW req, NEW ev, EvaluateServiceResponse(req, ev)
    PROVE  /\ rc' # kResponsePending
           /\ timer'.p2 = timer.p2
           /\ \/ UNCHANGED reset /\ timer'.ecuReset = timer.ecuReset
              \/ notReadyToReceive' = TRUE /\ timer'.ecuReset = Due(PowerDown)
<1> USE DEF TimerName
<1>1. timer \in [TimerName -> Nat] BY DEF TypeOK
<1>2. \A code : code # kResponsePending /\ (Reply(req, code) \/ Reject(req, ev, code))
        => rc' # kResponsePending
    BY DEF Reply, Reject
<1>3. Accept(req, ev) \/ Refuse(req, ev) => rc' # kResponsePending
    BY DEF Accept, Refuse, Reply, ResetAssumption, kResponsePending, kPositiveResponse
<1> USE DEF kResponsePending, kPositiveResponse, kIncorrectLength, DecodeFails
<1>4. CASE StatelessService(req, ev)
    <2>1. UNCHANGED <<reset, timer>> BY <1>4 DEF StatelessService
    <2>2. rc' # kResponsePending
        BY <1>2, <1>3, <1>4 DEF StatelessService, ReadDataByIdentifier, ReadMemoryByAddress,
           CommunicationControl, WriteDataByIdentifier, RoutineControl, ControlDTCSetting,
           NoService
    <2> QED BY <2>1, <2>2
<1>5. CASE TransferService(req, ev)
    <2>1. UNCHANGED <<reset, timer>> BY <1>5 DEF TransferService
    <2>2. rc' # kResponsePending
        BY <1>2, <1>3, <1>5 DEF TransferService, RequestUpDownload, RequestFileTransfer,
           TransferData, RequestTransferExit
    <2> QED BY <2>1, <2>2
<1>6. CASE DiagnosticSessionControl(req, ev)
    BY <1>1, <1>2, <1>3, <1>6, OtherTimers DEF DiagnosticSessionControl
<1>7. CASE ECUReset(req, ev)
    BY <1>1, <1>2, <1>3, <1>7, OtherTimers DEF ECUReset
<1>8. CASE SecurityAccess(req, ev)
    <2>1. UNCHANGED reset BY <1>8 DEF SecurityAccess
    <2>2. timer'.p2 = timer.p2 /\ timer'.ecuReset = timer.ecuReset
        BY <1>1, <1>8, OtherTimers DEF SecurityAccess, SendKey, RequestSeed
    <2>3. rc' # kResponsePending
        BY <1>2, <1>3, <1>8 DEF SecurityAccess, SendKey, RequestSeed
    <2> QED BY <2>1, <2>2, <2>3
<1>9. CASE TesterPresent(req, ev)
    BY <1>1, <1>2, <1>9, OtherTimers DEF TesterPresent
<1> QED BY <1>4, <1>5, <1>6, <1>7, <1>8, <1>9 DEF EvaluateServiceResponse

LEMMA ResetStep ==
    ASSUME TypeOK, ResetAssumption, ResetInv, [Next]_vars
    PROVE  ResetInv'
<1> USE DEF ResetInv
<1>1. /\ timer \in [TimerName -> Nat] /\ timer.p2 \in Nat /\ timer.ecuReset \in Nat
      /\ lag \in 0..MaxLag /\ MaxLag \in Nat /\ MaxLag >= 1
      /\ P2 \in Nat /\ PowerDown \in Nat /\ PowerDown >= P2 + MaxLag
    BY DurationsAssumption DEF TypeOK, TimerName, ResetAssumption
<1>2. CASE \E req \in Requests : Receive(req)
    <2>1. UNCHANGED <<pc, reset, progress, timer, rc, lag>>
        BY <1>2 DEF Receive, response, clock
    <2> QED BY <2>1 DEF reset, progress
<1>3. CASE Tick
    <2>1. UNCHANGED <<pc, reset, progress, rc>> /\ lag' = lag + 1
        BY <1>3 DEF Tick, response
    <2>2. /\ timer'.p2 = (IF timer.p2 > 0 THEN timer.p2 - 1 ELSE 0)
          /\ timer'.ecuReset = (IF timer.ecuReset > 0 THEN timer.ecuReset - 1 ELSE 0)
        BY <1>3 DEF Tick, TimerName
    <2>3. lag < MaxLag BY <1>3 DEF Tick
    <2>4. timer'.p2 <= Due(P2) BY <1>1, <2>2 DEF Due
    <2>5. ecuResetScheduled # 0 /\ requestInProgress =>
            /\ timer'.p2 > 0 => timer'.ecuReset >= timer'.p2 + MaxLag
            /\ timer'.p2 = 0 /\ pc = "poll" => timer'.ecuReset >= 1 + MaxLag - lag'
        BY <1>1, <2>1, <2>2, <2>3
    <2> QED BY <2>1, <2>4, <2>5 DEF reset, progress
<1>4. CASE PollTimers
    <2>1. /\ UNCHANGED <<progress, timer, rc, notReadyToReceive>>
          /\ pc' = "serve" /\ ecuResetScheduled' \in {0, ecuResetScheduled}
        BY <1>4 DEF PollTimers, response
    <2> QED BY <2>1 DEF progress
<1>5. CASE PollIdle
    <2>1. UNCHANGED <<reset, progress, timer, rc>> /\ pc' = "poll" /\ ~requestInProgress
        BY <1>5 DEF PollIdle, response
    <2> QED BY <2>1 DEF reset, progress
<1>6. ASSUME NEW ev \in Events, PollNewRequest(ev) PROVE ResetInv'
    <2>1. /\ pc' = "poll" /\ lag' = lag /\ ecuResetScheduled = 0
          /\ RCRRP' = (RCRRP \/ rc' = kResponsePending)
          /\ EvaluateServiceResponse(inbox, ev)
        BY <1>6 DEF PollNewRequest, clock
    <2>2. rc' # kResponsePending /\ timer'.p2 = timer.p2 BY <2>1, EvaluateReset
    <2>3. CASE UNCHANGED reset
        BY <2>1, <2>2, <2>3 DEF reset
    <2>4. CASE notReadyToReceive' = TRUE /\ timer'.ecuReset = Due(PowerDown)
        <3>1. /\ timer'.p2 > 0 => timer'.ecuReset >= timer'.p2 + MaxLag
              /\ timer'.p2 = 0 => timer'.ecuReset >= 1 + MaxLag - lag'
            BY <1>1, <2>1, <2>2, <2>4 DEF Due
        <3> QED BY <2>1, <2>2, <2>4, <3>1
    <2> QED BY <2>1, <2>3, <2>4, EvaluateReset
<1>7. CASE PollWait
    <2>1. /\ UNCHANGED <<reset, progress, timer, rc, lag>> /\ pc' = "poll"
          /\ timer.p2 # 0
        BY <1>7 DEF PollWait, Expired, response, clock
    <2> QED BY <2>1 DEF reset, progress
<1>8. CASE PollRespond
    <2>1. /\ UNCHANGED <<reset, RCRRP, rc>> /\ pc' = "poll" /\ requestInProgress' = FALSE
          /\ StartTimer("p2", P2)
        BY <1>8 DEF PollRespond, response
    <2>2. timer'.p2 = Due(P2) BY <1>1, <2>1, OtherTimers DEF TimerName
    <2> QED BY <1>1, <2>1, <2>2 DEF reset, Due
<1>9. CASE UNCHANGED vars
    BY <1>9 DEF vars, reset, progress, response, clock
<1> QED BY <1>2, <1>3, <1>4, <1>5, <1>6, <1>7, <1>8, <1>9
    DEF Next, PollStep, PollPending, PollEvaluated

(* The reset's invariant holds in every state. *)
LEMMA ResetInvariant ==
    ASSUME ResetAssumption
    PROVE  Spec => []ResetInv
<1>1. Init => ResetInv
    BY DurationsAssumption DEF Init, ResetInv, Due, kPositiveResponse, kResponsePending
<1>2. TypeOK /\ ResetInv /\ [Next]_vars => ResetInv'
    BY ResetStep
<1> QED BY <1>1, <1>2, TypeCorrect, PTL DEF Spec

(* A server that is about to reset owes no response. *)
THEOREM ResetOrderly ==
    ASSUME ResetAssumption
    PROVE  Spec => []ResetFollowsResponse
<1>1. TypeOK /\ ResetInv => ResetFollowsResponse
    BY DurationsAssumption DEF TypeOK, ResetInv, ResetFollowsResponse, Expired, TimerName
<1> QED BY <1>1, ResetInvariant, TypeCorrect, PTL

-----------------------------------------------------------------------------
(***************************************************************************)
(* Deafness.  Here fn may answer what it likes, 0x78 included.             *)
(***************************************************************************)
(* The deafness of a server that has no request pending never ends: the    *)
(* polls that would evaluate a request are those of a pending one, which   *)
(* there is not, and those of a new one, which notReadyToReceive forbids.  *)
LEMMA DeafStep ==
    ASSUME Flow, notReadyToReceive, ~RCRRP, [Next]_vars
    PROVE  notReadyToReceive' /\ ~RCRRP'
<1>1. CASE \/ \E req \in Requests : Receive(req)
           \/ Tick \/ PollTimers \/ PollIdle \/ PollWait \/ PollRespond \/ UNCHANGED vars
    <2>1. UNCHANGED <<notReadyToReceive, RCRRP>>
        BY <1>1 DEF Receive, Tick, PollTimers, PollIdle, PollWait, PollRespond, vars,
                    reset, progress
    <2> QED BY <2>1
<1>2. ~PollEvaluated BY DEF PollEvaluated, Flow
<1>3. \A ev \in Events : ~PollNewRequest(ev) /\ ~PollPending(ev)
    BY DEF PollNewRequest, PollPending
<1> QED BY <1>1, <1>2, <1>3 DEF Next, PollStep

(* A server that accepts an ECUReset when it first evaluates it hears no   *)
(* request any more, whatever was pending before: line 1876, which takes   *)
(* notReadyToReceive back, is never reached again.                         *)
THEOREM ResetsAreFinal == Spec => ResetIsFinal
<1> DEFINE Deaf == notReadyToReceive /\ ~RCRRP
<1>1. ResetAtOnce => Deaf BY DEF ResetAtOnce
<1>2. TransferInv /\ Deaf /\ [Next]_vars => Deaf' BY DeafStep DEF TransferInv
<1>3. Deaf => notReadyToReceive OBVIOUS
<1> HIDE DEF Deaf
<1> QED BY <1>1, <1>2, <1>3, TransferInvariant, PTL DEF Spec, ResetIsFinal
=============================================================================
