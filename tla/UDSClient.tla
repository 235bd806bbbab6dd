------------------------------ MODULE UDSClient ------------------------------
(***************************************************************************)
(* The C client of upgrade_server/src/iso14229.c: one request at a time    *)
(* (UDSSend..., PollLowLevel) and, on top of it, the download sequence     *)
(* (UDSConfigDownload, UDSClientPoll), against a server that answers late, *)
(* with 0x78, with a refusal or not at all, and a transport that may fail. *)
(*                                                                         *)
(* A message is what the client compares: service, second byte, the number *)
(* of the request it is or answers (unknown to the code), and whether it   *)
(* is as long as its service requires.  A file is its length in cells.     *)
(***************************************************************************)
EXTENDS Integers, Sequences

CONSTANTS
    UserRequests,       \* [sid, sub]: what the user sends besides the download
    UserOptions,        \* the options it sets for them
    DefaultOptions,     \* client->defaultOptions
    Careful,            \* the user sends nothing while client->err is set
    P2, P2Star,         \* the default timings, in ticks
    ServerTimings,      \* the [p2, p2Star] a session response may carry
    FileSize,           \* cells in the file of the download
    BlockLengths,       \* data cells per block the server may ask for, with 0
                        \* for a response that names none; {}: no download
    SendBufLen,         \* data cells that send_buf has room for
    LengthMod,          \* width of the sequence's blockLength (2^16)
    CounterMod,         \* width of the block sequence counter (256)
    MaxUserRequests,    \* bound: requests of the user
    MaxPending,         \* bound: responses 0x78
    MaxFaults           \* bound: transport and file errors, lost and short
                        \* answers, functional messages of others

Options == {"SUPPRESS_POS_RESP", "FUNCTIONAL", "NEG_RESP_IS_ERR",
            "IGNORE_SRV_TIMINGS"}

ASSUME RequestsAssumption == UserRequests \subseteq [sid : STRING, sub : 0..255]
ASSUME OptionsAssumption ==
    /\ UserOptions \subseteq SUBSET Options /\ DefaultOptions \subseteq Options
    /\ Careful \in BOOLEAN
ASSUME TimingAssumption ==
    /\ P2 \in Nat /\ P2Star \in Nat /\ P2 <= P2Star
    /\ ServerTimings \subseteq [p2 : Nat, p2Star : Nat]

(* A block carries two cells besides its data, and the length announced,   *)
(* with them, is cut to the width of blockLength.  What is left must be    *)
(* more than 2 (asserted) and fit send_buf (unchecked); this repository's  *)
(* server announces at most UDS_TP_MTU, the size of DoIPTp's send_buf_.    *)
DataLength(n) == ((n + 2) % LengthMod) - 2

ASSUME FileAssumption ==
    /\ FileSize \in Nat /\ CounterMod \in Nat \ {0, 1}
    /\ LengthMod \in Nat /\ LengthMod > 2 /\ SendBufLen \in Nat
    /\ BlockLengths \subseteq Nat
    /\ \A n \in BlockLengths \ {0} : DataLength(n) \in 1..SendBufLen

VARIABLES
    client,     \* UDSClient_t, and the sequence UDSConfigDownload points it to
    inbox,      \* transport: the messages received and not acknowledged
    tx,         \* transport: the message whose transmission is in progress
    owed,       \* server: the requests it has received and not answered
    stored,     \* server: the blocks it accepted
    exited,     \* server: it accepted a transfer exit
    taken,      \* history: whose answer each request sent took (0: none)
    users, pendings, faults \* how much of the bounds is used

net    == <<inbox, tx>>
server == <<owed, stored, exited>>
used   == <<users, pendings, faults>>
vars   == <<client, net, server, taken, used>>

NoRequest  == [id |-> 0, sid |-> "none", sub |-> 0, bit7 |-> FALSE, from |-> 0, len |-> 0]
NoResponse == [id |-> 0, sid |-> "none", sub |-> 0, kind |-> "positive",
               whole |-> FALSE, functional |-> FALSE, blockLength |-> 0,
               timings |-> [p2 |-> P2, p2Star |-> P2Star]]

(* The callbacks of the download, in the order of UDSConfigDownload; the   *)
(* index 0 is a client without cbList, and NULL ends the list.             *)
Callbacks == <<"requestDownload", "AwaitIdle", "checkRequestDownloadResponse",
               "prepareToTransfer", "transferData", "requestTransferExit",
               "AwaitIdle", "NULL">>
ActiveCallback(c) == IF c.cbIdx = 0 THEN "NULL" ELSE Callbacks[c.cbIdx]
Completed(c) == c.cbIdx = Len(Callbacks) /\ c.err = "OK"

Init ==
    /\ client = [state |-> "Idle", err |-> "OK", options |-> {}, copy |-> {},
                 send_buf |-> NoRequest, recv_buf |-> NoResponse,
                 p2 |-> P2, p2Star |-> P2Star, p2_timer |-> 0, ret |-> "idle",
                 cbIdx |-> 0, blockSequenceCounter |-> 1, blockLength |-> 0,
                 pos |-> 0, eof |-> FALSE, ferror |-> FALSE]
    /\ inbox = <<>> /\ tx = <<>>
    /\ owed = <<>> /\ stored = <<>> /\ exited = FALSE
    /\ taken = <<>>
    /\ users = 0 /\ pendings = 0 /\ faults = 0

-----------------------------------------------------------------------------
(***************************************************************************)
(* PollLowLevel.  A step of the client maps s, the client with the         *)
(* transport it works on, to the next one; fails: which of the calls it    *)
(* makes returns an error, "no", "transport" or "file".                    *)
(***************************************************************************)
Ended(s, err)  == [s EXCEPT !.c.state = "Idle", !.c.err = err]
AckRecv(s)     == [s EXCEPT !.inbox = Tail(@)]
Take(s)        == [s EXCEPT !.taken[s.c.send_buf.id] = s.c.recv_buf.id]

(* Mutant: the transport is not asked whether it is still sending.         *)
SendingAtOnce(s, fails) ==
    IF fails = "transport" THEN [s EXCEPT !.c.err = "TPORT"]
    ELSE [s EXCEPT !.c.state = "AwaitSendComplete",
                   !.tx = Append(@, s.c.send_buf)]

(* On an error the request stays in Sending: the next poll tries again.    *)
Sending(s, fails) ==
    IF fails = "transport" THEN [s EXCEPT !.c.err = "TPORT"]
    ELSE IF s.tx # <<>> THEN s
    ELSE [s EXCEPT !.c.state = "AwaitSendComplete", !.tx = <<s.c.send_buf>>]

AwaitSendComplete(s) ==
    IF s.tx # <<>>
    THEN IF "FUNCTIONAL" \in s.c.copy THEN [s EXCEPT !.c.state = "Idle"] ELSE s
    ELSE IF "SUPPRESS_POS_RESP" \in s.c.copy THEN [s EXCEPT !.c.state = "Idle"]
    ELSE [s EXCEPT !.c.state = "AwaitResponse", !.c.p2_timer = s.c.p2 + 1]

(* Mutant: p2_timer is not looked at.                                      *)
AwaitResponseForEver(s, fails) ==
    IF fails = "transport" THEN Ended(s, "TPORT")
    ELSE IF s.inbox = <<>> THEN s
    ELSE IF Head(s.inbox).functional THEN AckRecv(s)
    ELSE [s EXCEPT !.c.recv_buf = Head(s.inbox), !.c.state = "ProcessResponse"]

AwaitResponse(s, fails) ==
    IF fails = "transport" THEN Ended(s, "TPORT")
    ELSE IF s.inbox = <<>>
    THEN IF s.c.p2_timer = 0 THEN Ended(s, "TIMEOUT") ELSE s
    ELSE IF Head(s.inbox).functional THEN AckRecv(s)
    ELSE [s EXCEPT !.c.recv_buf = Head(s.inbox), !.c.state = "ProcessResponse"]

(* Mutant: UDS_NEG_RESP_IS_ERR is not looked at.                           *)
ClientValidateSid(c) ==
    IF c.recv_buf.sid # c.send_buf.sid THEN "SID_MISMATCH" ELSE "OK"

ClientValidateResponse(c) ==
    IF c.recv_buf.sid # c.send_buf.sid THEN "SID_MISMATCH"
    ELSE IF c.recv_buf.kind = "negative"
    THEN IF "NEG_RESP_IS_ERR" \in c.copy THEN "NEG_RESP" ELSE "OK"
    ELSE IF c.recv_buf.kind = "positive" /\ c.send_buf.sid = "ECUReset"
    THEN IF ~c.recv_buf.whole THEN "RESP_TOO_SHORT"
         ELSE IF c.recv_buf.sub # c.send_buf.sub THEN "SUBFUNCTION_MISMATCH"
         ELSE "OK"
    ELSE "OK"

(* Mutants: 0x78 ends the request; the answer stays in the transport.      *)
PendingIsAnswer(s) == Take(AckRecv(Ended(s, "OK")))
AnswerNotAcknowledged(s) ==
    IF s.c.recv_buf.kind = "pending"
    THEN AckRecv([s EXCEPT !.c.p2_timer = s.c.p2Star + 1,
                           !.c.recv_buf = NoResponse,
                           !.c.state = "AwaitResponse"])
    ELSE Take(Ended(s, "OK"))

ClientHandleResponse(s) ==
    LET r == s.c.recv_buf IN
    IF r.kind = "pending"
    THEN AckRecv([s EXCEPT !.c.p2_timer = s.c.p2Star + 1,
                           !.c.recv_buf = NoResponse,
                           !.c.state = "AwaitResponse"])
    ELSE IF r.kind = "positive" /\ r.sid = "DiagnosticSessionControl" /\ ~r.whole
    THEN AckRecv(Ended(s, "RESP_TOO_SHORT"))
    ELSE IF /\ r.kind = "positive" /\ r.sid = "DiagnosticSessionControl"
            /\ "IGNORE_SRV_TIMINGS" \notin s.c.copy
    THEN Take(AckRecv(Ended([s EXCEPT !.c.p2 = r.timings.p2,
                                      !.c.p2Star = r.timings.p2Star], "OK")))
    ELSE Take(AckRecv(Ended(s, "OK")))

ProcessResponse(s) ==
    LET err == ClientValidateResponse(s.c) IN
    IF err = "OK" THEN ClientHandleResponse([s EXCEPT !.c.err = "OK"])
    ELSE AckRecv(Ended(s, err))

PollLowLevel(s, fails) ==
    CASE s.c.state = "Idle"              -> [s EXCEPT !.c.options = DefaultOptions]
      [] s.c.state = "Sending"           -> Sending(s, fails)
      [] s.c.state = "AwaitSendComplete" -> AwaitSendComplete(s)
      [] s.c.state = "AwaitResponse"     -> AwaitResponse(s, fails)
      [] s.c.state = "ProcessResponse"   -> ProcessResponse(s)

-----------------------------------------------------------------------------
(***************************************************************************)
(* Requests.  PreRequestCheck clears the context, whether or not the rest  *)
(* of UDSSend... then finds an argument it refuses; send_buf[1] |= 0x80    *)
(* marks a suppressed request, whatever its second byte is.  Its own       *)
(* error, UDS_ERR_TPORT, needs a transport whose get_send_buf fails: each  *)
(* one in the repository returns the size of a member.                     *)
(***************************************************************************)
PreRequestCheck(s) ==
    [s EXCEPT !.c.state = "Idle", !.c.err = "OK", !.c.recv_buf.whole = FALSE]

SendRequest(s, sid, sub, from, len, fails) ==
    LET id == Len(s.taken) + 1
        c  == PreRequestCheck(s).c
    IN Sending([s EXCEPT
         !.taken = Append(@, 0),
         !.c = [c EXCEPT !.copy = c.options, !.state = "Sending",
                  !.send_buf = [id |-> id, sid |-> sid, sub |-> sub,
                                bit7 |-> "SUPPRESS_POS_RESP" \in c.options,
                                from |-> from, len |-> len]]], fails)

-----------------------------------------------------------------------------
(***************************************************************************)
(* The callbacks of the download sequence.                                 *)
(***************************************************************************)
GotoNext(s) == [s EXCEPT !.c.cbIdx = @ + 1, !.c.ret = "running"]
Running(s)  == [s EXCEPT !.c.ret = "running"]
Done(s, err) == [s EXCEPT !.c.err = err, !.c.ret = "idle"]

UnpackRequestDownloadResponse(c) ==
    IF c.recv_buf.sid # "RequestDownload" \/ c.recv_buf.kind # "positive"
    THEN "SID_MISMATCH"
    ELSE IF ~c.recv_buf.whole THEN "RESP_TOO_SHORT"
    ELSE IF c.recv_buf.blockLength = 0 THEN "ERR" ELSE "OK"

CheckRequestDownloadResponse(s) ==
    LET err == UnpackRequestDownloadResponse(s.c) IN
    IF err = "OK"
    THEN GotoNext([s EXCEPT !.c.blockLength = DataLength(s.c.recv_buf.blockLength)])
    ELSE Done(s, err)

(* Mutant: the first block has the counter 0.                              *)
PrepareFromZero(s) == GotoNext([s EXCEPT !.c.blockSequenceCounter = 0])

PrepareToTransfer(s) == GotoNext([s EXCEPT !.c.blockSequenceCounter = 1])

(* Mutant: the end of the file does not end the transfer of blocks.        *)
TransferDataNoEnd(s, fails) ==
    LET left == FileSize - s.c.pos
        len  == IF fails = "file" THEN 0
                ELSE IF left < s.c.blockLength THEN left ELSE s.c.blockLength
        read == [s EXCEPT !.c.pos = @ + len, !.c.ferror = fails = "file",
                          !.c.eof = fails # "file" /\ len < s.c.blockLength,
                          !.c.blockSequenceCounter = (@ + 1) % CounterMod]
    IN IF s.c.ferror THEN Done(s, "FILE_IO")
       ELSE IF s.c.eof THEN Running(s)
       ELSE Running(SendRequest(read, "TransferData", s.c.blockSequenceCounter,
                                s.c.pos, len, fails))

(* feof is true after a read that came short, and only then: a file of a   *)
(* whole number of blocks is followed by an empty block.  A read that      *)
(* fails still sends what it got (here nothing); the next call sees ferror.*)
TransferData(s, fails) ==
    LET left == FileSize - s.c.pos
        len  == IF fails = "file" THEN 0
                ELSE IF left < s.c.blockLength THEN left ELSE s.c.blockLength
        read == [s EXCEPT !.c.pos = @ + len, !.c.ferror = fails = "file",
                          !.c.eof = fails # "file" /\ len < s.c.blockLength,
                          !.c.blockSequenceCounter = (@ + 1) % CounterMod]
    IN IF s.c.ferror THEN Done(s, "FILE_IO")
       ELSE IF s.c.eof THEN GotoNext(s)
       ELSE Running(SendRequest(read, "TransferData", s.c.blockSequenceCounter,
                                s.c.pos, len, fails))

RunCallback(s, fails) ==
    LET cb == ActiveCallback(s.c) IN
    CASE cb = "requestDownload" ->
            GotoNext(SendRequest(s, "RequestDownload", 0, 0, 0, fails))
      [] cb = "AwaitIdle" -> GotoNext(s)
      [] cb = "checkRequestDownloadResponse" -> CheckRequestDownloadResponse(s)
      [] cb = "prepareToTransfer" -> PrepareToTransfer(s)
      [] cb = "transferData" -> TransferData(s, fails)
      [] cb = "requestTransferExit" ->
            GotoNext(SendRequest(s, "RequestTransferExit", 0, 0, 0, fails))
      [] cb = "NULL" -> [s EXCEPT !.c.ret = "idle"]

(* UDSClientPoll: the request's step, then, if it left the client idle and *)
(* without an error, the callback's.  No poll makes two calls that fail.   *)
ClientPoll(s, fails) ==
    LET t == PollLowLevel(s, fails) IN
    IF t.c.err # "OK" THEN [t EXCEPT !.c.ret = "idle"]
    ELSE IF t.c.state # "Idle" THEN Running(t)
    ELSE RunCallback(t, fails)

-----------------------------------------------------------------------------
(***************************************************************************)
(* The user's loop: UDSClientPoll, and between two polls a request of its  *)
(* own or the configuration of a download.                                 *)
(***************************************************************************)
System == [c |-> client, inbox |-> inbox, tx |-> tx, taken |-> taken]
MoveTo(s) == client' = s.c /\ inbox' = s.inbox /\ tx' = s.tx /\ taken' = s.taken
MayFail == IF faults < MaxFaults THEN {"no", "transport", "file"} ELSE {"no"}

Poll ==
    \E fails \in MayFail :
        /\ fails = "file" => ActiveCallback(client) = "transferData"
        /\ faults' = faults + (IF fails = "no" THEN 0 ELSE 1)
        /\ MoveTo(ClientPoll(System, fails))
        /\ UNCHANGED <<server, users, pendings>>

UserMaySend == client.state = "Idle" /\ (Careful => client.err = "OK")

UserSend(q, opts) ==
    /\ UserMaySend /\ users < MaxUserRequests
    /\ users' = users + 1
    /\ \E fails \in MayFail \ {"file"} :
          /\ faults' = faults + (IF fails = "no" THEN 0 ELSE 1)
          /\ MoveTo(SendRequest([System EXCEPT !.c.options = opts],
                                q.sid, q.sub, 0, 0, fails))
    /\ UNCHANGED <<server, pendings>>

UserSendRejected ==
    /\ UserMaySend
    /\ MoveTo(PreRequestCheck(System))
    /\ UNCHANGED <<server, used>>

ConfigDownload ==
    /\ client.cbIdx = 0 /\ BlockLengths # {}
    /\ client' = [client EXCEPT !.cbIdx = 1, !.blockSequenceCounter = 1]
    /\ UNCHANGED <<net, server, taken, used>>

(* UDSMillis: p2_timer is read in AwaitResponse only, and set on entry.    *)
Tick ==
    /\ client.state = "AwaitResponse" /\ client.p2_timer > 0
    /\ client' = [client EXCEPT !.p2_timer = @ - 1]
    /\ UNCHANGED <<net, server, taken, used>>

-----------------------------------------------------------------------------
(***************************************************************************)
(* The transport and the server.  The server answers in order, each        *)
(* request once, at any time after it came.                                *)
(***************************************************************************)
Fault == faults < MaxFaults /\ faults' = faults + 1

Transmit ==
    /\ tx # <<>> /\ tx' = <<>>
    /\ \/ owed' = owed \o tx /\ UNCHANGED faults
       \/ Fault /\ UNCHANGED owed
    /\ UNCHANGED <<client, inbox, stored, exited, taken, users, pendings>>

ResponseTo(q, kind) ==
    [NoResponse EXCEPT !.id = q.id, !.sid = q.sid, !.sub = q.sub,
                       !.kind = kind, !.whole = TRUE]

PositiveResponses(q) ==
    CASE q.sid = "RequestDownload" ->
            {[ResponseTo(q, "positive") EXCEPT !.blockLength = n] : n \in BlockLengths}
      [] q.sid = "DiagnosticSessionControl" ->
            {[ResponseTo(q, "positive") EXCEPT !.timings = t] : t \in ServerTimings}
      [] OTHER -> {ResponseTo(q, "positive")}

(* Byte 1 as it arrives; it holds a suppress bit where there is a          *)
(* subfunction.                                                            *)
Byte1(q) == q.sub + (IF q.bit7 THEN 128 ELSE 0)
Suppressed(q) == q.bit7 /\ q.sid \in {r.sid : r \in UserRequests}

(* It carries the request out; the answer may be suppressed, cut short or  *)
(* lost on its way.                                                        *)
Accept ==
    LET q == Head(owed) IN
    /\ owed # <<>> /\ owed' = Tail(owed)
    /\ stored' = IF q.sid = "TransferData"
                 THEN Append(stored, [sub |-> Byte1(q), from |-> q.from, len |-> q.len])
                 ELSE stored
    /\ exited' = (exited \/ q.sid = "RequestTransferExit")
    /\ \/ Suppressed(q) /\ UNCHANGED <<inbox, faults>>
       \/ Fault /\ UNCHANGED inbox
       \/ \E resp \in PositiveResponses(q) :
             /\ ~Suppressed(q)
             /\ \/ inbox' = Append(inbox, resp) /\ UNCHANGED faults
                \/ inbox' = Append(inbox, [resp EXCEPT !.whole = FALSE]) /\ Fault
    /\ UNCHANGED <<client, tx, taken, users, pendings>>

Refuse ==
    /\ owed # <<>> /\ owed' = Tail(owed)
    /\ inbox' = Append(inbox, ResponseTo(Head(owed), "negative"))
    /\ UNCHANGED <<client, tx, stored, exited, taken, used>>

ResponsePending ==
    /\ owed # <<>> /\ pendings < MaxPending
    /\ pendings' = pendings + 1
    /\ inbox' = Append(inbox, ResponseTo(Head(owed), "pending"))
    /\ UNCHANGED <<client, tx, server, taken, users, faults>>

(* A functional message of another tester on the same bus.                 *)
FunctionalMessage ==
    /\ Fault
    /\ inbox' = Append(inbox, [NoResponse EXCEPT !.functional = TRUE])
    /\ UNCHANGED <<client, tx, server, taken, users, pendings>>

Next ==
    \/ Poll \/ ConfigDownload \/ Tick
    \/ \E q \in UserRequests, opts \in UserOptions : UserSend(q, opts)
    \/ UserSendRejected
    \/ Transmit \/ Accept \/ Refuse \/ ResponsePending \/ FunctionalMessage

(* The user polls for ever, time passes and a transmission ends; a server  *)
(* owes nobody an answer.                                                  *)
Fairness == WF_vars(Poll) /\ WF_vars(Tick) /\ WF_vars(Transmit)

Spec == Init /\ [][Next]_vars /\ Fairness
-----------------------------------------------------------------------------
(***************************************************************************)
(* Properties.                                                             *)
(***************************************************************************)
States == {"Idle", "Sending", "AwaitSendComplete", "AwaitResponse",
           "ProcessResponse"}
Errors == {"OK", "ERR", "TPORT", "TIMEOUT", "SID_MISMATCH", "NEG_RESP",
           "RESP_TOO_SHORT", "SUBFUNCTION_MISMATCH", "FILE_IO"}

(* The client's members have their types, the transport sends one message  *)
(* at a time, and every request has at most one answer on its record.      *)
TypeOK ==
    /\ client.state \in States /\ client.err \in Errors
    /\ client.options \subseteq Options /\ client.copy \subseteq Options
    /\ client.cbIdx \in 0..Len(Callbacks) /\ client.ret \in {"idle", "running"}
    /\ client.p2_timer \in Nat /\ client.pos \in 0..FileSize
    /\ client.blockSequenceCounter \in 0..(CounterMod - 1) \cup {1}
    /\ Len(tx) <= 1
    /\ taken \in Seq(0..Len(taken))

(* The code does not match an answer to its request by anything but the    *)
(* service, and never empties the transport before it sends.  So a client  *)
(* may take the late answer to an earlier request for the answer to its    *)
(* own; but that starts only after a request that took none at all (it was *)
(* suppressed, functional, timed out, or ended in an error).               *)
OwnAnswer ==
    \A i \in DOMAIN taken :
        taken[i] \notin {0, i} => \E j \in 1..(i - 1) : taken[j] = 0

(* Even then no answer is taken twice, none out of order, and none before  *)
(* its request was made.                                                   *)
AnswersInOrder ==
    \A i \in DOMAIN taken :
        taken[i] # 0 => /\ taken[i] <= i
                        /\ \A j \in 1..(i - 1) : taken[j] < taken[i]

(* Every request ends, however late, negative or lost its answer, whatever *)
(* the transport does a bounded number of times.                           *)
RequestEnds == client.state # "Idle" ~> client.state = "Idle"

(* Where the k-th block the server accepted ends in the file.             *)
EndOf(k) == IF k = 0 THEN 0 ELSE stored[k].from + stored[k].len

(* With NEG_RESP_IS_ERR among the default options, the blocks the server   *)
(* accepted are a prefix of the file, in order and without gaps, with      *)
(* block sequence counters that count from 1: also with requests of the    *)
(* user between the blocks, and when an answer is lost.                    *)
FileInOrder ==
    \A k \in DOMAIN stored :
        stored[k].sub = k % CounterMod /\ stored[k].from = EndOf(k - 1)

(* ... and a sequence that came to its end without an error has stored the *)
(* whole file and left the transfer.                                       *)
CompletedMeansStored ==
    Completed(client) => /\ exited /\ stored # <<>>
                         /\ EndOf(Len(stored)) = FileSize

(* A configured download comes to its end, or reports an error.            *)
DownloadEnds == client.cbIdx > 0 ~> Completed(client) \/ client.err # "OK"

(* iso14229.h:634: "@return UDS_CLIENT_IDLE if idle, otherwise             *)
(* UDS_CLIENT_RUNNING".  A poll that returns UDS_CLIENT_IDLE leaves the    *)
(* client idle.                                                            *)
IdleMeansIdle == [][Poll /\ client'.ret = "idle" => client'.state = "Idle"]_vars
=============================================================================
