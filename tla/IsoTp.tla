------------------------------- MODULE IsoTp -------------------------------
(***************************************************************************)
(* ISO-TP over CAN (iso14229.c 2041-2497, 2967-3499): the sending half of  *)
(* a tester's link, the receiving halves (physical and functional) of a    *)
(* server's link over their shared recv_buf, and UDSServerPoll's peek and  *)
(* ack_recv.  Frames and flow control frames may be lost, writing to the   *)
(* bus may fail, timers may expire.                                        *)
(*                                                                         *)
(* A message is a number and a size in cells: what a single or first frame *)
(* carries is its first cell, a consecutive frame carries one more.  A     *)
(* cell names its message, its place and the size.  SocketCANRecv's loop   *)
(* is one step per frame; STmin is 0, as this library asks for.            *)
(***************************************************************************)
EXTENDS Integers, Sequences, FiniteSets

CONSTANTS
    Sizes,          \* sizes of the messages
    RecvBufSize,    \* receive_buf_size, in cells
    BlockSize,      \* ISO_TP_DEFAULT_BLOCK_SIZE (8)
    SnMod,          \* sequence numbers (16)
    MaxWft,         \* ISO_TP_MAX_WFT_NUMBER (1)
    Timeout,        \* ISO_TP_DEFAULT_RESPONSE_TIMEOUT, in ticks
    MaxMsgs,        \* bound: messages sent
    MaxFaults,      \* bound: frames lost, and failures to write one
    MaxWaits        \* bound: flow control WAIT of a receiver of another make

ASSUME SizeAssumption ==
    Sizes \subseteq Nat \ {0} /\ RecvBufSize \in Nat \ {0}
(* A block is no longer than the sequence numbers reach (8 <= 16).          *)
ASSUME FlowAssumption ==
    SnMod \in Nat \ {0} /\ BlockSize \in 1..SnMod /\ MaxWft \in Nat
ASSUME BoundAssumption ==
    Timeout \in Nat /\ MaxMsgs \in Nat /\ MaxFaults \in Nat /\ MaxWaits \in Nat

VARIABLES
    out,        \* tester: the sending half of its phys_link
    bus,        \* frames on their way to the server
    back,       \* flow control frames on their way to the tester
    recv,       \* server: the receiving half of phys_link
    func,       \* server: the receiving half of func_link
    recv_buf,   \* server: the buffer both links receive into
    reader,     \* server: UDSServerPoll between peek and ack_recv
    req,        \* server: the request it peeked at last
    sent,       \* history: messages sent
    latest,     \* history: the last physical message peeked at
    calm,       \* history: nothing lost, failed, late or functional so far, no
                \* message sent before the server was done with the previous
    faults, waits

tester == <<out, sent>>
server == <<recv, func, recv_buf>>
user   == <<reader, req, latest>>
used   == <<faults, waits>>
vars   == <<out, sent, bus, back, recv, func, recv_buf, reader, req, latest, calm,
            faults, waits>>

NoCell == [id |-> 0, at |-> 0, of |-> 0]
Cell(id, at, of) == [id |-> id, at |-> at, of |-> of]
Frame(type, sn, cell) == [type |-> type, sn |-> sn, cell |-> cell]

Init ==
    /\ out = [status |-> "IDLE", id |-> 0, size |-> 0, offset |-> 0, sn |-> 0,
              bs_remain |-> 0, wtf_count |-> 0, timer_bs |-> 0]
    /\ bus = <<>> /\ back = <<>>
    /\ recv = [status |-> "IDLE", size |-> 0, offset |-> 0, sn |-> 0,
               bs_count |-> 0, timer_cr |-> 0, waiting |-> 0]
    /\ func = [status |-> "IDLE", size |-> 0]
    /\ recv_buf = [i \in 1..RecvBufSize |-> NoCell]
    /\ reader = "idle" /\ req = [func |-> FALSE, cells |-> <<>>]
    /\ sent = 0 /\ latest = 0 /\ calm = TRUE
    /\ faults = 0 /\ waits = 0

-----------------------------------------------------------------------------
(***************************************************************************)
(* The tester.                                                             *)
(***************************************************************************)
(* isotp_user_send_can: the frame is sent, lost later, or not accepted.    *)
Transmit(frame, fate) ==
    /\ bus' = IF fate = "sent" THEN Append(bus, frame) ELSE bus
    /\ fate # "sent" => faults < MaxFaults
    /\ faults' = IF fate = "sent" THEN faults ELSE faults + 1
    /\ UNCHANGED waits

Undisturbed(fate) == calm /\ fate = "sent"
ServerDone == reader = "idle" /\ latest = sent

(* isotp_send: the status is left alone by a single frame and by a first   *)
(* frame that could not be written.                                        *)
SendSingle(fate) ==
    /\ out' = [out EXCEPT !.id = sent', !.size = 1, !.offset = 0]
    /\ Transmit(Frame("SF", 0, Cell(sent', 1, 1)), fate)

SendFirst(size, fate) ==
    /\ out' = IF fate = "error"
              THEN [out EXCEPT !.id = sent', !.size = size, !.offset = 0]
              ELSE [status |-> "INPROGRESS", id |-> sent', size |-> size, offset |-> 1,
                    sn |-> 1 % SnMod, bs_remain |-> 0, wtf_count |-> 0,
                    timer_bs |-> Timeout + 1]
    /\ Transmit(Frame("FF", 0, Cell(sent', 1, size)), fate)

Send(size, fate) ==
    /\ sent < MaxMsgs /\ out.status # "INPROGRESS"
    /\ sent' = sent + 1
    /\ IF size = 1 THEN SendSingle(fate) ELSE SendFirst(size, fate)
    /\ calm' = (Undisturbed(fate) /\ ServerDone)
    /\ UNCHANGED <<back, server, user>>

(* A functional request is a single frame, sent over a link of its own.    *)
SendFunctional ==
    /\ sent < MaxMsgs
    /\ sent' = sent + 1
    /\ Transmit(Frame("func", 0, Cell(sent', 1, 1)), "sent")
    /\ calm' = FALSE
    /\ UNCHANGED <<out, back, server, user>>

(* isotp_send_consecutive_frame, and what isotp_poll does after it.        *)
AfterConsecutive(remain) ==
    [out EXCEPT !.offset = @ + 1, !.sn = (@ + 1) % SnMod, !.bs_remain = remain,
        !.timer_bs = Timeout + 1,
        !.status = IF out.offset + 1 >= out.size THEN "IDLE" ELSE @]

(* Mutant: the block is not counted down.                                  *)
SendConsecutiveUncounted(fate) ==
    /\ Transmit(Frame("CF", out.sn, Cell(out.id, out.offset + 1, out.size)), fate)
    /\ out' = IF fate = "error" THEN [out EXCEPT !.status = "ERROR"]
              ELSE AfterConsecutive(out.bs_remain)

SendConsecutive(fate) ==
    /\ Transmit(Frame("CF", out.sn, Cell(out.id, out.offset + 1, out.size)), fate)
    /\ out' = IF fate = "error" THEN [out EXCEPT !.status = "ERROR"]
              ELSE AfterConsecutive(out.bs_remain - 1)

(* isotp_poll, sending: one consecutive frame if the block allows it, else *)
(* the timeout.                                                            *)
PollSend(fate) ==
    /\ out.status = "INPROGRESS"
    /\ IF out.bs_remain > 0
       THEN SendConsecutive(fate)
       ELSE /\ fate = "sent" /\ out.timer_bs = 0
            /\ out' = [out EXCEPT !.status = "ERROR"]
            /\ UNCHANGED <<bus, used>>
    /\ calm' = Undisturbed(fate)
    /\ UNCHANGED <<sent, back, server, user>>

(* Mutant: the count of waits goes on after CONTINUE.                      *)
AfterFlowControlCounting(fs) ==
    LET refreshed == [out EXCEPT !.timer_bs = Timeout + 1]
    IN  IF fs = "OVERFLOW" THEN [refreshed EXCEPT !.status = "ERROR"]
        ELSE IF fs = "CONTINUE" THEN [refreshed EXCEPT !.bs_remain = BlockSize]
        ELSE [refreshed EXCEPT !.wtf_count = @ + 1,
                  !.status = IF out.wtf_count + 1 > MaxWft THEN "ERROR" ELSE @]

(* isotp_on_can_message, a flow control frame.                             *)
AfterFlowControl(fs) ==
    LET refreshed == [out EXCEPT !.timer_bs = Timeout + 1]
    IN  IF fs = "OVERFLOW" THEN [refreshed EXCEPT !.status = "ERROR"]
        ELSE IF fs = "CONTINUE"
        THEN [refreshed EXCEPT !.bs_remain = BlockSize, !.wtf_count = 0]
        ELSE [refreshed EXCEPT !.wtf_count = @ + 1,
                  !.status = IF out.wtf_count + 1 > MaxWft THEN "ERROR" ELSE @]

OnFlowControl ==
    /\ back # <<>>
    /\ back' = Tail(back)
    /\ out' = IF out.status = "INPROGRESS" THEN AfterFlowControl(Head(back)) ELSE out
    /\ UNCHANGED <<sent, bus, server, user, calm, used>>

-----------------------------------------------------------------------------
(***************************************************************************)
(* The server's links: isotp_on_can_message, a frame of the tester.        *)
(***************************************************************************)
(* isotp_send_flow_control: a failure is not looked at, so it is as if the *)
(* frame was lost.  A receiver of another make may ask to wait, at most    *)
(* MaxWft times in a row, and says CONTINUE in the end.                    *)
FlowControl(fs, fate) ==
    /\ fate = "wait" => fs = "CONTINUE" /\ waits < MaxWaits /\ MaxWft > 0
    /\ fate = "lost" => faults < MaxFaults
    /\ back' = CASE fate = "sent" -> Append(back, fs)
                 [] fate = "lost" -> back
                 [] fate = "wait" -> Append(back, "WAIT")
    /\ faults' = IF fate = "lost" THEN faults + 1 ELSE faults
    /\ waits' = IF fate = "wait" THEN waits + 1 ELSE waits
    /\ calm' = (calm /\ fate # "lost")

NoFlowControl(fate) == fate = "sent" /\ UNCHANGED <<back, used, calm>>
Waiting(fate) == IF fate = "wait" THEN 1 ELSE 0

OnSingle(cell, fate) ==
    /\ recv_buf' = [recv_buf EXCEPT ![1] = cell]
    /\ recv' = [recv EXCEPT !.status = "FULL", !.size = 1, !.waiting = 0]
    /\ NoFlowControl(fate)

StartMessage(cell, fate) ==
    /\ recv_buf' = [recv_buf EXCEPT ![1] = cell]
    /\ recv' = [status |-> "INPROGRESS", size |-> cell.of, offset |-> 1,
                sn |-> 1 % SnMod, bs_count |-> BlockSize, timer_cr |-> Timeout + 1,
                waiting |-> Waiting(fate)]
    /\ FlowControl("CONTINUE", fate)

(* Mutant: the size is not compared with the buffer.                       *)
OnFirstUnchecked(cell, fate) == StartMessage(cell, fate)

OnFirst(cell, fate) ==
    IF cell.of > RecvBufSize
    THEN /\ recv' = [recv EXCEPT !.status = "IDLE", !.waiting = 0]
         /\ fate # "wait" /\ FlowControl("OVERFLOW", fate)
         /\ UNCHANGED recv_buf
    ELSE StartMessage(cell, fate)

(* A frame that is next: the message is complete, or the block, or neither.*)
TakeNext(cell, fate) ==
    LET got == [recv EXCEPT !.offset = @ + 1, !.sn = (@ + 1) % SnMod,
                    !.timer_cr = Timeout + 1]
    IN  /\ recv_buf' = [recv_buf EXCEPT ![got.offset] = cell]
        /\ IF got.offset >= recv.size
           THEN recv' = [got EXCEPT !.status = "FULL"] /\ NoFlowControl(fate)
           ELSE IF recv.bs_count = 1
           THEN /\ recv' = [got EXCEPT !.bs_count = BlockSize, !.waiting = Waiting(fate)]
                /\ FlowControl("CONTINUE", fate)
           ELSE recv' = [got EXCEPT !.bs_count = @ - 1] /\ NoFlowControl(fate)

(* Mutant: the sequence number is not compared.                            *)
OnConsecutiveAny(cell, sn, fate) ==
    IF recv.status # "INPROGRESS"
    THEN NoFlowControl(fate) /\ UNCHANGED <<recv, recv_buf>>
    ELSE TakeNext(cell, fate)

OnConsecutive(cell, sn, fate) ==
    IF recv.status # "INPROGRESS"
    THEN NoFlowControl(fate) /\ UNCHANGED <<recv, recv_buf>>
    ELSE IF sn # recv.sn
    THEN /\ recv' = [recv EXCEPT !.status = "IDLE", !.waiting = 0]
         /\ NoFlowControl(fate) /\ UNCHANGED recv_buf
    ELSE TakeNext(cell, fate)

(* SocketCANRecv drops a functional frame unless the physical link is      *)
(* idle, since both receive into recv_buf.                                 *)
OnFunctional(cell, fate) ==
    /\ NoFlowControl(fate) /\ UNCHANGED recv
    /\ IF recv.status = "IDLE"
       THEN /\ func' = [status |-> "FULL", size |-> 1]
            /\ recv_buf' = [recv_buf EXCEPT ![1] = cell]
       ELSE UNCHANGED <<func, recv_buf>>

OnFrame(fate) ==
    LET frame == Head(bus) IN
    /\ bus # <<>>
    /\ bus' = Tail(bus)
    /\ \/ frame.type = "SF"   /\ OnSingle(frame.cell, fate) /\ UNCHANGED func
       \/ frame.type = "FF"   /\ OnFirst(frame.cell, fate) /\ UNCHANGED func
       \/ frame.type = "CF"   /\ OnConsecutive(frame.cell, frame.sn, fate) /\ UNCHANGED func
       \/ frame.type = "func" /\ OnFunctional(frame.cell, fate)
    /\ UNCHANGED <<tester, user>>

(* A receiver of another make goes on waiting, or is ready.                *)
EndWait ==
    /\ recv.waiting > 0
    /\ \/ /\ recv.waiting < MaxWft /\ waits < MaxWaits
          /\ back' = Append(back, "WAIT") /\ waits' = waits + 1
          /\ recv' = [recv EXCEPT !.waiting = @ + 1]
       \/ /\ back' = Append(back, "CONTINUE") /\ UNCHANGED waits
          /\ recv' = [recv EXCEPT !.waiting = 0, !.timer_cr = Timeout + 1]
    /\ UNCHANGED <<tester, bus, func, recv_buf, user, calm, faults>>

(* Mutant: no timeout.                                                     *)
PollReceiveForEver == UNCHANGED vars

(* isotp_poll, receiving: the timeout.                                     *)
PollReceive ==
    /\ recv' = IF recv.status = "INPROGRESS" /\ recv.timer_cr = 0
               THEN [recv EXCEPT !.status = "IDLE"] ELSE recv
    /\ UNCHANGED <<tester, bus, back, func, recv_buf, user, calm, used>>

-----------------------------------------------------------------------------
(***************************************************************************)
(* UDSServerPoll: peek and evaluate, and at some later time ack_recv.      *)
(***************************************************************************)
Peeked(link) == [func |-> FALSE, cells |-> SubSeq(recv_buf, 1, link.size)]

Peek ==
    /\ reader = "idle"
    /\ \/ /\ recv.status = "FULL"
          /\ req' = Peeked(recv)
          /\ latest' = recv_buf[1].id
       \/ /\ recv.status # "FULL" /\ func.status = "FULL"
          /\ req' = [Peeked(func) EXCEPT !.func = TRUE]
          /\ UNCHANGED latest
    /\ reader' = "busy"
    /\ UNCHANGED <<tester, bus, back, server, calm, used>>

(* Mutant: what was received stays.                                        *)
AckRecvKeeps ==
    /\ reader = "busy" /\ reader' = "idle"
    /\ UNCHANGED <<tester, bus, back, server, req, latest, calm, used>>

(* tp_ack_recv empties the physical link, whichever link the request came  *)
(* from and whatever the link holds by now.                                *)
AckRecv ==
    /\ reader = "busy" /\ reader' = "idle"
    /\ recv' = IF recv.status = "FULL" THEN [recv EXCEPT !.status = "IDLE"] ELSE recv
    /\ UNCHANGED <<tester, bus, back, func, recv_buf, req, latest, calm, used>>

(* Time passes.  A frame is handled in the tick in which it was sent (the  *)
(* ends poll more often than they time out); the tester may be late.       *)
Less(timer) == IF timer = 0 THEN 0 ELSE timer - 1

Tick ==
    /\ bus = <<>> /\ back = <<>> /\ recv.waiting = 0
    /\ out' = [out EXCEPT !.timer_bs = Less(@)]
    /\ recv' = [recv EXCEPT !.timer_cr = Less(@)]
    /\ calm' = (calm /\ (out.status = "INPROGRESS" => out.bs_remain = 0))
    /\ UNCHANGED <<sent, bus, back, func, recv_buf, user, used>>

Next ==
    \/ \E size \in Sizes, fate \in {"sent", "lost", "error"} : Send(size, fate)
    \/ SendFunctional
    \/ \E fate \in {"sent", "lost", "error"} : PollSend(fate)
    \/ OnFlowControl
    \/ \E fate \in {"sent", "lost", "wait"} : OnFrame(fate)
    \/ EndWait \/ PollReceive
    \/ Peek \/ AckRecv
    \/ Tick

(* Both ends poll, the bus delivers, the clock runs, a request is answered.*)
Fairness ==
    /\ WF_vars(\E fate \in {"sent", "lost", "error"} : PollSend(fate))
    /\ WF_vars(OnFlowControl) /\ WF_vars(\E fate \in {"sent", "lost", "wait"} : OnFrame(fate))
    /\ WF_vars(EndWait) /\ WF_vars(PollReceive)
    /\ WF_vars(Peek) /\ WF_vars(AckRecv) /\ WF_vars(Tick)

Spec == Init /\ [][Next]_vars /\ Fairness

-----------------------------------------------------------------------------
(***************************************************************************)
(* Properties.                                                             *)
(***************************************************************************)
(* The types of the variables.                                             *)
Cells == [id : 0..MaxMsgs, at : 0..RecvBufSize, of : Nat]
TypeOK ==
    /\ out.status \in {"IDLE", "INPROGRESS", "ERROR"} /\ out.offset <= out.size
    /\ out.bs_remain \in 0..BlockSize
    /\ recv.status \in {"IDLE", "INPROGRESS", "FULL"}
    /\ recv.size \in 0..RecvBufSize /\ recv.bs_count \in 0..BlockSize
    /\ recv.status = "INPROGRESS" => recv.offset \in 1..recv.size-1
    /\ recv_buf \in [1..RecvBufSize -> Cells]
    /\ reader \in {"idle", "busy"} /\ latest \in 0..sent

(* A physical request the server evaluates is one the tester sent, whole,  *)
(* and what has been received of a message is its beginning, in place:     *)
(* neither lost frames behind a sequence number that has come round, nor a *)
(* message abandoned half-way, nor a functional message in the same buffer *)
(* make it a mixture.                                                      *)
WholeMessages ==
    /\ (~req.func /\ req.cells # <<>>) =>
          \E id \in 1..sent :
              req.cells = [i \in 1..req.cells[1].of |-> Cell(id, i, req.cells[1].of)]
    /\ recv.status = "INPROGRESS" =>
          \A i \in 1..recv.offset : recv_buf[i] = Cell(recv_buf[1].id, i, recv.size)

(* A physical request is evaluated once, and none after a later one.       *)
NeverTwice == [][reader' # reader /\ reader' = "busy" /\ ~req'.func => latest' > latest]_vars

(* The tester never has more frames under way or allowed than the server   *)
(* has counted into its block.                                             *)
Consecutives == {i \in DOMAIN bus : bus[i].type = "CF"}
Continues == {i \in DOMAIN back : back[i] = "CONTINUE"}
Granted ==
    Cardinality(Consecutives) + BlockSize * Cardinality(Continues)
    + (IF out.status = "INPROGRESS" THEN out.bs_remain ELSE 0)
FlowRespected == recv.status = "INPROGRESS" => Granted <= recv.bs_count

(* Whatever is lost, a transmission and a reception end, and with them the *)
(* time in which functional requests are dropped.                          *)
LinksEnd ==
    /\ out.status = "INPROGRESS" ~> out.status # "INPROGRESS"
    /\ recv.status = "INPROGRESS" ~> recv.status # "INPROGRESS"

(* When nothing is lost and the tester waits for the server, every message *)
(* that fits the buffer is evaluated, waits or not.                        *)
Fits == out.size <= RecvBufSize
Delivered == []calm => \A id \in 1..MaxMsgs : (sent = id /\ Fits) ~> latest = id
=============================================================================
