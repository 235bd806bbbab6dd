------------------------------- MODULE DoIPTp -------------------------------
(***************************************************************************)
(* The server's transport, upgrade_server/src/doiptp.cpp: the receiver     *)
(* thread (ListenTcp, ReceiveFromLibrary) and the main thread (the calls   *)
(* UDSServerPoll makes: peek, the evaluation's reads of recv_buf_, send,   *)
(* ack_recv) over the buffer they share.  buf_guard_ covers the copy into  *)
(* the buffer, peek and ack_recv, but not the evaluation's reads.          *)
(*                                                                         *)
(* A message is a number, the order in which it was sent, and a length in  *)
(* cells; a cell of the buffer holds the number of the message that wrote  *)
(* it.  Each connection is a TCP stream: nothing is lost or reordered      *)
(* before the buffer.  The server serves one connection at a time; when    *)
(* the client has closed it, ListenTcp takes the next one and replaces     *)
(* connection_, which the main thread uses to send without any lock.       *)
(***************************************************************************)
EXTENDS Naturals, Sequences, FiniteSets

CONSTANTS
    MaxMsgs,    \* bound: how many requests the client sends
    MaxLen,     \* bound: length of the longest, in cells
    BufLen,     \* cells of recv_buf_ (UDS_TP_MTU); a request may be longer
    MaxConns,   \* bound: connections
    Window,     \* how many answers an impatient client waits for at once
    Clients     \* the kinds of client: "slow", "prompt", "impatient"

ASSUME BoundsAssumption ==
    /\ MaxMsgs \in Nat /\ MaxLen \in Nat \ {0} /\ BufLen \in Nat \ {0}
    /\ MaxConns \in Nat \ {0} /\ Window \in Nat \ {0}
    /\ Clients \subseteq {"slow", "prompt", "impatient"}

VARIABLES
    kind,        \* client: which kind it is
    waiting,     \* client: the requests it waits for an answer to
    sent,        \* client: how many requests it has sent
    base,        \* client: how many of them before the current connection
    sock,        \* client: its connection
    stale,       \* history: answers it received on sock to requests before it
    wire,        \* the TCP streams to the server; Fin where one ends
    conn,        \* receiver thread: connection_
    tcp,         \* receiver thread: the message being copied, cells copied
    recv_buf, recv_len, acked_len,
    poll,        \* main thread: where it is in UDSServerPoll
    deaf,        \* main thread: notReadyToReceive
    r,           \* main thread: recv_len of UDSReq_t and the cells read
    target,      \* main thread: the connection_ it is sending on
    evaluated    \* history: what was evaluated, request by request

client == <<kind, waiting, sent, base, sock, stale>>
buffer == <<recv_buf, recv_len, acked_len>>
main   == <<poll, deaf, r, target, evaluated>>
vars   == <<client, wire, conn, tcp, buffer, main>>

NoMsg == [id |-> 0, len |-> 0]
Msg == [id : 1..MaxMsgs, len : 1..MaxLen]
Fin == NoMsg                     \* the end of a stream
Locked == tcp.msg # NoMsg        \* the receiver thread holds buf_guard_
Alive == poll \notin {"dead", "overrun"}   \* the server's process, as far as
                                 \* the code says what it does

(* DoIPTp is a static object: its lengths start at 0.  The first client is *)
(* connected.                                                              *)
Init ==
    /\ kind \in Clients
    /\ waiting = {} /\ sent = 0 /\ base = 0 /\ sock = 1 /\ stale = 0
    /\ wire = <<>> /\ conn = 1 /\ target = 0
    /\ tcp = [msg |-> NoMsg, copied |-> 0]
    /\ recv_buf = [c \in 1..BufLen |-> 0] /\ recv_len = 0 /\ acked_len = 0
    /\ poll = "idle" /\ deaf = FALSE /\ r = [len |-> 0, got |-> <<>>] /\ evaluated = <<>>

-----------------------------------------------------------------------------
(***************************************************************************)
(* The client (a UDS tester; upgrade_client waits for each answer).  An    *)
(* impatient one gives up waiting, and may connect anew; a slow one sends  *)
(* again only when the server has come back from ack_recv.                 *)
(***************************************************************************)
Patience == IF kind = "impatient" THEN Window ELSE 1

SendRequest(len) ==
    /\ sent < MaxMsgs
    /\ Cardinality(waiting) < Patience
    /\ kind = "slow" => poll = "idle"
    /\ sent' = sent + 1
    /\ waiting' = waiting \cup {sent'}
    /\ wire' = Append(wire, [id |-> sent', len |-> len])
    /\ UNCHANGED <<kind, base, sock, stale, conn, tcp, buffer, main>>

GiveUp ==
    /\ kind = "impatient" /\ waiting # {}
    /\ waiting' = {}
    /\ UNCHANGED <<kind, sent, base, sock, stale, wire, conn, tcp, buffer, main>>

Reconnect ==
    /\ kind = "impatient" /\ sock < MaxConns
    /\ waiting' = {}
    /\ sock' = sock + 1 /\ base' = sent /\ stale' = 0
    /\ wire' = Append(wire, Fin)
    /\ UNCHANGED <<kind, sent, conn, tcp, buffer, main>>

-----------------------------------------------------------------------------
(***************************************************************************)
(* The receiver thread: ReceiveFromLibrary.                                *)
(***************************************************************************)
(* The socket is no longer active: wait for the next connection, destroy   *)
(* the old connection_.                                                    *)
Accept ==
    /\ Alive /\ wire # <<>> /\ ~Locked /\ Head(wire) = Fin
    /\ conn' = conn + 1
    /\ wire' = Tail(wire)
    /\ UNCHANGED <<client, tcp, buffer, main>>

LockBuffer ==
    /\ Alive /\ wire # <<>> /\ ~Locked /\ Head(wire) # Fin
    /\ tcp' = [msg |-> Head(wire), copied |-> 0]
    /\ wire' = Tail(wire)
    /\ UNCHANGED <<client, conn, buffer, main>>

(* memmove, one cell at a time: the main thread may be reading.            *)
CopyCell ==
    /\ Alive /\ Locked /\ tcp.copied < tcp.msg.len /\ tcp.copied < BufLen
    /\ recv_buf' = [recv_buf EXCEPT ![tcp.copied + 1] = tcp.msg.id]
    /\ tcp' = [tcp EXCEPT !.copied = @ + 1]
    /\ UNCHANGED <<client, wire, conn, recv_len, acked_len, main>>

(* Mutant: one cell too many. *)
CopyPastEndOfAny ==
    /\ Alive /\ Locked /\ tcp.copied <= tcp.msg.len /\ tcp.copied = BufLen
    /\ poll' = "overrun"
    /\ UNCHANGED <<client, wire, conn, tcp, buffer, deaf, r, target, evaluated>>

(* Nobody compares the length with the buffer's: what follows recv_buf_ in *)
(* the object is overwritten, and the code no longer says what happens.    *)
CopyPastEnd ==
    /\ Alive /\ Locked /\ tcp.copied < tcp.msg.len /\ tcp.copied = BufLen
    /\ poll' = "overrun"
    /\ UNCHANGED <<client, wire, conn, tcp, buffer, deaf, r, target, evaluated>>

(* Mutant: the length is published before the copy is complete. *)
PublishEarly ==
    /\ Alive /\ Locked
    /\ recv_len' = tcp.msg.len
    /\ tcp' = [msg |-> NoMsg, copied |-> 0]
    /\ UNCHANGED <<client, wire, conn, recv_buf, acked_len, main>>

(* recv_len_ = length, whatever the buffer held before; unlock. *)
PublishMessage ==
    /\ Alive /\ Locked /\ tcp.copied = tcp.msg.len
    /\ recv_len' = tcp.msg.len
    /\ tcp' = [msg |-> NoMsg, copied |-> 0]
    /\ UNCHANGED <<client, wire, conn, recv_buf, acked_len, main>>

-----------------------------------------------------------------------------
(***************************************************************************)
(* The main thread.                                                        *)
(***************************************************************************)
(* DoipTpPeek: a message shorter than the one peeked at last is not shown. *)
(* A server that is not ready to receive returns before it peeks.          *)
PeekLen == IF recv_len >= acked_len THEN recv_len ELSE 0

Peek ==
    /\ poll = "idle" /\ ~deaf /\ ~Locked
    /\ acked_len' = IF recv_len > acked_len THEN recv_len ELSE acked_len
    /\ IF PeekLen > 0
       THEN poll' = "evaluate" /\ r' = [len |-> PeekLen, got |-> <<>>]
       ELSE UNCHANGED <<poll, r>>
    /\ UNCHANGED <<client, wire, conn, tcp, recv_buf, recv_len, deaf, target, evaluated>>

(* evaluateServiceResponse reads the buffer itself, without the lock. *)
ReadCell ==
    /\ poll = "evaluate" /\ Len(r.got) < r.len
    /\ r' = [r EXCEPT !.got = Append(@, recv_buf[Len(@) + 1])]
    /\ UNCHANGED <<client, wire, conn, tcp, buffer, poll, deaf, target, evaluated>>

(* It may have been an ECUReset that is accepted: the server main()        *)
(* installs then stays deaf (see NeverReturns in FileTransfer).            *)
Evaluate ==
    /\ poll = "evaluate" /\ Len(r.got) = r.len
    /\ deaf' \in {deaf, TRUE}
    /\ poll' = "respond"
    /\ evaluated' = Append(evaluated, r.got)
    /\ UNCHANGED <<client, wire, conn, tcp, buffer, r, target>>

(* DoipTpSend follows connection_ ...; p2_timer may hold it back for any   *)
(* time.                                                                   *)
StartSend ==
    /\ poll = "respond"
    /\ poll' = "send" /\ target' = conn
    /\ UNCHANGED <<client, wire, conn, tcp, buffer, deaf, r, evaluated>>

(* ... and sends: the client hears it unless it has gone, whoever's the    *)
(* request was.  When connection_ has been replaced meanwhile its object   *)
(* is freed: the response goes astray, or to the new client, or the        *)
(* process dies.                                                           *)
Heard ==
    /\ waiting' = waiting \ {r.got[1]}
    /\ stale' = IF r.got[1] <= base THEN stale + 1 ELSE stale

SendResponse(outcome) ==
    /\ poll = "send"
    /\ target = conn => outcome = "sent"
    /\ IF outcome = "sent" /\ conn = sock THEN Heard ELSE UNCHANGED <<waiting, stale>>
    /\ poll' = IF outcome = "crash" THEN "dead" ELSE "ack"
    /\ UNCHANGED <<kind, sent, base, sock, wire, conn, tcp, buffer, deaf, r, target, evaluated>>

(* Mutants: without the lock; without forgetting the length peeked at. *)
AckRecvUnlocked ==
    /\ poll = "ack"
    /\ recv_len' = 0 /\ acked_len' = 0
    /\ poll' = "idle" /\ r' = [len |-> 0, got |-> <<>>]
    /\ UNCHANGED <<client, wire, conn, tcp, recv_buf, deaf, target, evaluated>>

AckRecvKeepsPeeked ==
    /\ poll = "ack" /\ ~Locked
    /\ recv_len' = 0 /\ UNCHANGED acked_len
    /\ poll' = "idle" /\ r' = [len |-> 0, got |-> <<>>]
    /\ UNCHANGED <<client, wire, conn, tcp, recv_buf, deaf, target, evaluated>>

(* Mutant: the message stays.                                              *)
AckRecvKeepsMessage ==
    /\ poll = "ack" /\ ~Locked
    /\ acked_len' = 0
    /\ poll' = "idle" /\ r' = [len |-> 0, got |-> <<>>]
    /\ UNCHANGED <<client, wire, conn, tcp, recv_buf, recv_len, deaf, target, evaluated>>

(* DoipTpAckRecv empties the buffer, whatever it holds now. *)
AckRecv ==
    /\ poll = "ack" /\ ~Locked
    /\ recv_len' = 0 /\ acked_len' = 0
    /\ poll' = "idle" /\ r' = [len |-> 0, got |-> <<>>]
    /\ UNCHANGED <<client, wire, conn, tcp, recv_buf, deaf, target, evaluated>>

ReceiverThread ==
    Accept \/ LockBuffer \/ CopyCell \/ CopyPastEnd \/ PublishMessage
MainThread ==
    \/ Peek \/ ReadCell \/ Evaluate \/ StartSend
    \/ \E outcome \in {"sent", "astray", "crash"} : SendResponse(outcome)
    \/ AckRecv

Next ==
    \/ \E len \in 1..MaxLen : SendRequest(len)
    \/ GiveUp \/ Reconnect
    \/ ReceiverThread
    \/ MainThread

(* Both threads run; the client owes nothing.  A deaf server's polls do    *)
(* nothing here.                                                           *)
Fairness == WF_vars(ReceiverThread) /\ WF_vars(MainThread)

Spec == Init /\ [][Next]_vars /\ Fairness

-----------------------------------------------------------------------------
(***************************************************************************)
(* Properties.                                                             *)
(***************************************************************************)
(* The types of the variables; memmove stays within recv_buf_, and peek    *)
(* shows no more than it, as long as no request is longer than it.         *)
TypeOK ==
    /\ kind \in Clients
    /\ waiting \subseteq 1..MaxMsgs /\ sent \in 0..MaxMsgs /\ base \in 0..sent
    /\ sock \in 1..MaxConns /\ conn \in 1..sock /\ target \in 0..conn
    /\ stale \in Nat
    /\ wire \in Seq(Msg \cup {Fin})
    /\ tcp.msg \in Msg \cup {NoMsg}
    /\ tcp.copied \in 0..tcp.msg.len /\ tcp.copied <= BufLen
    /\ recv_buf \in [1..BufLen -> 0..MaxMsgs]
    /\ recv_len \in 0..BufLen /\ acked_len \in 0..BufLen
    /\ poll \in {"idle", "evaluate", "respond", "send", "ack", "dead", "overrun"}
    /\ poll = "overrun" => tcp.msg.len > BufLen
    /\ deaf \in BOOLEAN
    /\ r.len \in 0..BufLen /\ r.got \in Seq(1..MaxMsgs) /\ Len(r.got) <= r.len

(* Whatever the client does, no request is evaluated twice or after a      *)
(* later one: peek shows a received message once, and a message that       *)
(* overwrites another is discarded or processed after it.                  *)
InOrderAtMostOnce ==
    \A i, j \in DOMAIN evaluated : i < j => evaluated[i][1] < evaluated[j][1]

(* A client that has connected anew hears at most one answer to what was   *)
(* asked before: a request evaluated or waiting at that moment is answered *)
(* on the new connection, and ack_recv discards the other one.             *)
OneStaleAnswer == stale <= 1

(* As long as the server listens and no request is longer than recv_buf_   *)
(* the buffer is not stuck: what is in it is acknowledged, also a shorter  *)
(* message that peek does not show; and a client that waits for ack_recv   *)
(* has every request answered.                                             *)
NothingStuck ==
    /\ recv_len # 0 ~> (recv_len = 0 \/ deaf \/ ~Alive)
    /\ kind = "slow" /\ waiting # {} ~> (waiting = {} \/ deaf \/ ~Alive)

(* Against such a client DoIPTp is the transport iso14229.h promises.      *)
Whole(got) == [id |-> got[1], len |-> Len(got)]
Contract == INSTANCE Mailbox WITH
    Messages <- Msg, None <- NoMsg,
    slot <- IF kind # "slow" \/ recv_len = 0 THEN NoMsg
            ELSE [id |-> recv_buf[recv_len], len |-> recv_len],
    processed <- IF kind # "slow" THEN <<>>
                 ELSE [i \in DOMAIN evaluated |-> Whole(evaluated[i])],
    taken <- kind = "slow" /\ poll \in {"respond", "send", "ack"}

ImplementsMailbox == Contract!Spec

(* "Acknowledge that the received data has been processed and may be       *)
(* discarded" (iso14229.h:300): what ack_recv is about to discard has been *)
(* processed.                                                              *)
AckDiscardsOnlyProcessed ==
    poll = "ack" /\ ~Locked => recv_buf[1] = r.got[1]
=============================================================================
