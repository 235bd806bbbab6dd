--------------------------- MODULE UDSClient_proofs ---------------------------
(***************************************************************************)
(* Proofs about UDSClient.  A step of the client maps a system (the client *)
(* with its transport) to a system; the first part says, once for each     *)
(* operator, what can come out.  The second proves the invariants of the   *)
(* requests for every option set, the third those of the download.         *)
(***************************************************************************)
EXTENDS UDSClient, SequenceTheorems, TLAPS

Fails    == {"no", "transport", "file"}
Counters == 0..(CounterMod - 1) \cup {1}
Sids     == {q.sid : q \in UserRequests} \cup
            {"none", "RequestDownload", "TransferData", "RequestTransferExit"}
Timings  == [p2 : Nat, p2Star : Nat]
Requests == [id : Nat, sid : Sids, sub : Nat, bit7 : BOOLEAN, from : Nat, len : Nat]
Kinds    == {"positive", "negative", "pending"}
Responses ==
    [id : Nat, sid : Sids, sub : Nat, kind : Kinds, whole : BOOLEAN,
     functional : BOOLEAN, blockLength : BlockLengths \cup {0}, timings : Timings]
Clients ==
    [state : States, err : Errors, options : SUBSET Options,
     copy : SUBSET Options, send_buf : Requests, recv_buf : Responses,
     p2 : Nat, p2Star : Nat, p2_timer : Nat, ret : {"idle", "running"},
     cbIdx : 0..8, blockSequenceCounter : Counters, blockLength : Nat,
     pos : 0..FileSize, eof : BOOLEAN, ferror : BOOLEAN]
Systems ==
    [c : Clients, inbox : Seq(Responses), tx : Seq(Requests), taken : Seq(Nat)]
Blocks  == [sub : Nat, from : Nat, len : Nat]

Typed ==
    /\ System \in Systems
    /\ owed \in Seq(Requests) /\ stored \in Seq(Blocks) /\ exited \in BOOLEAN

-----------------------------------------------------------------------------
(***************************************************************************)
(* What a step of PollLowLevel can do to a system.                         *)
(***************************************************************************)
SameDownload(s, t) ==
    /\ t.c.cbIdx = s.c.cbIdx /\ t.c.pos = s.c.pos /\ t.c.eof = s.c.eof
    /\ t.c.blockSequenceCounter = s.c.blockSequenceCounter
SameRequest(s, t) ==
    /\ t.c.send_buf = s.c.send_buf /\ t.c.copy = s.c.copy
    /\ SameDownload(s, t)
SameWire(s, t) == t.inbox = s.inbox /\ t.tx = s.tx /\ t.taken = s.taken

Waits(s, t) ==
    /\ SameWire(s, t) /\ t.c.state = s.c.state /\ t.c.recv_buf = s.c.recv_buf
    /\ t.c.err = s.c.err \/ s.c.state = "Sending"
    /\ t.c.options = s.c.options
    /\ s.c.state # "Idle"
Rests(s, t) ==
    /\ SameWire(s, t) /\ s.c.state = "Idle" /\ t.c.state = "Idle"
    /\ t.c.err = s.c.err /\ t.c.options = DefaultOptions
GivesUp(s, t) ==
    /\ SameWire(s, t) /\ t.c.state = "Idle" /\ t.c.err # "OK"
Sends(s, t) ==
    /\ s.c.state = "Sending" /\ t.c.state = "AwaitSendComplete"
    /\ t.c.options = s.c.options
    /\ s.tx = <<>> /\ t.tx = <<s.c.send_buf>>
    /\ t.inbox = s.inbox /\ t.taken = s.taken
AwaitsNothing(s, t) ==
    /\ SameWire(s, t) /\ s.c.state # "Idle" /\ t.c.state = "Idle"
    /\ s.c.copy \cap {"FUNCTIONAL", "SUPPRESS_POS_RESP"} # {}
Awaits(s, t) ==
    /\ SameWire(s, t) /\ t.c.options = s.c.options
    /\ s.c.state = "AwaitSendComplete" /\ t.c.state = "AwaitResponse"
Skips(s, t) ==
    /\ s.inbox # <<>> /\ Head(s.inbox).functional /\ t.inbox = Tail(s.inbox)
    /\ s.c.state = "AwaitResponse" /\ t.c.state = "AwaitResponse"
    /\ t.c.options = s.c.options /\ t.tx = s.tx /\ t.taken = s.taken
Receives(s, t) ==
    /\ SameWire(s, t) /\ s.inbox # <<>> /\ ~Head(s.inbox).functional
    /\ s.c.state = "AwaitResponse" /\ t.c.state = "ProcessResponse"
    /\ t.c.options = s.c.options /\ t.c.recv_buf = Head(s.inbox)
Rejects(s, t) ==
    /\ s.c.state = "ProcessResponse" /\ t.inbox = Tail(s.inbox)
    /\ t.tx = s.tx /\ t.taken = s.taken
    /\ t.c.state = "Idle" /\ t.c.err # "OK"
WaitsLonger(s, t) ==
    /\ s.c.state = "ProcessResponse" /\ t.inbox = Tail(s.inbox)
    /\ s.c.recv_buf.kind = "pending"
    /\ t.tx = s.tx /\ t.taken = s.taken
    /\ t.c.state = "AwaitResponse" /\ t.c.options = s.c.options
Takes(s, t) ==
    /\ s.c.state = "ProcessResponse" /\ t.inbox = Tail(s.inbox)
    /\ s.c.recv_buf.kind # "pending"
    /\ s.c.recv_buf.kind = "negative" => "NEG_RESP_IS_ERR" \notin s.c.copy
    /\ t.tx = s.tx
    /\ t.taken = [s.taken EXCEPT ![s.c.send_buf.id] = s.c.recv_buf.id]
    /\ t.c.state = "Idle" /\ t.c.err = "OK" /\ t.c.options = s.c.options

(* What a callback can do; Requested: it, or the user, sends a request.    *)
MovesOn(s, t) ==
    /\ SameWire(s, t) /\ t.c.send_buf = s.c.send_buf
    /\ t.c.state = "Idle" /\ t.c.err = "OK"
    /\ t.c.cbIdx = s.c.cbIdx + 1 /\ t.c.pos = s.c.pos /\ t.c.eof = s.c.eof
    /\ \/ s.c.cbIdx \in {2, 3, 7}
       \/ s.c.cbIdx = 5 /\ s.c.eof
       \/ s.c.cbIdx = 4
    /\ t.c.blockSequenceCounter =
         IF s.c.cbIdx = 4 THEN 1 ELSE s.c.blockSequenceCounter
Stops(s, t) == SameWire(s, t) /\ SameRequest(s, t) /\ t.c.state = "Idle" /\ t.c.err # "OK"
Ends(s, t)  == SameWire(s, t) /\ SameRequest(s, t) /\ t.c.state = "Idle" /\ t.c.err = "OK"
Requested(s, t, sid, sub, from, len) ==
    /\ t.inbox = s.inbox /\ t.taken = Append(s.taken, 0)
    /\ t.c.copy = s.c.options /\ t.c.options = s.c.options
    /\ t.c.send_buf = [id |-> Len(s.taken) + 1, sid |-> sid, sub |-> sub,
                       bit7 |-> "SUPPRESS_POS_RESP" \in s.c.options,
                       from |-> from, len |-> len]
    /\ \/ t.c.state = "Sending" /\ t.tx = s.tx
       \/ t.c.state = "AwaitSendComplete" /\ s.tx = <<>> /\ t.tx = <<t.c.send_buf>>

-----------------------------------------------------------------------------
(***************************************************************************)
(* The order of the requests.  An answer that ends a request is final; the *)
(* numbers of the final answers received, of the requests the server owes  *)
(* an answer and of the request on its way increase along that line, and   *)
(* whatever was taken lies below all of them.                              *)
(***************************************************************************)
Final(m) == ~m.functional /\ m.kind # "pending"


Current(s) ==
    /\ s.c.send_buf.id = Len(s.taken)
    /\ s.c.state # "Idle" => Len(s.taken) > 0 /\ s.taken[Len(s.taken)] = 0
    /\ s.c.state = "ProcessResponse" =>
         s.inbox # <<>> /\ s.c.recv_buf = Head(s.inbox) /\ ~Head(s.inbox).functional
TakenInOrder(tk) ==
    \A i \in DOMAIN tk :
        /\ tk[i] # 0 => tk[i] <= i /\ \A j \in 1..(i - 1) : tk[j] < tk[i]
        /\ tk[i] \notin {0, i} => \E j \in 1..(i - 1) : tk[j] = 0
(* m, seen at a place of the line, is later than what was taken and not    *)
(* later than the request the client is at.                                *)
Late(s, m) ==
    /\ m.id \in 1..Len(s.taken)
    /\ \A j \in DOMAIN s.taken : s.taken[j] < m.id
    /\ s.c.state = "Sending" => m.id < Len(s.taken)
Line(s, ow) ==
    /\ Len(s.tx) <= 1
    /\ \A i \in DOMAIN s.tx : Late(s, s.tx[i])
    /\ \A i \in DOMAIN ow : Late(s, ow[i])
    /\ \A i \in DOMAIN s.inbox : Final(s.inbox[i]) => Late(s, s.inbox[i])
    /\ \A i, j \in DOMAIN ow : i < j => ow[i].id < ow[j].id
    /\ \A i, j \in DOMAIN s.inbox :
         i < j /\ Final(s.inbox[i]) /\ Final(s.inbox[j])
            => s.inbox[i].id < s.inbox[j].id
    /\ \A i \in DOMAIN s.inbox, j \in DOMAIN ow :
         Final(s.inbox[i]) => s.inbox[i].id < ow[j].id
    /\ \A i \in DOMAIN s.inbox, j \in DOMAIN s.tx :
         Final(s.inbox[i]) => s.inbox[i].id < s.tx[j].id
    /\ \A i \in DOMAIN ow, j \in DOMAIN s.tx : ow[i].id < s.tx[j].id
Ordered(s, ow) == Current(s) /\ TakenInOrder(s.taken) /\ Line(s, ow)

OrderInv == Typed /\ Ordered(System, owed)

-----------------------------------------------------------------------------
(***************************************************************************)
(* The download.                                                           *)
(***************************************************************************)
(* What the comment at FileInOrder says of the options, and users that     *)
(* leave the services of the download alone and look at client->err.       *)
DownloadAssumption ==
    /\ Careful
    /\ \A opts \in {DefaultOptions} \cup UserOptions :
          /\ "NEG_RESP_IS_ERR" \in opts
          /\ "SUPPRESS_POS_RESP" \notin opts /\ "FUNCTIONAL" \notin opts
    /\ \A q \in UserRequests :
          q.sid \notin {"RequestDownload", "TransferData", "RequestTransferExit"}

Good(opts) ==
    /\ "NEG_RESP_IS_ERR" \in opts
    /\ "SUPPRESS_POS_RESP" \notin opts /\ "FUNCTIONAL" \notin opts
Free(s) == s.c.state = "Idle" /\ s.c.err = "OK"
Answered(s) == \E i \in DOMAIN s.inbox : Final(s.inbox[i]) /\ s.inbox[i].kind = "positive"

(* One request at a time: it is on its way, owed, answered or lost.        *)
OneRequest(s, ow) ==
    /\ s.c.state # "Idle" => Good(s.c.options) /\ Good(s.c.copy)
    /\ ~s.c.send_buf.bit7
    /\ s.c.state = "ProcessResponse" =>
         s.inbox # <<>> /\ s.c.recv_buf = Head(s.inbox) /\ ~Head(s.inbox).functional
    /\ s.c.send_buf.id \in DOMAIN s.taken \/ s.c.state = "Idle"
    /\ Len(s.tx) + Len(ow) <= 1
    /\ \A i \in DOMAIN s.tx : s.tx[i] = s.c.send_buf
    /\ \A i \in DOMAIN ow : ow[i] = s.c.send_buf
    /\ s.tx # <<>> => \A i \in DOMAIN s.inbox : s.inbox[i].functional
    /\ ow # <<>> => \A i \in DOMAIN s.inbox : ~Final(s.inbox[i])
    /\ \A i, j \in DOMAIN s.inbox :
         i < j /\ Final(s.inbox[i]) => s.inbox[j].functional
    /\ s.c.state = "Sending" \/ Free(s) =>
         /\ s.tx = <<>> /\ ow = <<>>
         /\ \A i \in DOMAIN s.inbox : s.inbox[i].functional

InTransit(s, ow) == s.c.state = "Sending" \/ s.tx # <<>> \/ ow # <<>>

(* The file has been read as far as it was stored.                         *)
EndIn(st) == IF st = <<>> THEN 0 ELSE st[Len(st)].from + st[Len(st)].len
Settled(s, st) ==
    /\ s.c.pos = EndIn(st)
    /\ s.c.blockSequenceCounter = (Len(st) + 1) % CounterMod
    /\ s.c.eof => st # <<>>
(* The block that comes next is on its way.                                *)
NextBlock(s, st) ==
    /\ s.c.send_buf.sub = (Len(st) + 1) % CounterMod
    /\ s.c.send_buf.from = EndIn(st)
    /\ s.c.pos = s.c.send_buf.from + s.c.send_buf.len
    /\ s.c.blockSequenceCounter = (Len(st) + 2) % CounterMod
Stored(st) ==
    \A k \in DOMAIN st :
        /\ st[k].sub = k % CounterMod
        /\ st[k].from = IF k = 1 THEN 0 ELSE st[k - 1].from + st[k - 1].len
Sequence(s, ow, st, ex) ==
    /\ Stored(st)
    /\ s.c.send_buf.sid = "TransferData"
         => (InTransit(s, ow) => NextBlock(s, st))
    /\ s.c.send_buf.sid # "TransferData" \/ Answered(s) \/ Free(s) => Settled(s, st)
    /\ s.c.cbIdx >= 7 =>
         (s.c.send_buf.sid # "RequestTransferExit" \/ Answered(s) \/ Free(s) => ex)
    /\ s.c.cbIdx <= 4 => st = <<>> /\ s.c.pos = 0 /\ ~s.c.eof
                         /\ s.c.send_buf.sid # "TransferData"
    /\ s.c.cbIdx >= 6 => s.c.eof
    /\ s.c.cbIdx = 8 /\ s.c.state # "Idle"
         => s.c.send_buf.sid \notin {"TransferData", "RequestTransferExit"}
    /\ s.c.eof => s.c.pos = FileSize

DownloadInv == Typed /\ OneRequest(System, owed) /\ Sequence(System, owed, stored, exited)
-----------------------------------------------------------------------------
LEMMA ClientHasType == ASSUME NEW s \in Systems PROVE
    /\ s.c \in Clients /\ s.inbox \in Seq(Responses)
    /\ s.tx \in Seq(Requests) /\ s.taken \in Seq(Nat)
BY DEF Systems

LEMMA NoResponseHasType == NoResponse \in Responses
<1> DEFINE t == [p2 |-> P2, p2Star |-> P2Star]
<1>1. t \in Timings
  BY TimingAssumption DEF Timings
<1>2. "none" \in Sids /\ "positive" \in Kinds
  BY DEF Kinds, Sids
<1> HIDE DEF t
<1>3. [id |-> 0, sid |-> "none", sub |-> 0, kind |-> "positive",
       whole |-> FALSE, functional |-> FALSE, blockLength |-> 0,
       timings |-> t] \in Responses
  BY <1>1, <1>2 DEF Responses
<1> QED BY <1>3 DEF NoResponse, t

LEMMA EndedIs ==
    ASSUME NEW s \in Systems, NEW err \in Errors
    PROVE  /\ Ended(s, err) \in Systems
           /\ Ended(s, err).c.state = "Idle" /\ Ended(s, err).c.err = err
           /\ Ended(s, err).c.recv_buf = s.c.recv_buf
           /\ Ended(s, err).c.options = s.c.options
           /\ SameWire(s, Ended(s, err)) /\ SameRequest(s, Ended(s, err))
BY DEF Ended, Systems, Clients, States, SameWire, SameRequest, SameDownload

LEMMA AckRecvIs ==
    ASSUME NEW s \in Systems, s.inbox # <<>>
    PROVE  /\ AckRecv(s) \in Systems
           /\ AckRecv(s).inbox = Tail(s.inbox)
           /\ AckRecv(s).c = s.c /\ AckRecv(s).tx = s.tx
           /\ AckRecv(s).taken = s.taken
<1>1. Tail(s.inbox) \in Seq(Responses)
  BY DEF Systems
<1> QED BY <1>1 DEF AckRecv, Systems

LEMMA TakeIs ==
    ASSUME NEW s \in Systems, s.c.send_buf.id \in DOMAIN s.taken
    PROVE  /\ Take(s) \in Systems
           /\ Take(s).taken = [s.taken EXCEPT ![s.c.send_buf.id] = s.c.recv_buf.id]
           /\ Take(s).c = s.c /\ Take(s).tx = s.tx /\ Take(s).inbox = s.inbox
<1>1. [s.taken EXCEPT ![s.c.send_buf.id] = s.c.recv_buf.id] \in Seq(Nat)
  BY DEF Systems, Clients, Responses
<1> QED BY <1>1 DEF Take, Systems

LEMMA SendingIs ==
    ASSUME NEW s \in Systems, NEW f \in Fails, NEW t, t = Sending(s, f),
           s.c.state = "Sending"
    PROVE  /\ t \in Systems /\ SameRequest(s, t)
           /\ Waits(s, t) \/ Sends(s, t)
<1>1. CASE f = "transport"
  <2> DEFINE r == [s EXCEPT !.c.err = "TPORT"]
  <2>1. /\ r \in Systems /\ SameRequest(s, r) /\ SameWire(s, r)
        /\ r.c.state = s.c.state /\ r.c.recv_buf = s.c.recv_buf
        /\ r.c.options = s.c.options
    BY DEF Systems, Clients, Errors, SameRequest, SameDownload, SameWire
  <2>2. t = r
    BY <1>1 DEF Sending
  <2> QED BY <2>1, <2>2 DEF Waits
<1>2. CASE f # "transport" /\ s.tx # <<>>
  <2>1. t = s
    BY <1>2 DEF Sending
  <2> QED BY <2>1 DEF Waits, SameWire, SameRequest, SameDownload
<1>3. CASE f # "transport" /\ s.tx = <<>>
  <2> DEFINE r == [s EXCEPT !.c.state = "AwaitSendComplete", !.tx = <<s.c.send_buf>>]
  <2>0. <<s.c.send_buf>> \in Seq(Requests)
    BY DEF Systems, Clients
  <2>1. r \in Systems
    BY <2>0 DEF Systems, Clients, States
  <2>2. /\ SameRequest(s, r)
        /\ r.tx = <<s.c.send_buf>> /\ r.inbox = s.inbox /\ r.taken = s.taken
        /\ r.c.state = "AwaitSendComplete" /\ r.c.options = s.c.options
    BY DEF Systems, Clients, SameRequest, SameDownload
  <2>3. t = r
    BY <1>3 DEF Sending
  <2> QED BY <1>3, <2>1, <2>2, <2>3 DEF Sends
<1> QED BY <1>1, <1>2, <1>3

LEMMA AwaitSendCompleteIs ==
    ASSUME NEW s \in Systems, NEW t, t = AwaitSendComplete(s),
           s.c.state = "AwaitSendComplete"
    PROVE  /\ t \in Systems /\ SameRequest(s, t)
           /\ Waits(s, t) \/ AwaitsNothing(s, t) \/ Awaits(s, t)
<1> DEFINE idle == [s EXCEPT !.c.state = "Idle"]
           awaits == [s EXCEPT !.c.state = "AwaitResponse", !.c.p2_timer = s.c.p2 + 1]
<1>1. /\ idle \in Systems /\ SameRequest(s, idle) /\ SameWire(s, idle)
      /\ idle.c.state = "Idle"
  BY DEF Systems, Clients, States, SameRequest, SameDownload, SameWire
<1>2. s.c.p2 + 1 \in Nat
  BY DEF Systems, Clients
<1>3. awaits \in Systems
  BY <1>2 DEF Systems, Clients, States
<1>4. /\ SameRequest(s, awaits) /\ SameWire(s, awaits)
      /\ awaits.c.state = "AwaitResponse" /\ awaits.c.options = s.c.options
  BY DEF Systems, Clients, SameRequest, SameDownload, SameWire
<1>5. Waits(s, s) /\ SameRequest(s, s)
  BY DEF Waits, SameWire, SameRequest, SameDownload
<1>6. CASE t = idle /\ s.c.copy \cap {"FUNCTIONAL", "SUPPRESS_POS_RESP"} # {}
  BY <1>1, <1>6 DEF AwaitsNothing
<1>7. CASE t = awaits
  BY <1>3, <1>4, <1>7 DEF Awaits
<1>8. CASE t = s
  BY <1>5, <1>8
<1>9. \/ t = idle /\ s.c.copy \cap {"FUNCTIONAL", "SUPPRESS_POS_RESP"} # {}
      \/ t = awaits \/ t = s
  BY DEF AwaitSendComplete
<1> QED BY <1>6, <1>7, <1>8, <1>9

LEMMA AwaitResponseIs ==
    ASSUME NEW s \in Systems, NEW f \in Fails, NEW t, t = AwaitResponse(s, f),
           s.c.state = "AwaitResponse"
    PROVE  /\ t \in Systems /\ SameRequest(s, t)
           /\ Waits(s, t) \/ GivesUp(s, t) \/ Skips(s, t) \/ Receives(s, t)
<1>1. CASE t = Ended(s, "TPORT") \/ t = Ended(s, "TIMEOUT")
  BY <1>1, EndedIs DEF GivesUp, Errors
<1>2. CASE t = s
  BY <1>2 DEF Waits, SameWire, SameRequest, SameDownload
<1>3. CASE t = AckRecv(s) /\ s.inbox # <<>> /\ Head(s.inbox).functional
  BY <1>3, AckRecvIs DEF Skips, SameRequest, SameDownload
<1>4. CASE /\ t = [s EXCEPT !.c.recv_buf = Head(s.inbox), !.c.state = "ProcessResponse"]
           /\ s.inbox # <<>> /\ ~Head(s.inbox).functional
  <2> DEFINE m == Head(s.inbox)
             r == [s EXCEPT !.c.recv_buf = m, !.c.state = "ProcessResponse"]
  <2>1. m \in Responses
    BY <1>4 DEF Systems
  <2> HIDE DEF m
  <2>2. r \in Systems
    BY <2>1 DEF Systems, Clients, States
  <2>3. /\ SameRequest(s, r) /\ SameWire(s, r) /\ r.c.state = "ProcessResponse"
        /\ r.c.options = s.c.options /\ r.c.recv_buf = m
    BY DEF Systems, Clients, SameRequest, SameDownload, SameWire
  <2>4. t = r
    BY <1>4 DEF m
  <2> QED BY <1>4, <2>2, <2>3, <2>4 DEF Receives, m
<1> QED BY <1>1, <1>2, <1>3, <1>4 DEF AwaitResponse

LEMMA ClientHandleResponseIs ==
    ASSUME NEW s \in Systems, NEW t, t = ClientHandleResponse(s),
           s.c.state = "ProcessResponse", s.inbox # <<>>,
           s.c.send_buf.id \in DOMAIN s.taken,
           s.c.recv_buf.kind = "negative" => "NEG_RESP_IS_ERR" \notin s.c.copy
    PROVE  /\ t \in Systems /\ SameRequest(s, t)
           /\ Rejects(s, t) \/ WaitsLonger(s, t) \/ Takes(s, t)
<1> DEFINE longer == [s EXCEPT !.c.p2_timer = s.c.p2Star + 1,
                               !.c.recv_buf = NoResponse,
                               !.c.state = "AwaitResponse"]
           timed == [s EXCEPT !.c.p2 = s.c.recv_buf.timings.p2,
                              !.c.p2Star = s.c.recv_buf.timings.p2Star]
<1>1. CASE s.c.recv_buf.kind = "pending"
  <2>1. s.c.p2Star + 1 \in Nat
    BY DEF Systems, Clients
  <2>2. longer \in Systems
    BY <2>1, NoResponseHasType DEF Systems, Clients, States
  <2>3. /\ SameRequest(s, longer) /\ SameWire(s, longer)
        /\ longer.c.state = "AwaitResponse" /\ longer.c.options = s.c.options
    BY DEF Systems, Clients, SameRequest, SameDownload, SameWire
  <2>4. longer.inbox # <<>>
    BY <2>3 DEF SameWire
  <2>5. t = AckRecv(longer)
    BY <1>1 DEF ClientHandleResponse
  <2> HIDE DEF longer
  <2>6. /\ t \in Systems /\ t.inbox = Tail(longer.inbox) /\ t.c = longer.c
        /\ t.tx = longer.tx /\ t.taken = longer.taken
    BY <2>2, <2>4, <2>5, AckRecvIs
  <2> QED BY <1>1, <2>3, <2>6 DEF WaitsLonger, SameRequest, SameDownload, SameWire
<1>2. CASE /\ s.c.recv_buf.kind # "pending"
           /\ t = AckRecv(Ended(s, "RESP_TOO_SHORT"))
  <2>1. "RESP_TOO_SHORT" \in Errors
    BY DEF Errors
  <2>2. Ended(s, "RESP_TOO_SHORT").inbox # <<>>
    BY <2>1, EndedIs DEF SameWire
  <2> QED BY <1>2, <2>1, <2>2, EndedIs, AckRecvIs
          DEF Rejects, SameRequest, SameDownload, SameWire
<1>3. ASSUME NEW r \in Systems, SameRequest(s, r), SameWire(s, r),
             r.c.recv_buf = s.c.recv_buf, r.c.options = s.c.options,
             s.c.recv_buf.kind # "pending", t = Take(AckRecv(Ended(r, "OK")))
      PROVE  t \in Systems /\ SameRequest(s, t) /\ Takes(s, t)
  <2> DEFINE u == Ended(r, "OK")
             v == AckRecv(u)
  <2>1. "OK" \in Errors
    BY DEF Errors
  <2>2. /\ u \in Systems /\ u.c.state = "Idle" /\ u.c.err = "OK"
        /\ u.c.recv_buf = s.c.recv_buf /\ u.c.options = s.c.options
        /\ SameWire(s, u) /\ SameRequest(s, u)
    BY <1>3, <2>1, EndedIs DEF SameWire, SameRequest, SameDownload
  <2>3. t = Take(v)
    BY <1>3
  <2> HIDE DEF u
  <2>4. /\ v \in Systems /\ v.inbox = Tail(s.inbox) /\ v.c = u.c
        /\ v.tx = s.tx /\ v.taken = s.taken
    BY <2>2, AckRecvIs DEF SameWire
  <2>5. v.c.send_buf.id \in DOMAIN v.taken
    BY <2>2, <2>4 DEF SameRequest
  <2> HIDE DEF v
  <2>6. /\ t \in Systems /\ t.c = u.c /\ t.tx = s.tx /\ t.inbox = Tail(s.inbox)
        /\ t.taken = [s.taken EXCEPT ![s.c.send_buf.id] = s.c.recv_buf.id]
    BY <2>2, <2>3, <2>4, <2>5, TakeIs DEF SameRequest
  <2> QED BY <1>3, <2>2, <2>6 DEF Takes, SameRequest, SameDownload
<1>4. CASE s.c.recv_buf.kind # "pending" /\ t = Take(AckRecv(Ended(timed, "OK")))
  <2>1. s.c.recv_buf.timings.p2 \in Nat /\ s.c.recv_buf.timings.p2Star \in Nat
    BY DEF Systems, Clients, Responses, Timings
  <2>2. timed \in Systems
    BY <2>1 DEF Systems, Clients
  <2>3. /\ SameRequest(s, timed) /\ SameWire(s, timed)
        /\ timed.c.recv_buf = s.c.recv_buf /\ timed.c.options = s.c.options
    BY DEF Systems, Clients, SameRequest, SameDownload, SameWire
  <2> QED BY <1>3, <1>4, <2>2, <2>3
<1>5. CASE s.c.recv_buf.kind # "pending" /\ t = Take(AckRecv(Ended(s, "OK")))
  BY <1>3, <1>5 DEF SameWire, SameRequest, SameDownload
<1> QED BY <1>1, <1>2, <1>4, <1>5 DEF ClientHandleResponse

LEMMA ProcessResponseIs ==
    ASSUME NEW s \in Systems, NEW t, t = ProcessResponse(s),
           s.c.state = "ProcessResponse", s.inbox # <<>>,
           s.c.send_buf.id \in DOMAIN s.taken
    PROVE  /\ t \in Systems /\ SameRequest(s, t)
           /\ Rejects(s, t) \/ WaitsLonger(s, t) \/ Takes(s, t)
<1> DEFINE err == ClientValidateResponse(s.c)
           ok == [s EXCEPT !.c.err = "OK"]
<1>1. err \in Errors
  BY DEF ClientValidateResponse, Errors
<1>2. CASE err # "OK"
  <2>1. t = AckRecv(Ended(s, err))
    BY <1>2 DEF ProcessResponse
  <2> HIDE DEF err
  <2>2. Ended(s, err).inbox # <<>>
    BY <1>1, EndedIs DEF SameWire
  <2> QED BY <1>1, <1>2, <2>1, <2>2, EndedIs, AckRecvIs
          DEF Rejects, SameRequest, SameDownload, SameWire
<1>3. CASE err = "OK"
  <2>1. t = ClientHandleResponse(ok)
    BY <1>3 DEF ProcessResponse
  <2>2. /\ ok \in Systems /\ ok.c.state = "ProcessResponse"
        /\ SameWire(s, ok) /\ SameRequest(s, ok)
        /\ ok.c.recv_buf = s.c.recv_buf /\ ok.c.options = s.c.options
    BY DEF Systems, Clients, Errors, SameRequest, SameDownload, SameWire
  <2>3. s.c.recv_buf.kind = "negative" => "NEG_RESP_IS_ERR" \notin s.c.copy
    BY <1>3 DEF ClientValidateResponse
  <2> HIDE DEF ok, err
  <2>4. /\ t \in Systems /\ SameRequest(ok, t)
        /\ Rejects(ok, t) \/ WaitsLonger(ok, t) \/ Takes(ok, t)
    BY <2>1, <2>2, <2>3, ClientHandleResponseIs DEF SameRequest, SameWire
  <2>5. SameRequest(s, t)
    BY <2>2, <2>4 DEF SameRequest, SameDownload
  <2> QED BY <2>2, <2>4, <2>5
          DEF Rejects, WaitsLonger, Takes, SameRequest, SameWire
<1> QED BY <1>2, <1>3

PollStep(s, t) ==
    \/ Rests(s, t) \/ Waits(s, t) \/ GivesUp(s, t) \/ Sends(s, t)
    \/ AwaitsNothing(s, t) \/ Awaits(s, t) \/ Skips(s, t) \/ Receives(s, t)
    \/ Rejects(s, t) \/ WaitsLonger(s, t) \/ Takes(s, t)

LEMMA PollLowLevelIs ==
    ASSUME NEW s \in Systems, NEW f \in Fails, NEW t, t = PollLowLevel(s, f),
           s.c.state = "ProcessResponse" => s.inbox # <<>>,
           s.c.state # "Idle" => s.c.send_buf.id \in DOMAIN s.taken
    PROVE  t \in Systems /\ SameRequest(s, t) /\ PollStep(s, t)
<1>1. s.c.state \in States
  BY DEF Systems, Clients
<1>2. CASE s.c.state = "Idle"
  <2> DEFINE r == [s EXCEPT !.c.options = DefaultOptions]
  <2>1. r \in Systems
    BY OptionsAssumption DEF Systems, Clients
  <2>2. /\ SameRequest(s, r) /\ SameWire(s, r)
        /\ r.c.state = s.c.state /\ r.c.err = s.c.err /\ r.c.options = DefaultOptions
    BY DEF Systems, Clients, SameRequest, SameDownload, SameWire
  <2>3. t = r
    BY <1>2 DEF PollLowLevel
  <2> QED BY <1>2, <2>1, <2>2, <2>3 DEF PollStep, Rests
<1>3. CASE s.c.state = "Sending"
  <2>1. t = Sending(s, f)
    BY <1>3 DEF PollLowLevel
  <2> QED BY <1>3, <2>1, SendingIs DEF PollStep
<1>4. CASE s.c.state = "AwaitSendComplete"
  <2>1. t = AwaitSendComplete(s)
    BY <1>4 DEF PollLowLevel
  <2> QED BY <1>4, <2>1, AwaitSendCompleteIs DEF PollStep
<1>5. CASE s.c.state = "AwaitResponse"
  <2>1. t = AwaitResponse(s, f)
    BY <1>5 DEF PollLowLevel
  <2> QED BY <1>5, <2>1, AwaitResponseIs DEF PollStep
<1>6. CASE s.c.state = "ProcessResponse"
  <2>1. t = ProcessResponse(s)
    BY <1>6 DEF PollLowLevel
  <2> QED BY <1>6, <2>1, ProcessResponseIs DEF PollStep
<1> QED BY <1>1, <1>2, <1>3, <1>4, <1>5, <1>6 DEF States

LEMMA PreRequestCheckIs ==
    ASSUME NEW s \in Systems
    PROVE  /\ PreRequestCheck(s) \in Systems
           /\ SameWire(s, PreRequestCheck(s)) /\ SameRequest(s, PreRequestCheck(s))
           /\ PreRequestCheck(s).c.state = "Idle"
           /\ PreRequestCheck(s).c.err = "OK"
           /\ PreRequestCheck(s).c.options = s.c.options
<1>1. [s.c.recv_buf EXCEPT !.whole = FALSE] \in Responses
  BY DEF Systems, Clients, Responses
<1>2. PreRequestCheck(s) \in Systems
  BY <1>1 DEF PreRequestCheck, Systems, Clients, States, Errors
<1> QED BY <1>2 DEF PreRequestCheck, Systems, Clients, SameWire, SameRequest, SameDownload

LEMMA SendRequestIs ==
    ASSUME NEW s \in Systems, NEW sid \in Sids, NEW sub \in Nat,
           NEW from \in Nat, NEW len \in Nat, NEW f \in Fails,
           NEW t, t = SendRequest(s, sid, sub, from, len, f)
    PROVE  t \in Systems /\ SameDownload(s, t) /\ Requested(s, t, sid, sub, from, len)
<1> DEFINE q == [id |-> Len(s.taken) + 1, sid |-> sid, sub |-> sub,
                 bit7 |-> "SUPPRESS_POS_RESP" \in s.c.options,
                 from |-> from, len |-> len]
           c == PreRequestCheck(s).c
           d == [c EXCEPT !.copy = s.c.options, !.state = "Sending", !.send_buf = q]
           r == [s EXCEPT !.taken = Append(s.taken, 0), !.c = d]
<1>1. q \in Requests
  BY DEF Requests, Systems
<1>2. c \in Clients /\ c.options = s.c.options
  BY PreRequestCheckIs, ClientHasType
<1>3. s.c.options \in SUBSET Options
  BY DEF Systems, Clients
<1>4. /\ c.cbIdx = s.c.cbIdx /\ c.pos = s.c.pos /\ c.eof = s.c.eof
      /\ c.blockSequenceCounter = s.c.blockSequenceCounter
  BY PreRequestCheckIs DEF SameRequest, SameDownload
<1> HIDE DEF q, c
<1>5. d \in Clients
  BY <1>1, <1>2, <1>3 DEF Clients, States
<1>6. /\ d.copy = s.c.options /\ d.options = s.c.options
      /\ d.state = "Sending" /\ d.send_buf = q
      /\ d.cbIdx = s.c.cbIdx /\ d.pos = s.c.pos /\ d.eof = s.c.eof
      /\ d.blockSequenceCounter = s.c.blockSequenceCounter
  BY <1>2, <1>4 DEF Clients
<1>7. t = Sending(r, f)
  BY <1>2 DEF SendRequest, q, c
<1>8. Append(s.taken, 0) \in Seq(Nat)
  BY DEF Systems
<1> HIDE DEF d
<1>9. /\ r \in Systems /\ r.c = d /\ r.taken = Append(s.taken, 0)
      /\ r.inbox = s.inbox /\ r.tx = s.tx
  BY <1>5, <1>8 DEF Systems
<1> HIDE DEF r
<1>10. t \in Systems /\ SameRequest(r, t) /\ (Waits(r, t) \/ Sends(r, t))
  BY <1>6, <1>7, <1>9, SendingIs
<1>11. SameDownload(s, t)
  BY <1>6, <1>9, <1>10 DEF SameRequest, SameDownload
<1>12. t.c.send_buf = q /\ t.c.copy = s.c.options /\ t.c.options = s.c.options
  BY <1>6, <1>9, <1>10 DEF SameRequest, Waits, Sends
<1>13. /\ t.inbox = s.inbox /\ t.taken = Append(s.taken, 0)
       /\ \/ t.c.state = "Sending" /\ t.tx = s.tx
          \/ t.c.state = "AwaitSendComplete" /\ s.tx = <<>> /\ t.tx = <<q>>
  BY <1>6, <1>9, <1>10 DEF Waits, Sends, SameWire
<1> QED BY <1>10, <1>11, <1>12, <1>13 DEF Requested, q

(* The callbacks, called when the client is idle and without an error.     *)
CallbackStep(s, t) ==
    \/ MovesOn(s, t) /\ t.c.options = s.c.options
    \/ Stops(s, t)
    \/ Ends(s, t) /\ t.c.options = s.c.options
    \/ \E sid \in {"RequestDownload", "RequestTransferExit"} :
          /\ Requested(s, t, sid, 0, 0, 0)
          /\ s.c.cbIdx = IF sid = "RequestDownload" THEN 1 ELSE 6
          /\ t.c.cbIdx = s.c.cbIdx + 1
          /\ t.c.pos = s.c.pos /\ t.c.eof = s.c.eof
          /\ t.c.blockSequenceCounter = s.c.blockSequenceCounter
    \/ \E len \in Nat :
          /\ Requested(s, t, "TransferData", s.c.blockSequenceCounter, s.c.pos, len)
          /\ s.c.cbIdx = 5 /\ t.c.cbIdx = 5 /\ ~s.c.eof
          /\ t.c.pos = s.c.pos + len
          /\ t.c.eof => t.c.pos = FileSize
          /\ t.c.blockSequenceCounter = (s.c.blockSequenceCounter + 1) % CounterMod

LEMMA GotoNextIs ==
    ASSUME NEW s \in Systems, s.c.cbIdx # 8
    PROVE  /\ GotoNext(s) \in Systems
           /\ SameWire(s, GotoNext(s))
           /\ GotoNext(s).c.cbIdx = s.c.cbIdx + 1
           /\ GotoNext(s).c.send_buf = s.c.send_buf
           /\ GotoNext(s).c.copy = s.c.copy
           /\ GotoNext(s).c.options = s.c.options
           /\ GotoNext(s).c.state = s.c.state /\ GotoNext(s).c.err = s.c.err
           /\ GotoNext(s).c.pos = s.c.pos /\ GotoNext(s).c.eof = s.c.eof
           /\ GotoNext(s).c.blockSequenceCounter = s.c.blockSequenceCounter
<1>1. s.c.cbIdx + 1 \in 0..8
  BY DEF Systems, Clients
<1>2. GotoNext(s) \in Systems
  BY <1>1 DEF GotoNext, Systems, Clients
<1> QED BY <1>2 DEF GotoNext, SameWire, Systems, Clients

LEMMA RunningIs ==
    ASSUME NEW s \in Systems
    PROVE  /\ Running(s) \in Systems
           /\ SameWire(s, Running(s)) /\ SameRequest(s, Running(s))
           /\ Running(s).c.options = s.c.options
           /\ Running(s).c.state = s.c.state /\ Running(s).c.err = s.c.err
           /\ Running(s).c.recv_buf = s.c.recv_buf
<1>1. Running(s) \in Systems
  BY DEF Running, Systems, Clients
<1> QED BY <1>1 DEF Running, SameWire, SameRequest, SameDownload, Systems, Clients

LEMMA IdleReturnIs ==
    ASSUME NEW s \in Systems
    PROVE  /\ [s EXCEPT !.c.ret = "idle"] \in Systems
           /\ SameWire(s, [s EXCEPT !.c.ret = "idle"])
           /\ SameRequest(s, [s EXCEPT !.c.ret = "idle"])
           /\ [s EXCEPT !.c.ret = "idle"].c.options = s.c.options
           /\ [s EXCEPT !.c.ret = "idle"].c.state = s.c.state
           /\ [s EXCEPT !.c.ret = "idle"].c.err = s.c.err
           /\ [s EXCEPT !.c.ret = "idle"].c.recv_buf = s.c.recv_buf
<1>1. [s EXCEPT !.c.ret = "idle"] \in Systems
  BY DEF Systems, Clients
<1> QED BY <1>1 DEF SameWire, SameRequest, SameDownload, Systems, Clients

LEMMA DoneIs ==
    ASSUME NEW s \in Systems, NEW err \in Errors
    PROVE  /\ Done(s, err) \in Systems
           /\ SameWire(s, Done(s, err)) /\ SameRequest(s, Done(s, err))
           /\ Done(s, err).c.state = s.c.state /\ Done(s, err).c.err = err
<1>1. Done(s, err) \in Systems
  BY DEF Done, Systems, Clients
<1> QED BY <1>1 DEF Done, SameWire, SameRequest, SameDownload, Systems, Clients

LEMMA CheckRequestDownloadResponseIs ==
    ASSUME NEW s \in Systems, NEW t, t = CheckRequestDownloadResponse(s),
           s.c.state = "Idle", s.c.err = "OK", s.c.cbIdx = 3
    PROVE  t \in Systems /\ CallbackStep(s, t)
<1> DEFINE err == UnpackRequestDownloadResponse(s.c)
           r == [s EXCEPT !.c.blockLength = DataLength(s.c.recv_buf.blockLength)]
<1>1. err \in Errors
  BY DEF UnpackRequestDownloadResponse, Errors
<1>2. CASE err = "OK"
  <2>1. DataLength(s.c.recv_buf.blockLength) \in Nat
    <3>1. s.c.recv_buf.blockLength \in BlockLengths \cup {0}
      BY DEF Systems, Clients, Responses
    <3>2. \A n \in BlockLengths \ {0} : DataLength(n) \in Nat
      BY FileAssumption
    <3>3. DataLength(0) = 0
      BY FileAssumption DEF DataLength
    <3> QED BY <3>1, <3>2, <3>3
  <2>2. r \in Systems
    BY <2>1 DEF Systems, Clients
  <2>3. /\ SameWire(s, r) /\ SameRequest(s, r) /\ r.c.options = s.c.options
        /\ r.c.state = s.c.state /\ r.c.err = s.c.err
    BY DEF Systems, Clients, SameRequest, SameDownload, SameWire
  <2>4. t = GotoNext(r)
    BY <1>2 DEF CheckRequestDownloadResponse
  <2> HIDE DEF r, err
  <2>5. r.c.cbIdx = 3
    BY <2>3 DEF SameRequest, SameDownload
  <2>6. MovesOn(s, t) /\ t.c.options = s.c.options
    BY <2>2, <2>3, <2>4, <2>5, GotoNextIs
       DEF MovesOn, SameRequest, SameDownload, SameWire
  <2> QED BY <2>2, <2>4, <2>5, <2>6, GotoNextIs DEF CallbackStep
<1>3. CASE err # "OK"
  <2>1. t = Done(s, err)
    BY <1>3 DEF CheckRequestDownloadResponse
  <2> HIDE DEF err
  <2> QED BY <1>1, <1>3, <2>1, DoneIs DEF CallbackStep, Stops
<1> QED BY <1>2, <1>3

LEMMA PrepareToTransferIs ==
    ASSUME NEW s \in Systems, NEW t, t = PrepareToTransfer(s),
           s.c.state = "Idle", s.c.err = "OK", s.c.cbIdx = 4
    PROVE  t \in Systems /\ CallbackStep(s, t)
<1> DEFINE r == [s EXCEPT !.c.blockSequenceCounter = 1]
<1>1. 1 \in Counters
  BY DEF Counters
<1>2. r \in Systems
  BY <1>1 DEF Systems, Clients
<1>3. /\ SameWire(s, r) /\ r.c.options = s.c.options
      /\ r.c.state = s.c.state /\ r.c.err = s.c.err
      /\ r.c.send_buf = s.c.send_buf /\ r.c.cbIdx = s.c.cbIdx
      /\ r.c.pos = s.c.pos /\ r.c.eof = s.c.eof /\ r.c.blockSequenceCounter = 1
  BY DEF Systems, Clients, SameWire
<1>4. t = GotoNext(r)
  BY DEF PrepareToTransfer
<1> HIDE DEF r
<1>5. MovesOn(s, t) /\ t.c.options = s.c.options
  BY <1>2, <1>3, <1>4, GotoNextIs DEF MovesOn, SameWire
<1> QED BY <1>2, <1>3, <1>4, <1>5, GotoNextIs DEF CallbackStep

LEMMA TransferDataIs ==
    ASSUME NEW s \in Systems, NEW f \in Fails, NEW t, t = TransferData(s, f),
           s.c.state = "Idle", s.c.err = "OK", s.c.cbIdx = 5
    PROVE  t \in Systems /\ CallbackStep(s, t)
<1> DEFINE left == FileSize - s.c.pos
           len  == IF f = "file" THEN 0
                   ELSE IF left < s.c.blockLength THEN left ELSE s.c.blockLength
           read == [s EXCEPT !.c.pos = @ + len, !.c.ferror = f = "file",
                             !.c.eof = f # "file" /\ len < s.c.blockLength,
                             !.c.blockSequenceCounter = (@ + 1) % CounterMod]
<1>1. CASE s.c.ferror
  <2>1. t = Done(s, "FILE_IO") /\ "FILE_IO" \in Errors
    BY <1>1 DEF TransferData, Errors
  <2> QED BY <2>1, DoneIs DEF CallbackStep, Stops
<1>2. CASE ~s.c.ferror /\ s.c.eof
  <2>1. t = GotoNext(s)
    BY <1>2 DEF TransferData
  <2>2. s.c.cbIdx # 8 /\ s.c.cbIdx # 4 /\ s.c.cbIdx = 5
    OBVIOUS
  <2>3. /\ t \in Systems /\ SameWire(s, t) /\ t.c.cbIdx = s.c.cbIdx + 1
        /\ t.c.send_buf = s.c.send_buf /\ t.c.options = s.c.options
        /\ t.c.state = "Idle" /\ t.c.err = "OK"
        /\ t.c.pos = s.c.pos /\ t.c.eof = s.c.eof
        /\ t.c.blockSequenceCounter = s.c.blockSequenceCounter
    BY <2>1, <2>2, GotoNextIs
  <2>4. MovesOn(s, t)
    BY <1>2, <2>2, <2>3, Zenon DEF MovesOn
  <2> QED BY <2>3, <2>4 DEF CallbackStep
<1>3. CASE ~s.c.ferror /\ ~s.c.eof
  <2>1. s.c.pos \in 0..FileSize /\ s.c.pos \in Nat /\ s.c.blockLength \in Nat /\ s.c.blockSequenceCounter \in Nat
    BY FileAssumption DEF Systems, Clients, Counters
  <2>2. /\ len \in Nat /\ s.c.pos + len \in 0..FileSize
        /\ f # "file" /\ len < s.c.blockLength => s.c.pos + len = FileSize
    BY <2>1, FileAssumption
  <2>3. (s.c.blockSequenceCounter + 1) % CounterMod \in Counters
    BY <2>1, FileAssumption DEF Counters
  <2>4. t = Running(SendRequest(read, "TransferData", s.c.blockSequenceCounter,
                                s.c.pos, len, f))
    BY <1>3 DEF TransferData
  <2> HIDE DEF len
  <2> DEFINE rc == [s.c EXCEPT !.pos = @ + len, !.ferror = f = "file",
                               !.eof = f # "file" /\ len < s.c.blockLength,
                               !.blockSequenceCounter = (@ + 1) % CounterMod]
  <2>13. rc \in Clients
    BY <2>2, <2>3 DEF Systems, Clients
  <2>14. read = [s EXCEPT !.c = rc]
    BY DEF Systems, Clients
  <2>5. read \in Systems
    <3> HIDE DEF rc, read
    <3> QED BY <2>13, <2>14 DEF Systems
  <2>6. /\ SameWire(s, read) /\ read.c.options = s.c.options
        /\ read.c.cbIdx = s.c.cbIdx /\ read.c.pos = s.c.pos + len
        /\ read.c.eof = (f # "file" /\ len < s.c.blockLength)
        /\ read.c.blockSequenceCounter = (s.c.blockSequenceCounter + 1) % CounterMod
    BY DEF Systems, Clients, SameWire
  <2> HIDE DEF read
  <2> DEFINE u == SendRequest(read, "TransferData", s.c.blockSequenceCounter,
                              s.c.pos, len, f)
  <2>7. "TransferData" \in Sids
    BY DEF Sids
  <2>8. /\ u \in Systems /\ SameDownload(read, u)
        /\ Requested(read, u, "TransferData", s.c.blockSequenceCounter, s.c.pos, len)
    BY <2>1, <2>2, <2>5, <2>7, SendRequestIs
  <2>9. t = Running(u)
    BY <2>4
  <2> HIDE DEF u
  <2>10. /\ t \in Systems /\ SameDownload(read, t)
         /\ Requested(read, t, "TransferData", s.c.blockSequenceCounter, s.c.pos, len)
    BY <2>8, <2>9, RunningIs DEF Requested, SameRequest, SameDownload, SameWire
  <2>11. Requested(s, t, "TransferData", s.c.blockSequenceCounter, s.c.pos, len)
    BY <2>6, <2>10 DEF Requested, SameWire
  <2> QED BY <1>3, <2>2, <2>6, <2>10, <2>11 DEF CallbackStep, SameDownload
<1> QED BY <1>1, <1>2, <1>3

LEMMA NextRequestIs ==
    ASSUME NEW s \in Systems, NEW f \in Fails, NEW t,
           NEW sid \in {"RequestDownload", "RequestTransferExit"},
           t = GotoNext(SendRequest(s, sid, 0, 0, 0, f)),
           s.c.cbIdx = IF sid = "RequestDownload" THEN 1 ELSE 6
    PROVE  t \in Systems /\ CallbackStep(s, t)
<1> DEFINE u == SendRequest(s, sid, 0, 0, 0, f)
<1>1. sid \in Sids
  BY DEF Sids
<1>2. u \in Systems /\ SameDownload(s, u) /\ Requested(s, u, sid, 0, 0, 0)
  BY <1>1, SendRequestIs
<1>3. t = GotoNext(u)
  OBVIOUS
<1> HIDE DEF u
<1>4. u.c.cbIdx # 8
  BY <1>2 DEF SameDownload
<1>5. t \in Systems /\ Requested(s, t, sid, 0, 0, 0)
  BY <1>2, <1>3, <1>4, GotoNextIs DEF Requested, SameWire
<1>6. /\ t.c.cbIdx = s.c.cbIdx + 1
      /\ t.c.pos = s.c.pos /\ t.c.eof = s.c.eof
      /\ t.c.blockSequenceCounter = s.c.blockSequenceCounter
  BY <1>2, <1>3, <1>4, GotoNextIs DEF SameDownload
<1> QED BY <1>5, <1>6 DEF CallbackStep

LEMMA RunCallbackIs ==
    ASSUME NEW s \in Systems, NEW f \in Fails, NEW t, t = RunCallback(s, f),
           s.c.state = "Idle", s.c.err = "OK"
    PROVE  t \in Systems /\ CallbackStep(s, t)
<1>1. s.c.cbIdx \in 0..8
  BY DEF Systems, Clients
<1>2. CASE s.c.cbIdx \in {0, 8}
  <2>1. t = [s EXCEPT !.c.ret = "idle"]
    BY <1>2 DEF RunCallback, ActiveCallback, Callbacks
  <2> QED BY <2>1, IdleReturnIs DEF CallbackStep, Ends
<1>3. CASE s.c.cbIdx = 1
  <2>1. t = GotoNext(SendRequest(s, "RequestDownload", 0, 0, 0, f))
    BY <1>3 DEF RunCallback, ActiveCallback, Callbacks
  <2> QED BY <1>3, <2>1, NextRequestIs
<1>4. CASE s.c.cbIdx \in {2, 7}
  <2>1. t = GotoNext(s)
    BY <1>4 DEF RunCallback, ActiveCallback, Callbacks
  <2>2. MovesOn(s, t) /\ t.c.options = s.c.options
    BY <1>4, <2>1, GotoNextIs DEF MovesOn
  <2> QED BY <1>4, <2>1, <2>2, GotoNextIs DEF CallbackStep
<1>5. CASE s.c.cbIdx = 3
  <2>1. t = CheckRequestDownloadResponse(s)
    BY <1>5 DEF RunCallback, ActiveCallback, Callbacks
  <2> QED BY <1>5, <2>1, CheckRequestDownloadResponseIs
<1>6. CASE s.c.cbIdx = 4
  <2>1. t = PrepareToTransfer(s)
    BY <1>6 DEF RunCallback, ActiveCallback, Callbacks
  <2> QED BY <1>6, <2>1, PrepareToTransferIs
<1>7. CASE s.c.cbIdx = 5
  <2>1. t = TransferData(s, f)
    BY <1>7 DEF RunCallback, ActiveCallback, Callbacks
  <2> QED BY <1>7, <2>1, TransferDataIs
<1>8. CASE s.c.cbIdx = 6
  <2>1. t = GotoNext(SendRequest(s, "RequestTransferExit", 0, 0, 0, f))
    BY <1>8 DEF RunCallback, ActiveCallback, Callbacks
  <2> QED BY <1>8, <2>1, NextRequestIs
<1> QED BY <1>1, <1>2, <1>3, <1>4, <1>5, <1>6, <1>7, <1>8

(* One poll: a step of the request, then, if that left the client idle and *)
(* without an error, the callback's.                                       *)
LEMMA ClientPollIs ==
    ASSUME NEW s \in Systems, NEW f \in Fails, NEW t, t = ClientPoll(s, f),
           s.c.state = "ProcessResponse" => s.inbox # <<>>,
           s.c.state # "Idle" => s.c.send_buf.id \in DOMAIN s.taken
    PROVE  /\ t \in Systems
           /\ \E u \in Systems :
                 /\ PollStep(s, u) /\ SameRequest(s, u)
                 /\ \/ /\ SameWire(u, t) /\ SameRequest(u, t)
                       /\ t.c.state = u.c.state /\ t.c.err = u.c.err
                       /\ t.c.recv_buf = u.c.recv_buf
                       /\ t.c.options = u.c.options
                    \/ u.c.state = "Idle" /\ u.c.err = "OK" /\ CallbackStep(u, t)
<1> DEFINE u == PollLowLevel(s, f)
<1>1. u \in Systems /\ SameRequest(s, u) /\ PollStep(s, u)
  BY PollLowLevelIs
<1>2. \/ u.c.err # "OK" /\ t = [u EXCEPT !.c.ret = "idle"]
      \/ u.c.state # "Idle" /\ t = Running(u)
      \/ u.c.state = "Idle" /\ u.c.err = "OK" /\ t = RunCallback(u, f)
  BY DEF ClientPoll
<1> HIDE DEF u
<1>3. CASE t = [u EXCEPT !.c.ret = "idle"]
  BY <1>1, <1>3, IdleReturnIs
<1>4. CASE t = Running(u)
  BY <1>1, <1>4, RunningIs
<1>5. CASE u.c.state = "Idle" /\ u.c.err = "OK" /\ t = RunCallback(u, f)
  <2>1. t \in Systems /\ CallbackStep(u, t)
    BY <1>1, <1>5, RunCallbackIs
  <2> QED BY <1>1, <1>5, <2>1
<1> QED BY <1>2, <1>3, <1>4, <1>5

-----------------------------------------------------------------------------
LEMMA AppendAt ==
    ASSUME NEW S, NEW seq \in Seq(S), NEW x \in S
    PROVE  /\ Append(seq, x) \in Seq(S) /\ Len(Append(seq, x)) = Len(seq) + 1
           /\ DOMAIN Append(seq, x) = 1..(Len(seq) + 1)
           /\ \A i \in DOMAIN seq : Append(seq, x)[i] = seq[i]
           /\ Append(seq, x)[Len(seq) + 1] = x
OBVIOUS

LEMMA TailAt ==
    ASSUME NEW S, NEW seq \in Seq(S), seq # <<>>
    PROVE  /\ Tail(seq) \in Seq(S) /\ Len(Tail(seq)) = Len(seq) - 1
           /\ DOMAIN Tail(seq) = 1..(Len(seq) - 1) /\ Len(seq) \in Nat \ {0}
           /\ \A i \in DOMAIN Tail(seq) : Tail(seq)[i] = seq[i + 1] /\ i + 1 \in DOMAIN seq
           /\ Head(seq) = seq[1] /\ 1 \in DOMAIN seq
OBVIOUS

LEMMA AtMostOne ==
    ASSUME NEW S, NEW seq \in Seq(S), Len(seq) <= 1, seq # <<>>
    PROVE  Len(seq) = 1 /\ seq = <<seq[1]>> /\ seq[1] \in S /\ 1 \in DOMAIN seq
<1>1. Len(seq) = 1
  <2>1. Len(seq) \in Nat \ {0}
    BY EmptySeq, Zenon
  <2> QED BY <2>1
<1>2. seq[1] \in S /\ 1 \in DOMAIN seq
  BY <1>1, LenProperties
<1>3. <<seq[1]>> \in Seq(S) /\ Len(<<seq[1]>>) = 1 /\ <<seq[1]>>[1] = seq[1]
  BY <1>2
<1>4. seq = <<seq[1]>>
  BY <1>1, <1>3, SeqEqual
<1> QED BY <1>1, <1>2, <1>4

(***************************************************************************)
(* The order of the requests: each kind of step preserves it.              *)
(***************************************************************************)
LEMMA OrderedSame ==
    ASSUME NEW s \in Systems, NEW t \in Systems, NEW ow \in Seq(Requests),
           Ordered(s, ow), SameWire(s, t), t.c.send_buf = s.c.send_buf,
           t.c.state # "Idle" => s.c.state # "Idle",
           t.c.state = "Sending" => s.c.state = "Sending",
           t.c.state = "ProcessResponse" =>
             \/ s.c.state = "ProcessResponse" /\ t.c.recv_buf = s.c.recv_buf
             \/ /\ s.inbox # <<>> /\ t.c.recv_buf = Head(s.inbox)
                /\ ~Head(s.inbox).functional
    PROVE  Ordered(t, ow)
<1>1. Current(t)
  BY DEF Ordered, Current, SameWire
<1>2. \A m : Late(s, m) => Late(t, m)
  BY DEF Late, SameWire
<1>3. Line(t, ow)
  BY <1>2 DEF Ordered, Line, SameWire
<1> QED BY <1>1, <1>3 DEF Ordered, SameWire

LEMMA OrderedSends ==
    ASSUME NEW s \in Systems, NEW t \in Systems, NEW ow \in Seq(Requests),
           Ordered(s, ow), Sends(s, t), SameRequest(s, t)
    PROVE  Ordered(t, ow)
<1> DEFINE q == s.c.send_buf
<1>1. /\ t.tx = <<q>> /\ t.inbox = s.inbox /\ t.taken = s.taken
      /\ t.c.state = "AwaitSendComplete" /\ t.c.send_buf = q
  BY DEF Sends, SameRequest
<1>2. Current(t)
  BY <1>1 DEF Ordered, Current, Sends
<1>3. /\ s.taken \in Seq(Nat) /\ q.id = Len(s.taken) /\ Len(s.taken) > 0
      /\ s.taken[Len(s.taken)] = 0 /\ s.c.state = "Sending"
  BY DEF Ordered, Current, Sends, Systems
<1>4. \A j \in DOMAIN s.taken : s.taken[j] < Len(s.taken)
  <2> SUFFICES ASSUME NEW j \in DOMAIN s.taken PROVE s.taken[j] < Len(s.taken)
    OBVIOUS
  <2>1. s.taken[j] # 0 => s.taken[j] <= j
    BY DEF Ordered, TakenInOrder
  <2> QED BY <1>3, <2>1
<1>5. Late(t, q)
  BY <1>1, <1>3, <1>4 DEF Late
<1>6. \A m : Late(s, m) => Late(t, m) /\ m.id < q.id
  BY <1>1, <1>3 DEF Late
<1>7. DOMAIN t.tx = {1} /\ t.tx[1] = q /\ Len(t.tx) = 1
  BY <1>1
<1>8. Line(s, ow)
  BY DEF Ordered
<1>9. Line(t, ow)
  BY <1>1, <1>5, <1>6, <1>7, <1>8 DEF Line
<1> QED BY <1>1, <1>2, <1>9 DEF Ordered

LEMMA OrderedDrops ==
    ASSUME NEW s \in Systems, NEW t \in Systems, NEW ow \in Seq(Requests),
           Ordered(s, ow), t.c.send_buf = s.c.send_buf,
           s.inbox # <<>>, t.inbox = Tail(s.inbox), t.tx = s.tx, t.taken = s.taken,
           s.c.state \in {"AwaitResponse", "ProcessResponse"},
           t.c.state \in {"Idle", "AwaitResponse"}
    PROVE  Ordered(t, ow)
<1>1. Current(t)
  BY DEF Ordered, Current
<1>2. \A m : Late(s, m) => Late(t, m)
  BY DEF Late
<1>3. /\ DOMAIN t.inbox = 1..(Len(s.inbox) - 1) /\ Len(s.inbox) \in Nat
      /\ \A i \in DOMAIN t.inbox : t.inbox[i] = s.inbox[i + 1] /\ i + 1 \in DOMAIN s.inbox
  BY TailAt DEF Systems
<1>4. Line(s, ow)
  BY DEF Ordered
<1>5. \A i, j \in DOMAIN t.inbox :
        i < j /\ Final(t.inbox[i]) /\ Final(t.inbox[j]) => t.inbox[i].id < t.inbox[j].id
  <2> SUFFICES ASSUME NEW i \in DOMAIN t.inbox, NEW j \in DOMAIN t.inbox, i < j,
                      Final(t.inbox[i]), Final(t.inbox[j])
               PROVE  t.inbox[i].id < t.inbox[j].id
    OBVIOUS
  <2>1. i + 1 < j + 1
    BY <1>3
  <2> QED BY <1>3, <1>4, <2>1 DEF Line
<1>6. Line(t, ow)
  BY <1>2, <1>3, <1>4, <1>5 DEF Line
<1> QED BY <1>1, <1>6 DEF Ordered

(* The answer that is taken is later than all that were, and if every      *)
(* earlier request has its own, it is the client's.                        *)
LEMMA OrderedTakes ==
    ASSUME NEW s \in Systems, NEW t \in Systems, NEW ow \in Seq(Requests),
           Ordered(s, ow), Takes(s, t), SameRequest(s, t)
    PROVE  Ordered(t, ow)
<1> DEFINE n == Len(s.taken)
           m == s.c.recv_buf
<1>1. /\ s.taken \in Seq(Nat) /\ n \in Nat /\ n > 0 /\ s.taken[n] = 0
      /\ s.c.send_buf.id = n /\ s.inbox # <<>> /\ m = s.inbox[1]
      /\ ~m.functional /\ m.id \in Nat /\ 1 \in DOMAIN s.inbox
  <2>1. s.taken \in Seq(Nat) /\ n \in Nat /\ m.id \in Nat /\ s.inbox \in Seq(Responses)
    <3>1. m \in Responses /\ s.taken \in Seq(Nat) /\ s.inbox \in Seq(Responses)
      BY DEF Systems, Clients
    <3> QED BY <3>1 DEF Responses
  <2>2. /\ n > 0 /\ s.taken[n] = 0 /\ s.c.send_buf.id = n
        /\ s.inbox # <<>> /\ m = Head(s.inbox) /\ ~Head(s.inbox).functional
    BY DEF Ordered, Current, Takes
  <2> QED BY <2>1, <2>2, TailAt
<1>2. /\ t.taken = [s.taken EXCEPT ![n] = m.id] /\ t.inbox = Tail(s.inbox)
      /\ t.tx = s.tx /\ t.c.state = "Idle" /\ t.c.send_buf = s.c.send_buf
      /\ m.kind # "pending"
  BY <1>1 DEF Takes, SameRequest
<1> HIDE DEF m
<1>3. Final(m)
  BY <1>1, <1>2 DEF Final
<1>4. Line(s, ow) /\ TakenInOrder(s.taken)
  BY DEF Ordered
<1>5. m.id \in 1..n /\ \A j \in DOMAIN s.taken : s.taken[j] < m.id
  BY <1>1, <1>3, <1>4 DEF Line, Late
<1>6. /\ Len(t.taken) = n /\ DOMAIN t.taken = 1..n /\ DOMAIN s.taken = 1..n
      /\ t.taken[n] = m.id /\ \A j \in 1..(n - 1) : t.taken[j] = s.taken[j]
  BY <1>1, <1>2
<1>7. Current(t)
  BY <1>1, <1>2, <1>6 DEF Current
<1>8. TakenInOrder(t.taken)
  <2> SUFFICES ASSUME NEW i \in 1..n
               PROVE  /\ t.taken[i] # 0 => /\ t.taken[i] <= i
                                           /\ \A j \in 1..(i - 1) : t.taken[j] < t.taken[i]
                      /\ t.taken[i] \notin {0, i} => \E j \in 1..(i - 1) : t.taken[j] = 0
    BY <1>6 DEF TakenInOrder
  <2>1. CASE i # n
    <3>1. i \in 1..(n - 1) /\ \A j \in 1..(i - 1) : j \in 1..(n - 1)
      BY <1>1, <2>1
    <3> QED BY <1>4, <1>6, <3>1 DEF TakenInOrder
  <2>2. CASE i = n
    <3>1. \A j \in 1..(n - 1) : t.taken[j] < m.id
      <4> SUFFICES ASSUME NEW j \in 1..(n - 1) PROVE t.taken[j] < m.id
        OBVIOUS
      <4>1. j \in DOMAIN s.taken
        BY <1>1, <1>6
      <4> QED BY <1>5, <1>6, <4>1
    <3>2. ASSUME m.id # n PROVE \E j \in 1..(n - 1) : t.taken[j] = 0
      <4>1. n - 1 \in 1..(n - 1) /\ n - 1 \in DOMAIN s.taken
        BY <1>1, <1>5, <1>6, <3>2
      <4>2. s.taken[n - 1] \in Nat /\ s.taken[n - 1] < m.id /\ m.id < n
        BY <1>1, <1>5, <3>2, <4>1, SMTT(30)
      <4>3. s.taken[n - 1] # n - 1
        BY <1>1, <4>2
      <4>4. CASE s.taken[n - 1] = 0
        BY <1>6, <4>1, <4>4
      <4>5. CASE s.taken[n - 1] # 0
        <5>1. \E j \in 1..((n - 1) - 1) : s.taken[j] = 0
          BY <1>4, <4>1, <4>3, <4>5 DEF TakenInOrder
        <5>2. \A j \in 1..((n - 1) - 1) : j \in 1..(n - 1)
          BY <1>1
        <5> QED BY <1>6, <5>1, <5>2
      <4> QED BY <4>4, <4>5
    <3> QED BY <1>1, <1>5, <1>6, <2>2, <3>1, <3>2
  <2> QED BY <2>1, <2>2
<1>9. /\ DOMAIN t.inbox = 1..(Len(s.inbox) - 1) /\ Len(s.inbox) \in Nat
      /\ \A i \in DOMAIN t.inbox : /\ t.inbox[i] = s.inbox[i + 1]
                                   /\ i + 1 \in DOMAIN s.inbox /\ 1 < i + 1
  BY <1>1, <1>2, TailAt DEF Systems
<1>10. ASSUME NEW x, Late(s, x), m.id < x.id PROVE Late(t, x)
  <2>1. \A j \in 1..n : t.taken[j] < x.id
    <3> SUFFICES ASSUME NEW j \in 1..n PROVE t.taken[j] < x.id
      OBVIOUS
    <3>1. CASE j = n
      BY <1>6, <1>10, <3>1
    <3>2. CASE j # n
      <4>1. j \in 1..(n - 1) /\ j \in DOMAIN s.taken
        BY <1>1, <1>6, <3>2
      <4> QED BY <1>6, <1>10, <4>1 DEF Late
    <3> QED BY <3>1, <3>2
  <2> QED BY <1>2, <1>6, <1>10, <2>1 DEF Late
<1>11. \A i \in DOMAIN t.tx : Late(t, t.tx[i])
  BY <1>1, <1>2, <1>3, <1>4, <1>10 DEF Line
<1>12. \A i \in DOMAIN ow : Late(t, ow[i])
  BY <1>1, <1>3, <1>4, <1>10 DEF Line
<1>13. \A i \in DOMAIN t.inbox : Final(t.inbox[i]) => Late(t, t.inbox[i])
  BY <1>1, <1>3, <1>4, <1>9, <1>10 DEF Line
<1>14. \A i, j \in DOMAIN t.inbox :
         i < j /\ Final(t.inbox[i]) /\ Final(t.inbox[j]) => t.inbox[i].id < t.inbox[j].id
  <2> SUFFICES ASSUME NEW i \in DOMAIN t.inbox, NEW j \in DOMAIN t.inbox, i < j,
                      Final(t.inbox[i]), Final(t.inbox[j])
               PROVE  t.inbox[i].id < t.inbox[j].id
    OBVIOUS
  <2>1. i + 1 < j + 1
    BY <1>9
  <2> QED BY <1>4, <1>9, <2>1 DEF Line
<1>15. Line(t, ow)
  BY <1>2, <1>4, <1>9, <1>11, <1>12, <1>13, <1>14 DEF Line
<1> QED BY <1>7, <1>8, <1>15 DEF Ordered

LEMMA OrderedRequested ==
    ASSUME NEW s \in Systems, NEW t \in Systems, NEW ow \in Seq(Requests),
           NEW sid, NEW sub, NEW from, NEW len,
           Ordered(s, ow), Requested(s, t, sid, sub, from, len)
    PROVE  Ordered(t, ow)
<1> DEFINE n == Len(s.taken)
           q == t.c.send_buf
<1>1. s.taken \in Seq(Nat) /\ n \in Nat
  BY DEF Systems
<1>2. /\ t.inbox = s.inbox /\ t.taken = Append(s.taken, 0) /\ q.id = n + 1
      /\ t.c.state \in {"Sending", "AwaitSendComplete"}
  BY DEF Requested
<1>3. /\ Len(t.taken) = n + 1 /\ DOMAIN t.taken = 1..(n + 1)
      /\ DOMAIN s.taken = 1..n
      /\ \A i \in 1..n : t.taken[i] = s.taken[i]
      /\ t.taken[n + 1] = 0
  BY <1>1, <1>2, AppendAt
<1>4. Line(s, ow) /\ TakenInOrder(s.taken)
  BY DEF Ordered
<1>5. Current(t)
  BY <1>1, <1>2, <1>3 DEF Current
<1>6. TakenInOrder(t.taken)
  <2> SUFFICES ASSUME NEW i \in 1..(n + 1)
               PROVE  /\ t.taken[i] # 0 => /\ t.taken[i] <= i
                                           /\ \A j \in 1..(i - 1) : t.taken[j] < t.taken[i]
                      /\ t.taken[i] \notin {0, i} => \E j \in 1..(i - 1) : t.taken[j] = 0
    BY <1>3 DEF TakenInOrder
  <2>1. CASE i = n + 1
    BY <1>3, <2>1
  <2>2. CASE i # n + 1
    <3>1. i \in 1..n /\ \A j \in 1..(i - 1) : j \in 1..n
      BY <1>1, <2>2
    <3> QED BY <1>3, <1>4, <3>1 DEF TakenInOrder
  <2> QED BY <2>1, <2>2
<1>7. ASSUME NEW x, Late(s, x) PROVE Late(t, x) /\ x.id < n + 1
  <2>1. x.id \in 1..n /\ \A j \in 1..n : s.taken[j] < x.id
    BY <1>3, <1>7 DEF Late
  <2>2. x.id \in 1..(n + 1) /\ x.id < n + 1 /\ 0 < x.id
    BY <1>1, <2>1
  <2>3. \A j \in 1..(n + 1) : t.taken[j] < x.id
    <3> SUFFICES ASSUME NEW j \in 1..(n + 1) PROVE t.taken[j] < x.id
      OBVIOUS
    <3>1. j = n + 1 \/ j \in 1..n
      BY <1>1
    <3> QED BY <1>3, <2>1, <2>2, <3>1
  <2> QED BY <1>3, <2>2, <2>3 DEF Late
<1>8. CASE t.c.state = "Sending" /\ t.tx = s.tx
  <2>1. Line(t, ow)
    BY <1>2, <1>4, <1>7, <1>8 DEF Line
  <2> QED BY <1>5, <1>6, <2>1 DEF Ordered
<1>9. CASE t.c.state = "AwaitSendComplete" /\ t.tx = <<q>>
  <2>1. Late(t, q)
    <3>1. \A j \in 1..(n + 1) : t.taken[j] < n + 1
      <4> SUFFICES ASSUME NEW j \in 1..(n + 1) PROVE t.taken[j] < n + 1
        OBVIOUS
      <4>1. t.taken[j] # 0 => t.taken[j] <= j
        BY <1>3, <1>6 DEF TakenInOrder
      <4>2. CASE j = n + 1
        BY <1>1, <1>3, <4>2
      <4>3. CASE j # n + 1
        <5>1. j \in 1..n /\ s.taken[j] \in Nat /\ t.taken[j] = s.taken[j]
          BY <1>1, <1>3, <4>3
        <5> QED BY <1>1, <4>1, <5>1
      <4> QED BY <4>2, <4>3
    <3> QED BY <1>1, <1>2, <1>3, <1>9, <3>1 DEF Late
  <2>2. DOMAIN t.tx = {1} /\ t.tx[1] = q /\ Len(t.tx) = 1
    BY <1>9
  <2>3. Line(t, ow)
    BY <1>2, <1>4, <1>7, <2>1, <2>2 DEF Line
  <2> QED BY <1>5, <1>6, <2>3 DEF Ordered
<1> QED BY <1>8, <1>9 DEF Requested

LEMMA OrderedPolls ==
    ASSUME NEW s \in Systems, NEW t \in Systems, NEW ow \in Seq(Requests),
           Ordered(s, ow), PollStep(s, t), SameRequest(s, t)
    PROVE  Ordered(t, ow)
<1>1. CASE Rests(s, t) \/ Waits(s, t) \/ GivesUp(s, t) \/ AwaitsNothing(s, t)
           \/ Awaits(s, t) \/ Receives(s, t)
  <2>1. SameWire(s, t) /\ t.c.send_buf = s.c.send_buf
    BY <1>1 DEF Rests, Waits, GivesUp, AwaitsNothing, Awaits, Receives, SameRequest
  <2>2. /\ t.c.state # "Idle" => s.c.state # "Idle"
        /\ t.c.state = "Sending" => s.c.state = "Sending"
        /\ t.c.state = "ProcessResponse" =>
             \/ s.c.state = "ProcessResponse" /\ t.c.recv_buf = s.c.recv_buf
             \/ /\ s.inbox # <<>> /\ t.c.recv_buf = Head(s.inbox)
                /\ ~Head(s.inbox).functional
    BY <1>1 DEF Rests, Waits, GivesUp, AwaitsNothing, Awaits, Receives
  <2> QED BY <2>1, <2>2, OrderedSame
<1>2. CASE Sends(s, t)
  BY <1>2, OrderedSends
<1>3. CASE Skips(s, t) \/ Rejects(s, t) \/ WaitsLonger(s, t)
  <2>1. s.inbox # <<>>
    BY <1>3 DEF Skips, Rejects, WaitsLonger, Ordered, Current
  <2> QED BY <1>3, <2>1, OrderedDrops DEF Skips, Rejects, WaitsLonger, SameRequest
<1>4. CASE Takes(s, t)
  BY <1>4, OrderedTakes
<1> QED BY <1>1, <1>2, <1>3, <1>4 DEF PollStep

LEMMA OrderedCalls ==
    ASSUME NEW s \in Systems, NEW t \in Systems, NEW ow \in Seq(Requests),
           Ordered(s, ow), CallbackStep(s, t)
    PROVE  Ordered(t, ow)
<1>1. CASE MovesOn(s, t) \/ Stops(s, t) \/ Ends(s, t)
  BY <1>1, OrderedSame DEF MovesOn, Stops, Ends, SameRequest
<1>2. CASE \E sid, sub, from, len : Requested(s, t, sid, sub, from, len)
  BY <1>2, OrderedRequested
<1> QED BY <1>1, <1>2 DEF CallbackStep

(* A message m joins the inbox; the server keeps ow or has answered its    *)
(* first request with it.                                                  *)
LEMMA OrderedReceived ==
    ASSUME NEW s \in Systems, NEW t \in Systems,
           NEW ow \in Seq(Requests), NEW ow2 \in Seq(Requests),
           NEW m \in Responses,
           Ordered(s, ow), t.c = s.c, t.tx = s.tx, t.taken = s.taken,
           t.inbox \in {s.inbox, Append(s.inbox, m)},
           \/ ow2 = ow /\ ~Final(m)
           \/ ow # <<>> /\ ow2 = Tail(ow) /\ m.id = Head(ow).id
    PROVE  Ordered(t, ow2)
<1>1. Line(s, ow) /\ s.inbox \in Seq(Responses)
  BY DEF Ordered, Systems
<1>2. \A x : Late(t, x) <=> Late(s, x)
  BY DEF Late
<1>3. /\ DOMAIN s.inbox = 1..Len(s.inbox) /\ Len(s.inbox) \in Nat
      /\ \A i \in DOMAIN s.inbox : i \in DOMAIN t.inbox /\ t.inbox[i] = s.inbox[i]
      /\ \A i \in DOMAIN t.inbox : i \in DOMAIN s.inbox \/
                                   (i = Len(s.inbox) + 1 /\ t.inbox[i] = m)
  BY <1>1, AppendAt, SMTT(30)
<1>4. Current(t)
  <2>1. s.inbox # <<>> => t.inbox # <<>> /\ Head(t.inbox) = Head(s.inbox)
    BY <1>1, HeadTailAppend, AppendProperties
  <2> QED BY <2>1 DEF Ordered, Current
<1>5. /\ \A i \in DOMAIN ow2 : Late(t, ow2[i])
      /\ \A i, j \in DOMAIN ow2 : i < j => ow2[i].id < ow2[j].id
      /\ \A i \in DOMAIN ow2, j \in DOMAIN t.tx : ow2[i].id < t.tx[j].id
  <2>1. CASE ow2 = ow
    BY <1>1, <1>2, <2>1 DEF Line
  <2>2. CASE ow # <<>> /\ ow2 = Tail(ow)
    <3>1. /\ DOMAIN ow2 = 1..(Len(ow) - 1) /\ Len(ow) \in Nat
          /\ \A i \in DOMAIN ow2 : ow2[i] = ow[i + 1] /\ i + 1 \in DOMAIN ow
      BY <2>2, TailAt
    <3>2. \A i, j \in DOMAIN ow2 : i < j => i + 1 < j + 1
      BY <3>1
    <3>3. \A i, j \in DOMAIN ow2 : i < j => ow2[i].id < ow2[j].id
      BY <1>1, <3>1, <3>2 DEF Line
    <3> QED BY <1>1, <1>2, <3>1, <3>3 DEF Line
  <2> QED BY <2>1, <2>2
<1>6. /\ \A i \in DOMAIN s.inbox : Final(s.inbox[i]) => Late(t, s.inbox[i])
      /\ \A i \in DOMAIN s.inbox, j \in DOMAIN ow2 :
           Final(s.inbox[i]) => s.inbox[i].id < ow2[j].id
  <2>1. \A j \in DOMAIN ow2 : \E k \in DOMAIN ow : ow2[j] = ow[k]
    BY TailAt, SMTT(30)
  <2> QED BY <1>1, <1>2, <2>1 DEF Line
<1>7. ASSUME Final(m)
      PROVE  /\ Late(t, m)
             /\ \A i \in DOMAIN s.inbox : Final(s.inbox[i]) => s.inbox[i].id < m.id
             /\ \A j \in DOMAIN ow2 : m.id < ow2[j].id
             /\ \A j \in DOMAIN t.tx : m.id < t.tx[j].id
  <2>1. /\ 1 \in DOMAIN ow /\ m.id = ow[1].id
        /\ \A j \in DOMAIN ow2 : ow2[j] = ow[j + 1] /\ j + 1 \in DOMAIN ow /\ 1 < j + 1
    BY <1>7, TailAt
  <2>2. Late(s, m)
    BY <1>1, <2>1 DEF Line, Late
  <2> QED BY <1>1, <1>2, <2>1, <2>2 DEF Line
<1>8. \A i, j \in DOMAIN t.inbox :
        i < j /\ Final(t.inbox[i]) /\ Final(t.inbox[j]) => t.inbox[i].id < t.inbox[j].id
  <2> SUFFICES ASSUME NEW i \in DOMAIN t.inbox, NEW j \in DOMAIN t.inbox, i < j,
                      Final(t.inbox[i]), Final(t.inbox[j])
               PROVE  t.inbox[i].id < t.inbox[j].id
    OBVIOUS
  <2>1. i \in DOMAIN s.inbox
    BY <1>3
  <2>2. CASE j \in DOMAIN s.inbox
    BY <1>1, <1>3, <2>1, <2>2 DEF Line
  <2>3. CASE t.inbox[j] = m
    BY <1>3, <1>7, <2>1, <2>3
  <2> QED BY <1>3, <2>2, <2>3
<1>9. /\ \A i \in DOMAIN t.inbox : Final(t.inbox[i]) => Late(t, t.inbox[i])
      /\ \A i \in DOMAIN t.inbox, j \in DOMAIN ow2 :
           Final(t.inbox[i]) => t.inbox[i].id < ow2[j].id
      /\ \A i \in DOMAIN t.inbox, j \in DOMAIN t.tx :
           Final(t.inbox[i]) => t.inbox[i].id < t.tx[j].id
  BY <1>1, <1>3, <1>6, <1>7 DEF Line
<1>10. Line(t, ow2)
  BY <1>1, <1>2, <1>5, <1>8, <1>9 DEF Line
<1> QED BY <1>4, <1>10 DEF Ordered

LEMMA OrderedTransmits ==
    ASSUME NEW s \in Systems, NEW t \in Systems,
           NEW ow \in Seq(Requests), NEW ow2 \in Seq(Requests),
           Ordered(s, ow), t.c = s.c, t.inbox = s.inbox, t.taken = s.taken,
           s.tx # <<>>, t.tx = <<>>, ow2 \in {ow, ow \o s.tx}
    PROVE  Ordered(t, ow2)
<1>1. Line(s, ow) /\ s.tx \in Seq(Requests)
  BY DEF Ordered, Systems
<1>2. Len(s.tx) = 1 /\ s.tx = <<s.tx[1]>> /\ s.tx[1] \in Requests /\ 1 \in DOMAIN s.tx
  BY <1>1, AtMostOne DEF Line
<1>3. \A x : Late(t, x) <=> Late(s, x)
  BY DEF Late
<1>4. Current(t)
  BY DEF Ordered, Current
<1>5. \A i \in DOMAIN ow2 :
        \/ i \in DOMAIN ow /\ ow2[i] = ow[i]
        \/ i = Len(ow) + 1 /\ ow2[i] = s.tx[1]
  <2>1. ow \o s.tx = Append(ow, s.tx[1])
    BY <1>2, AppendIsConcat
  <2> QED BY <1>2, <2>1, AppendAt
<1>6. DOMAIN t.tx = {} /\ Len(t.tx) = 0
  OBVIOUS
<1>7. \A i \in DOMAIN ow2 : Late(t, ow2[i])
  BY <1>1, <1>2, <1>3, <1>5 DEF Line
<1>8. \A i, j \in DOMAIN ow2 : i < j => ow2[i].id < ow2[j].id
  <2>1. \A i \in DOMAIN ow : i < Len(ow) + 1
    OBVIOUS
  <2>2. DOMAIN ow2 \subseteq Int
    BY <1>5
  <2> QED BY <1>1, <1>2, <1>5, <2>1, <2>2 DEF Line
<1>9. \A i \in DOMAIN t.inbox, j \in DOMAIN ow2 :
        Final(t.inbox[i]) => t.inbox[i].id < ow2[j].id
  BY <1>1, <1>2, <1>5 DEF Line
<1>10. Line(t, ow2)
  BY <1>1, <1>3, <1>6, <1>7, <1>8, <1>9 DEF Line
<1> QED BY <1>4, <1>10 DEF Ordered

(***************************************************************************)
(* The actions.                                                            *)
(***************************************************************************)
LEMMA InitTyped == Init => Typed
<1> SUFFICES ASSUME Init PROVE Typed
  OBVIOUS
<1> DEFINE q == NoRequest
           m == NoResponse
<1>1. q \in Requests
  BY DEF NoRequest, Requests, Sids
<1>2. m \in Responses
  BY NoResponseHasType
<1>3. client = [state |-> "Idle", err |-> "OK", options |-> {}, copy |-> {},
                send_buf |-> q, recv_buf |-> m,
                p2 |-> P2, p2Star |-> P2Star, p2_timer |-> 0, ret |-> "idle",
                cbIdx |-> 0, blockSequenceCounter |-> 1, blockLength |-> 0,
                pos |-> 0, eof |-> FALSE, ferror |-> FALSE]
  BY DEF Init
<1>4. P2 \in Nat /\ P2Star \in Nat /\ 0 \in 0..FileSize /\ 0 \in 0..8 /\ 1 \in Counters
  BY TimingAssumption, FileAssumption DEF Counters
<1> HIDE DEF q, m
<1>5. client \in Clients
  BY <1>1, <1>2, <1>3, <1>4 DEF Clients, States, Errors
<1>6. System \in Systems
  BY <1>5 DEF Init, System, Systems
<1>7. owed \in Seq(Requests) /\ stored \in Seq(Blocks)
  BY EmptySeq, Zenon DEF Init
<1>8. exited \in BOOLEAN
  BY DEF Init
<1> QED BY <1>6, <1>7, <1>8 DEF Typed

LEMMA MoveToIs ==
    ASSUME NEW t \in Systems, MoveTo(t)
    PROVE  System' = t
BY DEF MoveTo, System, Systems

(* A step that leaves the client with its transport alone, but for fields  *)
(* of the net.                                                             *)
LEMMA SystemIs ==
    ASSUME Typed
    PROVE  /\ System \in Systems /\ System.c = client /\ System.inbox = inbox
           /\ System.tx = tx /\ System.taken = taken
           /\ client \in Clients /\ inbox \in Seq(Responses)
           /\ tx \in Seq(Requests) /\ taken \in Seq(Nat)
           /\ owed \in Seq(Requests) /\ stored \in Seq(Blocks) /\ exited \in BOOLEAN
BY DEF Typed, System, Systems

LEMMA SystemNextIs ==
    /\ System'.c = client' /\ System'.inbox = inbox'
    /\ System'.tx = tx' /\ System'.taken = taken'
    /\ (client' \in Clients /\ inbox' \in Seq(Responses) /\ tx' \in Seq(Requests)
        /\ taken' \in Seq(Nat)) => System' \in Systems
BY DEF System, Systems

LEMMA ResponseToHasType ==
    ASSUME NEW q \in Requests, NEW kind \in Kinds
    PROVE  /\ ResponseTo(q, kind) \in Responses
           /\ ResponseTo(q, kind).id = q.id
           /\ ResponseTo(q, kind).sid = q.sid
           /\ ResponseTo(q, kind).kind = kind
           /\ ~ResponseTo(q, kind).functional
<1> DEFINE m == NoResponse
<1>1. m \in Responses /\ m.functional = FALSE
  BY NoResponseHasType DEF NoResponse
<1>2. ResponseTo(q, kind) = [m EXCEPT !.id = q.id, !.sid = q.sid, !.sub = q.sub,
                                      !.kind = kind, !.whole = TRUE]
  BY DEF ResponseTo
<1>3. q.id \in Nat /\ q.sid \in Sids /\ q.sub \in Nat
  BY DEF Requests
<1> HIDE DEF m
<1> QED BY <1>1, <1>2, <1>3 DEF Responses

LEMMA PositiveResponsesHaveType ==
    ASSUME NEW q \in Requests, NEW resp \in PositiveResponses(q)
    PROVE  /\ resp \in Responses /\ resp.id = q.id /\ resp.sid = q.sid
           /\ resp.kind = "positive" /\ ~resp.functional
           /\ [resp EXCEPT !.whole = FALSE] \in Responses
           /\ [resp EXCEPT !.whole = FALSE].id = q.id
           /\ [resp EXCEPT !.whole = FALSE].sid = q.sid
           /\ [resp EXCEPT !.whole = FALSE].kind = "positive"
           /\ ~[resp EXCEPT !.whole = FALSE].functional
<1> DEFINE m == ResponseTo(q, "positive")
<1>1. "positive" \in Kinds
  BY DEF Kinds
<1>2. /\ m \in Responses /\ m.id = q.id /\ m.sid = q.sid /\ m.kind = "positive"
      /\ m.functional = FALSE
  BY <1>1, ResponseToHasType DEF Responses
<1>3. \/ \E n \in BlockLengths : resp = [m EXCEPT !.blockLength = n]
      \/ \E tm \in ServerTimings : resp = [m EXCEPT !.timings = tm]
      \/ resp = m
  BY DEF PositiveResponses
<1>4. BlockLengths \subseteq Nat /\ ServerTimings \subseteq Timings
  BY FileAssumption, TimingAssumption DEF Timings
<1> HIDE DEF m
<1>5. /\ resp \in Responses /\ resp.id = q.id /\ resp.sid = q.sid
      /\ resp.kind = "positive" /\ resp.functional = FALSE
  BY <1>2, <1>3, <1>4 DEF Responses
<1> QED BY <1>5 DEF Responses

(* What the actions of the client's side are, in terms of the steps above. *)
LEMMA PollIs ==
    ASSUME Typed, Poll,
           client.state = "ProcessResponse" => inbox # <<>>,
           client.state # "Idle" => client.send_buf.id \in DOMAIN taken
    PROVE  /\ System' \in Systems /\ UNCHANGED server
           /\ \E u \in Systems :
                 /\ PollStep(System, u) /\ SameRequest(System, u)
                 /\ \/ /\ SameWire(u, System') /\ SameRequest(u, System')
                       /\ System'.c.state = u.c.state /\ System'.c.err = u.c.err
                       /\ System'.c.recv_buf = u.c.recv_buf
                       /\ System'.c.options = u.c.options
                    \/ u.c.state = "Idle" /\ u.c.err = "OK" /\ CallbackStep(u, System')
<1>1. PICK f \in MayFail : MoveTo(ClientPoll(System, f))
  BY DEF Poll
<1>2. f \in Fails
  BY DEF MayFail, Fails
<1> DEFINE t == ClientPoll(System, f)
<1>3. t \in Systems /\
      \E u \in Systems :
         /\ PollStep(System, u) /\ SameRequest(System, u)
         /\ \/ /\ SameWire(u, t) /\ SameRequest(u, t)
               /\ t.c.state = u.c.state /\ t.c.err = u.c.err
               /\ t.c.recv_buf = u.c.recv_buf
               /\ t.c.options = u.c.options
            \/ u.c.state = "Idle" /\ u.c.err = "OK" /\ CallbackStep(u, t)
  BY <1>2, SystemIs, ClientPollIs
<1>4. System' = t
  BY <1>1, <1>3, MoveToIs
<1> QED BY <1>3, <1>4 DEF Poll

LEMMA UserSendIs ==
    ASSUME Typed, NEW q \in UserRequests, NEW opts \in UserOptions, UserSend(q, opts)
    PROVE  /\ System' \in Systems /\ UNCHANGED server /\ UserMaySend
           /\ \E u \in Systems :
                 /\ SameWire(System, u) /\ SameRequest(System, u)
                 /\ u.c.state = "Idle" /\ u.c.err = client.err /\ u.c.options = opts
                 /\ Requested(u, System', q.sid, q.sub, 0, 0)
                 /\ SameDownload(u, System')
<1> DEFINE s == System
           u == [s EXCEPT !.c.options = opts]
<1>1. PICK f \in MayFail \ {"file"} : MoveTo(SendRequest(u, q.sid, q.sub, 0, 0, f))
  BY DEF UserSend
<1>2. f \in Fails
  BY DEF MayFail, Fails
<1>3. s \in Systems /\ s.c = client /\ s.c.state = "Idle" /\ opts \in SUBSET Options
  BY SystemIs, OptionsAssumption DEF UserSend, UserMaySend
<1>4. q.sid \in Sids /\ q.sub \in Nat
  BY RequestsAssumption DEF Sids
<1>5. /\ u \in Systems /\ SameWire(s, u) /\ SameRequest(s, u)
      /\ u.c.state = "Idle" /\ u.c.options = opts /\ u.c.err = s.c.err
  <2> HIDE DEF s
  <2>1. u \in Systems
    BY <1>3 DEF Systems, Clients
  <2> QED BY <1>3, <2>1 DEF Systems, Clients, SameWire, SameRequest, SameDownload
<1> DEFINE t == SendRequest(u, q.sid, q.sub, 0, 0, f)
<1>6. t \in Systems /\ SameDownload(u, t) /\ Requested(u, t, q.sid, q.sub, 0, 0)
  <2> HIDE DEF u
  <2> QED BY <1>2, <1>4, <1>5, SendRequestIs
<1>7. System' = t
  BY <1>1, <1>6, MoveToIs
<1> HIDE DEF t, u
<1> QED BY <1>3, <1>5, <1>6, <1>7 DEF UserSend

LEMMA UserSendRejectedIs ==
    ASSUME Typed, UserSendRejected
    PROVE  /\ System' \in Systems /\ UNCHANGED server /\ UserMaySend
           /\ SameWire(System, System') /\ SameRequest(System, System')
           /\ System'.c.state = "Idle" /\ System'.c.err = "OK"
<1> DEFINE t == PreRequestCheck(System)
<1>1. System \in Systems
  BY SystemIs
<1>2. t \in Systems /\ System' = t
  BY <1>1, PreRequestCheckIs, MoveToIs DEF UserSendRejected
<1> QED BY <1>1, <1>2, PreRequestCheckIs DEF UserSendRejected

LEMMA ConfigDownloadIs ==
    ASSUME Typed, ConfigDownload
    PROVE  /\ System' \in Systems /\ UNCHANGED server
           /\ SameWire(System, System')
           /\ System'.c.send_buf = client.send_buf /\ System'.c.copy = client.copy
           /\ System'.c.options = client.options
           /\ System'.c.state = client.state /\ System'.c.err = client.err
           /\ System'.c.recv_buf = client.recv_buf
           /\ client.cbIdx = 0 /\ System'.c.cbIdx = 1
           /\ System'.c.pos = client.pos /\ System'.c.eof = client.eof
           /\ System'.c.blockSequenceCounter = 1
<1>1. client \in Clients /\ 1 \in Counters
  BY SystemIs DEF Counters
<1>2. client' = [client EXCEPT !.cbIdx = 1, !.blockSequenceCounter = 1]
  BY DEF ConfigDownload
<1>3. client' \in Clients
  <2> DEFINE c == [client EXCEPT !.cbIdx = 1]
  <2>1. c \in Clients
    BY <1>1 DEF Clients
  <2>2. client' = [c EXCEPT !.blockSequenceCounter = 1]
    BY <1>2
  <2> HIDE DEF c
  <2> QED BY <1>1, <2>1, <2>2 DEF Clients
<1>4. /\ client'.send_buf = client.send_buf /\ client'.copy = client.copy
      /\ client'.options = client.options /\ client'.recv_buf = client.recv_buf
      /\ client'.state = client.state /\ client'.err = client.err
      /\ client'.cbIdx = 1 /\ client'.blockSequenceCounter = 1
      /\ client'.pos = client.pos /\ client'.eof = client.eof
  BY <1>1, <1>2 DEF Clients
<1>5. System' \in Systems
  BY <1>3, SystemIs, SystemNextIs DEF ConfigDownload, net
<1> QED BY <1>4, <1>5, SystemIs, SystemNextIs DEF ConfigDownload, net, SameWire

LEMMA TickIs ==
    ASSUME Typed, Tick
    PROVE  /\ System' \in Systems /\ UNCHANGED server
           /\ SameWire(System, System') /\ SameRequest(System, System')
           /\ System'.c.options = client.options
           /\ System'.c.state = client.state /\ System'.c.err = client.err
           /\ System'.c.recv_buf = client.recv_buf
<1>1. client \in Clients
  BY SystemIs
<1>2. client' = [client EXCEPT !.p2_timer = client.p2_timer - 1] /\ client.p2_timer > 0
  BY DEF Tick
<1>3. client.p2_timer - 1 \in Nat
  BY <1>1, <1>2 DEF Clients
<1>4. client' \in Clients
  BY <1>1, <1>2, <1>3 DEF Clients
<1>5. /\ client'.send_buf = client.send_buf /\ client'.copy = client.copy
      /\ client'.options = client.options /\ client'.recv_buf = client.recv_buf
      /\ client'.state = client.state /\ client'.err = client.err
      /\ client'.cbIdx = client.cbIdx
      /\ client'.blockSequenceCounter = client.blockSequenceCounter
      /\ client'.pos = client.pos /\ client'.eof = client.eof
  BY <1>1, <1>2 DEF Clients
<1>6. System' \in Systems
  BY <1>4, SystemIs, SystemNextIs DEF Tick, net
<1> QED BY <1>5, <1>6, SystemIs, SystemNextIs
        DEF Tick, net, SameWire, SameRequest, SameDownload

LEMMA TransmitIs ==
    ASSUME Typed, Transmit
    PROVE  /\ System' \in Systems /\ System'.c = client
           /\ System'.inbox = inbox /\ System'.taken = taken
           /\ tx # <<>> /\ System'.tx = <<>>
           /\ owed' \in Seq(Requests) /\ owed' \in {owed, owed \o tx}
           /\ UNCHANGED <<stored, exited>>
<1>1. /\ client' = client /\ inbox' = inbox /\ taken' = taken /\ tx' = <<>>
      /\ tx # <<>> /\ owed' \in {owed, owed \o tx} /\ UNCHANGED <<stored, exited>>
  BY DEF Transmit
<1>2. owed \o tx \in Seq(Requests)
  BY SystemIs, ConcatProperties
<1>3. <<>> \in Seq(Requests)
  BY EmptySeq
<1> QED BY <1>1, <1>2, <1>3, SystemIs, SystemNextIs

(* The server's side: m joins the inbox, or nothing does.                  *)
LEMMA ServerIs ==
    ASSUME Typed, Accept \/ Refuse \/ ResponsePending \/ FunctionalMessage
    PROVE  \E m \in Responses :
             /\ System' \in Systems /\ System'.c = client /\ System'.tx = tx
             /\ System'.taken = taken /\ owed' \in Seq(Requests)
             /\ System'.inbox \in {inbox, Append(inbox, m)}
             /\ \/ /\ owed' = owed /\ ~Final(m) /\ UNCHANGED <<stored, exited>>
                   /\ m.functional \/ owed # <<>>
                \/ /\ owed # <<>> /\ owed' = Tail(owed) /\ m.id = Head(owed).id
                   /\ m.sid = Head(owed).sid /\ ~m.functional
                   /\ \/ Refuse /\ m.kind = "negative" /\ UNCHANGED <<stored, exited>>
                      \/ Accept /\ m.kind = "positive"
<1>0. Typed /\ UNCHANGED <<client, tx, taken>>
  BY DEF Accept, Refuse, ResponsePending, FunctionalMessage
<1>1. ASSUME NEW m \in Responses, inbox' \in {inbox, Append(inbox, m)}
      PROVE  /\ System' \in Systems /\ System'.c = client /\ System'.tx = tx
             /\ System'.taken = taken /\ System'.inbox \in {inbox, Append(inbox, m)}
  <2>1. inbox' \in Seq(Responses)
    <3>1. inbox \in Seq(Responses)
      BY <1>0, SystemIs
    <3>2. Append(inbox, m) \in Seq(Responses)
      BY <3>1, AppendProperties
    <3> QED BY <1>1, <3>1, <3>2
  <2>2. client' \in Clients /\ tx' \in Seq(Requests) /\ taken' \in Seq(Nat)
    BY <1>0, SystemIs
  <2> QED BY <1>0, <1>1, <2>1, <2>2, SystemNextIs
<1>2. ASSUME owed # <<>> PROVE Head(owed) \in Requests /\ Tail(owed) \in Seq(Requests)
  BY <1>0, <1>2, SystemIs, HeadTailProperties
<1>3. CASE FunctionalMessage
  <2> DEFINE n == NoResponse
             m == [n EXCEPT !.functional = TRUE]
  <2>1. n \in Responses
    BY NoResponseHasType
  <2>2. inbox' = Append(inbox, m) /\ UNCHANGED <<owed, stored, exited>>
    BY <1>3 DEF FunctionalMessage, server
  <2> HIDE DEF n
  <2>3. m \in Responses /\ m.functional
    BY <2>1 DEF Responses
  <2> HIDE DEF m
  <2> QED BY <1>0, <1>1, <2>2, <2>3, SystemIs DEF Final
<1>4. CASE ResponsePending
  <2> DEFINE m == ResponseTo(Head(owed), "pending")
  <2>1. owed # <<>> /\ inbox' = Append(inbox, m) /\ UNCHANGED <<owed, stored, exited>>
    BY <1>4 DEF ResponsePending, server
  <2>2. m \in Responses /\ m.kind = "pending"
    BY <1>2, <2>1, ResponseToHasType DEF Kinds
  <2> HIDE DEF m
  <2> QED BY <1>0, <1>1, <2>1, <2>2, SystemIs DEF Final
<1>5. CASE Refuse
  <2> DEFINE m == ResponseTo(Head(owed), "negative")
  <2>1. /\ owed # <<>> /\ inbox' = Append(inbox, m) /\ owed' = Tail(owed)
        /\ UNCHANGED <<stored, exited>>
    BY <1>5 DEF Refuse
  <2>2. /\ m \in Responses /\ m.kind = "negative" /\ m.id = Head(owed).id
        /\ m.sid = Head(owed).sid /\ ~m.functional
    BY <1>2, <2>1, ResponseToHasType DEF Kinds
  <2> HIDE DEF m
  <2> QED BY <1>1, <1>2, <1>5, <2>1, <2>2
<1>6. CASE Accept
  <2>1. owed # <<>> /\ owed' = Tail(owed)
    BY <1>6 DEF Accept
  <2>2. \E m \in Responses :
           /\ inbox' \in {inbox, Append(inbox, m)}
           /\ m.id = Head(owed).id /\ m.sid = Head(owed).sid
           /\ m.kind = "positive" /\ ~m.functional
    <3>1. CASE inbox' = inbox
      <4>1. /\ ResponseTo(Head(owed), "positive") \in Responses
            /\ ResponseTo(Head(owed), "positive").id = Head(owed).id
            /\ ResponseTo(Head(owed), "positive").sid = Head(owed).sid
            /\ ResponseTo(Head(owed), "positive").kind = "positive"
            /\ ~ResponseTo(Head(owed), "positive").functional
        BY <1>2, <2>1, ResponseToHasType DEF Kinds
      <4> QED BY <3>1, <4>1
    <3>2. ASSUME NEW resp \in PositiveResponses(Head(owed)),
                 \/ inbox' = Append(inbox, resp)
                 \/ inbox' = Append(inbox, [resp EXCEPT !.whole = FALSE])
          PROVE  \E m \in Responses :
                   /\ inbox' \in {inbox, Append(inbox, m)}
                   /\ m.id = Head(owed).id /\ m.sid = Head(owed).sid
                   /\ m.kind = "positive" /\ ~m.functional
      BY <1>2, <2>1, <3>2, PositiveResponsesHaveType
    <3> QED BY <1>6, <3>1, <3>2 DEF Accept
  <2> QED BY <1>1, <1>2, <1>6, <2>1, <2>2
<1> QED BY <1>3, <1>4, <1>5, <1>6
-----------------------------------------------------------------------------
LEMMA InitOrdered == Init => Ordered(System, owed)
<1> SUFFICES ASSUME Init PROVE Ordered(System, owed)
  OBVIOUS
<1>1. /\ System.taken = <<>> /\ System.inbox = <<>> /\ System.tx = <<>>
      /\ owed = <<>> /\ System.c.state = "Idle" /\ System.c.send_buf.id = 0
  BY DEF Init, System, NoRequest
<1> QED BY <1>1 DEF Ordered, Current, TakenInOrder, Line

LEMMA NextOrdered ==
    ASSUME OrderInv, [Next]_vars
    PROVE  OrderInv'
<1>1. /\ Typed /\ Ordered(System, owed)
      /\ System \in Systems /\ owed \in Seq(Requests)
      /\ System.c = client /\ System.inbox = inbox /\ System.tx = tx /\ System.taken = taken
  BY SystemIs DEF OrderInv
<1>2. /\ client.state = "ProcessResponse" => inbox # <<>>
      /\ client.state # "Idle" => client.send_buf.id \in DOMAIN taken
  <2>1. taken \in Seq(Nat)
    BY <1>1, SystemIs
  <2> QED BY <1>1, <2>1, LenProperties DEF Ordered, Current
<1> SUFFICES System' \in Systems /\ Typed' /\ Ordered(System', owed')
  BY DEF OrderInv
<1>3. ASSUME System' \in Systems, UNCHANGED server, Ordered(System', owed)
      PROVE  System' \in Systems /\ Typed' /\ Ordered(System', owed')
  BY <1>1, <1>3 DEF Typed, server
<1>4. CASE Poll
  <2>1. PICK u \in Systems :
           /\ PollStep(System, u) /\ SameRequest(System, u)
           /\ \/ /\ SameWire(u, System') /\ SameRequest(u, System')
                 /\ System'.c.state = u.c.state /\ System'.c.recv_buf = u.c.recv_buf
              \/ CallbackStep(u, System')
    BY <1>1, <1>2, <1>4, PollIs
  <2>2. System' \in Systems /\ UNCHANGED server
    BY <1>1, <1>2, <1>4, PollIs
  <2>3. Ordered(u, owed)
    BY <1>1, <2>1, OrderedPolls
  <2>4. CASE CallbackStep(u, System')
    BY <1>1, <1>3, <2>2, <2>3, <2>4, OrderedCalls
  <2>5. CASE /\ SameWire(u, System') /\ SameRequest(u, System')
             /\ System'.c.state = u.c.state /\ System'.c.recv_buf = u.c.recv_buf
    <3>1. Ordered(System', owed)
      BY <1>1, <2>2, <2>3, <2>5, OrderedSame DEF SameRequest
    <3> QED BY <1>3, <2>2, <3>1
  <2> QED BY <2>1, <2>4, <2>5
<1>5. ASSUME NEW q \in UserRequests, NEW opts \in UserOptions, UserSend(q, opts)
      PROVE  System' \in Systems /\ Typed' /\ Ordered(System', owed')
  <2>1. PICK u \in Systems :
           /\ SameWire(System, u) /\ SameRequest(System, u) /\ u.c.state = "Idle"
           /\ Requested(u, System', q.sid, q.sub, 0, 0)
    BY <1>1, <1>5, UserSendIs
  <2>2. System' \in Systems /\ UNCHANGED server
    BY <1>1, <1>5, UserSendIs
  <2>3. Ordered(u, owed)
    BY <1>1, <2>1, OrderedSame DEF SameRequest
  <2>4. Ordered(System', owed)
    BY <1>1, <2>1, <2>2, <2>3, OrderedRequested
  <2> QED BY <1>3, <2>2, <2>4
<1>6. CASE UserSendRejected
  <2>1. Ordered(System', owed)
    BY <1>1, <1>6, UserSendRejectedIs, OrderedSame DEF SameRequest
  <2> QED BY <1>1, <1>3, <1>6, <2>1, UserSendRejectedIs
<1>7. CASE ConfigDownload
  <2>1. Ordered(System', owed)
    BY <1>1, <1>7, ConfigDownloadIs, OrderedSame
  <2> QED BY <1>1, <1>3, <1>7, <2>1, ConfigDownloadIs
<1>8. CASE Tick
  <2>1. Ordered(System', owed)
    BY <1>1, <1>8, TickIs, OrderedSame DEF SameRequest
  <2> QED BY <1>1, <1>3, <1>8, <2>1, TickIs
<1>9. CASE Transmit
  <2>1. Ordered(System', owed')
    BY <1>1, <1>9, TransmitIs, OrderedTransmits
  <2> QED BY <1>1, <1>9, <2>1, TransmitIs DEF Typed
<1>10. CASE Accept \/ Refuse \/ ResponsePending \/ FunctionalMessage
  <2>1. PICK m \in Responses :
             /\ System' \in Systems /\ System'.c = client /\ System'.tx = tx
             /\ System'.taken = taken /\ owed' \in Seq(Requests)
             /\ System'.inbox \in {inbox, Append(inbox, m)}
             /\ \/ owed' = owed /\ ~Final(m)
                \/ owed # <<>> /\ owed' = Tail(owed) /\ m.id = Head(owed).id
    BY <1>1, <1>10, ServerIs
  <2>2. Ordered(System', owed')
    BY <1>1, <2>1, OrderedReceived
  <2>3. stored' \in Seq(Blocks) /\ exited' \in BOOLEAN
    <3>1. CASE UNCHANGED stored /\ exited' \in BOOLEAN
      BY <3>1, <1>1, SystemIs
    <3>2. CASE Accept
      <4> DEFINE q == Head(owed)
      <4>1. q \in Requests
        BY <1>1, <3>2 DEF Accept
      <4>2. [sub |-> Byte1(q), from |-> q.from, len |-> q.len] \in Blocks
        BY <4>1 DEF Byte1, Requests, Blocks
      <4>3. stored \in Seq(Blocks)
        BY <1>1, SystemIs
      <4>4. /\ \/ stored' = stored
               \/ stored' = Append(stored, [sub |-> Byte1(q), from |-> q.from, len |-> q.len])
            /\ exited' \in BOOLEAN
        BY <3>2 DEF Accept
      <4> QED BY <4>2, <4>3, <4>4, AppendAt
    <3>3. Refuse \/ ResponsePending \/ FunctionalMessage => UNCHANGED stored /\ exited' \in BOOLEAN
      BY <1>1, SystemIs DEF Refuse, ResponsePending, FunctionalMessage, server
    <3> QED BY <1>10, <3>1, <3>2, <3>3
  <2> QED BY <2>1, <2>2, <2>3 DEF Typed
<1>11. CASE UNCHANGED vars
  <2>1. System' = System /\ owed' = owed /\ UNCHANGED server
    BY <1>11 DEF vars, net, server, System
  <2> QED BY <1>1, <1>3, <2>1
<1> QED BY <1>4, <1>5, <1>6, <1>7, <1>8, <1>9, <1>10, <1>11 DEF Next

(* Whatever the options and the user, the answers received, the requests   *)
(* the server owes an answer and the one on its way stand in the order of  *)
(* the requests, after every answer that was taken.                        *)
THEOREM SpecOrderInv == Spec => []OrderInv
<1>1. Init => OrderInv
  BY InitTyped, InitOrdered DEF OrderInv
<1>2. OrderInv /\ [Next]_vars => OrderInv'
  BY NextOrdered
<1> QED BY <1>1, <1>2, PTL DEF Spec

(* The client's members have their types, and an answer on its record is   *)
(* the answer to a request that was made.                                  *)
THEOREM SpecTypeOK == Spec => []TypeOK
<1>1. OrderInv => TypeOK
  <2> SUFFICES ASSUME OrderInv PROVE TypeOK
    OBVIOUS
  <2>1. /\ client \in Clients /\ taken \in Seq(Nat) /\ Ordered(System, owed)
        /\ System.tx = tx /\ System.taken = taken
    BY SystemIs DEF OrderInv
  <2>2. taken \in Seq(0..Len(taken))
    <3>1. \A i \in 1..Len(taken) : taken[i] \in 0..Len(taken)
      <4> SUFFICES ASSUME NEW i \in 1..Len(taken) PROVE taken[i] \in 0..Len(taken)
        OBVIOUS
      <4>1. i \in DOMAIN taken /\ taken[i] \in Nat /\ Len(taken) \in Nat
        BY <2>1, LenProperties
      <4>2. taken[i] # 0 => taken[i] <= i
        BY <2>1, <4>1 DEF Ordered, TakenInOrder
      <4> QED BY <4>1, <4>2
    <3>2. taken \in [1..Len(taken) -> 0..Len(taken)] /\ Len(taken) \in Nat
      BY <2>1, <3>1, LenProperties
    <3> QED BY <3>2, SeqDef
  <2>3. Len(tx) <= 1
    BY <2>1 DEF Ordered, Line
  <2>4. /\ client.state \in States /\ client.err \in Errors
        /\ client.options \subseteq Options /\ client.copy \subseteq Options
        /\ client.cbIdx \in 0..8 /\ client.ret \in {"idle", "running"}
        /\ client.p2_timer \in Nat /\ client.pos \in 0..FileSize
        /\ client.blockSequenceCounter \in Counters
    BY <2>1 DEF Clients
  <2>5. Len(Callbacks) = 8
    BY DEF Callbacks
  <2> QED BY <2>2, <2>3, <2>4, <2>5 DEF TypeOK, Counters
<1> QED BY <1>1, SpecOrderInv, PTL

(* A request that took the answer to another comes after one that took     *)
(* none.                                                                   *)
THEOREM SpecOwnAnswer == Spec => []OwnAnswer
<1>1. OrderInv => OwnAnswer
  BY SystemIs DEF OrderInv, Ordered, TakenInOrder, OwnAnswer
<1> QED BY <1>1, SpecOrderInv, PTL

(* No answer is taken twice, none out of order, and none before its        *)
(* request was made.                                                       *)
THEOREM SpecAnswersInOrder == Spec => []AnswersInOrder
<1>1. OrderInv => AnswersInOrder
  BY SystemIs DEF OrderInv, Ordered, TakenInOrder, AnswersInOrder
<1> QED BY <1>1, SpecOrderInv, PTL

-----------------------------------------------------------------------------
(***************************************************************************)
(* The download: what each kind of step does to the one request.           *)
(***************************************************************************)
LEMMA SumOfOne ==
    \A a, b \in Nat : a + b <= 1 => /\ a # 0 => a = 1 /\ b = 0
                                    /\ b # 0 => b = 1 /\ a = 0
OBVIOUS

LEMMA GoodOptions ==
    ASSUME DownloadAssumption
    PROVE  Good(DefaultOptions) /\ \A opts \in UserOptions : Good(opts)
BY DEF DownloadAssumption, Good

(* Steps that leave what is on its way alone.                              *)
LEMMA OneRequestSame ==
    ASSUME NEW s \in Systems, NEW t \in Systems, NEW ow \in Seq(Requests),
           OneRequest(s, ow), SameWire(s, t), t.c.send_buf = s.c.send_buf,
           t.c.state # "Idle" => /\ s.c.state # "Idle" /\ t.c.copy = s.c.copy
                                 /\ t.c.options = s.c.options,
           t.c.state = "Sending" => s.c.state = "Sending",
           Free(t) => Free(s),
           t.c.state = "ProcessResponse" =>
             \/ s.c.state = "ProcessResponse" /\ t.c.recv_buf = s.c.recv_buf
             \/ /\ s.inbox # <<>> /\ t.c.recv_buf = Head(s.inbox)
                /\ ~Head(s.inbox).functional
    PROVE  OneRequest(t, ow)
BY DEF OneRequest, SameWire

LEMMA SequenceSame ==
    ASSUME NEW s \in Systems, NEW t \in Systems,
           NEW ow \in Seq(Requests), NEW ow2 \in Seq(Requests), NEW st, NEW ex,
           Sequence(s, ow, st, ex), SameRequest(s, t),
           InTransit(t, ow2) => InTransit(s, ow),
           Answered(t) => Answered(s),
           Free(t) => Free(s) \/ Answered(s) \/ s.c.send_buf.sid \notin
                         {"TransferData", "RequestTransferExit"},
           t.c.state # "Idle" => s.c.state # "Idle"
    PROVE  Sequence(t, ow2, st, ex)
<1>1. Settled(s, st) => Settled(t, st)
  BY DEF Settled, SameRequest, SameDownload
<1>2. NextBlock(s, st) => NextBlock(t, st)
  BY DEF NextBlock, SameRequest, SameDownload
<1> QED BY <1>1, <1>2 DEF Sequence, SameRequest, SameDownload

LEMMA OneRequestSends ==
    ASSUME NEW s \in Systems, NEW t \in Systems, NEW ow \in Seq(Requests),
           OneRequest(s, ow), Sends(s, t), SameRequest(s, t)
    PROVE  OneRequest(t, ow)
<1>1. /\ t.tx = <<s.c.send_buf>> /\ t.c.send_buf = s.c.send_buf
      /\ t.c.state = "AwaitSendComplete" /\ t.inbox = s.inbox /\ t.taken = s.taken
      /\ s.c.state = "Sending" /\ t.c.options = s.c.options /\ t.c.copy = s.c.copy
  BY DEF Sends, SameRequest
<1>2. /\ ow = <<>> /\ \A i \in DOMAIN s.inbox : s.inbox[i].functional
      /\ Len(t.tx) = 1 /\ DOMAIN t.tx = {1} /\ t.tx[1] = s.c.send_buf
      /\ Len(ow) = 0 /\ DOMAIN ow = {}
  BY <1>1 DEF OneRequest
<1> QED BY <1>1, <1>2 DEF OneRequest, Free

(* The head of the inbox goes.                                             *)
LEMMA OneRequestDrops ==
    ASSUME NEW s \in Systems, NEW t \in Systems, NEW ow \in Seq(Requests),
           OneRequest(s, ow), t.c.send_buf = s.c.send_buf,
           s.inbox # <<>>, t.inbox = Tail(s.inbox), t.tx = s.tx,
           Len(t.taken) = Len(s.taken),
           s.c.state # "Idle",
           t.c.state \in {"Idle", "AwaitResponse"},
           t.c.state # "Idle" => /\ t.c.copy = s.c.copy /\ t.c.options = s.c.options,
           Free(t) => Final(Head(s.inbox))
    PROVE  OneRequest(t, ow)
<1>1. /\ s.inbox \in Seq(Responses) /\ t.taken \in Seq(Nat) /\ s.taken \in Seq(Nat)
      /\ s.tx \in Seq(Requests)
  BY DEF Systems
<1>2. /\ DOMAIN t.inbox = 1..(Len(s.inbox) - 1) /\ Len(s.inbox) \in Nat
      /\ Head(s.inbox) = s.inbox[1] /\ 1 \in DOMAIN s.inbox
      /\ \A i \in DOMAIN t.inbox : /\ t.inbox[i] = s.inbox[i + 1]
                                   /\ i + 1 \in DOMAIN s.inbox /\ 1 < i + 1
  BY <1>1, TailAt
<1>3. t.c.send_buf.id \in DOMAIN t.taken \/ t.c.state = "Idle"
  BY <1>1, LenProperties DEF OneRequest
<1>4. \A i, j \in DOMAIN t.inbox : i < j /\ Final(t.inbox[i]) => t.inbox[j].functional
  <2> SUFFICES ASSUME NEW i \in DOMAIN t.inbox, NEW j \in DOMAIN t.inbox,
                      i < j, Final(t.inbox[i])
               PROVE  t.inbox[j].functional
    OBVIOUS
  <2>1. i + 1 < j + 1
    BY <1>2
  <2> QED BY <1>2, <2>1 DEF OneRequest
<1>5. /\ t.tx # <<>> => \A i \in DOMAIN t.inbox : t.inbox[i].functional
      /\ ow # <<>> => \A i \in DOMAIN t.inbox : ~Final(t.inbox[i])
  BY <1>2 DEF OneRequest
<1>6. ASSUME Final(Head(s.inbox))
      PROVE  /\ t.tx = <<>> /\ ow = <<>>
             /\ \A i \in DOMAIN t.inbox : t.inbox[i].functional
  <2>1. Final(s.inbox[1]) /\ ~s.inbox[1].functional
    BY <1>2, <1>6 DEF Final
  <2> QED BY <1>2, <2>1 DEF OneRequest
<1> QED BY <1>3, <1>4, <1>5, <1>6 DEF OneRequest

LEMMA OneRequestRequested ==
    ASSUME NEW s \in Systems, NEW t \in Systems, NEW ow \in Seq(Requests),
           NEW sid, NEW sub, NEW from, NEW len,
           OneRequest(s, ow), Free(s), Good(s.c.options),
           Requested(s, t, sid, sub, from, len)
    PROVE  OneRequest(t, ow) /\ t.c.state # "Idle" /\ ow = <<>> /\ ~Answered(t)
<1>1. /\ s.tx = <<>> /\ ow = <<>>
      /\ \A i \in DOMAIN s.inbox : s.inbox[i].functional
  BY DEF OneRequest
<1>2. /\ t.inbox = s.inbox /\ t.taken = Append(s.taken, 0)
      /\ t.c.send_buf.id = Len(s.taken) + 1
      /\ t.c.send_buf.bit7 = ("SUPPRESS_POS_RESP" \in s.c.options)
      /\ t.c.copy = s.c.options /\ t.c.options = s.c.options
      /\ \/ t.c.state = "Sending" /\ t.tx = <<>>
         \/ t.c.state = "AwaitSendComplete" /\ t.tx = <<t.c.send_buf>>
  BY <1>1 DEF Requested
<1>3. t.c.send_buf.id \in DOMAIN t.taken
  BY <1>2, AppendAt DEF Systems
<1>4. ~t.c.send_buf.bit7
  BY <1>2 DEF Good
<1>5. /\ Len(t.tx) + Len(ow) <= 1 /\ \A i \in DOMAIN t.tx : t.tx[i] = t.c.send_buf
  <2> DEFINE q == t.c.send_buf
  <2>1. Len(<<q>>) = 1 /\ DOMAIN <<q>> = {1} /\ <<q>>[1] = q
    OBVIOUS
  <2>2. Len(ow) = 0
    BY <1>1
  <2>3. CASE t.tx = <<>>
    BY <2>2, <2>3
  <2>4. CASE t.tx = <<q>>
    <3> HIDE DEF q
    <3>1. Len(t.tx) = 1 /\ \A i \in DOMAIN t.tx : t.tx[i] = q
      BY <2>1, <2>4
    <3> QED BY <2>2, <3>1 DEF q
  <2> QED BY <1>2, <2>3, <2>4
<1>6. \A i \in DOMAIN s.inbox : ~Final(s.inbox[i])
  BY <1>1 DEF Final
<1> QED BY <1>1, <1>2, <1>3, <1>4, <1>5, <1>6 DEF OneRequest, Answered, Free

(* A message that joins the inbox.                                         *)
LEMMA OneRequestReceived ==
    ASSUME NEW s \in Systems, NEW t \in Systems,
           NEW ow \in Seq(Requests), NEW ow2 \in Seq(Requests),
           NEW m \in Responses,
           OneRequest(s, ow), t.c = s.c, t.tx = s.tx, t.taken = s.taken,
           t.inbox \in {s.inbox, Append(s.inbox, m)},
           \/ ow2 = ow /\ ~Final(m) /\ (m.functional \/ ow # <<>>)
           \/ ow # <<>> /\ ow2 = Tail(ow)
    PROVE  /\ OneRequest(t, ow2)
           /\ Answered(t) => Answered(s) \/ (Final(m) /\ m.kind = "positive")
           /\ ow # <<>> => /\ s.tx = <<>> /\ ~Answered(s)
                           /\ Head(ow) = s.c.send_buf /\ Tail(ow) = <<>>
                           /\ s.c.state # "Sending" /\ ~Free(s)
<1>1. s.inbox \in Seq(Responses) /\ s.tx \in Seq(Requests)
  BY DEF Systems
<1>2. /\ DOMAIN s.inbox = 1..Len(s.inbox) /\ Len(s.inbox) \in Nat
      /\ \A i \in DOMAIN s.inbox : i \in DOMAIN t.inbox /\ t.inbox[i] = s.inbox[i]
      /\ \A i \in DOMAIN t.inbox : i \in DOMAIN s.inbox \/
                                   (i = Len(s.inbox) + 1 /\ t.inbox[i] = m)
  <2>1. CASE t.inbox = s.inbox
    BY <1>1, <2>1, LenProperties
  <2>2. CASE t.inbox = Append(s.inbox, m)
    <3>1. /\ DOMAIN t.inbox = 1..(Len(s.inbox) + 1)
          /\ \A i \in DOMAIN s.inbox : t.inbox[i] = s.inbox[i]
          /\ t.inbox[Len(s.inbox) + 1] = m
      BY <1>1, <2>2, AppendAt
    <3>2. DOMAIN s.inbox = 1..Len(s.inbox) /\ Len(s.inbox) \in Nat
      BY <1>1, LenProperties
    <3> QED BY <3>1, <3>2
  <2> QED BY <2>1, <2>2
<1>3. s.inbox # <<>> => t.inbox # <<>> /\ Head(t.inbox) = Head(s.inbox)
  BY <1>1, HeadTailAppend, AppendProperties, SMTT(30)
<1>4. Answered(t) => Answered(s) \/ (Final(m) /\ m.kind = "positive")
  BY <1>2 DEF Answered
<1>5. ASSUME ow # <<>>
      PROVE  /\ s.tx = <<>> /\ Len(s.tx) = 0 /\ Len(ow) = 1
             /\ Head(ow) = s.c.send_buf /\ Tail(ow) = <<>>
             /\ \A i \in DOMAIN s.inbox : ~Final(s.inbox[i])
             /\ s.c.state # "Sending" /\ ~Free(s)
  <2>1. Len(ow) \in Nat \ {0} /\ Len(s.tx) \in Nat
    BY <1>1, <1>5, EmptySeq, LenProperties
  <2>2. Len(ow) = 1 /\ Len(s.tx) = 0
    <3>1. Len(s.tx) + Len(ow) <= 1
      BY DEF OneRequest
    <3> QED BY <2>1, <3>1, SumOfOne
  <2>3. s.tx = <<>>
    BY <1>1, <2>2, EmptySeq
  <2>4. Tail(ow) = <<>>
    BY <1>5, <2>2, TailAt, EmptySeq
  <2>5. Head(ow) = s.c.send_buf
    BY <1>5, TailAt DEF OneRequest
  <2> QED BY <1>5, <2>2, <2>3, <2>4, <2>5 DEF OneRequest
<1>6. CASE ow2 = ow /\ ~Final(m) /\ (m.functional \/ ow # <<>>)
  <2>1. s.tx # <<>> => \A i \in DOMAIN t.inbox : t.inbox[i].functional
    BY <1>2, <1>5, <1>6 DEF OneRequest
  <2>2. ow # <<>> => \A i \in DOMAIN t.inbox : ~Final(t.inbox[i])
    BY <1>2, <1>5, <1>6
  <2>3. \A i, j \in DOMAIN t.inbox : i < j /\ Final(t.inbox[i]) => t.inbox[j].functional
    <3> SUFFICES ASSUME NEW i \in DOMAIN t.inbox, NEW j \in DOMAIN t.inbox,
                        i < j, Final(t.inbox[i])
                 PROVE  t.inbox[j].functional
      OBVIOUS
    <3>1. i \in DOMAIN s.inbox /\ t.inbox[i] = s.inbox[i]
      BY <1>2, <1>6
    <3>2. CASE j \in DOMAIN s.inbox
      BY <1>2, <3>1, <3>2 DEF OneRequest
    <3>3. CASE t.inbox[j] = m
      BY <1>5, <1>6, <3>1, <3>3
    <3> QED BY <1>2, <3>2, <3>3
  <2>4. s.c.state = "Sending" \/ Free(s) =>
          \A i \in DOMAIN t.inbox : t.inbox[i].functional
    BY <1>2, <1>5, <1>6 DEF OneRequest
  <2>5. OneRequest(t, ow2)
    BY <1>3, <1>6, <2>1, <2>2, <2>3, <2>4 DEF OneRequest, Free
  <2> QED BY <1>4, <1>5, <2>5 DEF Answered
<1>7. CASE ow # <<>> /\ ow2 = Tail(ow)
  <2>1. ow2 = <<>> /\ Len(ow2) = 0 /\ DOMAIN ow2 = {}
    BY <1>5, <1>7
  <2>2. \A i, j \in DOMAIN t.inbox : i < j /\ Final(t.inbox[i]) => t.inbox[j].functional
    <3> SUFFICES ASSUME NEW i \in DOMAIN t.inbox, NEW j \in DOMAIN t.inbox,
                        i < j, Final(t.inbox[i])
                 PROVE  FALSE
      OBVIOUS
    <3>1. i \notin DOMAIN s.inbox
      BY <1>2, <1>5, <1>7
    <3>2. i = Len(s.inbox) + 1 /\ j \in 1..(Len(s.inbox) + 1)
      BY <1>2, <3>1
    <3> QED BY <1>2, <3>2
  <2>3. OneRequest(t, ow2)
    BY <1>3, <1>5, <1>7, <2>1, <2>2 DEF OneRequest, Free
  <2> QED BY <1>4, <1>5, <2>3 DEF Answered
<1> QED BY <1>6, <1>7

LEMMA OneRequestTransmits ==
    ASSUME NEW s \in Systems, NEW t \in Systems,
           NEW ow \in Seq(Requests), NEW ow2 \in Seq(Requests),
           OneRequest(s, ow), t.c = s.c, t.inbox = s.inbox, t.taken = s.taken,
           s.tx # <<>>, t.tx = <<>>, ow2 \in {ow, ow \o s.tx}
    PROVE  OneRequest(t, ow2)
<1>1. s.tx \in Seq(Requests)
  BY DEF Systems
<1>2. Len(s.tx) \in Nat \ {0} /\ Len(ow) \in Nat
  BY <1>1, EmptySeq, LenProperties
<1>3. Len(s.tx) = 1 /\ Len(ow) = 0
  <2>1. Len(s.tx) + Len(ow) <= 1
    BY DEF OneRequest
  <2> QED BY <1>2, <2>1, SumOfOne
<1>4. ow = <<>> /\ ow \o s.tx = s.tx
  BY <1>1, <1>3, EmptySeq, ConcatEmptySeq
<1>5. /\ \A i \in DOMAIN s.tx : s.tx[i] = s.c.send_buf
      /\ \A i \in DOMAIN s.inbox : s.inbox[i].functional
      /\ s.c.state # "Sending" /\ ~Free(s)
  BY DEF OneRequest
<1>6. \A i \in DOMAIN s.inbox : ~Final(s.inbox[i])
  BY <1>5 DEF Final
<1>7. Len(t.tx) = 0 /\ DOMAIN t.tx = {} /\ ow2 \in {<<>>, s.tx} /\ Len(ow2) <= 1
      /\ \A i \in DOMAIN ow2 : ow2[i] = s.c.send_buf
  BY <1>3, <1>4, <1>5
<1> QED BY <1>5, <1>6, <1>7 DEF OneRequest, Free

LEMMA ModSucc ==
    ASSUME NEW m \in Nat \ {0}, NEW a \in Nat
    PROVE  ((a % m) + 1) % m = (a + 1) % m
<1> DEFINE q == a \div m
           r == a % m
<1>1. a = m * q + r /\ r \in 0..(m - 1) /\ q \in Nat
  OBVIOUS
<1>2. \A p \in Nat, e \in 0..(m - 1) : (m * p + e) % m = e
  OBVIOUS
<1> HIDE DEF q, r
<1>3. CASE r + 1 < m
  <2>1. a + 1 = m * q + (r + 1) /\ r + 1 \in 0..(m - 1)
    BY <1>1, <1>3
  <2>2. (a + 1) % m = r + 1
    BY <1>1, <1>2, <2>1
  <2>3. (r + 1) % m = r + 1
    BY <1>1, <1>3
  <2> QED BY <2>2, <2>3 DEF r
<1>4. CASE r + 1 = m
  <2>1. a + 1 = m * (q + 1) + 0 /\ q + 1 \in Nat /\ 0 \in 0..(m - 1)
    BY <1>1, <1>4
  <2>2. (a + 1) % m = 0
    BY <1>2, <2>1
  <2>3. (r + 1) % m = 0
    BY <1>1, <1>4
  <2> QED BY <2>2, <2>3 DEF r
<1> QED BY <1>1, <1>3, <1>4

LEMMA NotAnsweredIfFunctional ==
    ASSUME NEW s \in Systems, \A i \in DOMAIN s.inbox : s.inbox[i].functional
    PROVE  ~Answered(s)
BY DEF Answered, Final

LEMMA TailAnswered ==
    ASSUME NEW s \in Systems, NEW t \in Systems,
           s.inbox # <<>>, t.inbox = Tail(s.inbox), Answered(t)
    PROVE  Answered(s)
<1>1. s.inbox \in Seq(Responses)
  BY DEF Systems
<1>2. \A i \in DOMAIN t.inbox : t.inbox[i] = s.inbox[i + 1] /\ i + 1 \in DOMAIN s.inbox
  BY <1>1, TailAt
<1> QED BY <1>2 DEF Answered

Download(s, ow, st, ex) == OneRequest(s, ow) /\ Sequence(s, ow, st, ex)

LEMMA DownloadSame ==
    ASSUME NEW s \in Systems, NEW t \in Systems, NEW ow \in Seq(Requests),
           NEW st, NEW ex,
           Download(s, ow, st, ex), SameWire(s, t), SameRequest(s, t),
           t.c.state # "Idle" => s.c.state # "Idle" /\ t.c.options = s.c.options,
           t.c.state = "Sending" => s.c.state = "Sending",
           Free(t) => Free(s),
           t.c.state = "ProcessResponse" =>
             \/ s.c.state = "ProcessResponse" /\ t.c.recv_buf = s.c.recv_buf
             \/ /\ s.inbox # <<>> /\ t.c.recv_buf = Head(s.inbox)
                /\ ~Head(s.inbox).functional
    PROVE  Download(t, ow, st, ex)
<1>1. OneRequest(t, ow)
  BY OneRequestSame DEF Download, SameRequest
<1>2. InTransit(t, ow) => InTransit(s, ow)
  BY DEF InTransit, SameWire
<1>3. Answered(t) => Answered(s)
  BY DEF Answered, SameWire
<1>4. Sequence(t, ow, st, ex)
  BY <1>2, <1>3, SequenceSame DEF Download
<1> QED BY <1>1, <1>4 DEF Download

LEMMA DownloadPolls ==
    ASSUME DownloadAssumption,
           NEW s \in Systems, NEW t \in Systems, NEW ow \in Seq(Requests),
           NEW st, NEW ex,
           Download(s, ow, st, ex), PollStep(s, t), SameRequest(s, t)
    PROVE  Download(t, ow, st, ex) /\ (Free(t) => Good(t.c.options))
<1>1. CASE Rests(s, t) \/ Waits(s, t) \/ GivesUp(s, t) \/ Awaits(s, t) \/ Receives(s, t)
  <2>1. SameWire(s, t)
    BY <1>1 DEF Rests, Waits, GivesUp, Awaits, Receives
  <2>2. /\ t.c.state # "Idle" => s.c.state # "Idle" /\ t.c.options = s.c.options
        /\ t.c.state = "Sending" => s.c.state = "Sending"
        /\ t.c.state = "ProcessResponse" =>
             \/ s.c.state = "ProcessResponse" /\ t.c.recv_buf = s.c.recv_buf
             \/ /\ s.inbox # <<>> /\ t.c.recv_buf = Head(s.inbox)
                /\ ~Head(s.inbox).functional
    BY <1>1 DEF Rests, Waits, GivesUp, Awaits, Receives
  <2>3. Free(t) => Free(s) /\ Rests(s, t)
    BY <1>1 DEF Rests, Waits, GivesUp, Awaits, Receives, Free
  <2>4. Free(t) => Good(t.c.options)
    BY <2>3, GoodOptions DEF Rests
  <2> QED BY <2>1, <2>2, <2>3, <2>4, DownloadSame
<1>2. CASE Sends(s, t)
  <2>1. /\ InTransit(s, ow) /\ ~Free(t) /\ t.c.state # "Idle" /\ s.c.state # "Idle"
        /\ t.inbox = s.inbox
    BY <1>2 DEF Sends, InTransit, Free
  <2>2. Answered(t) => Answered(s)
    BY <2>1 DEF Answered
  <2>3. OneRequest(t, ow)
    BY <1>2, OneRequestSends DEF Download
  <2>4. Sequence(t, ow, st, ex)
    BY <2>1, <2>2, SequenceSame DEF Download
  <2> QED BY <2>1, <2>3, <2>4 DEF Download
<1>3. CASE AwaitsNothing(s, t)
  <2>1. Good(s.c.copy)
    BY <1>3 DEF AwaitsNothing, Download, OneRequest
  <2> QED BY <1>3, <2>1 DEF AwaitsNothing, Good
<1>4. CASE Skips(s, t) \/ Rejects(s, t) \/ WaitsLonger(s, t) \/ Takes(s, t)
  <2>1. /\ s.inbox # <<>> /\ t.inbox = Tail(s.inbox) /\ t.tx = s.tx
        /\ s.c.state # "Idle" /\ t.c.state \in {"Idle", "AwaitResponse"}
        /\ t.c.state # "Idle" => t.c.options = s.c.options
    BY <1>4 DEF Skips, Rejects, WaitsLonger, Takes, Download, OneRequest
  <2>2. Len(t.taken) = Len(s.taken)
    <3>1. CASE Takes(s, t)
      <4>1. /\ s.taken \in Seq(Nat)
            /\ t.taken = [s.taken EXCEPT ![s.c.send_buf.id] = s.c.recv_buf.id]
        BY <3>1 DEF Takes, Systems
      <4>2. s.c.send_buf.id \in 1..Len(s.taken)
        BY <2>1, <4>1, LenProperties DEF Download, OneRequest
      <4>3. s.c.recv_buf.id \in Nat
        <5>1. s.c.recv_buf \in Responses
          BY DEF Systems, Clients
        <5> QED BY <5>1 DEF Responses
      <4> QED BY <4>1, <4>2, <4>3, ExceptSeq
    <3>2. CASE Skips(s, t) \/ Rejects(s, t) \/ WaitsLonger(s, t)
      BY <3>2 DEF Skips, Rejects, WaitsLonger
    <3> QED BY <1>4, <3>1, <3>2
  <2>3. ASSUME Free(t)
        PROVE  /\ Final(Head(s.inbox)) /\ Answered(s) /\ Good(t.c.options)
    <3>1. Takes(s, t)
      BY <1>4, <2>3 DEF Skips, Rejects, WaitsLonger, Free
    <3>2. /\ s.c.recv_buf = Head(s.inbox) /\ ~Head(s.inbox).functional
          /\ Good(s.c.copy) /\ Good(s.c.options)
      BY <2>1, <3>1 DEF Takes, Download, OneRequest
    <3>3. s.c.recv_buf.kind # "pending" /\ s.c.recv_buf.kind # "negative"
      BY <3>1, <3>2 DEF Takes, Good
    <3>4. s.c.recv_buf.kind = "positive"
      <4>1. s.c.recv_buf \in Responses
        BY DEF Systems, Clients
      <4> QED BY <3>3, <4>1 DEF Responses, Kinds
    <3>5. s.inbox \in Seq(Responses)
      BY DEF Systems
    <3>6. Head(s.inbox) = s.inbox[1] /\ 1 \in DOMAIN s.inbox
      BY <2>1, <3>5, TailAt
    <3>7. Final(s.inbox[1]) /\ s.inbox[1].kind = "positive"
      BY <3>2, <3>4, <3>6 DEF Final
    <3>8. t.c.options = s.c.options
      BY <3>1 DEF Takes
    <3> QED BY <3>2, <3>6, <3>7, <3>8 DEF Answered
  <2>4. OneRequest(t, ow)
    BY <2>1, <2>2, <2>3, OneRequestDrops DEF Download, SameRequest
  <2>5. Answered(t) => Answered(s)
    BY <2>1, TailAnswered
  <2>6. InTransit(t, ow) => InTransit(s, ow)
    BY <2>1 DEF InTransit
  <2>7. Sequence(t, ow, st, ex)
    BY <2>1, <2>3, <2>5, <2>6, SequenceSame DEF Download
  <2> QED BY <2>3, <2>4, <2>7 DEF Download
<1> QED BY <1>1, <1>2, <1>3, <1>4 DEF PollStep

(* A request of the user, or one of the download's two short ones.         *)
LEMMA DownloadRequested ==
    ASSUME NEW s \in Systems, NEW t \in Systems, NEW ow \in Seq(Requests),
           NEW st, NEW ex, NEW sid, NEW sub, NEW from, NEW len,
           Download(s, ow, st, ex), Free(s), Good(s.c.options),
           Requested(s, t, sid, sub, from, len), sid # "TransferData",
           t.c.pos = s.c.pos, t.c.eof = s.c.eof,
           t.c.blockSequenceCounter = s.c.blockSequenceCounter,
           \/ t.c.cbIdx = s.c.cbIdx /\ sid # "RequestTransferExit"
           \/ s.c.cbIdx = 1 /\ t.c.cbIdx = 2
           \/ s.c.cbIdx = 6 /\ t.c.cbIdx = 7 /\ sid = "RequestTransferExit"
    PROVE  Download(t, ow, st, ex)
<1>1. OneRequest(t, ow) /\ t.c.state # "Idle" /\ ~Answered(t)
  BY OneRequestRequested DEF Download
<1>2. t.c.send_buf.sid = sid /\ ~Free(t)
  BY <1>1 DEF Requested, Free
<1>3. Settled(s, st) /\ Sequence(s, ow, st, ex)
  BY DEF Download, Sequence
<1>4. Settled(t, st)
  BY <1>3 DEF Settled
<1>5. s.c.cbIdx >= 7 => ex
  BY <1>3 DEF Sequence
<1>6. CASE t.c.cbIdx = s.c.cbIdx /\ sid # "RequestTransferExit"
  <2>1. Sequence(t, ow, st, ex)
    BY <1>1, <1>2, <1>3, <1>4, <1>5, <1>6 DEF Sequence
  <2> QED BY <1>1, <2>1 DEF Download
<1>7. CASE \/ s.c.cbIdx = 1 /\ t.c.cbIdx = 2
           \/ s.c.cbIdx = 6 /\ t.c.cbIdx = 7 /\ sid = "RequestTransferExit"
  <2>1. Sequence(t, ow, st, ex)
    BY <1>1, <1>2, <1>3, <1>4, <1>7 DEF Sequence
  <2> QED BY <1>1, <2>1 DEF Download
<1> QED BY <1>6, <1>7

LEMMA DownloadBlock ==
    ASSUME NEW s \in Systems, NEW t \in Systems, NEW ow \in Seq(Requests),
           NEW st \in Seq(Blocks), NEW ex, NEW len \in Nat,
           Download(s, ow, st, ex), Free(s), Good(s.c.options),
           Requested(s, t, "TransferData", s.c.blockSequenceCounter, s.c.pos, len),
           s.c.cbIdx = 5, t.c.cbIdx = 5, t.c.pos = s.c.pos + len,
           t.c.eof => t.c.pos = FileSize,
           t.c.blockSequenceCounter = (s.c.blockSequenceCounter + 1) % CounterMod
    PROVE  Download(t, ow, st, ex)
<1>1. OneRequest(t, ow) /\ t.c.state # "Idle" /\ ~Answered(t)
  BY OneRequestRequested DEF Download
<1>2. /\ t.c.send_buf.sid = "TransferData" /\ ~Free(t)
      /\ t.c.send_buf.sub = s.c.blockSequenceCounter
      /\ t.c.send_buf.from = s.c.pos /\ t.c.send_buf.len = len
  BY <1>1 DEF Requested, Free
<1>3. Settled(s, st) /\ Stored(st)
  BY DEF Download, Sequence
<1>4. NextBlock(t, st)
  <2>1. Len(st) + 1 \in Nat /\ CounterMod \in Nat \ {0} /\ (Len(st) + 1) + 1 = Len(st) + 2
    BY LenProperties, FileAssumption
  <2>2. (((Len(st) + 1) % CounterMod) + 1) % CounterMod = (Len(st) + 2) % CounterMod
    BY <2>1, ModSucc
  <2> QED BY <1>2, <1>3, <2>2 DEF NextBlock, Settled
<1>5. Sequence(t, ow, st, ex)
  BY <1>1, <1>2, <1>3, <1>4 DEF Sequence
<1> QED BY <1>1, <1>5 DEF Download

LEMMA DownloadCalls ==
    ASSUME NEW s \in Systems, NEW t \in Systems, NEW ow \in Seq(Requests),
           NEW st \in Seq(Blocks), NEW ex,
           Download(s, ow, st, ex), Free(s), Good(s.c.options), CallbackStep(s, t)
    PROVE  Download(t, ow, st, ex)
<1>1. CASE MovesOn(s, t)
  <2>1. OneRequest(t, ow)
    BY <1>1, OneRequestSame DEF MovesOn, Download, Free
  <2>2. /\ Settled(s, st) /\ Sequence(s, ow, st, ex) /\ (s.c.cbIdx >= 7 => ex)
    BY DEF Download, Sequence
  <2>3. Settled(t, st)
    <3>1. CASE s.c.cbIdx = 4
      <4>1. st = <<>> /\ Len(st) = 0
        BY <2>2, <3>1 DEF Sequence
      <4>2. 1 = (0 + 1) % CounterMod
        BY FileAssumption
      <4> QED BY <1>1, <2>2, <3>1, <4>1, <4>2 DEF Settled, MovesOn
    <3>2. CASE s.c.cbIdx # 4
      BY <1>1, <2>2, <3>2 DEF Settled, MovesOn
    <3> QED BY <3>1, <3>2
  <2>4. /\ t.c.cbIdx = s.c.cbIdx + 1 /\ t.c.state = "Idle"
        /\ s.c.cbIdx \in {2, 3, 4, 5, 7} /\ (s.c.cbIdx = 5 => s.c.eof)
        /\ t.c.send_buf = s.c.send_buf /\ t.c.pos = s.c.pos /\ t.c.eof = s.c.eof
    BY <1>1 DEF MovesOn
  <2>5. ~InTransit(t, ow)
    <3>1. s.tx = <<>> /\ ow = <<>> /\ t.tx = s.tx
      BY <1>1 DEF Download, OneRequest, MovesOn, SameWire
    <3> QED BY <2>4, <3>1 DEF InTransit
  <2>6. CASE s.c.cbIdx \in {2, 3}
    <3>1. t.c.cbIdx \in {3, 4}
      BY <2>4, <2>6
    <3>2. Sequence(t, ow, st, ex)
      BY <2>2, <2>3, <2>4, <2>5, <2>6, <3>1 DEF Sequence
    <3> QED BY <2>1, <3>2 DEF Download
  <2>7. CASE s.c.cbIdx \in {4, 5}
    <3>1. t.c.cbIdx \in {5, 6} /\ (t.c.cbIdx = 6 => t.c.eof)
      BY <2>4, <2>7
    <3>2. Sequence(t, ow, st, ex)
      BY <2>2, <2>3, <2>4, <2>5, <2>7, <3>1 DEF Sequence
    <3> QED BY <2>1, <3>2 DEF Download
  <2>8. CASE s.c.cbIdx = 7
    <3>1. t.c.cbIdx = 8
      BY <2>4, <2>8
    <3>2. Sequence(t, ow, st, ex)
      BY <2>2, <2>3, <2>4, <2>5, <2>8, <3>1 DEF Sequence
    <3> QED BY <2>1, <3>2 DEF Download
  <2> QED BY <2>4, <2>6, <2>7, <2>8
<1>2. CASE Stops(s, t) \/ Ends(s, t)
  <2>1. /\ SameWire(s, t) /\ SameRequest(s, t) /\ t.c.state = "Idle"
    BY <1>2 DEF Stops, Ends
  <2> QED BY <2>1, DownloadSame
<1>3. ASSUME NEW sid \in {"RequestDownload", "RequestTransferExit"},
             Requested(s, t, sid, 0, 0, 0),
             s.c.cbIdx = IF sid = "RequestDownload" THEN 1 ELSE 6,
             t.c.cbIdx = s.c.cbIdx + 1,
             t.c.pos = s.c.pos, t.c.eof = s.c.eof,
             t.c.blockSequenceCounter = s.c.blockSequenceCounter
      PROVE  Download(t, ow, st, ex)
  <2>1. \/ s.c.cbIdx = 1 /\ t.c.cbIdx = 2
        \/ s.c.cbIdx = 6 /\ t.c.cbIdx = 7 /\ sid = "RequestTransferExit"
    BY <1>3
  <2> QED BY <1>3, <2>1, DownloadRequested
<1>4. ASSUME NEW len \in Nat,
             Requested(s, t, "TransferData", s.c.blockSequenceCounter, s.c.pos, len),
             s.c.cbIdx = 5, t.c.cbIdx = 5, t.c.pos = s.c.pos + len,
             t.c.eof => t.c.pos = FileSize,
             t.c.blockSequenceCounter = (s.c.blockSequenceCounter + 1) % CounterMod
      PROVE  Download(t, ow, st, ex)
  BY <1>4, DownloadBlock
<1> QED BY <1>1, <1>2, <1>3, <1>4 DEF CallbackStep

(* The server accepts the request it owes an answer.                       *)
LEMMA DownloadAccepts ==
    ASSUME NEW s \in Systems, NEW t \in Systems, NEW ow \in Seq(Requests),
           NEW st \in Seq(Blocks), NEW st2, NEW ex, NEW ex2, NEW m \in Responses,
           Download(s, ow, st, ex), t.c = s.c, t.tx = s.tx, t.taken = s.taken,
           t.inbox \in {s.inbox, Append(s.inbox, m)}, ow # <<>>,
           st2 = IF Head(ow).sid = "TransferData"
                 THEN Append(st, [sub |-> Byte1(Head(ow)), from |-> Head(ow).from,
                                  len |-> Head(ow).len])
                 ELSE st,
           ex2 <=> ex \/ Head(ow).sid = "RequestTransferExit"
    PROVE  Download(t, Tail(ow), st2, ex2)
<1> DEFINE q == s.c.send_buf
<1>1. /\ Tail(ow) = <<>> /\ Head(ow) = q /\ s.tx = <<>> /\ s.c.state # "Sending"
      /\ OneRequest(t, Tail(ow))
  <2>1. Tail(ow) \in Seq(Requests)
    BY TailAt
  <2> QED BY <2>1, OneRequestReceived DEF Download
<1>2. ~InTransit(t, Tail(ow)) /\ InTransit(s, ow)
  BY <1>1 DEF InTransit
<1>3. Sequence(s, ow, st, ex)
  BY DEF Download
<1>4. CASE q.sid = "TransferData"
  <2> DEFINE b == [sub |-> Byte1(q), from |-> q.from, len |-> q.len]
  <2>1. NextBlock(s, st) /\ s.c.cbIdx > 4 /\ Stored(st)
    <3>1. s.c.cbIdx \in 0..8
      BY DEF Systems, Clients
    <3> QED BY <1>2, <1>3, <1>4, <3>1 DEF Sequence
  <2>2. ~q.bit7 /\ q.sub \in Nat /\ q.from \in Nat /\ q.len \in Nat
    BY DEF Download, OneRequest, Systems, Clients, Requests
  <2>3. b \in Blocks /\ b.sub = q.sub /\ b.from = q.from /\ b.len = q.len
    BY <2>2 DEF Byte1, Blocks
  <2>4. st2 = Append(st, b)
    BY <1>1, <1>4
  <2> HIDE DEF b
  <2>5. /\ Len(st2) = Len(st) + 1 /\ DOMAIN st2 = 1..(Len(st) + 1)
        /\ DOMAIN st = 1..Len(st) /\ Len(st) \in Nat
        /\ \A i \in DOMAIN st : st2[i] = st[i]
        /\ st2[Len(st) + 1] = b /\ st2 # <<>>
    BY <2>3, <2>4, AppendAt, AppendProperties
  <2>6. Stored(st2)
    <3> SUFFICES ASSUME NEW k \in DOMAIN st2
                 PROVE  /\ st2[k].sub = k % CounterMod
                        /\ st2[k].from = IF k = 1 THEN 0
                                         ELSE st2[k - 1].from + st2[k - 1].len
      BY DEF Stored
    <3>1. CASE k \in DOMAIN st
      <4>1. k # 1 => k - 1 \in DOMAIN st
        BY <2>5, <3>1
      <4> QED BY <2>1, <2>5, <3>1, <4>1 DEF Stored
    <3>2. CASE k = Len(st) + 1
      <4>1. st2[k].sub = k % CounterMod
        BY <2>1, <2>3, <2>5, <3>2 DEF NextBlock
      <4>2. CASE st = <<>>
        BY <2>1, <2>3, <2>5, <3>2, <4>1, <4>2 DEF NextBlock, EndIn
      <4>3. CASE st # <<>>
        <5>1. k # 1 /\ k - 1 = Len(st) /\ Len(st) \in DOMAIN st
          BY <2>5, <3>2, <4>3, EmptySeq
        <5> QED BY <2>1, <2>3, <2>5, <3>2, <4>1, <4>3, <5>1 DEF NextBlock, EndIn
      <4> QED BY <4>2, <4>3
    <3> QED BY <2>5, <3>1, <3>2
  <2>7. Settled(t, st2)
    <3>1. EndIn(st2) = q.from + q.len
      BY <2>3, <2>5 DEF EndIn
    <3>2. (Len(st2) + 1) % CounterMod = (Len(st) + 2) % CounterMod
      <4>1. Len(st2) + 1 = Len(st) + 2
        BY <2>5
      <4> QED BY <4>1
    <3> QED BY <2>1, <2>5, <3>1, <3>2 DEF Settled, NextBlock
  <2>8. ex2 <=> ex
    BY <1>1, <1>4
  <2>9. s.c.cbIdx >= 7 => ex
    BY <1>3, <1>4 DEF Sequence
  <2>10. Sequence(t, Tail(ow), st2, ex2)
    BY <1>2, <1>3, <1>4, <2>1, <2>6, <2>7, <2>8, <2>9 DEF Sequence
  <2> QED BY <1>1, <2>10 DEF Download
<1>5. CASE q.sid # "TransferData"
  <2>1. st2 = st /\ Settled(s, st)
    BY <1>1, <1>3, <1>5 DEF Sequence
  <2>2. Settled(t, st)
    BY <2>1 DEF Settled
  <2>3. s.c.cbIdx >= 7 => ex2
    BY <1>1, <1>3 DEF Sequence
  <2>4. Sequence(t, Tail(ow), st2, ex2)
    BY <1>2, <1>3, <1>5, <2>1, <2>2, <2>3 DEF Sequence
  <2> QED BY <1>1, <2>4 DEF Download
<1> QED BY <1>4, <1>5

LEMMA InitDownload ==
    ASSUME Init
    PROVE  Download(System, owed, stored, exited)
<1>1. /\ System.taken = <<>> /\ System.inbox = <<>> /\ System.tx = <<>>
      /\ owed = <<>> /\ stored = <<>> /\ Len(stored) = 0
      /\ System.c.state = "Idle" /\ System.c.send_buf.sid = "none"
      /\ System.c.send_buf.bit7 = FALSE /\ System.c.cbIdx = 0
      /\ System.c.blockSequenceCounter = 1 /\ System.c.pos = 0 /\ System.c.eof = FALSE
  BY DEF Init, System, NoRequest
<1>2. 1 = (0 + 1) % CounterMod
  BY FileAssumption
<1>3. Settled(System, stored)
  BY <1>1, <1>2 DEF Settled, EndIn
<1>4. OneRequest(System, owed)
  BY <1>1 DEF OneRequest
<1>5. Sequence(System, owed, stored, exited)
  BY <1>1, <1>3 DEF Sequence, Stored
<1> QED BY <1>4, <1>5 DEF Download

LEMMA NextDownload ==
    ASSUME DownloadAssumption, Typed, Typed',
           Download(System, owed, stored, exited), [Next]_vars
    PROVE  Download(System', owed', stored', exited')
<1>1. /\ System \in Systems /\ System' \in Systems
      /\ owed \in Seq(Requests) /\ owed' \in Seq(Requests) /\ stored \in Seq(Blocks)
      /\ System.c = client /\ System.inbox = inbox /\ System.tx = tx /\ System.taken = taken
  BY SystemIs DEF Typed
<1>2. /\ client.state = "ProcessResponse" => inbox # <<>>
      /\ client.state # "Idle" => client.send_buf.id \in DOMAIN taken
  BY <1>1 DEF Download, OneRequest
<1>3. ASSUME UNCHANGED server, Download(System', owed, stored, exited)
      PROVE  Download(System', owed', stored', exited')
  BY <1>3 DEF server
<1>4. UserMaySend => Free(System)
  BY <1>1 DEF UserMaySend, Free, DownloadAssumption
<1>5. CASE Poll
  <2>1. PICK u \in Systems :
           /\ PollStep(System, u) /\ SameRequest(System, u)
           /\ \/ /\ SameWire(u, System') /\ SameRequest(u, System')
                 /\ System'.c.state = u.c.state /\ System'.c.err = u.c.err
                 /\ System'.c.recv_buf = u.c.recv_buf
                 /\ System'.c.options = u.c.options
              \/ u.c.state = "Idle" /\ u.c.err = "OK" /\ CallbackStep(u, System')
    BY <1>2, <1>5, PollIs
  <2>2. UNCHANGED server
    BY <1>2, <1>5, PollIs
  <2>3. Download(u, owed, stored, exited) /\ (Free(u) => Good(u.c.options))
    BY <1>1, <2>1, DownloadPolls
  <2>4. CASE u.c.state = "Idle" /\ u.c.err = "OK" /\ CallbackStep(u, System')
    <3>1. Download(System', owed, stored, exited)
      BY <1>1, <2>3, <2>4, DownloadCalls DEF Free
    <3> QED BY <1>3, <2>2, <3>1
  <2>5. CASE /\ SameWire(u, System') /\ SameRequest(u, System')
             /\ System'.c.state = u.c.state /\ System'.c.err = u.c.err
             /\ System'.c.recv_buf = u.c.recv_buf
             /\ System'.c.options = u.c.options
    <3>1. Download(System', owed, stored, exited)
      BY <1>1, <2>3, <2>5, DownloadSame DEF Free
    <3> QED BY <1>3, <2>2, <3>1
  <2> QED BY <2>1, <2>4, <2>5
<1>6. ASSUME NEW q \in UserRequests, NEW opts \in UserOptions, UserSend(q, opts)
      PROVE  Download(System', owed', stored', exited')
  <2>1. PICK u \in Systems :
           /\ SameWire(System, u) /\ SameRequest(System, u)
           /\ u.c.state = "Idle" /\ u.c.err = client.err /\ u.c.options = opts
           /\ Requested(u, System', q.sid, q.sub, 0, 0)
           /\ SameDownload(u, System')
    BY <1>6, UserSendIs
  <2>2. UNCHANGED server /\ Free(System)
    BY <1>4, <1>6, UserSendIs
  <2>3. Download(u, owed, stored, exited) /\ Free(u) /\ Good(u.c.options)
    BY <1>1, <2>1, <2>2, DownloadSame, GoodOptions DEF Free
  <2>4. q.sid \notin {"TransferData", "RequestTransferExit"}
    BY DEF DownloadAssumption
  <2>5. Download(System', owed, stored, exited)
    BY <1>1, <2>1, <2>3, <2>4, DownloadRequested DEF SameDownload
  <2> QED BY <1>3, <2>2, <2>5
<1>7. CASE UserSendRejected
  <2>1. Download(System', owed, stored, exited)
    BY <1>1, <1>4, <1>7, UserSendRejectedIs, DownloadSame
  <2> QED BY <1>3, <1>7, <2>1, UserSendRejectedIs
<1>8. CASE ConfigDownload
  <2>1. /\ SameWire(System, System')
        /\ System'.c.send_buf = client.send_buf /\ System'.c.copy = client.copy
        /\ System'.c.options = client.options
        /\ System'.c.state = client.state /\ System'.c.err = client.err
        /\ System'.c.recv_buf = client.recv_buf
        /\ client.cbIdx = 0 /\ System'.c.cbIdx = 1
        /\ System'.c.pos = client.pos /\ System'.c.eof = client.eof
        /\ System'.c.blockSequenceCounter = 1 /\ UNCHANGED server
    BY <1>8, ConfigDownloadIs
  <2>2. OneRequest(System', owed)
    BY <1>1, <2>1, OneRequestSame DEF Download, Free
  <2>3. /\ stored = <<>> /\ System.c.send_buf.sid # "TransferData"
        /\ Settled(System, stored) /\ Len(stored) = 0 /\ ~System.c.eof
    BY <1>1, <2>1 DEF Download, Sequence
  <2>4. 1 = (0 + 1) % CounterMod
    BY FileAssumption
  <2>5. Settled(System', stored)
    BY <1>1, <2>1, <2>3, <2>4 DEF Settled
  <2>6. Sequence(System', owed, stored, exited)
    BY <1>1, <2>1, <2>3, <2>5 DEF Download, Sequence
  <2> QED BY <1>3, <2>1, <2>2, <2>6 DEF Download
<1>9. CASE Tick
  <2>1. Download(System', owed, stored, exited)
    BY <1>1, <1>9, TickIs, DownloadSame DEF Free
  <2> QED BY <1>3, <1>9, <2>1, TickIs
<1>10. CASE Transmit
  <2>1. /\ System'.c = client /\ System'.inbox = inbox /\ System'.taken = taken
        /\ tx # <<>> /\ System'.tx = <<>> /\ owed' \in {owed, owed \o tx}
        /\ UNCHANGED <<stored, exited>>
    BY <1>10, TransmitIs
  <2>2. OneRequest(System', owed')
    BY <1>1, <2>1, OneRequestTransmits DEF Download
  <2>3. /\ SameRequest(System, System') /\ InTransit(System, owed)
        /\ (Answered(System') => Answered(System)) /\ (Free(System') => Free(System))
        /\ System'.c.state = System.c.state
    BY <1>1, <2>1 DEF SameRequest, SameDownload, InTransit, Answered, Free
  <2>4. Sequence(System', owed', stored, exited)
    BY <1>1, <2>3, SequenceSame DEF Download
  <2> QED BY <2>1, <2>2, <2>4 DEF Download
<1>11. CASE Accept \/ Refuse \/ ResponsePending \/ FunctionalMessage
  <2>1. PICK m \in Responses :
             /\ System'.c = client /\ System'.tx = tx /\ System'.taken = taken
             /\ System'.inbox \in {inbox, Append(inbox, m)}
             /\ \/ /\ owed' = owed /\ ~Final(m) /\ UNCHANGED <<stored, exited>>
                   /\ m.functional \/ owed # <<>>
                \/ /\ owed # <<>> /\ owed' = Tail(owed)
                   /\ \/ m.kind = "negative" /\ UNCHANGED <<stored, exited>>
                      \/ Accept
    BY <1>11, ServerIs
  <2>2. /\ SameRequest(System, System') /\ (Free(System') => Free(System))
        /\ System'.c.state = System.c.state
    BY <1>1, <2>1 DEF SameRequest, SameDownload, Free
  <2>3. CASE /\ \/ owed' = owed /\ ~Final(m) /\ (m.functional \/ owed # <<>>)
                \/ owed # <<>> /\ owed' = Tail(owed) /\ m.kind = "negative"
             /\ UNCHANGED <<stored, exited>>
    <3>1. OneRequest(System', owed') /\ (Answered(System') => Answered(System))
      BY <1>1, <2>1, <2>3, OneRequestReceived, SMTT(30) DEF Download
    <3>2. InTransit(System', owed') => InTransit(System, owed)
      BY <1>1, <2>1, <2>3 DEF InTransit
    <3>3. Sequence(System', owed', stored, exited)
      BY <1>1, <2>2, <3>1, <3>2, SequenceSame DEF Download
    <3> QED BY <2>3, <3>1, <3>3 DEF Download
  <2>4. CASE owed # <<>> /\ owed' = Tail(owed) /\ Accept
    <3>1. /\ stored' = IF Head(owed).sid = "TransferData"
                       THEN Append(stored, [sub |-> Byte1(Head(owed)),
                                            from |-> Head(owed).from,
                                            len |-> Head(owed).len])
                       ELSE stored
          /\ exited' = (exited \/ Head(owed).sid = "RequestTransferExit")
      BY <2>4 DEF Accept
    <3> DEFINE st2 == stored'
    <3>2. /\ System'.c = System.c /\ System'.tx = System.tx
          /\ System'.taken = System.taken
          /\ System'.inbox \in {System.inbox, Append(System.inbox, m)}
          /\ st2 = IF Head(owed).sid = "TransferData"
                   THEN Append(stored, [sub |-> Byte1(Head(owed)),
                                        from |-> Head(owed).from,
                                        len |-> Head(owed).len])
                   ELSE stored
          /\ exited' <=> exited \/ Head(owed).sid = "RequestTransferExit"
          /\ Download(System, owed, stored, exited)
          /\ System \in Systems /\ System' \in Systems
          /\ owed \in Seq(Requests) /\ stored \in Seq(Blocks) /\ owed # <<>>
      BY <1>1, <2>1, <2>4, <3>1
    <3> HIDE DEF st2
    <3>3. Download(System', Tail(owed), st2, exited')
      BY <3>2, DownloadAccepts
    <3> QED BY <2>4, <3>1, <3>3 DEF st2
  <2> QED BY <2>1, <2>3, <2>4
<1>12. CASE UNCHANGED vars
  <2>1. System' = System /\ UNCHANGED server
    BY <1>12 DEF vars, net, server, System
  <2> QED BY <1>3, <2>1
<1> QED BY <1>5, <1>6, <1>7, <1>8, <1>9, <1>10, <1>11, <1>12 DEF Next

(* With NEG_RESP_IS_ERR, one request at a time is on its way, owed an      *)
(* answer or answered, and the server has stored the file as far as it was *)
(* read, but for the block on its way.                                     *)
THEOREM SpecDownloadInv ==
    ASSUME DownloadAssumption
    PROVE  Spec => []DownloadInv
<1>1. Init => DownloadInv
  BY InitTyped, InitDownload DEF DownloadInv, Download
<1>2. OrderInv /\ OrderInv' /\ DownloadInv /\ [Next]_vars => DownloadInv'
  BY NextDownload DEF DownloadInv, Download, OrderInv
<1> QED BY <1>1, <1>2, SpecOrderInv, PTL DEF Spec

(* The blocks the server accepted are a prefix of the file, with the       *)
(* counters that count from 1.                                             *)
THEOREM SpecFileInOrder ==
    ASSUME DownloadAssumption
    PROVE  Spec => []FileInOrder
<1>1. DownloadInv => FileInOrder
  <2> SUFFICES ASSUME DownloadInv, NEW k \in DOMAIN stored
               PROVE  stored[k].sub = k % CounterMod /\ stored[k].from = EndOf(k - 1)
    BY DEF FileInOrder
  <2>1. Stored(stored) /\ k \in Nat
    BY SystemIs DEF DownloadInv, Sequence
  <2> QED BY <2>1 DEF Stored, EndOf
<1> QED BY <1>1, SpecDownloadInv, PTL

(* A download that came to its end without an error has stored the whole   *)
(* file and left the transfer.                                             *)
THEOREM SpecCompletedMeansStored ==
    ASSUME DownloadAssumption
    PROVE  Spec => []CompletedMeansStored
<1>1. DownloadInv => CompletedMeansStored
  <2> SUFFICES ASSUME DownloadInv, Completed(client) PROVE
               exited /\ stored # <<>> /\ EndOf(Len(stored)) = FileSize
    BY DEF CompletedMeansStored
  <2>1. /\ Sequence(System, owed, stored, exited) /\ System.c = client
        /\ stored \in Seq(Blocks)
    BY SystemIs DEF DownloadInv
  <2>2. System.c.cbIdx = 8 /\ System.c.err = "OK"
    BY <2>1 DEF Completed, Callbacks
  <2>3. /\ System.c.eof /\ System.c.pos = FileSize
        /\ Settled(System, stored) /\ exited
    BY <2>1, <2>2 DEF Sequence, Free
  <2>4. stored # <<>> /\ EndIn(stored) = FileSize
    BY <2>3 DEF Settled
  <2>5. Len(stored) # 0
    BY <2>1, <2>4, EmptySeq
  <2> QED BY <2>3, <2>4, <2>5 DEF EndIn, EndOf
<1> QED BY <1>1, SpecDownloadInv, PTL
====
