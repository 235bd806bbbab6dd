----------------------------- MODULE IsoTp_proofs -----------------------------
(***************************************************************************)
(* Proofs about IsoTp.  A message is sent in blocks, and the right to send *)
(* the next block is a token that only one place holds: a first frame or   *)
(* the last frame of a block on the bus, the receiver that will answer it, *)
(* a flow control frame on its way back, or bs_remain.  The invariant says *)
(* where it is and that the ends agree on the place in the message then.   *)
(***************************************************************************)
EXTENDS IsoTp, SequenceTheorems, FiniteSetTheorems, TLAPS

Senders ==
    [status : {"IDLE", "INPROGRESS", "ERROR"}, id : Nat, size : Nat, offset : Nat,
     sn : Nat, bs_remain : 0..BlockSize, wtf_count : Nat, timer_bs : Nat]
Receivers ==
    [status : {"IDLE", "INPROGRESS", "FULL"}, size : 0..RecvBufSize, offset : Nat,
     sn : Nat, bs_count : 0..BlockSize, timer_cr : Nat, waiting : Nat]
Frames ==
    [type : {"SF", "FF", "CF", "func"}, sn : Nat,
     cell : [id : 1..MaxMsgs, at : Nat \ {0}, of : Nat \ {0}]]
FlowStatus == {"CONTINUE", "WAIT", "OVERFLOW"}

Typed ==
    /\ out \in Senders /\ recv \in Receivers
    /\ func \in [status : {"IDLE", "FULL"}, size : 0..1]
    /\ recv_buf \in [1..RecvBufSize -> Cells]
    /\ bus \in Seq(Frames) /\ back \in Seq(FlowStatus)
    /\ sent \in 0..MaxMsgs /\ latest \in 0..sent
    /\ reader \in {"idle", "busy"}

-----------------------------------------------------------------------------
(* The tester's place in its message.                                      *)
Sending ==
    /\ out.offset <= out.size /\ out.id <= sent
    /\ out.status = "INPROGRESS" =>
         /\ out.offset \in 1..(out.size - 1) /\ out.sn = out.offset % SnMod
         /\ out.id \in 1..sent

(* On the bus: what is left of a message, then single frames, then a first *)
(* frame; among them functional requests.                                  *)
Starts(f) == f.type \in {"SF", "FF"}
BusOrder ==
    /\ \A i \in DOMAIN bus :
         /\ bus[i].cell.id <= sent
         /\ bus[i].type \in {"SF", "func"} => bus[i].cell.at = 1 /\ bus[i].cell.of = 1
    /\ \A i, j \in DOMAIN bus : i < j =>
         /\ bus[j].type = "CF" => ~Starts(bus[i])
         /\ bus[i].type = "FF" => bus[j].type = "func"
         /\ bus[i].type = "CF" /\ bus[j].type = "CF" => bus[i].cell.at < bus[j].cell.at
         /\ Starts(bus[i]) /\ Starts(bus[j]) => bus[i].cell.id < bus[j].cell.id

(* The tester can do nothing until it hears of the server.                 *)
Held == out.status = "INPROGRESS" /\ out.bs_remain = 0 /\ out.timer_bs > 0
NoStart == \A i \in DOMAIN bus : ~Starts(bus[i])
Clear == \A i \in DOMAIN bus : bus[i].type = "func"
Answering == back # <<>> \/ recv.waiting > 0

Announced ==
    \A i \in DOMAIN bus : bus[i].type = "FF" =>
        /\ Held /\ ~Answering
        /\ out.id = bus[i].cell.id /\ out.size = bus[i].cell.of
        /\ out.offset = 1 /\ bus[i].cell.at = 1

(* An answer on its way, or due when the receiver is ready: CONTINUE, at   *)
(* the same place of the same message, after at most MaxWft WAIT.          *)
SameMessage ==
    recv_buf[1].id = out.id /\ recv.size = out.size
Refusing == back = <<"OVERFLOW">> /\ recv.waiting = 0
Granting ==
    /\ recv.status = "INPROGRESS" /\ SameMessage
    /\ recv.offset = out.offset /\ recv.bs_count = BlockSize /\ recv.timer_cr > 0
    /\ recv.waiting <= MaxWft
    /\ IF recv.waiting > 0
       THEN /\ \A i \in DOMAIN back : back[i] = "WAIT"
            /\ out.wtf_count + Len(back) = recv.waiting
       ELSE /\ \A i \in DOMAIN back : back[i] = (IF i = Len(back) THEN "CONTINUE" ELSE "WAIT")
            /\ out.wtf_count + Len(back) <= MaxWft + 1
Answered ==
    /\ Answering => Held /\ Clear /\ (Refusing \/ Granting)
    /\ ~Answering /\ out.status = "INPROGRESS" => out.wtf_count = 0

(* The tester may send within its block.                                   *)
Allowed ==
    out.status = "INPROGRESS" /\ out.bs_remain > 0 =>
        /\ ~Answering /\ NoStart
        /\ \A i \in DOMAIN bus : bus[i].type = "CF" => bus[i].cell.at <= out.offset
        /\ recv.status = "INPROGRESS" =>
             /\ SameMessage /\ recv.offset <= out.offset
             /\ out.offset + out.bs_remain <= recv.offset + recv.bs_count

(* What is on the bus for a message being received is ahead of what was    *)
(* received, within the block; its last frame holds the tester.            *)
Arriving ==
    recv.status = "INPROGRESS" =>
        \A i \in DOMAIN bus : bus[i].type = "CF" =>
            /\ bus[i].cell.id = recv_buf[1].id /\ bus[i].cell.of = recv.size
            /\ bus[i].cell.at \in (recv.offset + 1)..(recv.offset + recv.bs_count)
            /\ bus[i].cell.at <= recv.size
            /\ bus[i].sn = (bus[i].cell.at - 1) % SnMod
            /\ bus[i].cell.at = recv.offset + recv.bs_count /\ bus[i].cell.at < recv.size
                 => /\ Held /\ NoStart /\ SameMessage
                    /\ out.offset = bus[i].cell.at

(* What has been received is the beginning, or the whole, of a message.    *)
Received ==
    /\ recv.status = "INPROGRESS" =>
         /\ recv.offset \in 1..(recv.size - 1) /\ recv.sn = recv.offset % SnMod
         /\ recv.bs_count \in 1..BlockSize /\ recv_buf[1].id \in 1..sent
         /\ \A i \in 1..recv.offset : recv_buf[i] = Cell(recv_buf[1].id, i, recv.size)
    /\ recv.status = "FULL" =>
         /\ recv.size > 0 /\ recv_buf[1].id \in 1..sent
         /\ \A i \in 1..recv.size : recv_buf[i] = Cell(recv_buf[1].id, i, recv.size)

(* What comes is later than what was evaluated.                            *)
InOrder ==
    /\ recv.status = "INPROGRESS" \/ (recv.status = "FULL" /\ reader = "idle")
         => recv_buf[1].id > latest
    /\ \A i \in DOMAIN bus : Starts(bus[i]) =>
         /\ bus[i].cell.id > latest
         /\ recv.status # "IDLE" => bus[i].cell.id > recv_buf[1].id

Evaluated ==
    ~req.func /\ req.cells # <<>> =>
        \E id \in 1..sent :
            req.cells = [i \in 1..req.cells[1].of |-> Cell(id, i, req.cells[1].of)]

LinkInv ==
    /\ Typed /\ Sending /\ BusOrder /\ Announced /\ Answered /\ Allowed
    /\ Arriving /\ Received /\ InOrder /\ Evaluated

-----------------------------------------------------------------------------
(***************************************************************************)
(* Sequence numbers: within a window as long as the sequence numbers reach,*)
(* a number stands for one place.                                          *)
(***************************************************************************)
LEMMA ModSucc ==
    ASSUME NEW m \in Nat \ {0}, NEW a \in Nat
    PROVE  ((a % m) + 1) % m = (a + 1) % m
<1> DEFINE q == a \div m
           r == a % m
<1>1. a = m * q + r /\ r \in 0..(m - 1) /\ q \in Nat
  OBVIOUS
<1>2. \A p \in Nat, e \in 0..(m - 1) : (m * p + e) % m = e
  OBVIOUS
<1> HIDE DEF q, r
<1>3. CASE r + 1 < m
  <2>1. a + 1 = m * q + (r + 1) /\ r + 1 \in 0..(m - 1)
    BY <1>1, <1>3
  <2>2. (a + 1) % m = r + 1
    BY <1>1, <1>2, <2>1
  <2>3. (r + 1) % m = r + 1
    BY <1>1, <1>3
  <2> QED BY <2>2, <2>3 DEF r
<1>4. CASE r + 1 = m
  <2>1. a + 1 = m * (q + 1) + 0 /\ q + 1 \in Nat /\ 0 \in 0..(m - 1)
    BY <1>1, <1>4
  <2>2. (a + 1) % m = 0
    BY <1>2, <2>1
  <2>3. (r + 1) % m = 0
    BY <1>1, <1>4
  <2> QED BY <2>2, <2>3 DEF r
<1> QED BY <1>1, <1>3, <1>4

LEMMA SameInWindow ==
    ASSUME NEW m \in Nat \ {0}, NEW a \in Nat, NEW b \in Nat,
           a <= b, b < a + m, a % m = b % m
    PROVE  a = b
<1> DEFINE q == a \div m
           p == b \div m
           r == a % m
<1>1. a = m * q + r /\ r \in 0..(m - 1) /\ q \in Nat
  OBVIOUS
<1>2. b = m * p + r /\ p \in Nat
  <2>1. b = m * p + (b % m) /\ p \in Nat
    OBVIOUS
  <2> QED BY <2>1
<1> HIDE DEF q, p, r
<1>3. p >= q + 1 => m * p >= m * (q + 1)
  <2>1. \A k \in Nat : m * (q + 1 + k) = m * (q + 1) + m * k /\ m * k >= 0
    BY <1>1
  <2>2. SUFFICES ASSUME p >= q + 1 PROVE m * p >= m * (q + 1)
    OBVIOUS
  <2>3. p - (q + 1) \in Nat /\ p = q + 1 + (p - (q + 1))
    BY <1>1, <1>2, <2>2
  <2> DEFINE k == p - (q + 1)
  <2>4. k \in Nat /\ p = q + 1 + k
    BY <2>3
  <2> HIDE DEF k
  <2>5. m * p = m * (q + 1) + m * k /\ m * k >= 0
    BY <2>1, <2>4
  <2>6. m * (q + 1) \in Nat /\ m * k \in Nat
    BY <1>1, <2>4
  <2> QED BY <2>5, <2>6
<1>4. q >= p + 1 => m * q >= m * (p + 1)
  <2>1. \A k \in Nat : m * (p + 1 + k) = m * (p + 1) + m * k /\ m * k >= 0
    BY <1>2
  <2>2. SUFFICES ASSUME q >= p + 1 PROVE m * q >= m * (p + 1)
    OBVIOUS
  <2>3. q - (p + 1) \in Nat /\ q = p + 1 + (q - (p + 1))
    BY <1>1, <1>2, <2>2
  <2> DEFINE k == q - (p + 1)
  <2>4. k \in Nat /\ q = p + 1 + k
    BY <2>3
  <2> HIDE DEF k
  <2>5. m * q = m * (p + 1) + m * k /\ m * k >= 0
    BY <2>1, <2>4
  <2>6. m * (p + 1) \in Nat /\ m * k \in Nat
    BY <1>2, <2>4
  <2> QED BY <2>5, <2>6
<1>5. m * (q + 1) = m * q + m /\ m * (p + 1) = m * p + m /\ m * q \in Nat /\ m * p \in Nat
  BY <1>1, <1>2
<1>6. ~(p >= q + 1)
  BY <1>1, <1>2, <1>3, <1>5
<1>7. ~(q >= p + 1)
  BY <1>1, <1>2, <1>4, <1>5
<1> QED BY <1>1, <1>2, <1>6, <1>7

LEMMA AppendAt ==
    ASSUME NEW S, NEW seq \in Seq(S), NEW x \in S
    PROVE  /\ Append(seq, x) \in Seq(S) /\ Len(Append(seq, x)) = Len(seq) + 1
           /\ DOMAIN Append(seq, x) = 1..(Len(seq) + 1)
           /\ \A i \in DOMAIN seq : Append(seq, x)[i] = seq[i]
           /\ Append(seq, x)[Len(seq) + 1] = x
OBVIOUS

LEMMA TailAt ==
    ASSUME NEW S, NEW seq \in Seq(S), seq # <<>>
    PROVE  /\ Tail(seq) \in Seq(S) /\ Len(Tail(seq)) = Len(seq) - 1
           /\ DOMAIN Tail(seq) = 1..(Len(seq) - 1) /\ Len(seq) \in Nat \ {0}
           /\ \A i \in DOMAIN Tail(seq) : Tail(seq)[i] = seq[i + 1] /\ i + 1 \in DOMAIN seq
           /\ Head(seq) = seq[1] /\ 1 \in DOMAIN seq
OBVIOUS

LEMMA TypeFacts ==
    ASSUME Typed
    PROVE  /\ recv_buf[1] \in Cells /\ 1 \in 1..RecvBufSize
           /\ Len(bus) \in Nat /\ DOMAIN bus = 1..Len(bus)
           /\ Len(back) \in Nat /\ DOMAIN back = 1..Len(back)
           /\ \A i \in DOMAIN bus : bus[i] \in Frames
           /\ \A i \in DOMAIN back : back[i] \in FlowStatus
BY SizeAssumption DEF Typed

(* A frame more on the bus, and the order it has to respect.               *)
LEMMA BusAppended ==
    ASSUME Typed, NEW frame \in Frames, bus' = Append(bus, frame)
    PROVE  /\ bus' \in Seq(Frames)
           /\ \A i \in DOMAIN bus' : \/ i \in DOMAIN bus /\ bus'[i] = bus[i]
                                     \/ i = Len(bus) + 1 /\ bus'[i] = frame
           /\ \A i, j \in DOMAIN bus' : i < j => i \in DOMAIN bus /\ bus'[i] = bus[i]
<1>1. bus \in Seq(Frames) /\ Len(bus) \in Nat /\ DOMAIN bus = 1..Len(bus)
  BY TypeFacts DEF Typed
<1>2. /\ bus' \in Seq(Frames) /\ DOMAIN bus' = 1..(Len(bus) + 1)
      /\ \A i \in DOMAIN bus : bus'[i] = bus[i]
      /\ bus'[Len(bus) + 1] = frame
  BY <1>1, AppendAt
<1> QED BY <1>1, <1>2

LEMMA OrderAppended ==
    ASSUME Typed, BusOrder, NEW frame \in Frames, bus' = Append(bus, frame),
           sent' \in Nat, sent <= sent', frame.cell.id <= sent',
           frame.type \in {"SF", "func"} => frame.cell.at = 1 /\ frame.cell.of = 1,
           \A i \in DOMAIN bus :
              /\ frame.type = "CF" => ~Starts(bus[i])
              /\ bus[i].type = "FF" => frame.type = "func"
              /\ bus[i].type = "CF" /\ frame.type = "CF" => bus[i].cell.at < frame.cell.at
              /\ Starts(bus[i]) /\ Starts(frame) => bus[i].cell.id < frame.cell.id
    PROVE  BusOrder'
<1>1. /\ \A i \in DOMAIN bus' : \/ i \in DOMAIN bus /\ bus'[i] = bus[i]
                                \/ i = Len(bus) + 1 /\ bus'[i] = frame
      /\ \A i, j \in DOMAIN bus' : i < j => i \in DOMAIN bus /\ bus'[i] = bus[i]
  BY BusAppended
<1>2. \A i \in DOMAIN bus' :
         /\ bus'[i].cell.id <= sent'
         /\ bus'[i].type \in {"SF", "func"} => bus'[i].cell.at = 1 /\ bus'[i].cell.of = 1
  <2>1. \A i \in DOMAIN bus : bus[i].cell.id <= sent'
    <3>1. \A i \in DOMAIN bus : bus[i].cell.id <= sent /\ bus[i].cell.id \in Nat
      BY TypeFacts DEF BusOrder, Frames
    <3>2. sent \in Nat
      BY BoundAssumption DEF Typed
    <3> QED BY <3>1, <3>2
  <2> QED BY <1>1, <2>1 DEF BusOrder
<1>3. ASSUME NEW i \in DOMAIN bus', NEW j \in DOMAIN bus', i < j
      PROVE /\ bus'[j].type = "CF" => ~Starts(bus'[i])
            /\ bus'[i].type = "FF" => bus'[j].type = "func"
            /\ bus'[i].type = "CF" /\ bus'[j].type = "CF" => bus'[i].cell.at < bus'[j].cell.at
            /\ Starts(bus'[i]) /\ Starts(bus'[j]) => bus'[i].cell.id < bus'[j].cell.id
  <2>1. i \in DOMAIN bus /\ bus'[i] = bus[i]
    BY <1>1, <1>3
  <2>2. CASE j \in DOMAIN bus /\ bus'[j] = bus[j]
    BY <1>3, <2>1, <2>2 DEF BusOrder
  <2>3. CASE bus'[j] = frame
    BY <2>1, <2>3
  <2> QED BY <1>1, <2>2, <2>3
<1> QED BY <1>2, <1>3 DEF BusOrder, Starts

-----------------------------------------------------------------------------
(***************************************************************************)
(* Each action keeps the invariant.                                        *)
(***************************************************************************)
(* A tester that is not held has nothing announced and no answer coming.   *)
LEMMA NotHeld ==
    ASSUME LinkInv, ~Held
    PROVE  /\ ~Answering
           /\ \A i \in DOMAIN bus : bus[i].type # "FF"
           /\ recv.status = "INPROGRESS" => \A i \in DOMAIN bus : bus[i].type = "CF" =>
                ~(bus[i].cell.at = recv.offset + recv.bs_count /\ bus[i].cell.at < recv.size)
<1>1. ~Answering
  BY DEF LinkInv, Answered
<1>2. \A i \in DOMAIN bus : bus[i].type # "FF"
  BY DEF LinkInv, Announced
<1>3. recv.status = "INPROGRESS" => \A i \in DOMAIN bus : bus[i].type = "CF" =>
        ~(bus[i].cell.at = recv.offset + recv.bs_count /\ bus[i].cell.at < recv.size)
  BY DEF LinkInv, Arriving
<1> QED BY <1>1, <1>2, <1>3

LEMMA SendKeeps ==
    ASSUME LinkInv, NEW size \in Sizes, NEW fate \in {"sent", "lost", "error"},
           Send(size, fate)
    PROVE  LinkInv'
<1> DEFINE frame == Frame(IF size = 1 THEN "SF" ELSE "FF", 0, Cell(sent + 1, 1, size))
           started == size # 1 /\ fate # "error"
<1>1. /\ out.status # "INPROGRESS" /\ sent' = sent + 1 /\ sent < MaxMsgs
      /\ UNCHANGED <<back, server, user>>
  BY DEF Send
<1>2. UNCHANGED <<back, recv, func, recv_buf, reader, req, latest>>
  BY <1>1 DEF server, user
<1>3. Typed /\ sent \in Nat /\ sent + 1 \in 1..MaxMsgs /\ size \in Nat \ {0} /\ out \in Senders
      /\ latest \in 0..sent
  BY <1>1, SizeAssumption, BoundAssumption DEF LinkInv, Typed
<1>4. /\ ~Held /\ ~Answering /\ \A i \in DOMAIN bus : bus[i].type # "FF"
      /\ recv.status = "INPROGRESS" => \A i \in DOMAIN bus : bus[i].type = "CF" =>
           ~(bus[i].cell.at = recv.offset + recv.bs_count /\ bus[i].cell.at < recv.size)
  BY <1>1, NotHeld DEF Held
<1>5. /\ frame \in Frames
      /\ frame.type = (IF size = 1 THEN "SF" ELSE "FF")
      /\ frame.cell.id = sent + 1 /\ frame.cell.at = 1 /\ frame.cell.of = size
  BY <1>3 DEF Frame, Cell, Frames
<1>6. /\ bus' = bus \/ bus' = Append(bus, frame)
      /\ fate = "error" => bus' = bus
  BY <1>1 DEF Send, SendSingle, SendFirst, Transmit
<1>7. /\ bus' \in Seq(Frames)
      /\ \A i \in DOMAIN bus' : \/ i \in DOMAIN bus /\ bus'[i] = bus[i]
                                \/ bus'[i] = frame /\ bus' = Append(bus, frame)
  <2>1. bus \in Seq(Frames)
    BY <1>3 DEF Typed
  <2> HIDE DEF frame
  <2> QED BY <2>1, <1>3, <1>5, <1>6, BusAppended
<1>8. /\ out' \in Senders /\ out'.id = sent + 1 /\ out'.size = size
      /\ out'.offset <= out'.size
      /\ IF started
         THEN /\ out'.status = "INPROGRESS" /\ out'.offset = 1 /\ out'.sn = 1 % SnMod
              /\ out'.bs_remain = 0 /\ out'.wtf_count = 0 /\ out'.timer_bs > 0
         ELSE out'.status = out.status
  <2>1. CASE started
    <3>1. out' = [status |-> "INPROGRESS", id |-> sent', size |-> size, offset |-> 1,
                    sn |-> 1 % SnMod, bs_remain |-> 0, wtf_count |-> 0,
                    timer_bs |-> Timeout + 1]
      BY <2>1 DEF Send, SendFirst
    <3>2. 1 % SnMod \in Nat /\ 0 \in 0..BlockSize /\ Timeout + 1 \in Nat \ {0} /\ sent' \in Nat
      BY <1>1, <1>3, FlowAssumption, BoundAssumption
    <3> QED BY <1>1, <1>3, <2>1, <3>1, <3>2 DEF Senders
  <2>2. CASE ~started
    <3>1. out' = [out EXCEPT !.id = sent', !.size = size, !.offset = 0]
      BY <2>2 DEF Send, SendFirst, SendSingle
    <3>2. sent' \in Nat /\ size \in Nat /\ 0 \in Nat /\ sent' = sent + 1
      BY <1>1, <1>3
    <3>3. out' \in Senders
      BY <1>3, <3>1, <3>2 DEF Senders
    <3>4. /\ out'.id = sent + 1 /\ out'.size = size /\ out'.offset = 0
          /\ out'.status = out.status
      BY <1>3, <3>1, <3>2 DEF Senders
    <3>5. 0 <= size
      BY <1>3
    <3> HIDE DEF started
    <3> QED BY <2>2, <3>3, <3>4, <3>5
  <2> QED BY <2>1, <2>2
<1> HIDE DEF frame, started
<1>9. size # 1 => size > 1
  BY <1>3
<1>10. Len(bus) \in Nat /\ DOMAIN bus = 1..Len(bus) /\ \A i \in DOMAIN bus : bus[i] \in Frames
  BY <1>3, TypeFacts
<1>11. started => size # 1
  BY DEF started
<1>12. bus' = Append(bus, frame) /\ size # 1 /\ bus' # bus => started
  BY <1>6 DEF started
<1>13. bus' = Append(bus, frame) => bus' # bus
  <2>1. bus \in Seq(Frames)
    BY <1>3 DEF Typed
  <2>2. bus' = Append(bus, frame) => Len(bus') = Len(bus) + 1
    BY <2>1, <1>5, AppendAt
  <2>3. Len(bus) # Len(bus) + 1
    <3>1. \A n \in Nat : n # n + 1
      OBVIOUS
    <3> QED BY <3>1, <1>10
  <2> QED BY <2>2, <2>3
<1>14. Typed'
  BY <1>1, <1>2, <1>3, <1>7, <1>8 DEF Typed
<1>15. Sending'
  BY <1>1, <1>3, <1>8, <1>9, <1>11 DEF Sending
<1>16. BusOrder'
  <2>1. \A i \in DOMAIN bus : bus[i].cell.id < sent + 1
    BY <1>3, <1>10 DEF LinkInv, BusOrder, Frames
  <2>2. CASE bus' = bus
    <3>1. \A i \in DOMAIN bus : bus[i].cell.id <= sent + 1
      BY <2>1, <1>3, <1>10 DEF Frames
    <3> QED BY <2>2, <3>1, <1>1 DEF LinkInv, BusOrder, Starts
  <2>3. CASE bus' = Append(bus, frame)
    <3>1. /\ sent' \in Nat /\ sent <= sent' /\ frame.cell.id <= sent'
          /\ frame.type \in {"SF", "func"} => frame.cell.at = 1 /\ frame.cell.of = 1
      BY <1>1, <1>3, <1>5
    <3>2. \A i \in DOMAIN bus :
            /\ frame.type # "CF" /\ bus[i].type # "FF"
            /\ bus[i].cell.id < frame.cell.id
      BY <2>1, <1>4, <1>5
    <3>3. BusOrder
      BY DEF LinkInv
    <3> QED BY <2>3, <3>1, <3>2, <3>3, <1>3, <1>5, OrderAppended
  <2> QED BY <1>6, <2>2, <2>3
<1>17. ~Answering'
  BY <1>2, <1>4 DEF Answering
<1>18. Announced'
  <2>1. SUFFICES ASSUME NEW i \in DOMAIN bus', bus'[i].type = "FF"
                 PROVE  /\ Held' /\ ~Answering'
                        /\ out'.id = bus'[i].cell.id /\ out'.size = bus'[i].cell.of
                        /\ out'.offset = 1 /\ bus'[i].cell.at = 1
    BY DEF Announced
  <2>2. bus'[i] = frame /\ bus' = Append(bus, frame)
    BY <2>1, <1>4, <1>7
  <2>3. started
    BY <2>1, <2>2, <1>5, <1>12, <1>13
  <2> QED BY <2>2, <2>3, <1>5, <1>8, <1>17 DEF Held
<1>19. Answered'
  BY <1>1, <1>8, <1>17 DEF Answered
<1>20. Allowed'
  BY <1>1, <1>8 DEF Allowed
<1>21. Arriving'
  <2>1. SUFFICES ASSUME recv.status = "INPROGRESS",
                        NEW i \in DOMAIN bus', bus'[i].type = "CF"
                 PROVE  /\ bus'[i].cell.id = recv_buf[1].id /\ bus'[i].cell.of = recv.size
                        /\ bus'[i].cell.at \in (recv.offset + 1)..(recv.offset + recv.bs_count)
                        /\ bus'[i].cell.at <= recv.size
                        /\ bus'[i].sn = (bus'[i].cell.at - 1) % SnMod
                        /\ ~(bus'[i].cell.at = recv.offset + recv.bs_count
                             /\ bus'[i].cell.at < recv.size)
    BY <1>2 DEF Arriving
  <2>2. i \in DOMAIN bus /\ bus'[i] = bus[i]
    BY <2>1, <1>5, <1>7
  <2> QED BY <2>1, <2>2, <1>4 DEF LinkInv, Arriving
<1>22. Received'
  BY <1>1, <1>2, <1>3 DEF LinkInv, Received
<1>23. InOrder'
  <2>1. recv.status = "INPROGRESS" \/ (recv.status = "FULL" /\ reader = "idle")
          => recv_buf[1].id > latest
    BY DEF LinkInv, InOrder
  <2>2. recv.status # "IDLE" => recv_buf[1].id < sent + 1
    BY <1>3 DEF LinkInv, Received, Typed, Receivers
  <2>3. \A i \in DOMAIN bus' : Starts(bus'[i]) =>
         /\ bus'[i].cell.id > latest
         /\ recv.status # "IDLE" => bus'[i].cell.id > recv_buf[1].id
    <3>1. TAKE i \in DOMAIN bus'
    <3>2. CASE bus'[i] = frame
      <4>1. sent + 1 > latest
        BY <1>3
      <4>2. recv.status # "IDLE" => sent + 1 > recv_buf[1].id
        BY <2>2, <1>3, TypeFacts DEF Cells
      <4> QED BY <3>2, <4>1, <4>2, <1>5
    <3>3. CASE i \in DOMAIN bus /\ bus'[i] = bus[i]
      BY <3>3 DEF LinkInv, InOrder
    <3> QED BY <3>2, <3>3, <1>7
  <2> QED BY <2>1, <2>3, <1>2 DEF InOrder, Starts
<1>24. Evaluated'
  <2>1. \A id \in 1..sent : id \in 1..sent'
    BY <1>1, <1>3
  <2> QED BY <2>1, <1>2 DEF LinkInv, Evaluated
<1> QED BY <1>14, <1>15, <1>16, <1>18, <1>19, <1>20, <1>21, <1>22, <1>23, <1>24 DEF LinkInv

LEMMA SendFunctionalKeeps ==
    ASSUME LinkInv, SendFunctional
    PROVE  LinkInv'
<1> DEFINE frame == Frame("func", 0, Cell(sent + 1, 1, 1))
<1>1. /\ sent' = sent + 1 /\ sent < MaxMsgs /\ bus' = Append(bus, frame)
      /\ UNCHANGED <<out, back, recv, func, recv_buf, reader, req, latest>>
  BY DEF SendFunctional, Transmit, server, user
<1>2. Typed /\ BusOrder /\ sent \in Nat /\ sent + 1 \in 1..MaxMsgs /\ latest \in 0..sent
  BY <1>1, BoundAssumption DEF LinkInv, Typed
<1>3. /\ frame \in Frames /\ frame.type = "func" /\ frame.cell.id = sent + 1
      /\ frame.cell.at = 1 /\ frame.cell.of = 1
  BY <1>2 DEF Frame, Cell, Frames
<1> HIDE DEF frame
<1>4. /\ bus' \in Seq(Frames)
      /\ \A i \in DOMAIN bus' : \/ i \in DOMAIN bus /\ bus'[i] = bus[i]
                                \/ bus'[i] = frame
  BY <1>1, <1>2, <1>3, BusAppended
<1>5. Typed'
  BY <1>1, <1>2, <1>4 DEF Typed
<1>6. Sending'
  BY <1>1, <1>2 DEF LinkInv, Sending, Typed, Senders
<1>7. BusOrder'
  <2>1. /\ sent' \in Nat /\ sent <= sent' /\ frame.cell.id <= sent' /\ ~Starts(frame)
        /\ frame.type = "func"
    BY <1>1, <1>2, <1>3 DEF Starts
  <2> QED BY <2>1, <1>1, <1>2, <1>3, OrderAppended
<1>8. Announced'
  BY <1>1, <1>3, <1>4 DEF LinkInv, Announced, Held, Answering
<1>9. Answered'
  <2>1. Clear => Clear'
    BY <1>3, <1>4 DEF Clear
  <2> QED BY <2>1, <1>1 DEF LinkInv, Answered, Held, Answering, Refusing, Granting, SameMessage
<1>10. NoStart => NoStart'
  BY <1>3, <1>4 DEF NoStart, Starts
<1>11. Allowed'
  BY <1>1, <1>3, <1>4, <1>10 DEF LinkInv, Allowed, Answering, SameMessage
<1>12. Arriving'
  BY <1>1, <1>3, <1>4, <1>10 DEF LinkInv, Arriving, Held, SameMessage
<1>13. Received'
  BY <1>1, <1>2 DEF LinkInv, Received
<1>14. InOrder'
  BY <1>1, <1>3, <1>4 DEF LinkInv, InOrder, Starts
<1>15. Evaluated'
  <2>1. \A id \in 1..sent : id \in 1..sent'
    BY <1>1, <1>2
  <2> QED BY <2>1, <1>1 DEF LinkInv, Evaluated
<1> QED BY <1>5, <1>6, <1>7, <1>8, <1>9, <1>11, <1>12, <1>13, <1>14, <1>15 DEF LinkInv

(* The tester gives up: nobody waits for it.                               *)
LEMMA GivesUpKeeps ==
    ASSUME LinkInv, ~Held, out' = [out EXCEPT !.status = "ERROR"],
           UNCHANGED <<sent, bus, back, recv, func, recv_buf, reader, req, latest>>
    PROVE  LinkInv'
<1>1. /\ ~Answering /\ \A i \in DOMAIN bus : bus[i].type # "FF"
      /\ recv.status = "INPROGRESS" => \A i \in DOMAIN bus : bus[i].type = "CF" =>
           ~(bus[i].cell.at = recv.offset + recv.bs_count /\ bus[i].cell.at < recv.size)
  BY NotHeld
<1>2. out' \in Senders /\ out'.status = "ERROR" /\ out'.id = out.id
      /\ out'.size = out.size /\ out'.offset = out.offset
  BY DEF LinkInv, Typed, Senders
<1>3. Typed'
  BY <1>2 DEF LinkInv, Typed
<1>4. Sending'
  BY <1>2 DEF LinkInv, Sending
<1>5. BusOrder'
  BY DEF LinkInv, BusOrder, Starts
<1>6. Announced'
  BY <1>1 DEF Announced
<1>7. Answered'
  BY <1>1, <1>2 DEF Answered, Answering
<1>8. Allowed'
  BY <1>2 DEF Allowed
<1>9. Arriving'
  BY <1>1 DEF LinkInv, Arriving
<1>10. Received' /\ InOrder' /\ Evaluated'
  BY DEF LinkInv, Received, InOrder, Evaluated, Starts
<1> QED BY <1>3, <1>4, <1>5, <1>6, <1>7, <1>8, <1>9, <1>10 DEF LinkInv

LEMMA SendConsecutiveKeeps ==
    ASSUME LinkInv, NEW fate \in {"sent", "lost"},
           out.status = "INPROGRESS", out.bs_remain > 0, SendConsecutive(fate),
           UNCHANGED <<sent, back, recv, func, recv_buf, reader, req, latest>>
    PROVE  LinkInv'
<1> DEFINE frame == Frame("CF", out.sn, Cell(out.id, out.offset + 1, out.size))
<1>1. /\ Typed /\ BusOrder /\ out \in Senders /\ recv \in Receivers
      /\ out.offset \in 1..(out.size - 1) /\ out.sn = out.offset % SnMod
      /\ out.id \in 1..sent /\ sent \in 0..MaxMsgs
  BY DEF LinkInv, Typed, Sending
<1>2. ~Held
  BY <1>1 DEF Held, Senders
<1>3. /\ ~Answering /\ \A i \in DOMAIN bus : bus[i].type # "FF"
      /\ recv.status = "INPROGRESS" => \A i \in DOMAIN bus : bus[i].type = "CF" =>
           ~(bus[i].cell.at = recv.offset + recv.bs_count /\ bus[i].cell.at < recv.size)
  BY <1>2, NotHeld
<1>4. /\ NoStart
      /\ \A i \in DOMAIN bus : bus[i].type = "CF" => bus[i].cell.at <= out.offset
      /\ recv.status = "INPROGRESS" =>
             /\ SameMessage /\ recv.offset <= out.offset
             /\ out.offset + out.bs_remain <= recv.offset + recv.bs_count
  BY DEF LinkInv, Allowed
<1>5. /\ frame \in Frames /\ frame.type = "CF" /\ frame.sn = out.sn
      /\ frame.cell.id = out.id /\ frame.cell.at = out.offset + 1 /\ frame.cell.of = out.size
  <2>1. /\ out.id \in 1..MaxMsgs /\ out.offset + 1 \in Nat \ {0} /\ out.size \in Nat \ {0}
        /\ out.sn \in Nat
    BY <1>1, BoundAssumption DEF Senders
  <2> QED BY <2>1 DEF Frame, Cell, Frames
<1>6. bus' = IF fate = "sent" THEN Append(bus, frame) ELSE bus
  BY DEF SendConsecutive, Transmit
<1> HIDE DEF frame
<1>7. /\ bus' \in Seq(Frames)
      /\ \A i \in DOMAIN bus' : \/ i \in DOMAIN bus /\ bus'[i] = bus[i]
                                \/ bus'[i] = frame
  BY <1>1, <1>5, <1>6, BusAppended DEF Typed
<1>8. /\ out' \in Senders /\ out'.id = out.id /\ out'.size = out.size
      /\ out'.offset = out.offset + 1 /\ out'.sn = (out.sn + 1) % SnMod
      /\ out'.bs_remain = out.bs_remain - 1 /\ out'.timer_bs > 0
      /\ out'.wtf_count = out.wtf_count
      /\ out'.status = (IF out.offset + 1 >= out.size THEN "IDLE" ELSE "INPROGRESS")
  <2>1. out' = AfterConsecutive(out.bs_remain - 1)
    BY DEF SendConsecutive
  <2>2. /\ out.offset + 1 \in Nat /\ (out.sn + 1) % SnMod \in Nat
        /\ out.bs_remain - 1 \in 0..BlockSize /\ Timeout + 1 \in Nat \ {0}
    BY <1>1, FlowAssumption, BoundAssumption DEF Senders
  <2>3. out' \in Senders
    BY <1>1, <2>1, <2>2 DEF AfterConsecutive, Senders
  <2> QED BY <1>1, <2>1, <2>2, <2>3 DEF AfterConsecutive, Senders
<1>9. Typed'
  BY <1>1, <1>7, <1>8 DEF Typed
<1>10. Sending'
  <2>1. (out.sn + 1) % SnMod = (out.offset + 1) % SnMod
    BY <1>1, ModSucc, FlowAssumption
  <2> QED BY <1>1, <1>8, <2>1 DEF Sending, Senders
<1>11. BusOrder'
  <2>1. CASE fate = "sent"
    <3>1. sent' \in Nat /\ sent <= sent' /\ frame.cell.id <= sent'
      BY <1>1, <1>5
    <3>2. \A i \in DOMAIN bus :
            /\ ~Starts(bus[i]) /\ bus[i].type # "FF"
            /\ bus[i].type = "CF" => bus[i].cell.at < frame.cell.at
      <4>1. \A i \in DOMAIN bus : bus[i].cell.at \in Nat
        BY <1>1, TypeFacts DEF Frames
      <4> QED BY <1>1, <1>3, <1>4, <1>5, <4>1 DEF NoStart, Senders
    <3> QED BY <2>1, <1>1, <1>5, <1>6, <3>1, <3>2, OrderAppended
  <2>2. CASE fate = "lost"
    BY <2>2, <1>1, <1>6 DEF BusOrder, Starts
  <2> QED BY <2>1, <2>2
<1>12. Announced'
  BY <1>3, <1>5, <1>7 DEF Announced
<1>13. Answered'
  BY <1>3, <1>8 DEF LinkInv, Answered, Answering
<1>14. NoStart'
  BY <1>4, <1>5, <1>7 DEF NoStart, Starts
<1>15. Allowed'
  <2>1. \A i \in DOMAIN bus' : bus'[i].type = "CF" => bus'[i].cell.at <= out'.offset
    <3>1. \A i \in DOMAIN bus : bus[i].cell.at \in Nat
      BY <1>1, TypeFacts DEF Frames
    <3>2. out.offset \in Nat
      BY <1>1
    <3>3. \A i \in DOMAIN bus : bus[i].type = "CF" => bus[i].cell.at <= out'.offset
      BY <1>4, <1>8, <3>1, <3>2
    <3>4. frame.cell.at <= out'.offset
      BY <1>5, <1>8, <3>2
    <3> QED BY <1>7, <3>3, <3>4
  <2>2. recv.status = "INPROGRESS" =>
             /\ SameMessage' /\ recv.offset <= out'.offset
             /\ out'.offset + out'.bs_remain <= recv.offset + recv.bs_count
    BY <1>1, <1>4, <1>8 DEF SameMessage, Senders, Receivers
  <2> QED BY <1>3, <1>14, <2>1, <2>2 DEF Allowed, Answering
<1>16. Arriving'
  <2>1. SUFFICES ASSUME recv.status = "INPROGRESS",
                        NEW i \in DOMAIN bus', bus'[i].type = "CF"
                 PROVE  /\ bus'[i].cell.id = recv_buf[1].id /\ bus'[i].cell.of = recv.size
                        /\ bus'[i].cell.at \in (recv.offset + 1)..(recv.offset + recv.bs_count)
                        /\ bus'[i].cell.at <= recv.size
                        /\ bus'[i].sn = (bus'[i].cell.at - 1) % SnMod
                        /\ bus'[i].cell.at = recv.offset + recv.bs_count
                             /\ bus'[i].cell.at < recv.size
                           => /\ Held' /\ NoStart' /\ SameMessage'
                              /\ out'.offset = bus'[i].cell.at
    BY DEF Arriving
  <2>2. CASE i \in DOMAIN bus /\ bus'[i] = bus[i]
    BY <2>1, <2>2, <1>3 DEF LinkInv, Arriving
  <2>3. CASE bus'[i] = frame
    <3>1. /\ recv_buf[1].id = out.id /\ recv.size = out.size
          /\ SameMessage'
      BY <1>4, <1>8, <2>1 DEF SameMessage
    <3>2. /\ out.offset + 1 \in (recv.offset + 1)..(recv.offset + recv.bs_count)
          /\ out.offset + 1 <= out.size
          /\ out.sn = ((out.offset + 1) - 1) % SnMod
      BY <1>1, <1>4, <2>1 DEF Senders, Receivers
    <3>3. ASSUME out.offset + 1 = recv.offset + recv.bs_count, out.offset + 1 < recv.size
          PROVE  Held'
      BY <1>1, <1>4, <1>8, <2>1, <3>1, <3>3 DEF Senders, Receivers, Held
    <3> QED BY <1>5, <1>8, <1>14, <2>3, <3>1, <3>2, <3>3
  <2> QED BY <1>7, <2>2, <2>3
<1>17. Received'
  BY DEF LinkInv, Received
<1>18. InOrder'
  BY <1>5, <1>7 DEF LinkInv, InOrder, Starts
<1>19. Evaluated'
  BY DEF LinkInv, Evaluated
<1> QED BY <1>9, <1>10, <1>11, <1>12, <1>13, <1>15, <1>16, <1>17, <1>18, <1>19 DEF LinkInv

LEMMA PollSendKeeps ==
    ASSUME LinkInv, NEW fate \in {"sent", "lost", "error"}, PollSend(fate)
    PROVE  LinkInv'
<1>1. /\ out.status = "INPROGRESS" /\ out \in Senders
      /\ UNCHANGED <<sent, back, recv, func, recv_buf, reader, req, latest>>
  BY DEF PollSend, server, user, LinkInv, Typed
<1>2. CASE out.bs_remain > 0 /\ fate # "error"
  BY <1>1, <1>2, SendConsecutiveKeeps DEF PollSend
<1>3. CASE out.bs_remain > 0 /\ fate = "error"
  <2>1. ~Held
    BY <1>1, <1>3 DEF Held, Senders
  <2>2. bus' = bus /\ out' = [out EXCEPT !.status = "ERROR"]
    BY <1>3 DEF PollSend, SendConsecutive, Transmit
  <2> QED BY <1>1, <2>1, <2>2, GivesUpKeeps
<1>4. CASE ~(out.bs_remain > 0)
  <2>1. ~Held
    BY <1>1, <1>4 DEF Held, PollSend
  <2>2. bus' = bus /\ out' = [out EXCEPT !.status = "ERROR"]
    BY <1>4 DEF PollSend
  <2> QED BY <1>1, <2>1, <2>2, GivesUpKeeps
<1> QED BY <1>2, <1>3, <1>4

LEMMA OnFlowControlKeeps ==
    ASSUME LinkInv, OnFlowControl
    PROVE  LinkInv'
<1>1. /\ back # <<>> /\ back' = Tail(back)
      /\ UNCHANGED <<sent, bus, recv, func, recv_buf, reader, req, latest>>
  BY DEF OnFlowControl, server, user
<1>2. /\ Typed /\ out \in Senders /\ recv \in Receivers /\ back \in Seq(FlowStatus)
  BY DEF LinkInv, Typed
<1>3. Held /\ Clear /\ (Refusing \/ Granting)
  BY <1>1 DEF LinkInv, Answered, Answering
<1>4. out.status = "INPROGRESS" /\ out.bs_remain = 0 /\ out' = AfterFlowControl(Head(back))
  BY <1>1, <1>3 DEF OnFlowControl, Held
<1>5. /\ back' \in Seq(FlowStatus) /\ Len(back') = Len(back) - 1
      /\ DOMAIN back' = 1..(Len(back) - 1) /\ DOMAIN back = 1..Len(back)
      /\ Len(back) \in Nat \ {0}
      /\ \A i \in DOMAIN back' : back'[i] = back[i + 1] /\ i + 1 \in DOMAIN back
      /\ Head(back) = back[1] /\ 1 \in DOMAIN back /\ Head(back) \in FlowStatus
  BY <1>1, <1>2, TailAt
<1>6. /\ out' \in Senders /\ out'.id = out.id /\ out'.size = out.size
      /\ out'.offset = out.offset /\ out'.sn = out.sn /\ out'.timer_bs > 0
      /\ Head(back) = "OVERFLOW" => out'.status = "ERROR"
      /\ Head(back) = "CONTINUE" =>
           out'.status = "INPROGRESS" /\ out'.bs_remain = BlockSize /\ out'.wtf_count = 0
      /\ Head(back) = "WAIT" =>
           /\ out'.bs_remain = 0 /\ out'.wtf_count = out.wtf_count + 1
           /\ out'.status = IF out.wtf_count + 1 > MaxWft THEN "ERROR" ELSE "INPROGRESS"
  <2> DEFINE refreshed == [out EXCEPT !.timer_bs = Timeout + 1]
  <2>1. Timeout + 1 \in Nat \ {0} /\ BlockSize \in 0..BlockSize /\ out.wtf_count + 1 \in Nat
        /\ 0 \in Nat
    BY <1>2, BoundAssumption, FlowAssumption DEF Senders
  <2>2. /\ refreshed \in Senders /\ refreshed.id = out.id /\ refreshed.size = out.size
        /\ refreshed.offset = out.offset /\ refreshed.sn = out.sn
        /\ refreshed.bs_remain = 0 /\ refreshed.wtf_count = out.wtf_count
        /\ refreshed.status = "INPROGRESS" /\ refreshed.timer_bs > 0
    BY <1>2, <1>4, <2>1, SMTT(30) DEF Senders
  <2>3. out' = IF Head(back) = "OVERFLOW" THEN [refreshed EXCEPT !.status = "ERROR"]
               ELSE IF Head(back) = "CONTINUE"
               THEN [refreshed EXCEPT !.bs_remain = BlockSize, !.wtf_count = 0]
               ELSE [refreshed EXCEPT !.wtf_count = @ + 1,
                  !.status = IF out.wtf_count + 1 > MaxWft THEN "ERROR" ELSE @]
    BY <1>4 DEF AfterFlowControl
  <2> HIDE DEF refreshed
  <2>4. CASE Head(back) = "OVERFLOW"
    BY <2>2, <2>3, <2>4 DEF Senders
  <2>5. CASE Head(back) = "CONTINUE"
    BY <2>1, <2>2, <2>3, <2>5 DEF Senders
  <2>6. CASE Head(back) = "WAIT"
    BY <2>1, <2>2, <2>3, <2>6 DEF Senders
  <2> QED BY <1>5, <2>4, <2>5, <2>6 DEF FlowStatus
<1>7. Typed'
  BY <1>1, <1>2, <1>5, <1>6 DEF Typed
<1>8. Sending'
  BY <1>1, <1>4, <1>6 DEF LinkInv, Sending
<1>9. BusOrder' /\ Received' /\ InOrder' /\ Evaluated'
  BY <1>1 DEF LinkInv, BusOrder, Received, InOrder, Evaluated, Starts
<1>10. Clear' /\ NoStart'
  BY <1>1, <1>3 DEF Clear, NoStart, Starts
<1>11. Announced' /\ Arriving'
  BY <1>10 DEF Announced, Arriving, Clear
<1>12. Answered' /\ Allowed'
  <2>1. CASE Refusing
    <3>1. back' = <<>> /\ recv.waiting = 0 /\ Head(back) = "OVERFLOW"
      BY <2>1, <1>1 DEF Refusing
    <3> QED BY <3>1, <1>1, <1>6 DEF Answered, Answering, Allowed
  <2>2. CASE Granting /\ recv.waiting > 0
    <3>1. Head(back) = "WAIT" /\ out.wtf_count + Len(back) = recv.waiting /\ recv.waiting <= MaxWft
      BY <2>2, <1>5 DEF Granting
    <3>2. out.wtf_count + 1 <= MaxWft
      <4>1. out.wtf_count \in Nat /\ recv.waiting \in Nat /\ MaxWft \in Nat
        BY <1>2, FlowAssumption DEF Senders, Receivers
      <4>2. out.wtf_count + Len(back) <= MaxWft
        BY <3>1
      <4> QED BY <4>1, <4>2, <1>5
    <3>3. /\ out'.status = "INPROGRESS" /\ out'.bs_remain = 0
          /\ out'.wtf_count = out.wtf_count + 1
      BY <1>2, <1>6, <3>1, <3>2, FlowAssumption DEF Senders
    <3>4. \A i \in DOMAIN back' : back'[i] = "WAIT"
      BY <1>5, <2>2 DEF Granting
    <3>5. out'.wtf_count + Len(back') = recv.waiting
      BY <1>2, <1>5, <3>1, <3>3 DEF Senders
    <3>6. Granting'
      BY <1>1, <1>6, <2>2, <3>4, <3>5 DEF Granting, SameMessage
    <3>7. Held' /\ Answering'
      BY <1>1, <1>6, <2>2, <3>3 DEF Held, Answering
    <3> QED BY <1>10, <3>3, <3>6, <3>7 DEF Answered, Allowed
  <2>3. CASE Granting /\ ~(recv.waiting > 0) /\ Len(back) = 1
    <3>1. Head(back) = "CONTINUE"
      BY <2>3, <1>5 DEF Granting
    <3>2. back' = <<>>
      <4>1. Len(back') = 0
        BY <2>3, <1>5
      <4> QED BY <4>1, <1>5, EmptySeq, Zenon
    <3>3. ~Answering'
      BY <1>1, <2>3, <3>2 DEF Answering
    <3>4. SameMessage' /\ recv.offset <= out'.offset
          /\ out'.offset + out'.bs_remain <= recv.offset + recv.bs_count
      BY <1>1, <1>2, <1>6, <2>3, <3>1, FlowAssumption, SMTT(30) DEF Granting, SameMessage, Senders, Receivers
    <3>5. \A i \in DOMAIN bus' : bus'[i].type # "CF"
      BY <1>10 DEF Clear
    <3> QED BY <1>1, <1>6, <1>10, <3>1, <3>3, <3>4, <3>5 DEF Answered, Allowed
  <2>4. CASE Granting /\ ~(recv.waiting > 0) /\ Len(back) # 1
    <3>1. Head(back) = "WAIT" /\ out.wtf_count + Len(back) <= MaxWft + 1 /\ Len(back) > 1
      BY <2>4, <1>5 DEF Granting
    <3>2. out.wtf_count + 1 <= MaxWft
      BY <3>1, <1>2, <1>5, FlowAssumption DEF Senders
    <3>3. /\ out'.status = "INPROGRESS" /\ out'.bs_remain = 0
          /\ out'.wtf_count = out.wtf_count + 1
      BY <1>2, <1>6, <3>1, <3>2, FlowAssumption DEF Senders
    <3>4. \A i \in DOMAIN back' : back'[i] = (IF i = Len(back') THEN "CONTINUE" ELSE "WAIT")
      BY <1>5, <2>4 DEF Granting
    <3>5. out'.wtf_count + Len(back') <= MaxWft + 1
      BY <1>2, <1>5, <3>1, <3>3, FlowAssumption DEF Senders
    <3>6. Granting'
      BY <1>1, <1>6, <2>4, <3>4, <3>5 DEF Granting, SameMessage
    <3>7. Held' /\ Answering'
      <4>1. back' # <<>>
        BY <1>5, <3>1
      <4> QED BY <1>1, <1>6, <3>3, <4>1 DEF Held, Answering
    <3> QED BY <1>10, <3>3, <3>6, <3>7 DEF Answered, Allowed
  <2> QED BY <1>3, <2>1, <2>2, <2>3, <2>4
<1> QED BY <1>7, <1>8, <1>9, <1>11, <1>12 DEF LinkInv

(* A frame less on the bus.                                                *)
LEMMA BusTail ==
    ASSUME LinkInv, bus # <<>>, bus' = Tail(bus), sent' = sent
    PROVE  /\ bus' \in Seq(Frames) /\ BusOrder'
           /\ Head(bus) = bus[1] /\ 1 \in DOMAIN bus /\ Head(bus) \in Frames
           /\ \A i \in DOMAIN bus' :
                bus'[i] = bus[i + 1] /\ i + 1 \in DOMAIN bus /\ 1 < i + 1
<1>1. bus \in Seq(Frames) /\ BusOrder
  BY DEF LinkInv, Typed
<1>2. /\ bus' \in Seq(Frames) /\ DOMAIN bus' = 1..(Len(bus) - 1) /\ Len(bus) \in Nat \ {0}
      /\ \A i \in DOMAIN bus' : bus'[i] = bus[i + 1] /\ i + 1 \in DOMAIN bus
      /\ Head(bus) = bus[1] /\ 1 \in DOMAIN bus /\ Head(bus) \in Frames
  BY <1>1, TailAt
<1>3. \A i \in DOMAIN bus' : 1 < i + 1
  BY <1>2
<1>4. \A i, j \in DOMAIN bus' : i < j => i + 1 < j + 1
  BY <1>2
<1>5. BusOrder'
  BY <1>1, <1>2, <1>4 DEF BusOrder, Starts
<1> QED BY <1>2, <1>3, <1>5

LEMMA IgnoredKeeps ==
    ASSUME LinkInv, bus # <<>>, bus' = Tail(bus),
           UNCHANGED <<out, sent, back, recv, reader, req, latest>>,
           func' \in [status : {"IDLE", "FULL"}, size : 0..1],
           recv_buf' \in [1..RecvBufSize -> Cells],
           recv.status = "IDLE" \/ recv_buf' = recv_buf
    PROVE  LinkInv'
<1>1. /\ bus' \in Seq(Frames) /\ BusOrder'
      /\ \A i \in DOMAIN bus' : bus'[i] = bus[i + 1] /\ i + 1 \in DOMAIN bus
  BY BusTail
<1>2. Typed'
  BY <1>1 DEF LinkInv, Typed
<1>3. Sending' /\ Evaluated'
  BY DEF LinkInv, Sending, Evaluated
<1>4. Announced'
  BY <1>1 DEF LinkInv, Announced, Held, Answering
<1>5. (Clear => Clear') /\ (NoStart => NoStart')
  BY <1>1 DEF Clear, NoStart, Starts
<1>6. Answered'
  <2>1. Granting => Granting'
    BY DEF Granting, SameMessage
  <2> QED BY <1>5, <2>1 DEF LinkInv, Answered, Answering, Held, Refusing
<1>7. Allowed'
  <2>1. CASE recv.status = "IDLE"
    BY <1>1, <1>5, <2>1 DEF LinkInv, Allowed, Answering
  <2>2. CASE recv_buf' = recv_buf
    BY <1>1, <1>5, <2>2 DEF LinkInv, Allowed, Answering, SameMessage
  <2> QED BY <2>1, <2>2
<1>8. Arriving'
  <2>1. CASE recv.status = "IDLE"
    BY <2>1 DEF Arriving
  <2>2. CASE recv_buf' = recv_buf
    BY <1>1, <1>5, <2>2 DEF LinkInv, Arriving, Held, SameMessage
  <2> QED BY <2>1, <2>2
<1>9. Received'
  BY DEF LinkInv, Received
<1>10. InOrder'
  BY <1>1 DEF LinkInv, InOrder, Starts
<1> QED BY <1>1, <1>2, <1>3, <1>4, <1>6, <1>7, <1>8, <1>9, <1>10 DEF LinkInv

(* The receiver is done with its message, or gives it up.                  *)
LEMMA ReceiverStopsKeeps ==
    ASSUME LinkInv, bus # <<>>, bus' = Tail(bus), ~Answering,
           UNCHANGED <<out, sent, back, func, reader, req, latest>>,
           recv' \in Receivers, recv'.status = "IDLE", recv'.waiting = 0,
           recv_buf' = recv_buf
    PROVE  LinkInv'
<1>1. /\ bus' \in Seq(Frames) /\ BusOrder'
      /\ \A i \in DOMAIN bus' : bus'[i] = bus[i + 1] /\ i + 1 \in DOMAIN bus
  BY BusTail
<1>2. ~Answering'
  BY DEF Answering
<1>3. Typed'
  BY <1>1 DEF LinkInv, Typed
<1>4. Sending' /\ Evaluated'
  BY DEF LinkInv, Sending, Evaluated
<1>5. Announced'
  BY <1>1, <1>2 DEF LinkInv, Announced, Held
<1>6. Answered'
  BY <1>2 DEF LinkInv, Answered
<1>7. Allowed'
  BY <1>1, <1>2 DEF LinkInv, Allowed, NoStart, Starts
<1>8. Arriving' /\ Received'
  BY DEF Arriving, Received
<1>9. InOrder'
  BY <1>1 DEF LinkInv, InOrder, Starts
<1> QED BY <1>1, <1>3, <1>4, <1>5, <1>6, <1>7, <1>8, <1>9 DEF LinkInv

LEMMA OnSingleKeeps ==
    ASSUME LinkInv, bus # <<>>, bus' = Tail(bus), Head(bus).type = "SF",
           NEW fate, OnSingle(Head(bus).cell, fate),
           UNCHANGED <<out, sent, func, reader, req, latest>>
    PROVE  LinkInv'
<1>1. /\ bus' \in Seq(Frames) /\ BusOrder'
      /\ Head(bus) = bus[1] /\ 1 \in DOMAIN bus /\ Head(bus) \in Frames
      /\ \A i \in DOMAIN bus' : bus'[i] = bus[i + 1] /\ i + 1 \in DOMAIN bus /\ 1 < i + 1
  BY BusTail
<1> DEFINE cell == Head(bus).cell
<1>2. /\ back' = back
      /\ recv_buf' = [recv_buf EXCEPT ![1] = cell]
      /\ recv' = [recv EXCEPT !.status = "FULL", !.size = 1, !.waiting = 0]
  BY DEF OnSingle, NoFlowControl
<1>3. /\ cell.id \in 1..sent /\ cell \in Cells /\ cell = Cell(cell.id, 1, 1)
      /\ cell.id > latest
  <2>1. cell.id <= sent /\ cell.at = 1 /\ cell.of = 1 /\ cell.id > latest
    BY <1>1 DEF LinkInv, BusOrder, InOrder, Starts
  <2>2. cell \in [id : 1..MaxMsgs, at : Nat \ {0}, of : Nat \ {0}]
    BY <1>1 DEF Frames
  <2>3. sent \in 0..MaxMsgs /\ 1 \in 0..RecvBufSize
    BY SizeAssumption DEF LinkInv, Typed
  <2> HIDE DEF cell
  <2>4. cell.id \in 1..sent /\ cell.id \in 0..MaxMsgs
    BY <2>1, <2>2, <2>3, BoundAssumption
  <2>5. cell = [id |-> cell.id, at |-> 1, of |-> 1]
    BY <2>1, <2>2
  <2> QED BY <2>1, <2>3, <2>4, <2>5 DEF Cells, Cell
<1> HIDE DEF cell
<1>4. recv' \in Receivers /\ recv'.status = "FULL" /\ recv'.size = 1 /\ recv'.waiting = 0
  <2>1. 1 \in 0..RecvBufSize /\ 0 \in Nat /\ recv \in Receivers
    BY SizeAssumption DEF LinkInv, Typed
  <2> QED BY <1>2, <2>1 DEF Receivers
<1>5. recv_buf' \in [1..RecvBufSize -> Cells] /\ recv_buf'[1] = cell
  <2>1. 1 \in 1..RecvBufSize /\ recv_buf \in [1..RecvBufSize -> Cells]
    BY SizeAssumption DEF LinkInv, Typed
  <2> QED BY <1>2, <1>3, <2>1
<1>6. ~Answering
  BY <1>1 DEF LinkInv, Answered, Clear
<1>7. ~Answering'
  BY <1>2, <1>4, <1>6 DEF Answering
<1>8. Typed'
  BY <1>1, <1>2, <1>4, <1>5 DEF LinkInv, Typed
<1>9. Sending' /\ Evaluated'
  BY DEF LinkInv, Sending, Evaluated
<1>10. Announced'
  BY <1>1, <1>7 DEF LinkInv, Announced, Held
<1>11. Answered'
  BY <1>6, <1>7 DEF LinkInv, Answered
<1>12. Allowed'
  BY <1>1 DEF LinkInv, Allowed, NoStart, Starts
<1>13. Arriving'
  BY <1>4 DEF Arriving
<1>14. Received'
  <2>1. \A i \in 1..1 : i = 1
    OBVIOUS
  <2> QED BY <1>3, <1>4, <1>5, <2>1 DEF Received
<1>15. InOrder'
  <2>1. \A i \in DOMAIN bus' : Starts(bus'[i]) => bus'[i].cell.id > latest
    BY <1>1 DEF LinkInv, InOrder
  <2>2. \A i \in DOMAIN bus' : Starts(bus'[i]) => bus'[i].cell.id > cell.id
    <3>1. TAKE i \in DOMAIN bus'
    <3>2. Starts(bus[i + 1]) => bus[1].cell.id < bus[i + 1].cell.id
      BY <1>1 DEF LinkInv, BusOrder, Starts
    <3>3. bus[i + 1].cell.id \in Nat /\ cell.id \in Nat
      BY <1>1, <1>3, TypeFacts, SMTT(30) DEF LinkInv, Frames, Cells
    <3> QED BY <1>1, <3>2, <3>3 DEF cell
  <2> QED BY <2>1, <2>2, <1>3, <1>4, <1>5 DEF InOrder, Starts
<1> QED BY <1>1, <1>8, <1>9, <1>10, <1>11, <1>12, <1>13, <1>14, <1>15 DEF LinkInv

(* The receiver answers a first frame, or the last frame of a block.       *)
LEMMA GrantAnswers ==
    ASSUME Typed, Held, back = <<>>, out.wtf_count = 0, out' = out, Clear',
           NEW fate \in {"sent", "lost", "wait"}, FlowControl("CONTINUE", fate),
           recv' \in Receivers, recv'.status = "INPROGRESS", SameMessage',
           recv'.offset = out'.offset, recv'.bs_count = BlockSize, recv'.timer_cr > 0,
           recv'.waiting = Waiting(fate)
    PROVE  Answered' /\ back' \in Seq(FlowStatus)
<1>1. CASE fate = "lost"
  <2>1. back' = <<>> /\ recv'.waiting = 0
    BY <1>1 DEF FlowControl, Waiting
  <2> QED BY <2>1 DEF Answered, Answering
<1>2. CASE fate = "sent"
  <2>1. back' = <<"CONTINUE">> /\ recv'.waiting = 0
    BY <1>2 DEF FlowControl, Waiting
  <2>2. /\ Len(back') = 1 /\ DOMAIN back' = 1..1 /\ back'[1] = "CONTINUE"
        /\ back' \in Seq(FlowStatus)
    BY <2>1 DEF FlowStatus
  <2>3. \A i \in DOMAIN back' : back'[i] = (IF i = Len(back') THEN "CONTINUE" ELSE "WAIT")
    <3>1. \A i \in 1..1 : i = 1
      OBVIOUS
    <3> QED BY <2>2, <3>1
  <2>4. 0 <= MaxWft /\ 0 + 1 <= MaxWft + 1
    BY FlowAssumption
  <2>5. Granting'
    BY <2>1, <2>2, <2>3, <2>4 DEF Granting
  <2> QED BY <2>2, <2>5 DEF Answered, Answering, Held
<1>3. CASE fate = "wait"
  <2>1. back' = <<"WAIT">> /\ recv'.waiting = 1 /\ MaxWft > 0
    BY <1>3 DEF FlowControl, Waiting
  <2>2. /\ Len(back') = 1 /\ DOMAIN back' = 1..1 /\ back'[1] = "WAIT"
        /\ back' \in Seq(FlowStatus)
    BY <2>1 DEF FlowStatus
  <2>3. \A i \in DOMAIN back' : back'[i] = "WAIT"
    <3>1. \A i \in 1..1 : i = 1
      OBVIOUS
    <3> QED BY <2>2, <3>1
  <2>4. 1 <= MaxWft /\ 0 + 1 = 1 /\ 1 > 0
    BY <2>1, FlowAssumption
  <2>5. Granting'
    BY <2>1, <2>2, <2>3, <2>4 DEF Granting
  <2>6. Answering'
    BY <2>1, <2>4 DEF Answering
  <2> QED BY <2>2, <2>5, <2>6 DEF Answered, Held
<1> QED BY <1>1, <1>2, <1>3

LEMMA StartMessageKeeps ==
    ASSUME LinkInv, bus # <<>>, bus' = Tail(bus), Head(bus).type = "FF",
           NEW fate \in {"sent", "lost", "wait"}, StartMessage(Head(bus).cell, fate),
           ~(Head(bus).cell.of > RecvBufSize),
           UNCHANGED <<out, sent, func, reader, req, latest>>
    PROVE  LinkInv'
<1>1. /\ bus' \in Seq(Frames) /\ BusOrder'
      /\ Head(bus) = bus[1] /\ 1 \in DOMAIN bus /\ Head(bus) \in Frames
      /\ \A i \in DOMAIN bus' : bus'[i] = bus[i + 1] /\ i + 1 \in DOMAIN bus /\ 1 < i + 1
  BY BusTail
<1> DEFINE cell == Head(bus).cell
<1>2. /\ recv_buf' = [recv_buf EXCEPT ![1] = cell]
      /\ recv' = [status |-> "INPROGRESS", size |-> cell.of, offset |-> 1,
                sn |-> 1 % SnMod, bs_count |-> BlockSize, timer_cr |-> Timeout + 1,
                waiting |-> Waiting(fate)]
      /\ FlowControl("CONTINUE", fate)
  BY DEF StartMessage
<1>3. /\ Held /\ ~Answering /\ out.id = cell.id /\ out.size = cell.of
      /\ out.offset = 1 /\ cell.at = 1
  BY <1>1 DEF LinkInv, Announced
<1>4. /\ Typed /\ out.offset \in 1..(out.size - 1) /\ out.size \in Nat /\ out.id \in 1..sent
      /\ sent \in 0..MaxMsgs /\ out.status = "INPROGRESS" /\ out.wtf_count = 0
  BY <1>3 DEF LinkInv, Typed, Sending, Senders, Held, Answered
<1>5. /\ cell.id \in 1..sent /\ cell \in Cells /\ cell = Cell(cell.id, 1, cell.of)
      /\ cell.id > latest /\ cell.of \in 1..RecvBufSize /\ 1 \in 1..(cell.of - 1)
  <2>1. cell.id \in 1..sent /\ cell.at = 1 /\ cell.of \in Nat /\ cell.id \in 0..MaxMsgs
        /\ cell.of \in 1..RecvBufSize /\ 1 \in 1..(cell.of - 1) /\ 1 \in 0..RecvBufSize
    BY <1>3, <1>4, SizeAssumption, BoundAssumption
  <2>2. cell.id > latest
    BY <1>1 DEF LinkInv, InOrder, Starts
  <2>3. cell \in [id : 1..MaxMsgs, at : Nat \ {0}, of : Nat \ {0}]
    BY <1>1 DEF Frames
  <2> HIDE DEF cell
  <2>4. cell = [id |-> cell.id, at |-> 1, of |-> cell.of]
    BY <2>1, <2>3
  <2> QED BY <2>1, <2>2, <2>4 DEF Cells, Cell
<1> HIDE DEF cell
<1>6. recv' \in Receivers
  <2>1. /\ cell.of \in 0..RecvBufSize /\ 1 \in Nat /\ 1 % SnMod \in Nat
        /\ BlockSize \in 0..BlockSize /\ Timeout + 1 \in Nat /\ Waiting(fate) \in Nat
    BY <1>5, FlowAssumption, BoundAssumption DEF Waiting
  <2> QED BY <1>2, <2>1 DEF Receivers
<1>7. /\ recv'.status = "INPROGRESS" /\ recv'.size = cell.of /\ recv'.offset = 1
      /\ recv'.sn = 1 % SnMod /\ recv'.bs_count = BlockSize /\ recv'.timer_cr > 0
      /\ recv'.waiting = Waiting(fate)
  BY <1>2, BoundAssumption
<1>8. recv_buf' \in [1..RecvBufSize -> Cells] /\ recv_buf'[1] = cell
  <2>1. 1 \in 1..RecvBufSize /\ recv_buf \in [1..RecvBufSize -> Cells]
    BY SizeAssumption DEF LinkInv, Typed
  <2> QED BY <1>2, <1>5, <2>1
<1>9. \A i \in DOMAIN bus' : bus'[i].type = "func"
  BY <1>1 DEF LinkInv, BusOrder
<1>10. Clear' /\ back = <<>>
  BY <1>3, <1>9 DEF Clear, Answering
<1>11. SameMessage'
  BY <1>3, <1>7, <1>8 DEF SameMessage
<1>12. Answered' /\ back' \in Seq(FlowStatus)
  BY <1>2, <1>3, <1>4, <1>6, <1>7, <1>10, <1>11, GrantAnswers
<1>13. Typed'
  BY <1>1, <1>6, <1>8, <1>12 DEF LinkInv, Typed
<1>14. Sending' /\ Evaluated'
  BY DEF LinkInv, Sending, Evaluated
<1>15. Announced' /\ Arriving'
  BY <1>9 DEF Announced, Arriving
<1>16. Allowed'
  BY <1>3 DEF Allowed, Held
<1>17. Received'
  <2>1. \A i \in 1..1 : i = 1
    OBVIOUS
  <2>2. BlockSize \in 1..BlockSize
    BY FlowAssumption
  <2> QED BY <1>5, <1>7, <1>8, <2>1, <2>2 DEF Received
<1>18. InOrder'
  BY <1>5, <1>7, <1>8, <1>9 DEF InOrder, Starts
<1> QED BY <1>1, <1>12, <1>13, <1>14, <1>15, <1>16, <1>17, <1>18 DEF LinkInv

LEMMA OnFirstKeeps ==
    ASSUME LinkInv, bus # <<>>, bus' = Tail(bus), Head(bus).type = "FF",
           NEW fate \in {"sent", "lost", "wait"}, OnFirst(Head(bus).cell, fate),
           UNCHANGED <<out, sent, func, reader, req, latest>>
    PROVE  LinkInv'
<1>1. CASE ~(Head(bus).cell.of > RecvBufSize)
  BY <1>1, StartMessageKeeps DEF OnFirst
<1>2. CASE Head(bus).cell.of > RecvBufSize
  <2>1. /\ bus' \in Seq(Frames) /\ BusOrder'
        /\ Head(bus) = bus[1] /\ 1 \in DOMAIN bus
        /\ \A i \in DOMAIN bus' : bus'[i] = bus[i + 1] /\ i + 1 \in DOMAIN bus /\ 1 < i + 1
    BY BusTail
  <2>2. Held /\ ~Answering /\ Typed /\ out.wtf_count = 0
    BY <2>1 DEF LinkInv, Announced, Answered, Held
  <2>3. /\ recv' = [recv EXCEPT !.status = "IDLE", !.waiting = 0]
        /\ recv_buf' = recv_buf /\ back = <<>>
        /\ back' = <<>> \/ back' = <<"OVERFLOW">>
    <3>1. /\ recv' = [recv EXCEPT !.status = "IDLE", !.waiting = 0]
          /\ recv_buf' = recv_buf /\ back = <<>>
          /\ fate # "wait" /\ FlowControl("OVERFLOW", fate)
      BY <1>2, <2>2 DEF OnFirst, Answering
    <3>2. CASE fate = "sent"
      BY <3>1, <3>2 DEF FlowControl
    <3>3. CASE fate = "lost"
      BY <3>1, <3>3 DEF FlowControl
    <3> QED BY <3>1, <3>2, <3>3
  <2>4. recv' \in Receivers /\ recv'.status = "IDLE" /\ recv'.waiting = 0
    BY <2>2, <2>3 DEF Typed, Receivers
  <2>5. \A i \in DOMAIN bus' : bus'[i].type = "func"
    BY <2>1 DEF LinkInv, BusOrder
  <2>6. Typed'
    <3>1. back' \in Seq(FlowStatus)
      <4>1. <<>> \in Seq(FlowStatus) /\ <<"OVERFLOW">> \in Seq(FlowStatus)
        BY DEF FlowStatus
      <4> QED BY <2>3, <4>1
    <3> QED BY <2>1, <2>2, <2>3, <2>4, <3>1 DEF Typed
  <2>7. Answered'
    <3>1. Clear' /\ Held'
      BY <2>2, <2>5 DEF Clear, Held
    <3>2. CASE back' = <<>>
      BY <2>2, <2>4, <3>2 DEF Answered, Answering
    <3>3. CASE back' = <<"OVERFLOW">>
      <4>1. Refusing' /\ Answering'
        BY <2>4, <3>3 DEF Refusing, Answering
      <4> QED BY <3>1, <4>1 DEF Answered
    <3> QED BY <2>3, <3>2, <3>3
  <2>8. Sending' /\ Evaluated'
    BY DEF LinkInv, Sending, Evaluated
  <2>9. Announced' /\ Arriving' /\ Allowed' /\ Received' /\ InOrder'
    BY <2>2, <2>4, <2>5 DEF Announced, Arriving, Allowed, Held, Received, InOrder, Starts
  <2> QED BY <2>1, <2>6, <2>7, <2>8, <2>9 DEF LinkInv
<1> QED BY <1>1, <1>2

LEMMA TakeNextKeeps ==
    ASSUME LinkInv, bus # <<>>, bus' = Tail(bus), Head(bus).type = "CF",
           recv.status = "INPROGRESS", Head(bus).sn = recv.sn,
           NEW fate \in {"sent", "lost", "wait"}, TakeNext(Head(bus).cell, fate),
           UNCHANGED <<out, sent, func, reader, req, latest>>
    PROVE  LinkInv'
<1>1. /\ bus' \in Seq(Frames) /\ BusOrder'
      /\ Head(bus) = bus[1] /\ 1 \in DOMAIN bus /\ Head(bus) \in Frames
      /\ \A i \in DOMAIN bus' : bus'[i] = bus[i + 1] /\ i + 1 \in DOMAIN bus /\ 1 < i + 1
  BY BusTail
<1> DEFINE cell == Head(bus).cell
           at == recv.offset + 1
           got == [recv EXCEPT !.offset = @ + 1, !.sn = (@ + 1) % SnMod,
                      !.timer_cr = Timeout + 1]
<1>2. /\ Typed /\ recv \in Receivers /\ out \in Senders
      /\ recv.offset \in 1..(recv.size - 1) /\ recv.sn = recv.offset % SnMod
      /\ recv.bs_count \in 1..BlockSize /\ recv_buf[1].id \in 1..sent
      /\ \A i \in 1..recv.offset : recv_buf[i] = Cell(recv_buf[1].id, i, recv.size)
  BY DEF LinkInv, Typed, Received
<1>3. /\ cell.id = recv_buf[1].id /\ cell.of = recv.size
      /\ cell.at \in (recv.offset + 1)..(recv.offset + recv.bs_count)
      /\ cell.at <= recv.size
      /\ Head(bus).sn = (cell.at - 1) % SnMod
      /\ cell.at = recv.offset + recv.bs_count /\ cell.at < recv.size
           => /\ Held /\ NoStart /\ SameMessage
              /\ out.offset = cell.at
  BY <1>1 DEF LinkInv, Arriving
<1>4. cell.at = at
  <2>1. /\ recv.offset \in Nat /\ recv.bs_count \in Nat /\ recv.bs_count <= SnMod
        /\ BlockSize \in Nat /\ SnMod \in Nat \ {0} /\ recv.size \in Nat
    BY <1>2, FlowAssumption DEF Receivers
  <2> DEFINE b == cell.at - 1
  <2> HIDE DEF cell
  <2>6. cell.at \in (recv.offset + 1)..(recv.offset + recv.bs_count)
    BY <1>3, Zenon
  <2>2. b \in Nat /\ recv.offset <= b /\ b < recv.offset + SnMod
    BY <2>1, <2>6
  <2>3. recv.offset % SnMod = b % SnMod
    BY <1>2, <1>3
  <2>4. cell.at \in Int
    BY <1>3, <2>1
  <2> HIDE DEF b
  <2>5. recv.offset = b
    BY <2>1, <2>2, <2>3, SameInWindow
  <2> QED BY <2>1, <2>4, <2>5 DEF b
<1>5. /\ at \in 2..recv.size /\ at \in 1..RecvBufSize /\ recv.size \in Nat
      /\ recv.offset \in Nat /\ sent \in 0..MaxMsgs
  <2>1. recv.size \in 0..RecvBufSize /\ sent \in 0..MaxMsgs
    BY <1>2 DEF Receivers, Typed
  <2> QED BY <2>1, <1>2, SizeAssumption
<1>6. cell = Cell(recv_buf[1].id, at, recv.size) /\ cell \in Cells
  <2>1. cell \in [id : 1..MaxMsgs, at : Nat \ {0}, of : Nat \ {0}]
    BY <1>1 DEF Frames
  <2> HIDE DEF cell, at
  <2>2. cell = [id |-> cell.id, at |-> cell.at, of |-> cell.of]
    BY <2>1
  <2>3. cell.id \in 0..MaxMsgs /\ at \in 0..RecvBufSize /\ recv.size \in Nat
    BY <1>5, <2>1, BoundAssumption, SizeAssumption
  <2> QED BY <1>3, <1>4, <2>2, <2>3 DEF Cell, Cells
<1>7. /\ got \in Receivers /\ got.offset = at /\ got.sn = (recv.sn + 1) % SnMod
      /\ got.timer_cr > 0 /\ got.status = "INPROGRESS" /\ got.size = recv.size
      /\ got.waiting = recv.waiting /\ got.bs_count = recv.bs_count
  <2>1. at \in Nat /\ (recv.sn + 1) % SnMod \in Nat /\ Timeout + 1 \in Nat \ {0}
    BY <1>2, FlowAssumption, BoundAssumption, SMTT(30) DEF Receivers
  <2>2. got \in Receivers
    BY <1>2, <2>1 DEF Receivers
  <2> QED BY <1>2, <2>1, <2>2, SMTT(30) DEF Receivers
<1>8. got.sn = at % SnMod
  BY <1>2, <1>5, <1>7, ModSucc, FlowAssumption
<1>9. /\ recv_buf' = [recv_buf EXCEPT ![at] = cell]
      /\ \/ /\ at >= recv.size /\ recv' = [got EXCEPT !.status = "FULL"]
            /\ back' = back
         \/ /\ at < recv.size /\ recv.bs_count = 1
            /\ recv' = [got EXCEPT !.bs_count = BlockSize, !.waiting = Waiting(fate)]
            /\ FlowControl("CONTINUE", fate)
         \/ /\ at < recv.size /\ recv.bs_count # 1
            /\ recv' = [got EXCEPT !.bs_count = @ - 1] /\ back' = back
  <2>1. at >= recv.size \/ at < recv.size
    BY <1>5
  <2>2. got.offset = at
    BY <1>7
  <2> QED BY <2>1, <2>2 DEF TakeNext, NoFlowControl
<1> HIDE DEF cell, at, got
<1>10. ~Answering
  BY <1>1 DEF LinkInv, Answered, Clear
<1>11. /\ recv_buf' \in [1..RecvBufSize -> Cells] /\ recv_buf'[1] = recv_buf[1]
       /\ \A i \in 1..at : recv_buf'[i] = Cell(recv_buf[1].id, i, recv.size)
  <2>1. recv_buf \in [1..RecvBufSize -> Cells] /\ 1 \in 1..RecvBufSize /\ 1 # at
    BY <1>2, <1>5, SizeAssumption DEF Typed
  <2>2. /\ recv_buf' \in [1..RecvBufSize -> Cells] /\ recv_buf'[at] = cell
        /\ \A i \in 1..RecvBufSize : i # at => recv_buf'[i] = recv_buf[i]
    BY <1>5, <1>6, <1>9, <2>1
  <2>3. \A i \in 1..at : i # at => i \in 1..recv.offset /\ i \in 1..RecvBufSize
    <3>1. recv.offset \in Nat /\ RecvBufSize \in Nat /\ at <= RecvBufSize
      BY <1>5, SizeAssumption
    <3>2. at = recv.offset + 1
      BY DEF at
    <3> QED BY <3>1, <3>2
  <2> QED BY <1>2, <1>6, <2>1, <2>2, <2>3
<1>12. Sending' /\ Evaluated'
  BY DEF LinkInv, Sending, Evaluated
<1>13. \A i \in DOMAIN bus' : Starts(bus'[i]) =>
         bus'[i].cell.id > latest /\ bus'[i].cell.id > recv_buf[1].id
  BY <1>1 DEF LinkInv, InOrder
<1>14. recv_buf[1].id > latest
  BY DEF LinkInv, InOrder
<1>15. InOrder'
  BY <1>11, <1>13, <1>14 DEF InOrder, Starts
<1>16. \A i \in DOMAIN bus' : bus'[i].type = "CF" =>
         /\ bus'[i].cell.id = recv_buf[1].id /\ bus'[i].cell.of = recv.size
         /\ bus'[i].cell.at \in (at + 1)..(recv.offset + recv.bs_count)
         /\ bus'[i].cell.at <= recv.size
         /\ bus'[i].sn = (bus'[i].cell.at - 1) % SnMod
         /\ bus'[i].cell.at = recv.offset + recv.bs_count /\ bus'[i].cell.at < recv.size
                 => /\ Held /\ NoStart /\ SameMessage
                    /\ out.offset = bus'[i].cell.at
  <2>1. TAKE i \in DOMAIN bus'
  <2>2. HAVE bus'[i].type = "CF"
  <2>3. bus[i + 1].type = "CF" /\ i + 1 \in DOMAIN bus /\ bus'[i] = bus[i + 1]
    BY <1>1, <2>2
  <2>4. cell.at < bus[i + 1].cell.at
    BY <1>1, <2>3 DEF LinkInv, BusOrder, cell
  <2>5. /\ bus[i + 1].cell.id = recv_buf[1].id /\ bus[i + 1].cell.of = recv.size
        /\ bus[i + 1].cell.at \in (recv.offset + 1)..(recv.offset + recv.bs_count)
        /\ bus[i + 1].cell.at <= recv.size
        /\ bus[i + 1].sn = (bus[i + 1].cell.at - 1) % SnMod
        /\ bus[i + 1].cell.at = recv.offset + recv.bs_count /\ bus[i + 1].cell.at < recv.size
             => /\ Held /\ NoStart /\ SameMessage
                /\ out.offset = bus[i + 1].cell.at
    BY <2>3 DEF LinkInv, Arriving
  <2>6. at \in Nat /\ recv.offset + recv.bs_count \in Int
    BY <1>2, <1>5
  <2>7. bus[i + 1].cell.at \in (at + 1)..(recv.offset + recv.bs_count)
    BY <1>4, <2>4, <2>5, <2>6
  <2> QED BY <2>3, <2>5, <2>7
<1>17. NoStart => NoStart'
  BY <1>1 DEF NoStart, Starts
<1>18. CASE at >= recv.size /\ recv' = [got EXCEPT !.status = "FULL"] /\ back' = back
  <2>1. /\ recv' \in Receivers /\ recv'.status = "FULL" /\ recv'.size = recv.size
        /\ recv'.waiting = recv.waiting
    BY <1>7, <1>18 DEF Receivers
  <2>2. at = recv.size
    BY <1>5, <1>18
  <2>3. ~Answering'
    BY <1>10, <1>18, <2>1 DEF Answering
  <2>4. Typed'
    BY <1>1, <1>2, <1>11, <1>18, <2>1 DEF Typed
  <2>5. Announced'
    BY <1>1, <2>3 DEF LinkInv, Announced, Held
  <2>6. Answered'
    BY <1>10, <2>3 DEF LinkInv, Answered
  <2>7. Allowed'
    BY <1>1, <1>17, <2>1, <2>3 DEF LinkInv, Allowed
  <2>8. Arriving'
    BY <2>1 DEF Arriving
  <2>9. Received'
    BY <1>2, <1>5, <1>11, <2>1, <2>2 DEF Received
  <2> QED BY <1>1, <1>12, <1>15, <2>4, <2>5, <2>6, <2>7, <2>8, <2>9 DEF LinkInv
<1>19. CASE /\ at < recv.size /\ recv.bs_count = 1
            /\ recv' = [got EXCEPT !.bs_count = BlockSize, !.waiting = Waiting(fate)]
            /\ FlowControl("CONTINUE", fate)
  <2>1. recv' \in Receivers
    <3>1. BlockSize \in 0..BlockSize /\ Waiting(fate) \in Nat
      BY FlowAssumption DEF Waiting
    <3> QED BY <1>7, <1>19, <3>1 DEF Receivers
  <2>2. /\ recv'.status = "INPROGRESS" /\ recv'.size = recv.size /\ recv'.offset = at
        /\ recv'.sn = at % SnMod /\ recv'.bs_count = BlockSize /\ recv'.timer_cr > 0
        /\ recv'.waiting = Waiting(fate)
    BY <1>7, <1>8, <1>19 DEF Receivers
  <2>3. Held /\ NoStart /\ SameMessage /\ out.offset = at
    BY <1>3, <1>4, <1>19 DEF at
  <2>4. \A i \in DOMAIN bus' : bus'[i].type = "func"
    <3>1. TAKE i \in DOMAIN bus'
    <3>2. bus'[i].type # "CF"
      <4>1. recv.offset \in Nat /\ recv.bs_count = 1 /\ at = recv.offset + 1
        BY <1>5, <1>19 DEF at
      <4>2. \A n : ~(n \in (at + 1)..(recv.offset + recv.bs_count))
        BY <4>1
      <4> QED BY <1>16, <4>2
    <3>3. ~Starts(bus'[i])
      BY <1>17, <2>3 DEF NoStart, Starts
    <3>4. bus'[i].type \in {"SF", "FF", "CF", "func"}
      <4>1. bus' \in Seq(Frames)
        BY <1>1
      <4>2. bus'[i] \in Frames
        BY <4>1
      <4> QED BY <4>2 DEF Frames
    <3> QED BY <3>2, <3>3, <3>4 DEF Starts
  <2>5. Clear' /\ back = <<>> /\ out.wtf_count = 0
    BY <1>10, <2>3, <2>4 DEF Clear, Answering, LinkInv, Answered, Held
  <2>6. SameMessage'
    BY <1>11, <2>2, <2>3 DEF SameMessage
  <2>7. Answered' /\ back' \in Seq(FlowStatus)
    BY <1>2, <1>19, <2>1, <2>2, <2>3, <2>5, <2>6, GrantAnswers
  <2>8. Typed'
    BY <1>1, <1>2, <1>11, <2>1, <2>7 DEF Typed
  <2>9. Announced' /\ Arriving'
    BY <2>4 DEF Announced, Arriving
  <2>10. Allowed'
    BY <2>3 DEF Allowed, Held
  <2>11. Received'
    <3>1. BlockSize \in 1..BlockSize /\ at \in 1..(recv.size - 1)
      BY <1>5, <1>19, FlowAssumption
    <3> QED BY <1>2, <1>11, <2>2, <3>1 DEF Received
  <2> QED BY <1>1, <1>12, <1>15, <2>7, <2>8, <2>9, <2>10, <2>11 DEF LinkInv
<1>20. CASE /\ at < recv.size /\ recv.bs_count # 1
            /\ recv' = [got EXCEPT !.bs_count = @ - 1] /\ back' = back
  <2>1. recv' \in Receivers
    <3>1. got.bs_count - 1 \in 0..BlockSize
      BY <1>2, <1>7, FlowAssumption
    <3> QED BY <1>7, <1>20, <3>1 DEF Receivers
  <2>2. /\ recv'.status = "INPROGRESS" /\ recv'.size = recv.size /\ recv'.offset = at
        /\ recv'.sn = at % SnMod /\ recv'.bs_count = recv.bs_count - 1
        /\ recv'.waiting = recv.waiting
    BY <1>7, <1>8, <1>20 DEF Receivers
  <2>3. ~Answering'
    BY <1>10, <1>20, <2>2 DEF Answering
  <2>4. Typed'
    BY <1>1, <1>2, <1>11, <1>20, <2>1 DEF Typed
  <2>5. Announced'
    BY <1>1, <2>3 DEF LinkInv, Announced, Held
  <2>6. Answered'
    BY <1>10, <2>3 DEF LinkInv, Answered
  <2>7. at + (recv.bs_count - 1) = recv.offset + recv.bs_count
    <3>1. recv.offset \in Nat /\ recv.bs_count \in Int /\ at = recv.offset + 1
      BY <1>2, <1>5 DEF at
    <3> QED BY <3>1
  <2>8. SameMessage => SameMessage'
    BY <1>11, <2>2 DEF SameMessage
  <2>9. Allowed'
    <3>1. SUFFICES ASSUME out.status = "INPROGRESS", out.bs_remain > 0
                   PROVE  /\ ~Answering' /\ NoStart'
                          /\ \A i \in DOMAIN bus' :
                               bus'[i].type = "CF" => bus'[i].cell.at <= out.offset
                          /\ SameMessage' /\ recv'.offset <= out.offset
                          /\ out.offset + out.bs_remain <= recv'.offset + recv'.bs_count
      BY DEF Allowed
    <3>2. /\ NoStart /\ SameMessage
          /\ \A i \in DOMAIN bus : bus[i].type = "CF" => bus[i].cell.at <= out.offset
          /\ out.offset + out.bs_remain <= recv.offset + recv.bs_count
      BY <3>1 DEF LinkInv, Allowed
    <3>3. at <= out.offset
      BY <1>1, <1>4, <3>2 DEF cell
    <3>4. \A i \in DOMAIN bus' : bus'[i].type = "CF" => bus'[i].cell.at <= out.offset
      BY <1>1, <3>2
    <3> QED BY <1>17, <2>2, <2>3, <2>7, <2>8, <3>2, <3>3, <3>4
  <2>10. Arriving'
    BY <1>11, <1>16, <1>17, <2>2, <2>7, <2>8 DEF Arriving, Held
  <2>11. Received'
    <3>1. BlockSize \in Nat
      BY FlowAssumption
    <3>2. recv.bs_count - 1 \in 1..BlockSize
      BY <1>2, <1>20, <3>1
    <3>3. at \in 1..(recv.size - 1)
      BY <1>5, <1>20
    <3> QED BY <1>2, <1>11, <2>2, <3>2, <3>3 DEF Received
  <2> QED BY <1>1, <1>12, <1>15, <2>4, <2>5, <2>6, <2>9, <2>10, <2>11 DEF LinkInv
<1> QED BY <1>9, <1>18, <1>19, <1>20

LEMMA OnConsecutiveKeeps ==
    ASSUME LinkInv, bus # <<>>, bus' = Tail(bus), Head(bus).type = "CF",
           NEW fate \in {"sent", "lost", "wait"},
           OnConsecutive(Head(bus).cell, Head(bus).sn, fate),
           UNCHANGED <<out, sent, func, reader, req, latest>>
    PROVE  LinkInv'
<1>1. Typed /\ recv \in Receivers
  BY DEF LinkInv, Typed
<1>2. CASE recv.status # "INPROGRESS"
  <2>1. UNCHANGED <<recv, recv_buf, back>>
    BY <1>2 DEF OnConsecutive, NoFlowControl
  <2> QED BY <1>1, <2>1, IgnoredKeeps DEF Typed
<1>3. CASE recv.status = "INPROGRESS" /\ Head(bus).sn # recv.sn
  <2>1. /\ recv' = [recv EXCEPT !.status = "IDLE", !.waiting = 0]
        /\ UNCHANGED <<recv_buf, back>>
    BY <1>3 DEF OnConsecutive, NoFlowControl
  <2>2. recv' \in Receivers /\ recv'.status = "IDLE" /\ recv'.waiting = 0
    BY <1>1, <2>1 DEF Receivers
  <2>3. ~Answering
    <3>1. Head(bus) = bus[1] /\ 1 \in DOMAIN bus
      BY BusTail
    <3> QED BY <3>1 DEF LinkInv, Answered, Clear
  <2> QED BY <2>1, <2>2, <2>3, ReceiverStopsKeeps
<1>4. CASE recv.status = "INPROGRESS" /\ Head(bus).sn = recv.sn
  BY <1>4, TakeNextKeeps DEF OnConsecutive
<1> QED BY <1>2, <1>3, <1>4

LEMMA OnFrameKeeps ==
    ASSUME LinkInv, NEW fate \in {"sent", "lost", "wait"}, OnFrame(fate)
    PROVE  LinkInv'
<1>1. /\ bus # <<>> /\ bus' = Tail(bus)
      /\ UNCHANGED <<out, sent, reader, req, latest>>
  BY DEF OnFrame, tester, user
<1>2. CASE Head(bus).type = "SF" /\ OnSingle(Head(bus).cell, fate) /\ UNCHANGED func
  BY <1>1, <1>2, OnSingleKeeps
<1>3. CASE Head(bus).type = "FF" /\ OnFirst(Head(bus).cell, fate) /\ UNCHANGED func
  BY <1>1, <1>3, OnFirstKeeps
<1>4. CASE /\ Head(bus).type = "CF" /\ OnConsecutive(Head(bus).cell, Head(bus).sn, fate)
           /\ UNCHANGED func
  BY <1>1, <1>4, OnConsecutiveKeeps
<1>5. CASE Head(bus).type = "func" /\ OnFunctional(Head(bus).cell, fate)
  <2>1. UNCHANGED <<back, recv>>
    BY <1>5 DEF OnFunctional, NoFlowControl
  <2>2. Typed /\ recv_buf \in [1..RecvBufSize -> Cells]
    BY DEF LinkInv, Typed
  <2>3. Head(bus) \in Frames
    BY <1>1, BusTail
  <2>4. CASE recv.status = "IDLE"
    <3>1. /\ func' = [status |-> "FULL", size |-> 1]
          /\ recv_buf' = [recv_buf EXCEPT ![1] = Head(bus).cell]
      BY <1>5, <2>4 DEF OnFunctional
    <3>2. func' \in [status : {"IDLE", "FULL"}, size : 0..1]
      BY <3>1
    <3>3. Head(bus).cell \in Cells
      <4>1. Head(bus).cell.at = 1
        BY <1>1, <1>5, BusTail DEF LinkInv, BusOrder
      <4>2. 1 \in 0..RecvBufSize /\ 1..MaxMsgs \subseteq 0..MaxMsgs
        BY SizeAssumption
      <4> QED BY <2>3, <4>1, <4>2 DEF Frames, Cells
    <3>4. recv_buf' \in [1..RecvBufSize -> Cells]
      BY <2>2, <3>1, <3>3
    <3> QED BY <1>1, <2>1, <2>4, <3>2, <3>4, IgnoredKeeps
  <2>5. CASE recv.status # "IDLE"
    <3>1. UNCHANGED <<func, recv_buf>>
      BY <1>5, <2>5 DEF OnFunctional
    <3> QED BY <1>1, <2>1, <2>2, <3>1, IgnoredKeeps DEF Typed
  <2> QED BY <2>4, <2>5
<1> QED BY <1>2, <1>3, <1>4, <1>5 DEF OnFrame

(* What the receiver does between frames.                                  *)
LEMMA EndWaitKeeps ==
    ASSUME LinkInv, EndWait
    PROVE  LinkInv'
<1>1. /\ recv.waiting > 0
      /\ UNCHANGED <<out, sent, bus, func, recv_buf, reader, req, latest>>
  BY DEF EndWait, tester, user
<1>2. Typed /\ recv \in Receivers /\ out \in Senders /\ back \in Seq(FlowStatus)
  BY DEF LinkInv, Typed
<1>3. Held /\ Clear /\ Granting /\ recv.status = "INPROGRESS"
  BY <1>1, <1>2 DEF LinkInv, Answered, Answering, Refusing, Granting, Receivers
<1>4. /\ Len(back) \in Nat /\ DOMAIN back = 1..Len(back)
      /\ \A i \in DOMAIN back : back[i] = "WAIT"
      /\ out.wtf_count + Len(back) = recv.waiting /\ recv.waiting <= MaxWft
      /\ out.wtf_count \in Nat /\ recv.waiting \in Nat
  BY <1>1, <1>2, <1>3, TypeFacts DEF Granting, Senders, Receivers
<1>5. ASSUME NEW fs \in FlowStatus, back' = Append(back, fs)
      PROVE  /\ back' \in Seq(FlowStatus) /\ Len(back') = Len(back) + 1
             /\ DOMAIN back' = 1..(Len(back) + 1) /\ back' # <<>>
             /\ \A i \in DOMAIN back : back'[i] = back[i]
             /\ back'[Len(back) + 1] = fs
  <2>1. /\ back' \in Seq(FlowStatus) /\ Len(back') = Len(back) + 1
        /\ DOMAIN back' = 1..(Len(back) + 1)
        /\ \A i \in DOMAIN back : back'[i] = back[i]
        /\ back'[Len(back) + 1] = fs
    BY <1>2, <1>5, AppendAt
  <2> QED BY <2>1, <1>4
<1>6. /\ back' \in Seq(FlowStatus) /\ recv' \in Receivers /\ back' # <<>>
      /\ recv'.status = recv.status /\ recv'.size = recv.size /\ recv'.offset = recv.offset
      /\ recv'.sn = recv.sn /\ recv'.bs_count = recv.bs_count /\ Granting'
  <2>1. CASE /\ recv.waiting < MaxWft /\ back' = Append(back, "WAIT")
             /\ recv' = [recv EXCEPT !.waiting = @ + 1]
    <3>1. /\ back' \in Seq(FlowStatus) /\ Len(back') = Len(back) + 1
          /\ DOMAIN back' = 1..(Len(back) + 1) /\ back' # <<>>
          /\ \A i \in DOMAIN back : back'[i] = back[i]
          /\ back'[Len(back) + 1] = "WAIT"
      BY <1>5, <2>1 DEF FlowStatus
    <3>2. /\ recv' \in Receivers /\ recv'.waiting = recv.waiting + 1
          /\ recv'.timer_cr = recv.timer_cr
          /\ recv'.status = recv.status /\ recv'.size = recv.size
          /\ recv'.offset = recv.offset /\ recv'.sn = recv.sn
          /\ recv'.bs_count = recv.bs_count
      BY <1>2, <2>1 DEF Receivers
    <3>3. \A i \in DOMAIN back' : back'[i] = "WAIT"
      <4>1. \A i \in DOMAIN back' : i \in DOMAIN back \/ i = Len(back) + 1
        BY <1>4, <3>1
      <4> QED BY <1>4, <3>1, <4>1
    <3>4. /\ out.wtf_count + Len(back') = recv'.waiting /\ recv'.waiting <= MaxWft
          /\ recv'.waiting > 0
      BY <1>4, <2>1, <3>1, <3>2, FlowAssumption, SMTT(30)
    <3>5. Granting'
      BY <1>1, <1>3, <3>2, <3>3, <3>4 DEF Granting, SameMessage
    <3> QED BY <3>1, <3>2, <3>5
  <2>2. CASE /\ back' = Append(back, "CONTINUE")
             /\ recv' = [recv EXCEPT !.waiting = 0, !.timer_cr = Timeout + 1]
    <3>1. /\ back' \in Seq(FlowStatus) /\ Len(back') = Len(back) + 1
          /\ DOMAIN back' = 1..(Len(back) + 1) /\ back' # <<>>
          /\ \A i \in DOMAIN back : back'[i] = back[i]
          /\ back'[Len(back) + 1] = "CONTINUE"
      BY <1>5, <2>2 DEF FlowStatus
    <3>2. /\ recv' \in Receivers /\ recv'.waiting = 0
          /\ recv'.timer_cr > 0
          /\ recv'.status = recv.status /\ recv'.size = recv.size
          /\ recv'.offset = recv.offset /\ recv'.sn = recv.sn
          /\ recv'.bs_count = recv.bs_count
      <4>1. Timeout + 1 \in Nat /\ Timeout + 1 > 0 /\ 0 \in Nat
        BY BoundAssumption
      <4> QED BY <1>2, <2>2, <4>1 DEF Receivers
    <3>3. \A i \in DOMAIN back' : back'[i] = (IF i = Len(back') THEN "CONTINUE" ELSE "WAIT")
      <4>1. \A i \in DOMAIN back' : (i \in DOMAIN back /\ i # Len(back')) \/ i = Len(back')
        BY <1>4, <3>1
      <4> QED BY <1>4, <3>1, <4>1
    <3>4. out.wtf_count + Len(back') <= MaxWft + 1
      BY <1>4, <3>1, FlowAssumption
    <3>5. ~(recv'.waiting > 0) /\ recv'.waiting <= MaxWft
      BY <3>2, FlowAssumption
    <3>6. Granting'
      BY <1>1, <1>3, <3>2, <3>3, <3>4, <3>5 DEF Granting, SameMessage
    <3> QED BY <3>1, <3>2, <3>6
  <2> QED BY <2>1, <2>2 DEF EndWait
<1>7. Typed'
  BY <1>1, <1>2, <1>6 DEF Typed
<1>8. Sending' /\ BusOrder' /\ Evaluated'
  BY <1>1 DEF LinkInv, Sending, BusOrder, Evaluated, Starts
<1>9. Held' /\ Clear'
  BY <1>1, <1>3 DEF Held, Clear
<1>10. Answered' /\ Allowed'
  BY <1>6, <1>9 DEF Answered, Answering, Allowed, Held
<1>11. Announced' /\ Arriving'
  BY <1>9 DEF Announced, Arriving, Clear
<1>12. Received' /\ InOrder'
  BY <1>1, <1>6 DEF LinkInv, Received, InOrder, Starts
<1> QED BY <1>7, <1>8, <1>10, <1>11, <1>12 DEF LinkInv

(* The receiver is emptied, or times out, without a frame.                 *)
LEMMA EmptiedKeeps ==
    ASSUME LinkInv, recv.status = "INPROGRESS" => ~(recv.timer_cr > 0),
           recv' = [recv EXCEPT !.status = "IDLE"],
           reader' \in {"idle", "busy"},
           UNCHANGED <<out, sent, bus, back, func, recv_buf, req, latest>>
    PROVE  LinkInv'
<1>1. /\ recv' \in Receivers /\ recv'.status = "IDLE" /\ recv'.waiting = recv.waiting
  BY DEF LinkInv, Typed, Receivers
<1>2. Typed'
  BY <1>1 DEF LinkInv, Typed
<1>3. Sending' /\ BusOrder' /\ Evaluated'
  BY SMTT(30) DEF LinkInv, Sending, BusOrder, Evaluated, Starts
<1>4. Announced'
  BY <1>1 DEF LinkInv, Announced, Held, Answering
<1>5. ~Granting
  BY DEF Granting
<1>6. Answered'
  BY <1>1, <1>5 DEF LinkInv, Answered, Answering, Held, Clear, Refusing
<1>7. Allowed'
  BY <1>1 DEF LinkInv, Allowed, Answering, NoStart, Starts
<1>8. Arriving' /\ Received'
  BY <1>1 DEF Arriving, Received
<1>9. InOrder'
  BY <1>1 DEF LinkInv, InOrder, Starts
<1> QED BY <1>2, <1>3, <1>4, <1>6, <1>7, <1>8, <1>9 DEF LinkInv

LEMMA PollReceiveKeeps ==
    ASSUME LinkInv, PollReceive
    PROVE  LinkInv'
<1>1. UNCHANGED <<out, sent, bus, back, func, recv_buf, reader, req, latest>>
  BY DEF PollReceive, tester, user
<1>2. CASE recv.status = "INPROGRESS" /\ recv.timer_cr = 0
  BY <1>1, <1>2, EmptiedKeeps DEF PollReceive, LinkInv, Typed
<1>3. CASE ~(recv.status = "INPROGRESS" /\ recv.timer_cr = 0)
  <2>1. recv' = recv
    BY <1>3 DEF PollReceive
  <2> QED BY <1>1, <2>1 DEF LinkInv, Typed, Sending, BusOrder, Announced, Answered, Allowed,
        Arriving, Received, InOrder, Evaluated, Held, Answering, Clear, NoStart, Starts,
        Refusing, Granting, SameMessage
<1> QED BY <1>2, <1>3

LEMMA PeekKeeps ==
    ASSUME LinkInv, Peek
    PROVE  LinkInv'
<1>1. /\ reader = "idle" /\ reader' = "busy"
      /\ UNCHANGED <<out, sent, bus, back, recv, func, recv_buf>>
  BY DEF Peek, tester, server
<1>2. Typed /\ recv \in Receivers /\ sent \in Nat
  BY BoundAssumption DEF LinkInv, Typed
<1>3. Sending' /\ BusOrder' /\ Announced' /\ Answered' /\ Allowed' /\ Arriving' /\ Received'
  BY <1>1 DEF LinkInv, Sending, BusOrder, Announced, Answered, Allowed, Arriving, Received,
       Held, Answering, Clear, NoStart, Starts, Refusing, Granting, SameMessage
<1>4. CASE /\ recv.status = "FULL" /\ req' = Peeked(recv) /\ latest' = recv_buf[1].id
  <2>1. /\ recv_buf[1].id \in 1..sent /\ recv.size \in 1..RecvBufSize
        /\ \A i \in 1..recv.size : recv_buf[i] = Cell(recv_buf[1].id, i, recv.size)
    BY <1>2, <1>4, SizeAssumption DEF LinkInv, Received, Receivers
  <2>2. Typed'
    BY <1>1, <1>2, <1>4, <2>1 DEF Typed
  <2>3. InOrder'
    BY <1>1, <1>4 DEF LinkInv, InOrder, Starts
  <2>4. Evaluated'
    <3> DEFINE whole == [i \in 1..recv.size |-> Cell(recv_buf[1].id, i, recv.size)]
    <3>1. req'.cells = SubSeq(recv_buf, 1, recv.size)
      BY <1>4 DEF Peeked
    <3>2. SubSeq(recv_buf, 1, recv.size) = [i \in 1..recv.size |-> recv_buf[i]]
      BY <2>1
    <3>3. req'.cells = whole
      BY <2>1, <3>1, <3>2
    <3>4. req'.cells[1].of = recv.size
      <4>1. 1 \in 1..recv.size
        BY <2>1
      <4> QED BY <3>3, <4>1 DEF Cell
    <3>5. req'.cells = [i \in 1..req'.cells[1].of |->
                           Cell(recv_buf[1].id, i, req'.cells[1].of)]
      BY <3>3, <3>4
    <3> QED BY <1>1, <2>1, <3>5 DEF Evaluated
  <2> QED BY <1>3, <2>2, <2>3, <2>4 DEF LinkInv
<1>5. CASE /\ recv.status # "FULL" /\ req' = [Peeked(func) EXCEPT !.func = TRUE]
           /\ latest' = latest
  <2>1. Typed'
    BY <1>1, <1>2, <1>5 DEF Typed
  <2>2. InOrder'
    BY <1>1, <1>5 DEF LinkInv, InOrder, Starts
  <2>3. Evaluated'
    BY <1>5 DEF Peeked, Evaluated
  <2> QED BY <1>3, <2>1, <2>2, <2>3 DEF LinkInv
<1> QED BY <1>4, <1>5 DEF Peek

LEMMA AckRecvMaintains ==
    ASSUME LinkInv, AckRecv
    PROVE  LinkInv'
<1>1. /\ reader' = "idle"
      /\ UNCHANGED <<out, sent, bus, back, func, recv_buf, req, latest>>
  BY DEF AckRecv, tester
<1>2. CASE recv.status = "FULL"
  BY <1>1, <1>2, EmptiedKeeps DEF AckRecv
<1>3. CASE recv.status # "FULL"
  <2>1. recv' = recv
    BY <1>3 DEF AckRecv
  <2> QED BY <1>1, <1>3, <2>1 DEF LinkInv, Typed, Sending, BusOrder, Announced, Answered,
        Allowed, Arriving, Received, InOrder, Evaluated, Held, Answering, Clear, NoStart,
        Starts, Refusing, Granting, SameMessage
<1> QED BY <1>2, <1>3

LEMMA TickKeeps ==
    ASSUME LinkInv, Tick
    PROVE  LinkInv'
<1>1. /\ bus = <<>> /\ back = <<>> /\ recv.waiting = 0
      /\ UNCHANGED <<sent, bus, back, func, recv_buf, reader, req, latest>>
  BY DEF Tick, user
<1>2. Typed /\ out \in Senders /\ recv \in Receivers
  BY DEF LinkInv, Typed
<1>3. /\ out' \in Senders /\ out'.status = out.status /\ out'.id = out.id
      /\ out'.size = out.size /\ out'.offset = out.offset /\ out'.sn = out.sn
      /\ out'.bs_remain = out.bs_remain /\ out'.wtf_count = out.wtf_count
  <2>1. Less(out.timer_bs) \in Nat
    BY <1>2 DEF Less, Senders
  <2>2. out' = [out EXCEPT !.timer_bs = Less(out.timer_bs)]
    BY DEF Tick
  <2> QED BY <1>2, <2>1, <2>2 DEF Senders
<1>4. /\ recv' \in Receivers /\ recv'.status = recv.status /\ recv'.size = recv.size
      /\ recv'.offset = recv.offset /\ recv'.sn = recv.sn
      /\ recv'.bs_count = recv.bs_count /\ recv'.waiting = recv.waiting
  <2>1. Less(recv.timer_cr) \in Nat
    BY <1>2 DEF Less, Receivers
  <2>2. recv' = [recv EXCEPT !.timer_cr = Less(recv.timer_cr)]
    BY DEF Tick
  <2> QED BY <1>2, <2>1, <2>2 DEF Receivers
<1>5. DOMAIN bus = {} /\ ~Answering /\ ~Answering'
  BY <1>1, <1>4 DEF Answering
<1>6. Typed'
  BY <1>1, <1>2, <1>3, <1>4 DEF Typed
<1>7. Sending' /\ Evaluated'
  BY <1>1, <1>3 DEF LinkInv, Sending, Evaluated
<1>8. BusOrder' /\ Announced' /\ Arriving' /\ NoStart'
  BY <1>1, <1>5 DEF BusOrder, Announced, Arriving, NoStart
<1>9. Answered'
  BY <1>3, <1>5 DEF LinkInv, Answered
<1>10. Allowed'
  BY <1>1, <1>3, <1>4, <1>5, <1>8 DEF LinkInv, Allowed, SameMessage
<1>11. Received' /\ InOrder'
  BY <1>1, <1>4 DEF LinkInv, Received, InOrder, Starts
<1> QED BY <1>6, <1>7, <1>8, <1>9, <1>10, <1>11 DEF LinkInv

LEMMA InitLink == Init => LinkInv
<1> SUFFICES ASSUME Init PROVE LinkInv
  OBVIOUS
<1>1. bus = <<>> /\ back = <<>> /\ DOMAIN bus = {}
  BY DEF Init
<1>2. Typed
  <2>1. /\ 0 \in 0..BlockSize /\ 0 \in 0..RecvBufSize /\ 0 \in Nat /\ 0 \in 0..1
        /\ 0 \in 0..MaxMsgs /\ 0 \in 0..0
    BY SizeAssumption, FlowAssumption, BoundAssumption
  <2>2. out \in Senders /\ recv \in Receivers
    BY <2>1 DEF Init, Senders, Receivers
  <2>3. recv_buf \in [1..RecvBufSize -> Cells]
    BY <2>1 DEF Init, NoCell, Cells
  <2>4. func \in [status : {"IDLE", "FULL"}, size : 0..1]
    BY <2>1 DEF Init
  <2> QED BY <2>1, <2>2, <2>3, <2>4, <1>1 DEF Init, Typed
<1>3. Sending /\ Answered /\ Allowed /\ Received
  BY DEF Init, Sending, Answered, Answering, Allowed, Received
<1>4. BusOrder /\ Announced /\ Arriving
  BY <1>1 DEF BusOrder, Announced, Arriving
<1>5. InOrder /\ Evaluated
  BY <1>1 DEF Init, InOrder, Evaluated
<1> QED BY <1>2, <1>3, <1>4, <1>5 DEF LinkInv

LEMMA NextLink == LinkInv /\ [Next]_vars => LinkInv'
<1> SUFFICES ASSUME LinkInv, [Next]_vars PROVE LinkInv'
  OBVIOUS
<1>1. ASSUME NEW size \in Sizes, NEW fate \in {"sent", "lost", "error"}, Send(size, fate)
      PROVE  LinkInv'
  BY <1>1, SendKeeps
<1>2. CASE SendFunctional
  BY <1>2, SendFunctionalKeeps
<1>3. ASSUME NEW fate \in {"sent", "lost", "error"}, PollSend(fate) PROVE LinkInv'
  BY <1>3, PollSendKeeps
<1>4. CASE OnFlowControl
  BY <1>4, OnFlowControlKeeps
<1>5. ASSUME NEW fate \in {"sent", "lost", "wait"}, OnFrame(fate) PROVE LinkInv'
  BY <1>5, OnFrameKeeps
<1>6. CASE EndWait
  BY <1>6, EndWaitKeeps
<1>7. CASE PollReceive
  BY <1>7, PollReceiveKeeps
<1>8. CASE Peek
  BY <1>8, PeekKeeps
<1>9. CASE AckRecv
  BY <1>9, AckRecvMaintains
<1>10. CASE Tick
  BY <1>10, TickKeeps
<1>11. CASE UNCHANGED vars
  BY <1>11 DEF vars, LinkInv, Typed, Sending, BusOrder, Announced, Answered, Allowed,
        Arriving, Received, InOrder, Evaluated, Held, Answering, Clear, NoStart, Starts,
        Refusing, Granting, SameMessage
<1> QED BY <1>1, <1>2, <1>3, <1>4, <1>5, <1>6, <1>7, <1>8, <1>9, <1>10, <1>11 DEF Next

(* The token of the block is in one place, and the ends agree there.       *)
THEOREM SpecLinkInv == Spec => []LinkInv
BY InitLink, NextLink, PTL DEF Spec

-----------------------------------------------------------------------------
(***************************************************************************)
(* The properties.                                                         *)
(***************************************************************************)
(* The variables keep their types; among others no message is received     *)
(* that does not fit the buffer.                                           *)
THEOREM SpecTypeOK == Spec => []TypeOK
<1>1. LinkInv => TypeOK
  BY DEF LinkInv, Typed, Sending, Received, TypeOK, Senders, Receivers
<1> QED BY <1>1, SpecLinkInv, PTL

(* A physical request the server evaluates is one the tester sent, whole.  *)
THEOREM SpecWholeMessages == Spec => []WholeMessages
<1>1. LinkInv => WholeMessages
  BY DEF LinkInv, Evaluated, Received, WholeMessages
<1> QED BY <1>1, SpecLinkInv, PTL

(* A physical request is evaluated once, and none after a later one.       *)
THEOREM SpecNeverTwice == Spec => NeverTwice
<1> DEFINE A == reader' # reader /\ reader' = "busy" /\ ~req'.func => latest' > latest
<1>1. LinkInv /\ [Next]_vars => [A]_vars
  <2> SUFFICES ASSUME LinkInv, [Next]_vars, reader' # reader, reader' = "busy", ~req'.func
               PROVE  latest' > latest
    OBVIOUS
  <2>1. Peek
    BY DEF Next, vars, Send, SendFunctional, PollSend, OnFlowControl, OnFrame, EndWait,
      PollReceive, AckRecv, Tick, user
  <2>2. recv.status = "FULL" /\ reader = "idle" /\ latest' = recv_buf[1].id
    BY <2>1 DEF Peek, Peeked
  <2> QED BY <2>2 DEF LinkInv, InOrder
<1> QED BY <1>1, SpecLinkInv, PTL DEF Spec, NeverTwice

(* The frames on the bus are counted by their places in the message.       *)
LEMMA CountConsecutives ==
    ASSUME LinkInv, NEW a \in Int, NEW b \in Int, a <= b,
           \A i \in Consecutives : bus[i].cell.at \in (a + 1)..b
    PROVE  Cardinality(Consecutives) \in Nat /\ Cardinality(Consecutives) <= b - a
<1> DEFINE place == [i \in Consecutives |-> bus[i].cell.at]
<1>1. DOMAIN bus = 1..Len(bus) /\ \A i \in DOMAIN bus : bus[i] \in Frames
  BY TypeFacts DEF LinkInv
<1>2. ASSUME NEW i \in Consecutives, NEW j \in Consecutives, i # j
      PROVE  bus[i].cell.at # bus[j].cell.at
  <2>1. i < j \/ j < i
    BY <1>1, <1>2 DEF Consecutives
  <2>2. bus[i].cell.at \in Nat /\ bus[j].cell.at \in Nat
    BY <1>1 DEF Consecutives, Frames
  <2>3. i < j => bus[i].cell.at < bus[j].cell.at
    BY DEF LinkInv, BusOrder, Consecutives
  <2>4. j < i => bus[j].cell.at < bus[i].cell.at
    BY DEF LinkInv, BusOrder, Consecutives
  <2> QED BY <2>1, <2>2, <2>3, <2>4
<1>3. place \in Injection(Consecutives, (a + 1)..b)
  BY <1>2 DEF Injection, IsInjective
<1>4. a + 1 \in Int
  OBVIOUS
<1>5. IsFiniteSet((a + 1)..b) /\ Cardinality((a + 1)..b) = b - a
  <2>1. /\ IsFiniteSet((a + 1)..b)
        /\ Cardinality((a + 1)..b) = IF a + 1 > b THEN 0 ELSE b - (a + 1) + 1
    BY <1>4, FS_Interval
  <2> QED BY <2>1
<1>6. IsFiniteSet(Consecutives) /\ Cardinality(Consecutives) <= b - a
  BY <1>3, <1>5, FS_Injection
<1> QED BY <1>6, FS_CardinalityType

(* The frames under way and those the tester may send fit the block the    *)
(* server has counted.                                                     *)
THEOREM SpecFlowRespected == Spec => []FlowRespected
<1>1. ASSUME LinkInv PROVE FlowRespected
  <2> SUFFICES ASSUME recv.status = "INPROGRESS" PROVE Granted <= recv.bs_count
    BY DEF FlowRespected
  <2>1. /\ Typed /\ recv \in Receivers /\ out \in Senders
        /\ recv.offset \in Nat /\ recv.bs_count \in 1..BlockSize /\ BlockSize \in Nat
        /\ recv.bs_count \in Nat /\ out.offset \in Nat /\ out.bs_remain \in Nat
    BY <1>1, FlowAssumption DEF LinkInv, Typed, Received, Receivers, Senders
  <2>2. /\ Cardinality({}) = 0 /\ \A x : Cardinality({x}) = 1
    BY FS_EmptySet, FS_Singleton
  <2>3. CASE Answering
    <3>1. Held /\ Clear /\ (Refusing \/ Granting)
      BY <1>1, <2>3 DEF LinkInv, Answered
    <3>2. Cardinality(Consecutives) = 0
      <4>1. Consecutives = {}
        BY <3>1 DEF Consecutives, Clear
      <4> QED BY <4>1, <2>2
    <3>3. Granted = 0 + BlockSize * Cardinality(Continues) + 0
      BY <3>1, <3>2 DEF Granted, Held
    <3>4. Cardinality(Continues) = 0 \/ (Cardinality(Continues) = 1 /\ recv.bs_count = BlockSize)
      <4>1. CASE Refusing
        <5>1. Continues = {}
          BY <4>1 DEF Continues, Refusing
        <5> QED BY <5>1, <2>2
      <4>2. CASE Granting
        <5>1. Continues = {} \/ \E n : Continues = {n}
          <6>1. CASE recv.waiting > 0
            BY <4>2, <6>1 DEF Continues, Granting
          <6>2. CASE ~(recv.waiting > 0)
            <7>1. \A i \in DOMAIN back :
                     back[i] = (IF i = Len(back) THEN "CONTINUE" ELSE "WAIT")
              BY <4>2, <6>2 DEF Granting
            <7>2. Continues \subseteq {Len(back)}
              BY <7>1 DEF Continues
            <7> QED BY <7>2
          <6> QED BY <6>1, <6>2
        <5>2. recv.bs_count = BlockSize
          BY <4>2 DEF Granting
        <5> QED BY <5>1, <5>2, <2>2
      <4> QED BY <3>1, <4>1, <4>2
    <3>5. BlockSize * 0 = 0 /\ BlockSize * 1 = BlockSize
      BY <2>1
    <3> QED BY <2>1, <3>3, <3>4, <3>5
  <2>4. CASE ~Answering
    <3>1. Cardinality(Continues) = 0
      <4>1. Continues = {}
        BY <2>4 DEF Answering, Continues
      <4> QED BY <4>1, <2>2
    <3>2. BlockSize * Cardinality(Continues) = 0
      BY <2>1, <3>1
    <3>3. CASE out.status = "INPROGRESS" /\ out.bs_remain > 0
      <4>1. /\ recv.offset <= out.offset
            /\ out.offset + out.bs_remain <= recv.offset + recv.bs_count
            /\ \A i \in DOMAIN bus : bus[i].type = "CF" => bus[i].cell.at <= out.offset
        BY <1>1, <3>3 DEF LinkInv, Allowed
      <4>2. \A i \in Consecutives : bus[i].cell.at \in (recv.offset + 1)..out.offset
        <5>1. \A i \in Consecutives :
                 bus[i].cell.at \in (recv.offset + 1)..(recv.offset + recv.bs_count)
          BY <1>1 DEF LinkInv, Arriving, Consecutives
        <5> QED BY <2>1, <4>1, <5>1 DEF Consecutives
      <4>3. /\ Cardinality(Consecutives) \in Nat
            /\ Cardinality(Consecutives) <= out.offset - recv.offset
        BY <1>1, <2>1, <4>1, <4>2, CountConsecutives
      <4>4. Granted = Cardinality(Consecutives) + 0 + out.bs_remain
        BY <3>2, <3>3 DEF Granted
      <4> QED BY <2>1, <4>1, <4>3, <4>4
    <3>4. CASE ~(out.status = "INPROGRESS" /\ out.bs_remain > 0)
      <4>1. \A i \in Consecutives :
               bus[i].cell.at \in (recv.offset + 1)..(recv.offset + recv.bs_count)
        BY <1>1 DEF LinkInv, Arriving, Consecutives
      <4>2. /\ recv.offset + recv.bs_count \in Int /\ recv.offset \in Int
            /\ recv.offset <= recv.offset + recv.bs_count
            /\ recv.offset + recv.bs_count - recv.offset = recv.bs_count
        BY <2>1

      <4>3. /\ Cardinality(Consecutives) \in Nat
            /\ Cardinality(Consecutives) <= recv.bs_count
        <5>1. PICK b \in Int : b = recv.offset + recv.bs_count
          BY <4>2
        <5>2. /\ recv.offset <= b /\ b - recv.offset = recv.bs_count
              /\ \A i \in Consecutives : bus[i].cell.at \in (recv.offset + 1)..b
          BY <2>1, <4>1, <4>2, <5>1
        <5> QED BY <1>1, <4>2, <5>2, CountConsecutives
      <4>4. out.status = "INPROGRESS" => out.bs_remain = 0
        BY <2>1, <3>4
      <4>5. Granted = Cardinality(Consecutives) + 0 + 0
        BY <3>2, <4>4 DEF Granted
      <4> QED BY <2>1, <4>3, <4>5
    <3> QED BY <3>3, <3>4
  <2> QED BY <2>3, <2>4
<1> QED BY <1>1, SpecLinkInv, PTL
=============================================================================
