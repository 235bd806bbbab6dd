----------------------------- MODULE DoIPTp_proofs -----------------------------
(***************************************************************************)
(* Proofs about the server's transport, for every number of messages,      *)
(* cells and connections and every kind of client.                         *)
(***************************************************************************)
EXTENDS DoIPTp, SequenceTheorems, FiniteSetTheorems, TLAPS

(* The ends of streams that the server has not come to. *)
Fins(w) == {k \in 1..Len(w) : w[k] = Fin}

Records ==
    /\ r = [len |-> r.len, got |-> r.got]
    /\ tcp = [msg |-> tcp.msg, copied |-> tcp.copied]
    /\ evaluated \in Seq(Seq(1..MaxMsgs))

(* The server is behind by as many connections as there are ends. *)
ConnsCounted == IsFiniteSet(Fins(wire)) /\ conn + Cardinality(Fins(wire)) = sock

(* Messages are newer the further they are from the buffer's first cell. *)
Later(w) ==
    \A j, k \in 1..Len(w) : j < k /\ w[j] # Fin /\ w[k] # Fin => w[j].id < w[k].id
Ordered ==
    /\ Later(wire)
    /\ \A k \in 1..Len(wire) : wire[k] # Fin =>
          wire[k].id <= sent /\ recv_buf[1] < wire[k].id /\ tcp.msg.id < wire[k].id
    /\ recv_buf[1] <= sent /\ tcp.msg.id <= sent
    /\ Locked => IF tcp.copied = 0 THEN recv_buf[1] < tcp.msg.id ELSE recv_buf[1] = tcp.msg.id

(* What may be read has been written. *)
CellsWritten ==
    /\ \A c \in 1..recv_len : recv_buf[c] \in 1..MaxMsgs
    /\ \A c \in 1..tcp.copied : recv_buf[c] \in 1..MaxMsgs
    /\ \A c \in 1..r.len : recv_buf[c] \in 1..MaxMsgs

(* What is in the buffer when the server may peek at it is newer than all  *)
(* it has evaluated.                                                       *)
Newer(id) == \A k \in 1..Len(evaluated) : evaluated[k][1] < id
EvaluatedOnce ==
    /\ \A k \in 1..Len(evaluated) : Len(evaluated[k]) > 0 /\ evaluated[k][1] <= recv_buf[1]
    /\ \A j, k \in 1..Len(evaluated) : j < k => evaluated[j][1] < evaluated[k][1]
    /\ poll = "idle" /\ (recv_len > 0 \/ tcp.copied > 0) => Newer(recv_buf[1])
    /\ poll = "evaluate" =>
          /\ r.len > 0
          /\ IF Len(r.got) = 0 THEN Newer(recv_buf[1])
                               ELSE r.got[1] <= recv_buf[1] /\ Newer(r.got[1])
    /\ poll \in {"respond", "send", "ack"} => Len(r.got) > 0

(* Behind the last end of a stream there are only messages of the client's *)
(* connection.                                                             *)
WireNew(w) ==
    \A k \in 1..Len(w) :
        w[k] # Fin /\ (\A j \in k+1..Len(w) : w[j] # Fin) => base < w[k].id

(* When the client has heard an answer to an old request, ack_recv leaves  *)
(* nothing old behind.                                                     *)
OldGone ==
    /\ recv_len > 0 \/ tcp.copied > 0 \/ (poll = "evaluate" /\ Len(r.got) = 0)
         => base < recv_buf[1]
    /\ poll \in {"evaluate", "respond", "send"} /\ Len(r.got) > 0 => base < r.got[1]
AnswersBounded ==
    /\ WireNew(wire)
    /\ conn = sock /\ Locked => base < tcp.msg.id
    /\ stale # 0 => conn = sock /\ stale = 1
    /\ stale # 0 /\ poll \notin {"ack", "overrun"} => OldGone

(* Against a slow client there is one message at a time.                   *)
SlowClient ==
    kind = "slow" =>
        /\ sock = 1 /\ conn = 1 /\ poll # "dead" /\ waiting \in {{}, {sent}}
        /\ poll = "send" => target = conn
        /\ poll = "idle" => acked_len = 0 /\ Len(r.got) = 0
        /\ IF wire # <<>> \/ Locked
           THEN /\ poll \in {"idle", "overrun"} /\ recv_len = 0 /\ waiting = {sent}
                /\ Len(wire) = (IF Locked THEN 0 ELSE 1)
                /\ wire # <<>> => wire[1].id = sent
                /\ Locked => tcp.msg.id = sent
                /\ \A c \in 1..tcp.copied : recv_buf[c] = sent
           ELSE /\ poll # "idle" => recv_len > 0 /\ r.len = recv_len
                /\ \A c \in 1..recv_len : recv_buf[c] = sent
                /\ \A c \in 1..Len(r.got) : r.got[c] = sent
                /\ poll \in {"respond", "send", "ack"} => Len(r.got) = r.len
                /\ waiting = {} <=> (poll = "ack" \/ (poll = "idle" /\ recv_len = 0))

IInv ==
    /\ TypeOK /\ Records /\ ConnsCounted /\ Ordered /\ CellsWritten
    /\ EvaluatedOnce /\ AnswersBounded /\ SlowClient

-----------------------------------------------------------------------------
(***************************************************************************)
(* The streams as sequences.                                               *)
(***************************************************************************)
Frames == Msg \cup {Fin}

LEMMA FrameFacts ==
    /\ Fin = NoMsg /\ NoMsg.id = 0 /\ NoMsg.len = 0
    /\ \A m \in Msg : m.id \in 1..MaxMsgs /\ m.len \in 1..MaxLen /\ m # Fin
BY DEF Fin, NoMsg, Msg

LEMMA AppendAt ==
    ASSUME NEW S, NEW w \in Seq(S), NEW x \in S
    PROVE  /\ Append(w, x) \in Seq(S) /\ Len(w) \in Nat
           /\ Len(Append(w, x)) = Len(w) + 1
           /\ \A k \in 1..Len(w)+1 : Append(w, x)[k] = IF k <= Len(w) THEN w[k] ELSE x
<1>1. /\ Append(w, x) \in Seq(S) /\ Len(w) \in Nat
      /\ Len(Append(w, x)) = Len(w) + 1
      /\ \A k \in 1..Len(w) : Append(w, x)[k] = w[k]
      /\ Append(w, x)[Len(w) + 1] = x
    BY AppendProperties, LenProperties
<1>2. \A k \in 1..Len(w)+1 : k \in 1..Len(w) \/ k = Len(w) + 1 BY <1>1
<1> QED BY <1>1, <1>2

LEMMA FunctionIsSeq ==
    ASSUME NEW S, NEW n \in Nat, NEW f \in [1..n -> S]
    PROVE  f \in Seq(S) /\ Len(f) = n
<1>1. f \in Seq(S) BY SeqDef
<1>2. DOMAIN f = 1..Len(f) /\ Len(f) \in Nat BY <1>1, LenProperties
<1> QED BY <1>1, <1>2

LEMMA TailAt ==
    ASSUME NEW S, NEW w \in Seq(S), w # <<>>
    PROVE  /\ Tail(w) \in Seq(S) /\ Len(w) \in Nat \ {0} /\ Len(Tail(w)) = Len(w) - 1
           /\ Head(w) = w[1] /\ w[1] \in S
           /\ \A k \in 1..Len(w)-1 : Tail(w)[k] = w[k+1]
<1>1. Len(w) \in Nat \ {0} BY EmptySeq
<1>2. w[1] \in S BY <1>1, ElementOfSeq
<1> QED BY <1>1, <1>2, HeadTailProperties

LEMMA FinsAppend ==
    ASSUME NEW w \in Seq(Frames), NEW x \in Frames, IsFiniteSet(Fins(w))
    PROVE  /\ IsFiniteSet(Fins(Append(w, x)))
           /\ Cardinality(Fins(Append(w, x)))
                = Cardinality(Fins(w)) + (IF x = Fin THEN 1 ELSE 0)
<1>1. /\ Len(w) \in Nat /\ Len(Append(w, x)) = Len(w) + 1
      /\ \A k \in 1..Len(w)+1 : Append(w, x)[k] = IF k <= Len(w) THEN w[k] ELSE x
    BY AppendAt
<1>2. Len(w) + 1 \notin Fins(w) BY <1>1 DEF Fins
<1>3. CASE x = Fin
    <2>1. Fins(Append(w, x)) = Fins(w) \cup {Len(w) + 1} BY <1>1, <1>3 DEF Fins
    <2> QED BY <1>2, <1>3, <2>1, FS_AddElement
<1>4. CASE x # Fin
    <2>1. Fins(Append(w, x)) = Fins(w) BY <1>1, <1>4 DEF Fins
    <2>2. Cardinality(Fins(w)) \in Nat BY FS_CardinalityType
    <2> QED BY <1>4, <2>1, <2>2
<1> QED BY <1>3, <1>4

LEMMA FinsTail ==
    ASSUME NEW w \in Seq(Frames), w # <<>>, IsFiniteSet(Fins(w))
    PROVE  /\ IsFiniteSet(Fins(Tail(w)))
           /\ Cardinality(Fins(Tail(w)))
                = Cardinality(Fins(w)) - (IF Head(w) = Fin THEN 1 ELSE 0)
<1>1. /\ Len(w) \in Nat \ {0} /\ Len(Tail(w)) = Len(w) - 1 /\ Head(w) = w[1]
      /\ \A k \in 1..Len(w)-1 : Tail(w)[k] = w[k+1]
    BY TailAt
<1> DEFINE S == Fins(w) \ {1}
           T == Fins(Tail(w))
           f == [k \in S |-> k - 1]
<1>2. \A k \in S : k \in 2..Len(w) /\ w[k] = Fin BY <1>1 DEF Fins
<1>3. \A k \in T : k \in 1..Len(w)-1 /\ k + 1 \in S BY <1>1 DEF Fins
<1>4. \A k \in S : k - 1 \in T BY <1>1, <1>2 DEF Fins
<1>5. /\ IsFiniteSet(S)
      /\ Cardinality(S) = IF 1 \in Fins(w) THEN Cardinality(Fins(w)) - 1 ELSE Cardinality(Fins(w))
    BY FS_RemoveElement
<1>6. 1 \in Fins(w) <=> Head(w) = Fin BY <1>1 DEF Fins
<1>7. Cardinality(Fins(w)) \in Nat BY FS_CardinalityType
<1> HIDE DEF S, T
<1>8. f \in [S -> T] BY <1>4
<1>9. \A a, b \in S : f[a] = f[b] => a = b BY <1>2
<1>10. \A t \in T : \E k \in S : f[k] = t
    <2>1. TAKE t \in T
    <2>2. t + 1 \in S /\ f[t + 1] = t BY <1>3
    <2> QED BY <2>2
<1>11. f \in Bijection(S, T)
    BY <1>8, <1>9, <1>10 DEF Bijection, Injection, Surjection, IsInjective
<1>12. IsFiniteSet(T) /\ Cardinality(T) = Cardinality(S)
    BY <1>5, <1>11, FS_Bijection DEF ExistsBijection
<1> QED BY <1>5, <1>6, <1>7, <1>12 DEF T

(* What arithmetic needs of the types.                                     *)
LEMMA Ranges ==
    ASSUME TypeOK
    PROVE  /\ MaxMsgs \in Nat /\ MaxLen \in Nat \ {0} /\ BufLen \in Nat \ {0}
           /\ MaxConns \in Nat
           /\ sent \in Nat /\ base \in 0..sent /\ wire \in Seq(Frames)
           /\ sock \in Nat /\ conn \in 1..sock /\ target \in 0..conn
           /\ tcp.msg \in Frames /\ tcp.msg.id \in Nat /\ tcp.msg.len \in 0..MaxLen
           /\ tcp.copied \in 0..tcp.msg.len /\ (~Locked => tcp.copied = 0)
           /\ tcp.copied <= BufLen
           /\ \A c \in 1..BufLen : recv_buf[c] \in Nat
           /\ recv_buf[1] \in Nat
           /\ \A k \in 1..Len(wire) : wire[k] \in Frames /\ wire[k].id \in Nat
<1>1. /\ MaxMsgs \in Nat /\ MaxLen \in Nat \ {0} /\ BufLen \in Nat \ {0}
      /\ MaxConns \in Nat
      /\ sent \in Nat /\ base \in 0..sent /\ wire \in Seq(Frames)
      /\ sock \in Nat /\ conn \in 1..sock /\ target \in 0..conn
      /\ tcp.msg \in Frames
    BY BoundsAssumption, FrameFacts DEF TypeOK, Frames
<1>2. \A f \in Frames : f.id \in Nat /\ f.len \in 0..MaxLen
    BY <1>1, FrameFacts DEF Frames
<1>3. /\ tcp.copied \in 0..tcp.msg.len /\ tcp.copied <= BufLen
      /\ (~Locked => tcp.copied = 0)
    BY FrameFacts DEF TypeOK, Locked
<1>4. \A c \in 1..BufLen : recv_buf[c] \in Nat BY <1>1 DEF TypeOK
<1>5. 1 \in 1..BufLen BY <1>1
<1>6. \A k \in 1..Len(wire) : wire[k] \in Frames BY <1>1, ElementOfSeq
<1> QED BY <1>1, <1>2, <1>3, <1>4, <1>5, <1>6

-----------------------------------------------------------------------------
(***************************************************************************)
(* The client's steps.                                                     *)
(***************************************************************************)
LEMMA SendRequestStep ==
    ASSUME IInv, NEW len \in 1..MaxLen, SendRequest(len)
    PROVE  IInv'
<1> USE DEF IInv
<1> DEFINE m == [id |-> sent + 1, len |-> len]
<1>1. /\ sent < MaxMsgs /\ sent' = sent + 1
      /\ waiting' = waiting \cup {sent + 1}
      /\ wire' = Append(wire, m)
      /\ UNCHANGED <<kind, base, sock, stale, conn, tcp, recv_buf, recv_len, acked_len,
                     poll, deaf, r, target, evaluated>>
    BY DEF SendRequest, buffer, main
<1>2. /\ MaxMsgs \in Nat /\ sent \in Nat /\ base \in 0..sent /\ wire \in Seq(Frames)
    BY Ranges
<1>3. m \in Msg /\ m.id = sent + 1 BY <1>1, <1>2 DEF Msg
<1>4. m \in Frames /\ m # Fin BY <1>3, FrameFacts DEF Frames
<1> HIDE DEF m
<1>5. /\ wire' \in Seq(Frames) /\ Len(wire) \in Nat /\ Len(wire') = Len(wire) + 1
      /\ \A k \in 1..Len(wire)+1 : wire'[k] = IF k <= Len(wire) THEN wire[k] ELSE m
    BY <1>1, <1>2, <1>4, AppendAt
<1>6. TypeOK'
    BY <1>1, <1>2, <1>5 DEF TypeOK, Frames
<1>7. Records' BY <1>1 DEF Records
<1>8. ConnsCounted'
    BY <1>1, <1>2, <1>4, FinsAppend, FS_CardinalityType DEF ConnsCounted, TypeOK
<1>9. Ordered'
    <2>1. \A k \in 1..Len(wire)+1 : k \in 1..Len(wire) \/ k = Len(wire) + 1 BY <1>5
    <2>2. recv_buf[1] \in Nat /\ tcp.msg.id \in Nat
        BY Ranges
    <2>3. \A k \in 1..Len(wire) : wire[k] # Fin => wire[k].id \in Nat /\ wire[k].id <= sent
        <3>1. TAKE k \in 1..Len(wire)
        <3> QED BY Ranges DEF Ordered
    <2>4. Later(wire')
        BY <1>2, <1>3, <1>5, <2>1, <2>3 DEF Later, Ordered
    <2>5. \A k \in 1..Len(wire') : wire'[k] # Fin =>
            wire'[k].id <= sent' /\ recv_buf[1] < wire'[k].id /\ tcp.msg.id < wire'[k].id
        BY <1>1, <1>2, <1>3, <1>5, <2>1, <2>2, <2>3 DEF Ordered
    <2> QED BY <1>1, <1>2, <2>2, <2>4, <2>5 DEF Ordered, Locked
<1>10. CellsWritten' BY <1>1 DEF CellsWritten
<1>11. EvaluatedOnce' BY <1>1 DEF EvaluatedOnce, Newer
<1>12. AnswersBounded'
    <2>1. WireNew(wire)'
        <3> SUFFICES ASSUME NEW k \in 1..Len(wire'), wire'[k] # Fin,
                            \A j \in k+1..Len(wire') : wire'[j] # Fin
                     PROVE  base' < wire'[k].id
            BY DEF WireNew
        <3>1. CASE k = Len(wire) + 1 BY <1>1, <1>2, <1>3, <1>5, <3>1
        <3>2. CASE k \in 1..Len(wire)
            <4>1. \A j \in k+1..Len(wire) : wire[j] # Fin BY <1>5, <3>2
            <4> QED BY <1>1, <1>5, <3>2, <4>1 DEF AnswersBounded, WireNew
        <3> QED BY <1>5, <3>1, <3>2
    <2> QED BY <1>1, <2>1 DEF AnswersBounded, OldGone, Locked
<1>13. SlowClient'
    <2> SUFFICES ASSUME kind = "slow" PROVE SlowClient'
        BY <1>1 DEF SlowClient
    <2>1. poll = "idle" /\ Cardinality(waiting) < 1
        BY DEF SendRequest, Patience
    <2>2. waiting = {}
        <3>1. CASE waiting = {sent}
            <4>1. Cardinality({sent}) = 1 BY FS_Singleton
            <4> QED BY <2>1, <3>1, <4>1
        <3> QED BY <3>1 DEF SlowClient
    <2>3. wire = <<>> /\ ~Locked /\ recv_len = 0
        <3>1. waiting # {sent} BY <2>2
        <3>2. wire = <<>> /\ ~Locked BY <3>1 DEF SlowClient
        <3> QED BY <2>1, <2>2, <3>2 DEF SlowClient
    <2>4. Len(wire') = 1 /\ wire'[1] = m /\ wire' # <<>>
        BY <1>5, <2>3, EmptySeq
    <2>5. tcp.copied = 0
        BY <2>3, FrameFacts DEF TypeOK, Locked
    <2> QED BY <1>1, <1>3, <2>1, <2>2, <2>3, <2>4, <2>5 DEF SlowClient, Locked
<1> QED BY <1>6, <1>7, <1>8, <1>9, <1>10, <1>11, <1>12, <1>13

LEMMA GiveUpStep ==
    ASSUME IInv, GiveUp
    PROVE  IInv'
<1> USE DEF IInv
<1>1. /\ kind = "impatient" /\ waiting' = {}
      /\ UNCHANGED <<kind, sent, base, sock, stale, wire, conn, tcp, recv_buf, recv_len,
                     acked_len, poll, deaf, r, target, evaluated>>
    BY DEF GiveUp, buffer, main
<1>2. TypeOK' BY <1>1 DEF TypeOK
<1>3. Records' /\ ConnsCounted' /\ Ordered' /\ CellsWritten'
    BY <1>1 DEF Records, ConnsCounted, Ordered, CellsWritten, Locked
<1>4. EvaluatedOnce' /\ AnswersBounded' /\ SlowClient'
    BY <1>1 DEF EvaluatedOnce, Newer, AnswersBounded, OldGone, WireNew, Locked, SlowClient
<1> QED BY <1>2, <1>3, <1>4

LEMMA ReconnectStep ==
    ASSUME IInv, Reconnect
    PROVE  IInv'
<1> USE DEF IInv
<1>1. /\ kind = "impatient" /\ sock < MaxConns
      /\ waiting' = {} /\ sock' = sock + 1 /\ base' = sent /\ stale' = 0
      /\ wire' = Append(wire, Fin)
      /\ UNCHANGED <<kind, sent, conn, tcp, recv_buf, recv_len, acked_len,
                     poll, deaf, r, target, evaluated>>
    BY DEF Reconnect, buffer, main
<1>2. /\ sent \in Nat /\ wire \in Seq(Frames) /\ Fin \in Frames
      /\ sock \in Nat /\ conn \in 1..sock
    BY BoundsAssumption DEF TypeOK, Frames
<1>3. /\ wire' \in Seq(Frames) /\ Len(wire) \in Nat /\ Len(wire') = Len(wire) + 1
      /\ \A k \in 1..Len(wire)+1 : wire'[k] = IF k <= Len(wire) THEN wire[k] ELSE Fin
    BY <1>1, <1>2, AppendAt
<1>4. \A k \in 1..Len(wire') : wire'[k] # Fin => k \in 1..Len(wire) /\ wire'[k] = wire[k]
    BY <1>3
<1>5. TypeOK'
    <2>1. sock' \in 1..MaxConns BY <1>1, <1>2, BoundsAssumption
    <2> QED BY <1>1, <1>2, <1>3, <2>1, BoundsAssumption DEF TypeOK, Frames
<1>6. Records' BY <1>1 DEF Records
<1>7. ConnsCounted'
    <2>1. Cardinality(Fins(wire)) \in Nat BY FS_CardinalityType DEF ConnsCounted
    <2>2. /\ IsFiniteSet(Fins(wire'))
          /\ Cardinality(Fins(wire')) = Cardinality(Fins(wire)) + 1
        BY <1>1, <1>2, <2>1, FinsAppend DEF ConnsCounted
    <2> QED BY <1>1, <1>2, <2>1, <2>2 DEF ConnsCounted
<1>8. Ordered' BY <1>1, <1>4 DEF Ordered, Later, Locked
<1>9. CellsWritten' BY <1>1 DEF CellsWritten
<1>10. EvaluatedOnce' BY <1>1 DEF EvaluatedOnce, Newer
<1>11. AnswersBounded'
    <2>1. WireNew(wire)'
        <3> SUFFICES ASSUME NEW k \in 1..Len(wire'), wire'[k] # Fin,
                            \A j \in k+1..Len(wire') : wire'[j] # Fin
                     PROVE  FALSE
            BY DEF WireNew
        <3>1. k \in 1..Len(wire) BY <1>4
        <3>2. Len(wire') \in k+1..Len(wire') /\ wire'[Len(wire')] = Fin BY <1>3, <3>1
        <3> QED BY <3>2
    <2>2. conn' # sock' BY <1>1, <1>2
    <2> QED BY <1>1, <2>1, <2>2 DEF AnswersBounded, Locked
<1>12. SlowClient' BY <1>1 DEF SlowClient
<1> QED BY <1>5, <1>6, <1>7, <1>8, <1>9, <1>10, <1>11, <1>12

-----------------------------------------------------------------------------
(***************************************************************************)
(* The receiver thread's steps.                                            *)
(***************************************************************************)
(* What both of its steps on the wire leave there.                         *)
LEMMA WireAdvances ==
    ASSUME IInv, wire # <<>>, wire' = Tail(wire), base' = base
    PROVE  /\ wire' \in Seq(Frames) /\ Len(wire) \in Nat \ {0} /\ Len(wire') = Len(wire) - 1
           /\ Head(wire) = wire[1] /\ wire[1] \in Frames
           /\ \A k \in 1..Len(wire') : wire'[k] = wire[k+1] /\ k + 1 \in 1..Len(wire)
           /\ Later(wire') /\ WireNew(wire)'
           /\ IsFiniteSet(Fins(wire'))
           /\ Cardinality(Fins(wire'))
                = Cardinality(Fins(wire)) - (IF Head(wire) = Fin THEN 1 ELSE 0)
           /\ Cardinality(Fins(wire)) \in Nat /\ Cardinality(Fins(wire')) \in Nat
<1> USE DEF IInv
<1>1. wire \in Seq(Frames) BY Ranges
<1>2. /\ wire' \in Seq(Frames) /\ Len(wire) \in Nat \ {0} /\ Len(wire') = Len(wire) - 1
      /\ Head(wire) = wire[1] /\ wire[1] \in Frames
      /\ \A k \in 1..Len(wire)-1 : wire'[k] = wire[k+1]
    BY <1>1, TailAt
<1>3. \A k \in 1..Len(wire') : wire'[k] = wire[k+1] /\ k + 1 \in 1..Len(wire) BY <1>2
<1>4. Later(wire')
    <2> SUFFICES ASSUME NEW j \in 1..Len(wire'), NEW k \in 1..Len(wire'), j < k,
                        wire'[j] # Fin, wire'[k] # Fin
                 PROVE  wire'[j].id < wire'[k].id
        BY DEF Later
    <2>1. j + 1 < k + 1 BY <1>2
    <2> QED BY <1>3, <2>1 DEF Ordered, Later
<1>5. WireNew(wire)'
    <2> SUFFICES ASSUME NEW k \in 1..Len(wire'), wire'[k] # Fin,
                        \A j \in k+1..Len(wire') : wire'[j] # Fin
                 PROVE  base' < wire'[k].id
        BY DEF WireNew
    <2>1. \A j \in k+2..Len(wire) : wire[j] # Fin
        <3>1. TAKE j \in k+2..Len(wire)
        <3>2. j - 1 \in k+1..Len(wire') /\ j - 1 \in 1..Len(wire') /\ (j - 1) + 1 = j BY <1>2
        <3>3. wire'[j - 1] = wire[j] BY <1>3, <3>2
        <3> QED BY <3>2, <3>3
    <2>2. k + 1 \in 1..Len(wire) /\ (k + 1) + 1 = k + 2 BY <1>3
    <2> QED BY <1>3, <2>1, <2>2 DEF AnswersBounded, WireNew
<1>6. /\ IsFiniteSet(Fins(wire'))
      /\ Cardinality(Fins(wire'))
           = Cardinality(Fins(wire)) - (IF Head(wire) = Fin THEN 1 ELSE 0)
    BY <1>1, FinsTail DEF ConnsCounted
<1>7. Cardinality(Fins(wire)) \in Nat /\ Cardinality(Fins(wire')) \in Nat
    BY <1>6, FS_CardinalityType DEF ConnsCounted
<1> QED BY <1>2, <1>3, <1>4, <1>5, <1>6, <1>7

LEMMA AcceptStep ==
    ASSUME IInv, Accept
    PROVE  IInv'
<1> USE DEF IInv
<1>1. /\ wire # <<>> /\ ~Locked /\ Head(wire) = Fin
      /\ conn' = conn + 1 /\ wire' = Tail(wire)
      /\ UNCHANGED <<kind, waiting, sent, base, sock, stale, tcp, recv_buf, recv_len,
                     acked_len, poll, deaf, r, target, evaluated>>
    BY DEF Accept, client, buffer, main
<1>2. /\ wire' \in Seq(Frames) /\ Len(wire) \in Nat \ {0} /\ Head(wire) = wire[1]
      /\ \A k \in 1..Len(wire') : wire'[k] = wire[k+1] /\ k + 1 \in 1..Len(wire)
      /\ Later(wire') /\ WireNew(wire)'
      /\ IsFiniteSet(Fins(wire'))
      /\ Cardinality(Fins(wire')) = Cardinality(Fins(wire)) - 1
      /\ Cardinality(Fins(wire)) \in Nat /\ Cardinality(Fins(wire')) \in Nat
    BY <1>1, WireAdvances
<1>3. sock \in Nat /\ conn \in 1..sock /\ target \in 0..conn BY Ranges
<1>4. conn < sock /\ stale = 0
    BY <1>2, <1>3 DEF ConnsCounted, AnswersBounded
<1>5. TypeOK' BY <1>1, <1>2, <1>3, <1>4 DEF TypeOK, Frames
<1>6. Records' /\ CellsWritten' BY <1>1 DEF Records, CellsWritten
<1>7. ConnsCounted' BY <1>1, <1>2, <1>3 DEF ConnsCounted
<1>8. Ordered' BY <1>1, <1>2 DEF Ordered, Locked
<1>9. EvaluatedOnce' BY <1>1 DEF EvaluatedOnce, Newer
<1>10. AnswersBounded' BY <1>1, <1>2, <1>4 DEF AnswersBounded, Locked
<1>11. SlowClient'
    <2> SUFFICES ASSUME kind = "slow" PROVE FALSE BY <1>1 DEF SlowClient
    <2>1. wire[1].id = sent /\ waiting = {sent} BY <1>1 DEF SlowClient
    <2>2. sent \in 1..MaxMsgs BY <2>1 DEF TypeOK
    <2>3. sent = 0 BY <1>1, <1>2, <2>1, FrameFacts
    <2> QED BY <2>2, <2>3
<1> QED BY <1>5, <1>6, <1>7, <1>8, <1>9, <1>10, <1>11

LEMMA LockBufferStep ==
    ASSUME IInv, LockBuffer
    PROVE  IInv'
<1> USE DEF IInv
<1>1. /\ poll # "overrun" /\ wire # <<>> /\ ~Locked /\ Head(wire) # Fin
      /\ tcp' = [msg |-> Head(wire), copied |-> 0] /\ wire' = Tail(wire)
      /\ UNCHANGED <<kind, waiting, sent, base, sock, stale, conn, recv_buf, recv_len,
                     acked_len, poll, deaf, r, target, evaluated>>
    BY DEF LockBuffer, Alive, client, buffer, main
<1>2. /\ wire' \in Seq(Frames) /\ Len(wire) \in Nat \ {0} /\ Len(wire') = Len(wire) - 1
      /\ Head(wire) = wire[1] /\ wire[1] \in Frames
      /\ \A k \in 1..Len(wire') : wire'[k] = wire[k+1] /\ k + 1 \in 1..Len(wire)
      /\ Later(wire') /\ WireNew(wire)'
      /\ IsFiniteSet(Fins(wire'))
      /\ Cardinality(Fins(wire')) = Cardinality(Fins(wire))
      /\ Cardinality(Fins(wire)) \in Nat
    BY <1>1, WireAdvances
<1>3. sock \in Nat /\ conn \in 1..sock /\ tcp.copied = 0 BY <1>1, Ranges
<1>4. /\ tcp'.msg = wire[1] /\ tcp'.copied = 0 /\ Locked'
      /\ wire[1] \in Msg /\ wire[1].id \in 1..MaxMsgs /\ wire[1].len \in 1..MaxLen
    BY <1>1, <1>2, FrameFacts DEF Frames, Locked
<1>5. 1 \in 1..Len(wire) BY <1>2
<1>6. TypeOK'
    <2>1. 0 \in 0..wire[1].len /\ 0 <= BufLen
        <3>1. MaxLen \in Nat /\ BufLen \in Nat BY Ranges
        <3> QED BY <1>4, <3>1
    <2>2. /\ tcp'.msg \in Msg \cup {NoMsg} /\ tcp'.copied \in 0..tcp'.msg.len
          /\ tcp'.copied <= BufLen
        BY <1>4, <2>1
    <2>3. wire' \in Seq(Msg \cup {Fin}) BY <1>2 DEF Frames
    <2> QED BY <1>1, <2>2, <2>3 DEF TypeOK
<1>7. Records' BY <1>1 DEF Records
<1>8. CellsWritten' BY <1>1, <1>4 DEF CellsWritten
<1>9. ConnsCounted' BY <1>1, <1>2 DEF ConnsCounted
<1>10. Ordered'
    <2>1. \A k \in 1..Len(wire') : wire'[k] # Fin =>
            wire'[k].id <= sent /\ recv_buf[1] < wire'[k].id /\ wire[1].id < wire'[k].id
        <3>1. TAKE k \in 1..Len(wire')
        <3>2. k + 1 \in 1..Len(wire) /\ 1 < k + 1 /\ wire'[k] = wire[k+1] BY <1>2
        <3> QED BY <1>1, <1>2, <1>5, <3>2 DEF Ordered, Later
    <2>2. wire[1].id <= sent /\ recv_buf[1] < wire[1].id BY <1>1, <1>2, <1>5 DEF Ordered
    <2> QED BY <1>1, <1>2, <1>4, <2>1, <2>2 DEF Ordered
<1>11. EvaluatedOnce' BY <1>1, <1>3, <1>4 DEF EvaluatedOnce, Newer
<1>12. AnswersBounded'
    <2>1. ASSUME conn = sock PROVE base < wire[1].id
        <3>1. Cardinality(Fins(wire)) = 0 BY <1>2, <1>3, <2>1 DEF ConnsCounted
        <3>2. Fins(wire) = {} BY <3>1, FS_EmptySet DEF ConnsCounted
        <3>3. \A j \in 1..Len(wire) : wire[j] # Fin BY <3>2 DEF Fins
        <3>4. \A j \in 1+1..Len(wire) : wire[j] # Fin BY <1>2, <3>3
        <3> QED BY <1>5, <3>3, <3>4 DEF AnswersBounded, WireNew
    <2> QED BY <1>1, <1>2, <1>3, <1>4, <2>1 DEF AnswersBounded, OldGone
<1>13. SlowClient'
    <2> SUFFICES ASSUME kind = "slow" PROVE SlowClient' BY <1>1 DEF SlowClient
    <2>1. /\ sock = 1 /\ conn = 1 /\ waiting = {sent} /\ poll = "idle" /\ recv_len = 0
          /\ Len(wire) = 1 /\ wire[1].id = sent /\ acked_len = 0 /\ Len(r.got) = 0
        BY <1>1 DEF SlowClient
    <2>2. Len(wire') = 0 /\ wire' = <<>> BY <1>2, <2>1, EmptySeq
    <2> QED BY <1>1, <1>4, <2>1, <2>2 DEF SlowClient
<1> QED BY <1>6, <1>7, <1>8, <1>9, <1>10, <1>11, <1>12, <1>13

LEMMA CopyCellStep ==
    ASSUME IInv, CopyCell
    PROVE  IInv'
<1> USE DEF IInv
<1>1. /\ poll # "overrun" /\ Locked /\ tcp.copied < tcp.msg.len /\ tcp.copied < BufLen
      /\ recv_buf' = [recv_buf EXCEPT ![tcp.copied + 1] = tcp.msg.id]
      /\ tcp' = [tcp EXCEPT !.copied = @ + 1]
      /\ UNCHANGED <<kind, waiting, sent, base, sock, stale, wire, conn, recv_len,
                     acked_len, poll, deaf, r, target, evaluated>>
    BY DEF CopyCell, Alive, client, main
<1>2. /\ tcp.msg.len \in 0..MaxLen /\ tcp.copied \in Nat /\ MaxLen \in Nat /\ BufLen \in Nat \ {0}
      /\ recv_buf[1] \in Nat /\ tcp.msg.id \in Nat /\ base \in Nat
    BY Ranges
<1>3. tcp.msg.id \in 1..MaxMsgs BY <1>1, FrameFacts DEF TypeOK, Locked
<1>4. tcp' = [msg |-> tcp.msg, copied |-> tcp.copied + 1]
    BY <1>1 DEF Records
<1>5. tcp'.msg = tcp.msg /\ tcp'.copied = tcp.copied + 1 /\ Locked'
    BY <1>1, <1>4 DEF Locked
<1>6. \A c \in 1..BufLen :
        recv_buf'[c] = IF c = tcp.copied + 1 THEN tcp.msg.id ELSE recv_buf[c]
    BY <1>1 DEF TypeOK
<1>7. recv_buf'[1] = tcp.msg.id /\ recv_buf[1] <= recv_buf'[1]
    <2>1. CASE tcp.copied = 0 BY <1>1, <1>2, <1>6, <2>1 DEF Ordered
    <2>2. CASE tcp.copied # 0 BY <1>1, <1>2, <1>6, <2>2 DEF Ordered
    <2> QED BY <2>1, <2>2
<1>8. TypeOK'
    <2>1. recv_buf' \in [1..BufLen -> 0..MaxMsgs]
        <3>1. tcp.msg.id \in 0..MaxMsgs /\ recv_buf \in [1..BufLen -> 0..MaxMsgs]
            BY <1>3 DEF TypeOK
        <3> QED BY <1>1, <3>1
    <2>2. /\ tcp'.msg \in Msg \cup {NoMsg} /\ tcp'.copied \in 0..tcp'.msg.len
          /\ tcp'.copied <= BufLen
        <3>1. tcp.msg \in Msg \cup {NoMsg} BY DEF TypeOK
        <3>2. tcp.copied + 1 \in 0..tcp.msg.len /\ tcp.copied + 1 <= BufLen BY <1>1, <1>2
        <3> QED BY <1>5, <3>1, <3>2
    <2> QED BY <1>1, <2>1, <2>2 DEF TypeOK
<1>9. Records' BY <1>1, <1>4, <1>5 DEF Records
<1>10. CellsWritten'
    <2>1. \A c \in 1..BufLen : recv_buf[c] \in 1..MaxMsgs => recv_buf'[c] \in 1..MaxMsgs
        BY <1>3, <1>6
    <2>2. recv_len \in 0..BufLen /\ r.len \in 0..BufLen BY DEF TypeOK
    <2>3. /\ \A c \in 1..recv_len : recv_buf'[c] \in 1..MaxMsgs
          /\ \A c \in 1..r.len : recv_buf'[c] \in 1..MaxMsgs
        BY <1>2, <2>1, <2>2 DEF CellsWritten
    <2>4. \A c \in 1..tcp.copied+1 : recv_buf'[c] \in 1..MaxMsgs
        <3>1. \A c \in 1..tcp.copied+1 : c \in 1..tcp.copied \/ c = tcp.copied + 1 BY <1>2
        <3>2. \A c \in 1..tcp.copied+1 : c \in 1..BufLen BY <1>1, <1>2
        <3> QED BY <1>3, <1>6, <2>1, <3>1, <3>2 DEF CellsWritten
    <2> QED BY <1>1, <1>5, <2>3, <2>4 DEF CellsWritten
<1>11. ConnsCounted' BY <1>1 DEF ConnsCounted
<1>12. Ordered'
    <2>1. tcp.copied + 1 # 0 BY <1>2
    <2> QED BY <1>1, <1>5, <1>7, <2>1 DEF Ordered
<1>13. EvaluatedOnce'
    <2>1. \A k \in 1..Len(evaluated) : evaluated[k][1] \in Nat
        <3>1. TAKE k \in 1..Len(evaluated)
        <3>2. evaluated[k] \in Seq(1..MaxMsgs) BY ElementOfSeq DEF Records
        <3>3. 1 \in 1..Len(evaluated[k]) BY <3>2, LenProperties DEF EvaluatedOnce
        <3>4. evaluated[k][1] \in 1..MaxMsgs BY <3>2, <3>3, ElementOfSeq
        <3>5. MaxMsgs \in Nat BY Ranges
        <3> QED BY <3>4, <3>5
    <2>2. \A k \in 1..Len(evaluated) : evaluated[k][1] <= recv_buf'[1]
        BY <1>2, <1>7, <2>1 DEF EvaluatedOnce
    <2>3. Newer(recv_buf[1]) => Newer(recv_buf'[1])
        BY <1>2, <1>7, <2>1 DEF Newer
    <2>4. tcp.copied = 0 => Newer(recv_buf'[1])
        <3> SUFFICES ASSUME tcp.copied = 0, NEW k \in 1..Len(evaluated)
                     PROVE  evaluated[k][1] < recv_buf'[1]
            BY DEF Newer
        <3>1. recv_buf[1] < recv_buf'[1] BY <1>1, <1>7 DEF Ordered
        <3>2. evaluated[k][1] <= recv_buf[1] BY DEF EvaluatedOnce
        <3>3. evaluated[k][1] \in Nat /\ recv_buf[1] \in Nat BY <2>1, Ranges
        <3> QED BY <1>2, <1>7, <3>1, <3>2, <3>3
    <2>5. poll = "idle" => Newer(recv_buf'[1])
        BY <1>2, <2>3, <2>4 DEF EvaluatedOnce
    <2>6. poll = "evaluate" /\ Len(r.got) # 0 => r.got[1] <= recv_buf'[1]
        <3>1. r.got \in Seq(1..MaxMsgs) BY DEF TypeOK
        <3>2. ASSUME Len(r.got) # 0 PROVE r.got[1] \in Nat
            <4>1. 1 \in 1..Len(r.got) BY <3>1, <3>2, LenProperties
            <4>2. r.got[1] \in 1..MaxMsgs BY <3>1, <4>1, ElementOfSeq
            <4>3. MaxMsgs \in Nat BY Ranges
            <4> QED BY <4>2, <4>3
        <3> QED BY <1>2, <1>7, <3>2 DEF EvaluatedOnce
    <2> QED BY <1>1, <2>2, <2>3, <2>5, <2>6 DEF EvaluatedOnce, Newer
<1>14. AnswersBounded'
    BY <1>1, <1>2, <1>5, <1>7 DEF AnswersBounded, WireNew, OldGone
<1>15. SlowClient'
    <2> SUFFICES ASSUME kind = "slow" PROVE SlowClient' BY <1>1 DEF SlowClient
    <2>1. /\ poll = "idle" /\ recv_len = 0 /\ waiting = {sent} /\ Len(wire) = 0
          /\ tcp.msg.id = sent /\ \A c \in 1..tcp.copied : recv_buf[c] = sent
        BY <1>1 DEF SlowClient
    <2>2. \A c \in 1..tcp.copied+1 : recv_buf'[c] = sent
        <3>1. \A c \in 1..tcp.copied+1 : c \in 1..tcp.copied \/ c = tcp.copied + 1 BY <1>2
        <3>2. \A c \in 1..tcp.copied+1 : c \in 1..BufLen BY <1>1, <1>2
        <3> QED BY <1>6, <2>1, <3>1, <3>2
    <2> QED BY <1>1, <1>5, <2>1, <2>2 DEF SlowClient
<1> QED BY <1>8, <1>9, <1>10, <1>11, <1>12, <1>13, <1>14, <1>15

LEMMA CopyPastEndStep ==
    ASSUME IInv, CopyPastEnd
    PROVE  IInv'
<1> USE DEF IInv
<1>1. /\ poll # "overrun" /\ poll # "dead" /\ poll' = "overrun"
      /\ Locked /\ tcp.copied < tcp.msg.len /\ tcp.copied = BufLen
      /\ UNCHANGED <<kind, waiting, sent, base, sock, stale, wire, conn, tcp, recv_buf,
                     recv_len, acked_len, deaf, r, target, evaluated>>
    BY DEF CopyPastEnd, Alive, client, buffer
<1>2. TypeOK' BY <1>1 DEF TypeOK
<1>3. Records' /\ ConnsCounted' /\ Ordered' /\ CellsWritten'
    BY <1>1 DEF Records, ConnsCounted, Ordered, Later, Locked, CellsWritten
<1>4. EvaluatedOnce' BY <1>1 DEF EvaluatedOnce, Newer
<1>5. AnswersBounded' BY <1>1 DEF AnswersBounded, WireNew, Locked
<1>6. SlowClient' BY <1>1 DEF SlowClient, Locked
<1> QED BY <1>2, <1>3, <1>4, <1>5, <1>6

LEMMA PublishMessageStep ==
    ASSUME IInv, PublishMessage
    PROVE  IInv'
<1> USE DEF IInv
<1>1. /\ poll # "overrun" /\ Locked /\ tcp.copied = tcp.msg.len /\ recv_len' = tcp.msg.len
      /\ tcp' = [msg |-> NoMsg, copied |-> 0]
      /\ UNCHANGED <<kind, waiting, sent, base, sock, stale, wire, conn, recv_buf,
                     acked_len, poll, deaf, r, target, evaluated>>
    BY DEF PublishMessage, Alive, client, main
<1>2. /\ tcp'.msg = NoMsg /\ tcp'.msg.id = 0 /\ tcp'.msg.len = 0 /\ tcp'.copied = 0
      /\ ~(Locked')
    BY <1>1, FrameFacts DEF Locked
<1>3. tcp.msg.len \in 1..BufLen
    <2>1. tcp.msg.len \in 1..MaxLen BY <1>1, FrameFacts DEF TypeOK, Locked
    <2> QED BY <1>1, <2>1, Ranges
<1>4. TypeOK'
    <2>1. /\ tcp'.msg \in Msg \cup {NoMsg} /\ tcp'.copied \in 0..tcp'.msg.len
          /\ tcp'.copied <= BufLen
        <3>1. 0 \in 0..0 /\ 0 <= BufLen BY Ranges
        <3> QED BY <1>2, <3>1
    <2>2. recv_len' \in 0..BufLen BY <1>1, <1>3
    <2> QED BY <1>1, <2>1, <2>2 DEF TypeOK
<1>5. Records' BY <1>1 DEF Records
<1>6. CellsWritten' BY <1>1, <1>2 DEF CellsWritten
<1>7. ConnsCounted' BY <1>1 DEF ConnsCounted
<1>8. Ordered'
    <2>1. \A k \in 1..Len(wire) : wire[k] # Fin => 0 < wire[k].id
        <3>1. \A f \in Frames : f # Fin => f.id \in 1..MaxMsgs BY FrameFacts DEF Frames
        <3>2. \A k \in 1..Len(wire) : wire[k] \in Frames BY Ranges
        <3>3. MaxMsgs \in Nat BY Ranges
        <3> QED BY <3>1, <3>2, <3>3
    <2> QED BY <1>1, <1>2, <2>1, Ranges DEF Ordered
<1>9. EvaluatedOnce' BY <1>1, <1>2, <1>3, Ranges DEF EvaluatedOnce, Newer
<1>10. AnswersBounded'
    BY <1>1, <1>2, <1>3, Ranges DEF AnswersBounded, WireNew, OldGone
<1>11. SlowClient'
    <2> SUFFICES ASSUME kind = "slow" PROVE SlowClient' BY <1>1 DEF SlowClient
    <2>1. /\ sock = 1 /\ conn = 1 /\ poll = "idle" /\ acked_len = 0 /\ Len(r.got) = 0
          /\ waiting = {sent} /\ Len(wire) = 0
          /\ \A c \in 1..tcp.msg.len : recv_buf[c] = sent
        BY <1>1 DEF SlowClient
    <2>2. wire = <<>> BY <2>1, Ranges, EmptySeq
    <2>3. recv_len' > 0 /\ waiting # {} BY <1>1, <1>3, <2>1
    <2> QED BY <1>1, <1>2, <2>1, <2>2, <2>3 DEF SlowClient
<1> QED BY <1>4, <1>5, <1>6, <1>7, <1>8, <1>9, <1>10, <1>11

-----------------------------------------------------------------------------
(***************************************************************************)
(* The main thread's steps.                                                *)
(***************************************************************************)
LEMMA PeekStep ==
    ASSUME IInv, Peek
    PROVE  IInv'
<1> USE DEF IInv
<1>1. /\ poll = "idle" /\ ~Locked
      /\ acked_len' = (IF recv_len > acked_len THEN recv_len ELSE acked_len)
      /\ \/ /\ recv_len > 0 /\ poll' = "evaluate" /\ r' = [len |-> recv_len, got |-> <<>>]
         \/ PeekLen = 0 /\ UNCHANGED <<poll, r>>
      /\ UNCHANGED <<kind, waiting, sent, base, sock, stale, wire, conn, tcp, recv_buf,
                     recv_len, deaf, target, evaluated>>
    <2>1. recv_len \in Nat /\ acked_len \in Nat BY Ranges DEF TypeOK
    <2> QED BY <2>1 DEF Peek, PeekLen, client
<1>2. recv_len \in 0..BufLen /\ acked_len \in 0..BufLen /\ BufLen \in Nat
    BY Ranges DEF TypeOK
<1>3. ConnsCounted' /\ Ordered' BY <1>1 DEF ConnsCounted, Ordered, Later, Locked
<1>4. CASE PeekLen = 0 /\ UNCHANGED <<poll, r>>
    <2>1. TypeOK' BY <1>1, <1>2, <1>4 DEF TypeOK
    <2>2. Records' /\ CellsWritten' /\ EvaluatedOnce'
        BY <1>1, <1>4 DEF Records, CellsWritten, EvaluatedOnce, Newer
    <2>3. AnswersBounded' BY <1>1, <1>4 DEF AnswersBounded, WireNew, OldGone, Locked
    <2>4. SlowClient'
        <3>1. kind = "slow" => acked_len' = 0
            BY <1>1, <1>2, <1>4 DEF SlowClient, PeekLen
        <3> QED BY <1>1, <1>4, <3>1 DEF SlowClient, Locked
    <2> QED BY <1>3, <2>1, <2>2, <2>3, <2>4
<1>5. CASE recv_len > 0 /\ poll' = "evaluate" /\ r' = [len |-> recv_len, got |-> <<>>]
    <2>1. r'.len = recv_len /\ r'.got = <<>> /\ Len(r'.got) = 0
        BY <1>5
    <2>2. r'.got \in Seq(1..MaxMsgs) BY <2>1
    <2>3. TypeOK' BY <1>1, <1>2, <1>5, <2>1, <2>2 DEF TypeOK
    <2>4. Records' /\ CellsWritten' BY <1>1, <1>5, <2>1 DEF Records, CellsWritten
    <2>5. EvaluatedOnce' BY <1>1, <1>5, <2>1 DEF EvaluatedOnce, Newer
    <2>6. AnswersBounded' BY <1>1, <1>5, <2>1 DEF AnswersBounded, WireNew, OldGone, Locked
    <2>7. SlowClient'
        <3> SUFFICES ASSUME kind = "slow" PROVE SlowClient' BY <1>1 DEF SlowClient
        <3>1. wire = <<>> /\ recv_len # 0 BY <1>1, <1>2, <1>5 DEF SlowClient
        <3> QED BY <1>1, <1>5, <2>1, <3>1 DEF SlowClient, Locked
    <2> QED BY <1>3, <2>3, <2>4, <2>5, <2>6, <2>7
<1> QED BY <1>1, <1>4, <1>5

LEMMA ReadCellStep ==
    ASSUME IInv, ReadCell
    PROVE  IInv'
<1> USE DEF IInv
<1> DEFINE cell == recv_buf[Len(r.got) + 1]
<1>1. /\ poll = "evaluate" /\ Len(r.got) < r.len
      /\ r' = [len |-> r.len, got |-> Append(r.got, cell)]
      /\ UNCHANGED <<kind, waiting, sent, base, sock, stale, wire, conn, tcp, recv_buf,
                     recv_len, acked_len, poll, deaf, target, evaluated>>
    BY DEF ReadCell, client, buffer, Records
<1>2. r.got \in Seq(1..MaxMsgs) /\ Len(r.got) \in Nat /\ r.len \in 0..BufLen /\ BufLen \in Nat
    BY Ranges, LenProperties DEF TypeOK
<1>3. Len(r.got) + 1 \in 1..r.len BY <1>1, <1>2
<1>4. cell \in 1..MaxMsgs BY <1>3 DEF CellsWritten
<1>5. Len(r.got) = 0 => cell = recv_buf[1] OBVIOUS
<1>6. kind = "slow" => cell = sent BY <1>1, <1>3 DEF SlowClient
<1> HIDE DEF cell
<1>7. r'.len = r.len /\ r'.got = Append(r.got, cell) BY <1>1
<1>8. /\ r'.got \in Seq(1..MaxMsgs) /\ Len(r'.got) = Len(r.got) + 1
      /\ \A c \in 1..Len(r.got)+1 : r'.got[c] = IF c <= Len(r.got) THEN r.got[c] ELSE cell
    BY <1>2, <1>4, <1>7, AppendAt
<1>9. r'.got[1] = (IF Len(r.got) = 0 THEN recv_buf[1] ELSE r.got[1]) /\ Len(r'.got) > 0
    BY <1>2, <1>5, <1>8
<1>10. TypeOK' BY <1>1, <1>2, <1>3, <1>7, <1>8 DEF TypeOK
<1>11. Records' BY <1>1, <1>7 DEF Records
<1>12. ConnsCounted' /\ Ordered' /\ CellsWritten'
    BY <1>1, <1>7 DEF ConnsCounted, Ordered, Later, Locked, CellsWritten
<1>13. EvaluatedOnce'
    <2>1. recv_buf[1] \in Nat BY Ranges
    <2>2. IF Len(r.got) = 0 THEN Newer(recv_buf[1])
                            ELSE r.got[1] <= recv_buf[1] /\ Newer(r.got[1])
        BY <1>1 DEF EvaluatedOnce
    <2>3. r'.got[1] <= recv_buf[1] /\ Newer(r.got[1])'
        BY <1>1, <1>9, <2>1, <2>2 DEF Newer
    <2>4. /\ \A k \in 1..Len(evaluated) : Len(evaluated[k]) > 0 /\ evaluated[k][1] <= recv_buf[1]
          /\ \A j, k \in 1..Len(evaluated) : j < k => evaluated[j][1] < evaluated[k][1]
          /\ r.len > 0
        BY <1>1 DEF EvaluatedOnce
    <2> HIDE DEF IInv
    <2> QED BY <1>1, <1>7, <1>9, <2>3, <2>4 DEF EvaluatedOnce
<1>14. AnswersBounded'
    BY <1>1, <1>2, <1>9 DEF AnswersBounded, WireNew, OldGone, Locked
<1>15. SlowClient'
    <2> SUFFICES ASSUME kind = "slow" PROVE SlowClient' BY <1>1 DEF SlowClient
    <2>1. \A c \in 1..Len(r.got)+1 : r'.got[c] = sent
        BY <1>1, <1>2, <1>6, <1>8 DEF SlowClient
    <2> QED BY <1>1, <1>7, <1>8, <2>1 DEF SlowClient, Locked
<1> QED BY <1>10, <1>11, <1>12, <1>13, <1>14, <1>15

LEMMA EvaluateStep ==
    ASSUME IInv, Evaluate
    PROVE  IInv'
<1> USE DEF IInv
<1>1. /\ poll = "evaluate" /\ Len(r.got) = r.len /\ poll' = "respond"
      /\ deaf' \in {deaf, TRUE}
      /\ evaluated' = Append(evaluated, r.got)
      /\ UNCHANGED <<kind, waiting, sent, base, sock, stale, wire, conn, tcp, recv_buf,
                     recv_len, acked_len, r, target>>
    BY DEF Evaluate, client, buffer
<1>2. r.got \in Seq(1..MaxMsgs) /\ evaluated \in Seq(Seq(1..MaxMsgs))
    BY DEF TypeOK, Records
<1>3. /\ evaluated' \in Seq(Seq(1..MaxMsgs)) /\ Len(evaluated) \in Nat
      /\ Len(evaluated') = Len(evaluated) + 1
      /\ \A k \in 1..Len(evaluated)+1 :
            evaluated'[k] = IF k <= Len(evaluated) THEN evaluated[k] ELSE r.got
    BY <1>1, <1>2, AppendAt
<1>4. Len(r.got) > 0 /\ r.got[1] <= recv_buf[1] /\ Newer(r.got[1])
    BY <1>1 DEF EvaluatedOnce
<1>5. TypeOK' BY <1>1 DEF TypeOK
<1>6. Records' BY <1>1, <1>3 DEF Records
<1>7. ConnsCounted' /\ Ordered' /\ CellsWritten'
    BY <1>1 DEF ConnsCounted, Ordered, Later, Locked, CellsWritten
<1>8. EvaluatedOnce'
    <2>1. \A k \in 1..Len(evaluated)+1 : k \in 1..Len(evaluated) \/ k = Len(evaluated) + 1
        BY <1>3
    <2>2. \A k \in 1..Len(evaluated') :
            Len(evaluated'[k]) > 0 /\ evaluated'[k][1] <= recv_buf[1]
        BY <1>3, <1>4, <2>1 DEF EvaluatedOnce
    <2>3. \A j, k \in 1..Len(evaluated') : j < k => evaluated'[j][1] < evaluated'[k][1]
        <3> SUFFICES ASSUME NEW j \in 1..Len(evaluated'), NEW k \in 1..Len(evaluated'), j < k
                     PROVE  evaluated'[j][1] < evaluated'[k][1]
            OBVIOUS
        <3>1. j \in 1..Len(evaluated) /\ evaluated'[j] = evaluated[j] BY <1>3
        <3>2. CASE k \in 1..Len(evaluated)
            <4>1. evaluated'[k] = evaluated[k] BY <1>3, <3>2
            <4>2. evaluated[j][1] < evaluated[k][1] BY <3>1, <3>2 DEF EvaluatedOnce
            <4> HIDE DEF IInv
            <4> QED BY <3>1, <4>1, <4>2
        <3>3. CASE k = Len(evaluated) + 1
            <4>1. k \in 1..Len(evaluated)+1 /\ ~(k <= Len(evaluated)) BY <1>3, <3>3
            <4>2. evaluated'[k] = r.got BY <1>3, <4>1
            <4>3. evaluated[j][1] < r.got[1] BY <1>4, <3>1 DEF Newer
            <4> QED BY <3>1, <4>2, <4>3
        <3>4. k \in 1..Len(evaluated)+1 BY <1>3
        <3> QED BY <2>1, <3>2, <3>3, <3>4
    <2> QED BY <1>1, <1>4, <2>2, <2>3 DEF EvaluatedOnce
<1>9. AnswersBounded' BY <1>1 DEF AnswersBounded, WireNew, OldGone, Locked
<1>10. SlowClient' BY <1>1 DEF SlowClient, Locked
<1> QED BY <1>5, <1>6, <1>7, <1>8, <1>9, <1>10

LEMMA StartSendStep ==
    ASSUME IInv, StartSend
    PROVE  IInv'
<1> USE DEF IInv
<1>1. /\ poll = "respond" /\ poll' = "send" /\ target' = conn
      /\ UNCHANGED <<kind, waiting, sent, base, sock, stale, wire, conn, tcp, recv_buf,
                     recv_len, acked_len, deaf, r, evaluated>>
    BY DEF StartSend, client, buffer
<1>2. conn \in 0..conn BY Ranges
<1>3. TypeOK' BY <1>1, <1>2 DEF TypeOK
<1>4. Records' /\ ConnsCounted' /\ Ordered' /\ CellsWritten'
    BY <1>1 DEF Records, ConnsCounted, Ordered, Later, Locked, CellsWritten
<1>5. EvaluatedOnce' BY <1>1 DEF EvaluatedOnce, Newer
<1>6. AnswersBounded' BY <1>1 DEF AnswersBounded, WireNew, OldGone, Locked
<1>7. SlowClient' BY <1>1 DEF SlowClient, Locked
<1> QED BY <1>3, <1>4, <1>5, <1>6, <1>7

LEMMA SendResponseStep ==
    ASSUME IInv, NEW outcome \in {"sent", "astray", "crash"}, SendResponse(outcome)
    PROVE  IInv'
<1> USE DEF IInv
<1>1. /\ poll = "send" /\ (target = conn => outcome = "sent")
      /\ poll' = (IF outcome = "crash" THEN "dead" ELSE "ack")
      /\ UNCHANGED <<kind, sent, base, sock, wire, conn, tcp, recv_buf, recv_len,
                     acked_len, deaf, r, target, evaluated>>
    BY DEF SendResponse, buffer
<1>2. \/ outcome = "sent" /\ conn = sock /\ Heard
      \/ ~(outcome = "sent" /\ conn = sock) /\ UNCHANGED <<waiting, stale>>
    BY DEF SendResponse
<1>3. Len(r.got) > 0 BY <1>1 DEF EvaluatedOnce
<1>4. r.got[1] \in Nat /\ base \in Nat /\ stale \in Nat
    <2>1. r.got \in Seq(1..MaxMsgs) BY DEF TypeOK
    <2>2. 1 \in 1..Len(r.got) BY <1>3, <2>1, LenProperties
    <2>3. r.got[1] \in 1..MaxMsgs BY <2>1, <2>2, ElementOfSeq
    <2> QED BY <2>3, Ranges DEF TypeOK
<1>5. waiting' \subseteq waiting /\ stale' \in Nat
    BY <1>2, <1>4 DEF Heard
<1>6. TypeOK' BY <1>1, <1>5 DEF TypeOK
<1>7. Records' /\ ConnsCounted' /\ Ordered' /\ CellsWritten'
    BY <1>1 DEF Records, ConnsCounted, Ordered, Later, Locked, CellsWritten
<1>8. EvaluatedOnce' BY <1>1, <1>3 DEF EvaluatedOnce, Newer
<1>9. AnswersBounded'
    <2>1. WireNew(wire)' /\ (conn' = sock' /\ Locked' => base' < tcp'.msg.id)
        BY <1>1 DEF AnswersBounded, WireNew, Locked
    <2>2. CASE stale # 0
        <3>1. OldGone /\ conn = sock /\ stale = 1 BY <1>1, <2>2 DEF AnswersBounded
        <3>2. base < r.got[1] BY <1>1, <1>3, <3>1 DEF OldGone
        <3>3. stale' = stale BY <1>2, <1>4, <3>2 DEF Heard
        <3>4. OldGone' BY <1>1, <3>1 DEF OldGone
        <3> QED BY <1>1, <2>1, <3>1, <3>3, <3>4 DEF AnswersBounded
    <2>3. CASE stale = 0
        <3>1. CASE outcome = "sent" /\ conn = sock /\ Heard
            BY <1>1, <2>1, <2>3, <3>1 DEF Heard, AnswersBounded
        <3>2. CASE UNCHANGED stale
            BY <1>1, <2>1, <2>3, <3>2 DEF AnswersBounded
        <3> QED BY <1>2, <3>1, <3>2
    <2> QED BY <2>2, <2>3
<1>10. SlowClient'
    <2> SUFFICES ASSUME kind = "slow" PROVE SlowClient' BY <1>1 DEF SlowClient
    <2>1. /\ sock = 1 /\ conn = 1 /\ target = conn /\ waiting \in {{}, {sent}}
          /\ wire = <<>> /\ ~Locked /\ recv_len > 0 /\ r.len = recv_len /\ Len(r.got) = r.len
          /\ \A c \in 1..recv_len : recv_buf[c] = sent
          /\ \A c \in 1..Len(r.got) : r.got[c] = sent
        BY <1>1 DEF SlowClient
    <2>2. r.got[1] = sent
        <3>1. recv_len \in Nat BY Ranges DEF TypeOK
        <3>2. 1 \in 1..Len(r.got) BY <2>1, <3>1
        <3> QED BY <2>1, <3>2
    <2>3. poll' = "ack" /\ waiting' = {}
        BY <1>1, <1>2, <2>1, <2>2 DEF Heard
    <2> QED BY <1>1, <2>1, <2>3 DEF SlowClient, Locked
<1> QED BY <1>6, <1>7, <1>8, <1>9, <1>10

LEMMA AckRecvStep ==
    ASSUME IInv, AckRecv
    PROVE  IInv'
<1> USE DEF IInv
<1>1. /\ poll = "ack" /\ ~Locked /\ recv_len' = 0 /\ acked_len' = 0
      /\ poll' = "idle" /\ r' = [len |-> 0, got |-> <<>>]
      /\ UNCHANGED <<kind, waiting, sent, base, sock, stale, wire, conn, tcp, recv_buf,
                     deaf, target, evaluated>>
    BY DEF AckRecv, client
<1>2. /\ r'.len = 0 /\ r'.got = <<>> /\ Len(r'.got) = 0 /\ r'.got \in Seq(1..MaxMsgs)
      /\ tcp.copied = 0
    BY <1>1, Ranges
<1>3. TypeOK' BY <1>1, <1>2, Ranges DEF TypeOK
<1>4. Records' /\ ConnsCounted' /\ Ordered' /\ CellsWritten'
    BY <1>1, <1>2 DEF Records, ConnsCounted, Ordered, Later, Locked, CellsWritten
<1>5. EvaluatedOnce' BY <1>1, <1>2 DEF EvaluatedOnce, Newer
<1>6. AnswersBounded' BY <1>1, <1>2 DEF AnswersBounded, WireNew, OldGone, Locked
<1>7. SlowClient' BY <1>1, <1>2 DEF SlowClient, Locked
<1> QED BY <1>3, <1>4, <1>5, <1>6, <1>7

-----------------------------------------------------------------------------
LEMMA InitIInv == ASSUME Init PROVE IInv
<1> USE DEF Init
<1>1. Len(wire) = 0 /\ Len(evaluated) = 0 /\ ~Locked BY DEF Locked
<1>2. TypeOK
    <2>1. /\ MaxMsgs \in Nat /\ BufLen \in Nat \ {0} /\ MaxConns \in Nat \ {0}
          /\ 0 \in 0..MaxMsgs /\ 0 \in 0..BufLen /\ 1 \in 1..MaxConns /\ 0 <= BufLen
        BY BoundsAssumption
    <2>2. tcp.msg = NoMsg /\ tcp.msg.len = 0 /\ tcp.copied = 0 BY FrameFacts
    <2>3. recv_buf \in [1..BufLen -> 0..MaxMsgs] BY <2>1
    <2>4. r.len = 0 /\ r.got = <<>> /\ r.got \in Seq(1..MaxMsgs) /\ Len(r.got) = 0 OBVIOUS
    <2>5. kind \in Clients /\ waiting \subseteq 1..MaxMsgs /\ wire \in Seq(Msg \cup {Fin})
        OBVIOUS
    <2>6. /\ sent \in 0..MaxMsgs /\ base \in 0..sent /\ stale \in Nat
          /\ sock \in 1..MaxConns /\ conn \in 1..sock /\ target \in 0..conn
        BY <2>1
    <2>7. /\ recv_len \in 0..BufLen /\ acked_len \in 0..BufLen /\ r.len \in 0..BufLen
          /\ Len(r.got) <= r.len /\ r.got \in Seq(1..MaxMsgs)
        BY <2>1, <2>4
    <2>8. poll = "idle" /\ deaf \in BOOLEAN OBVIOUS
    <2> HIDE DEF Init
    <2>9. tcp.msg \in Msg \cup {NoMsg} /\ tcp.copied \in 0..tcp.msg.len /\ tcp.copied <= BufLen
        <3>1. 0 \in 0..0 OBVIOUS
        <3> QED BY <2>1, <2>2, <3>1
    <2>10. poll \in {"idle", "evaluate", "respond", "send", "ack", "dead", "overrun"}
           /\ poll # "overrun"
        BY <2>8
    <2> QED BY <2>3, <2>5, <2>6, <2>7, <2>8, <2>9, <2>10, Zenon DEF TypeOK
<1>3. Records BY DEF Records
<1>4. ConnsCounted
    <2>1. Fins(wire) = {} BY <1>1 DEF Fins
    <2>2. IsFiniteSet({}) /\ Cardinality({}) = 0 BY FS_EmptySet
    <2>3. conn = 1 /\ sock = 1 OBVIOUS
    <2> HIDE DEF Init
    <2> QED BY <2>1, <2>2, <2>3 DEF ConnsCounted
<1>5. Ordered
    <2>1. recv_buf[1] = 0 /\ tcp.msg.id = 0 BY BoundsAssumption, FrameFacts
    <2> QED BY <1>1, <2>1 DEF Ordered, Later
<1>6. CellsWritten BY DEF CellsWritten
<1>7. EvaluatedOnce BY <1>1 DEF EvaluatedOnce
<1>8. AnswersBounded BY <1>1 DEF AnswersBounded, WireNew
<1>9. SlowClient BY <1>1 DEF SlowClient
<1> QED BY <1>2, <1>3, <1>4, <1>5, <1>6, <1>7, <1>8, <1>9 DEF IInv

LEMMA NextIInv == ASSUME IInv, [Next]_vars PROVE IInv'
<1>1. ASSUME NEW len \in 1..MaxLen, SendRequest(len) PROVE IInv' BY <1>1, SendRequestStep
<1>2. CASE GiveUp BY <1>2, GiveUpStep
<1>3. CASE Reconnect BY <1>3, ReconnectStep
<1>4. CASE Accept BY <1>4, AcceptStep
<1>5. CASE LockBuffer BY <1>5, LockBufferStep
<1>6. CASE CopyCell BY <1>6, CopyCellStep
<1>6a. CASE CopyPastEnd BY <1>6a, CopyPastEndStep
<1>7. CASE PublishMessage BY <1>7, PublishMessageStep
<1>8. CASE Peek BY <1>8, PeekStep
<1>9. CASE ReadCell BY <1>9, ReadCellStep
<1>10. CASE Evaluate BY <1>10, EvaluateStep
<1>11. CASE StartSend BY <1>11, StartSendStep
<1>12. ASSUME NEW outcome \in {"sent", "astray", "crash"}, SendResponse(outcome) PROVE IInv'
    BY <1>12, SendResponseStep
<1>13. CASE AckRecv BY <1>13, AckRecvStep
<1>14. CASE UNCHANGED vars
    <2>1. UNCHANGED <<kind, waiting, sent, base, sock, stale, wire, conn, tcp, recv_buf,
                      recv_len, acked_len, poll, deaf, r, target, evaluated>>
        BY <1>14 DEF vars, client, buffer, main
    <2>2. TypeOK' /\ Records' /\ ConnsCounted' /\ Ordered' /\ CellsWritten'
        BY <2>1 DEF IInv, TypeOK, Records, ConnsCounted, Ordered, Later, Locked, CellsWritten
    <2>3. EvaluatedOnce' /\ AnswersBounded' /\ SlowClient'
        BY <2>1 DEF IInv, EvaluatedOnce, Newer, AnswersBounded, WireNew, OldGone, Locked, SlowClient
    <2> QED BY <2>2, <2>3 DEF IInv
<1> QED
    BY <1>1, <1>2, <1>3, <1>4, <1>5, <1>6, <1>6a, <1>7, <1>8, <1>9, <1>10, <1>11, <1>12,
       <1>13, <1>14
    DEF Next, ReceiverThread, MainThread

LEMMA Invariant == Spec => []IInv
<1>1. Init => IInv BY InitIInv
<1>2. IInv /\ [Next]_vars => IInv' BY NextIInv
<1> QED BY <1>1, <1>2, PTL DEF Spec

-----------------------------------------------------------------------------
(***************************************************************************)
(* The results.                                                            *)
(***************************************************************************)
(* Every variable keeps its type; the server never has a connection that   *)
(* the client has not opened, never reads past what peek has shown, and    *)
(* writes past the end of recv_buf_ only for a request that is longer.     *)
THEOREM TypeCorrect == Spec => []TypeOK
<1>1. IInv => TypeOK BY DEF IInv
<1> QED BY <1>1, Invariant, PTL

(* However fast the client sends and however often it connects, the server *)
(* evaluates no request twice and none after a later one: the receiver     *)
(* thread may overwrite recv_buf_ between any two steps of UDSServerPoll.  *)
THEOREM EvaluatesInOrder == Spec => []InOrderAtMostOnce
<1>1. IInv => InOrderAtMostOnce
    <2> SUFFICES ASSUME IInv PROVE InOrderAtMostOnce OBVIOUS
    <2>1. DOMAIN evaluated = 1..Len(evaluated) BY LenProperties DEF IInv, Records
    <2> QED BY <2>1 DEF IInv, EvaluatedOnce, InOrderAtMostOnce
<1> QED BY <1>1, Invariant, PTL

(* A client that has connected anew hears at most one answer that is not   *)
(* for it: DoipTpSend may be on its way when ListenTcp replaces            *)
(* connection_, and DoipTpAckRecv discards what is in the buffer then.     *)
THEOREM StaleAnswersBounded == Spec => []OneStaleAnswer
<1>1. IInv => OneStaleAnswer BY DEF IInv, AnswersBounded, OneStaleAnswer, TypeOK
<1> QED BY <1>1, Invariant, PTL

(* To a client that waits for ack_recv, DoIPTp is the transport of         *)
(* iso14229.h: what is peeked at stays until it is acknowledged and is     *)
(* processed once, whole.                                                  *)
THEOREM MeetsContract == Spec => ImplementsMailbox
<1> DEFINE slot == IF kind # "slow" \/ recv_len = 0 THEN NoMsg
                   ELSE [id |-> recv_buf[recv_len], len |-> recv_len]
           processed == IF kind # "slow" THEN <<>>
                        ELSE [i \in DOMAIN evaluated |-> Whole(evaluated[i])]
           taken == kind = "slow" /\ poll \in {"respond", "send", "ack"}
<1>1. Init => Contract!Init
    BY DEF Init, Contract!Init
<1>2. IInv /\ IInv' /\ [Next]_vars => [Contract!Next]_Contract!vars
    <2> SUFFICES ASSUME IInv, IInv', [Next]_vars
                 PROVE  Contract!Next \/ UNCHANGED <<slot, processed, taken>>
        BY DEF Contract!vars
    <2>1. kind' = kind
        BY DEF Next, ReceiverThread, MainThread, SendRequest, GiveUp, Reconnect, Accept,
               LockBuffer, CopyCell, CopyPastEnd, PublishMessage, Peek, ReadCell, Evaluate, StartSend,
               SendResponse, AckRecv, vars, client
    <2>2. CASE kind # "slow" BY <2>1, <2>2
    <2>3. ASSUME kind = "slow", UNCHANGED <<recv_buf, recv_len, poll, evaluated>>
          PROVE  UNCHANGED <<slot, processed, taken>>
        BY <2>1, <2>3
    <2>4. ASSUME kind = "slow", UNCHANGED <<recv_buf, recv_len, evaluated>>,
                 poll \in {"respond", "send", "ack"} <=> poll' \in {"respond", "send", "ack"}
          PROVE  UNCHANGED <<slot, processed, taken>>
        BY <2>1, <2>4
    <2>5. ASSUME kind = "slow", CopyCell PROVE UNCHANGED <<slot, processed, taken>>
        <3>1. recv_len = 0 BY <2>5 DEF CopyCell, IInv, SlowClient
        <3>2. UNCHANGED <<recv_len, poll, evaluated>> BY <2>5 DEF CopyCell, main
        <3> QED BY <2>1, <2>5, <3>1, <3>2
    <2>6. ASSUME kind = "slow", PublishMessage PROVE \E m \in Msg : Contract!Deliver(m)
        <3>1. /\ recv_len' = tcp.msg.len /\ tcp.copied = tcp.msg.len /\ Locked
              /\ poll # "overrun" /\ UNCHANGED <<recv_buf, poll, evaluated>>
            BY <2>6 DEF PublishMessage, Alive, main
        <3>2. /\ poll = "idle" /\ recv_len = 0 /\ tcp.msg.id = sent
              /\ \A c \in 1..tcp.copied : recv_buf[c] = sent
            BY <2>6, <3>1 DEF IInv, SlowClient
        <3>3. tcp.msg \in Msg /\ tcp.msg.len \in 1..MaxLen
            BY <3>1, FrameFacts DEF IInv, TypeOK, Locked
        <3>4. recv_buf'[recv_len'] = tcp.msg.id /\ recv_len' # 0
            BY <3>1, <3>2, <3>3
        <3>5. tcp.msg = [id |-> tcp.msg.id, len |-> tcp.msg.len] BY <3>3 DEF Msg
        <3>6. slot = NoMsg BY <3>2
        <3>7. slot' = tcp.msg BY <2>1, <2>6, <3>1, <3>4, <3>5
        <3>8. UNCHANGED <<processed, taken>> BY <2>1, <3>1
        <3> QED BY <3>3, <3>6, <3>7, <3>8 DEF Contract!Deliver
    <2>7. ASSUME kind = "slow", Evaluate PROVE Contract!Process
        <3>1. /\ poll = "evaluate" /\ Len(r.got) = r.len /\ poll' = "respond"
              /\ evaluated' = Append(evaluated, r.got)
              /\ UNCHANGED <<recv_buf, recv_len>>
            BY <2>7 DEF Evaluate, buffer
        <3>2. /\ recv_len > 0 /\ r.len = recv_len /\ recv_len \in 1..recv_len /\ 1 \in 1..recv_len
              /\ recv_buf[recv_len] = sent /\ r.got[1] = sent
            <4>1. recv_len \in Nat BY Ranges DEF IInv, TypeOK
            <4>2. /\ recv_len > 0 /\ r.len = recv_len
                  /\ \A c \in 1..recv_len : recv_buf[c] = sent
                  /\ \A c \in 1..Len(r.got) : r.got[c] = sent
                BY <2>7, <3>1 DEF IInv, SlowClient
            <4> QED BY <3>1, <4>1, <4>2
        <3>3. slot = Whole(r.got) /\ slot' = slot
            BY <2>1, <2>7, <3>1, <3>2 DEF Whole
        <3>4. slot # NoMsg BY <2>7, <3>2 DEF NoMsg
        <3>5. ~taken /\ taken' BY <2>1, <2>7, <3>1
        <3>6. evaluated \in Seq(Seq(1..MaxMsgs)) /\ r.got \in Seq(1..MaxMsgs)
            BY DEF IInv, Records, TypeOK
        <3>7. /\ evaluated' \in Seq(Seq(1..MaxMsgs)) /\ Len(evaluated) \in Nat
              /\ Len(evaluated') = Len(evaluated) + 1
              /\ \A k \in 1..Len(evaluated)+1 :
                    evaluated'[k] = IF k <= Len(evaluated) THEN evaluated[k] ELSE r.got
            BY <3>1, <3>6, AppendAt
        <3>8. DOMAIN evaluated = 1..Len(evaluated) /\ DOMAIN evaluated' = 1..Len(evaluated')
            BY <3>6, <3>7, LenProperties
        <3>9. processed = [i \in 1..Len(evaluated) |-> Whole(evaluated[i])] BY <2>7, <3>8
        <3>10. processed' = [i \in 1..Len(evaluated)+1 |-> Whole(evaluated'[i])]
            BY <2>1, <2>7, <3>7, <3>8
        <3> DEFINE W == {Whole(got) : got \in Seq(1..MaxMsgs)}
        <3>11. processed \in Seq(W) /\ Len(processed) = Len(evaluated)
            <4>1. \A i \in 1..Len(evaluated) : Whole(evaluated[i]) \in W
                BY <3>6, ElementOfSeq
            <4> HIDE DEF W
            <4>2. processed \in [1..Len(evaluated) -> W] BY <3>9, <4>1
            <4> QED BY <3>7, <4>2, FunctionIsSeq
        <3>12. processed' \in Seq(W) /\ Len(processed') = Len(evaluated) + 1
            <4>1. \A i \in 1..Len(evaluated)+1 : Whole(evaluated'[i]) \in W
                BY <3>7, ElementOfSeq
            <4> HIDE DEF W
            <4>2. processed' \in [1..Len(evaluated)+1 -> W] BY <3>10, <4>1
            <4>3. Len(evaluated) + 1 \in Nat BY <3>7
            <4> QED BY <4>2, <4>3, FunctionIsSeq
        <3>13. slot \in W BY <3>3, <3>6
        <3> HIDE DEF processed, slot, W
        <3>14. /\ Append(processed, slot) \in Seq(W)
               /\ Len(Append(processed, slot)) = Len(evaluated) + 1
               /\ \A k \in 1..Len(evaluated)+1 : Append(processed, slot)[k] =
                    IF k <= Len(evaluated) THEN processed[k] ELSE slot
            BY <3>11, <3>13, AppendAt
        <3>15. \A k \in 1..Len(evaluated)+1 : processed'[k] = Append(processed, slot)[k]
            BY <3>3, <3>7, <3>9, <3>10, <3>14
        <3>16. processed' = Append(processed, slot)
            BY <3>12, <3>14, <3>15, SeqEqual
        <3> QED BY <3>3, <3>4, <3>5, <3>16 DEF Contract!Process, processed, slot
    <2>8. ASSUME kind = "slow", AckRecv PROVE Contract!AckRecv
        BY <2>1, <2>8 DEF AckRecv, Contract!AckRecv
    <2>9. ASSUME kind = "slow", Next PROVE Contract!Next \/ UNCHANGED <<slot, processed, taken>>
        <3>1. CASE CopyCell BY <2>5, <2>9, <3>1
        <3>2. CASE PublishMessage BY <2>6, <2>9, <3>2 DEF Contract!Next
        <3>3. CASE Evaluate BY <2>7, <2>9, <3>3 DEF Contract!Next
        <3>4. CASE AckRecv BY <2>8, <2>9, <3>4 DEF Contract!Next
        <3>5. CASE \/ \E len \in 1..MaxLen : SendRequest(len)
                   \/ GiveUp \/ Reconnect \/ Accept \/ LockBuffer \/ ReadCell
            <4>1. UNCHANGED <<recv_buf, recv_len, poll, evaluated>>
                BY <3>5 DEF SendRequest, GiveUp, Reconnect, Accept, LockBuffer, ReadCell,
                            buffer, main
            <4> QED BY <2>3, <2>9, <4>1
        <3>5a. CASE CopyPastEnd
            <4>1. UNCHANGED <<recv_buf, recv_len, evaluated>> /\ Locked /\ poll' = "overrun"
                BY <3>5a DEF CopyPastEnd, buffer
            <4>2. poll \notin {"respond", "send", "ack"} BY <2>9, <4>1 DEF IInv, SlowClient
            <4> QED BY <2>4, <2>9, <4>1, <4>2
        <3>6. CASE Peek \/ StartSend \/ \E outcome \in {"sent", "astray", "crash"} :
                                            SendResponse(outcome)
            <4>1. UNCHANGED <<recv_buf, recv_len, evaluated>>
                BY <3>6 DEF Peek, StartSend, SendResponse, buffer
            <4>2. poll \in {"respond", "send", "ack"} <=> poll' \in {"respond", "send", "ack"}
                <5>1. poll' # "dead" BY <2>1, <2>9 DEF IInv, SlowClient
                <5> QED BY <3>6, <5>1 DEF Peek, StartSend, SendResponse
            <4> QED BY <2>4, <2>9, <4>1, <4>2
        <3> QED BY <2>9, <3>1, <3>2, <3>3, <3>4, <3>5, <3>5a, <3>6 DEF Next, ReceiverThread, MainThread
    <2>10. CASE UNCHANGED vars BY <2>10 DEF vars, client, buffer, main
    <2> QED BY <2>2, <2>9, <2>10
<1> QED BY <1>1, <1>2, Invariant, PTL DEF Spec, ImplementsMailbox, Contract!Spec
=============================================================================
