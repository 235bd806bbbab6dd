------------------------- MODULE FileTransfer_proofs -------------------------
(***************************************************************************)
(* Proofs about an upgrade over the wire: whatever is lost, late or sent   *)
(* again, for every size of the file and of the blocks, any number of      *)
(* faults and every answer of the application.                             *)
(*                                                                         *)
(* A request is on its way in `air', then in the server's inbox, and its   *)
(* answer is in the server's buffer, then in `replies'.  The proofs see    *)
(* two queues: Coming, the requests that the server has not evaluated, and *)
(* Returning, the answers that the client has not taken.  Of the steps     *)
(* only Send, ServeItem and TakeAnswer move something between them.        *)
(***************************************************************************)
EXTENDS FileTransfer, UpgradeServer_proofs, SequenceTheorems

Answer == [item |-> asked, code |-> resp, status |-> status]
Coming ==
    IF inbox # NoRequest /\ ~requestInProgress THEN <<asked>> \o air ELSE air
Returning == IF requestInProgress THEN Append(replies, Answer) ELSE replies

Responses == [item : Items, code : Codes, status : 0..2]

(* The step that the client has come to, not counting its `finally'.       *)
Reached == IF raised = "no" THEN at ELSE raised
Rank(step) ==
    CASE step = "file" -> 7 [] step = "block" -> 8 [] step = "exit" -> 9
      [] step = "checksum" -> 10 [] step = "start" -> 11 [] step = "progress" -> 12
      [] step = "reset" -> 13 [] step \in {"default", "done"} -> 14
      [] OTHER -> 1

(* The requests that tell how far the client has come.                     *)
IsFile(item)     == item.req.sid = "0x38"
IsBlock(item)    == item.req.sid = "0x36"
IsExit(item)     == item.req.sid = "0x37"
IsChecksum(item) == item.req.sid = "0x31" /\ item.routine = "0x0202"
IsStart(item)    == item.req.sid = "0x31" /\ item.routine = "0xFF02" /\ item.req.sub = 1
IsReset(item)    == item.req.sid = "0x11"
IsDefault(item)  == item.req.sid = "0x10" /\ item.req.sub = 1

RankOf(item) ==
    CASE IsFile(item) -> 7 [] IsBlock(item) -> 8 [] IsExit(item) -> 9
      [] IsChecksum(item) -> 10 [] IsStart(item) -> 11 [] IsReset(item) -> 13
      [] OTHER -> 1
Positive(answer) == answer.code = kPositiveResponse

-----------------------------------------------------------------------------
(***************************************************************************)
(* The invariant.                                                          *)
(***************************************************************************)
Typed ==
    /\ at \in StepNames \cup {"done"} /\ raised \in StepNames \cup {"no"}
    /\ raised # "no" => at \in {"default", "done"}
    /\ at = "done" => ~waiting /\ raised # "no"
    /\ block \in Nat \ {0} /\ waiting \in BOOLEAN
    /\ air \in Seq(Items) /\ replies \in Seq(Responses) /\ linked \in BOOLEAN
    /\ inbox # NoRequest => asked \in Items /\ inbox = asked.req
    /\ status \in 0..2 /\ pc \in {"poll", "serve"}
    /\ stored \in Seq(Nat) /\ failed \in BOOLEAN
    /\ late \in Nat /\ losses \in Nat

(* Nothing outlives the connection. *)
Cut ==
    ~linked => /\ Coming = <<>> /\ Returning = <<>>
               /\ ~xfer.active /\ upgrade_thread_ = "none"

(* Nothing that the server does runs ahead of the client. *)
Behind ==
    /\ \A i \in DOMAIN Coming : RankOf(Coming[i]) <= Rank(Reached)
    /\ \A i \in DOMAIN Returning : RankOf(Returning[i].item) <= Rank(Reached)
    /\ xfer.active => Rank(Reached) >= 7
    /\ ~serving => Rank(Reached) >= 10
    /\ upgrade_thread_ # "none" => Rank(Reached) >= 11
    /\ linked /\ notReadyToReceive => Rank(Reached) >= 13

(* RequestFileTransfer is made once, and not for an open transfer. *)
FileOnce ==
    /\ \A i \in DOMAIN Coming : IsFile(Coming[i]) =>
          /\ Rank(Reached) = 7 /\ ~xfer.active /\ (waiting \/ raised # "no")
          /\ \A j \in DOMAIN Coming : j # i => ~IsFile(Coming[j])
          /\ \A j \in DOMAIN Returning : ~IsFile(Returning[j].item)
    /\ at = "file" /\ ~waiting =>
          ~xfer.active /\ \A j \in DOMAIN Returning : ~IsFile(Returning[j].item)

(* The block that the client is at is the last one stored or the next one. *)
(* Of the blocks that are coming none is older than the last one stored,   *)
(* and they keep their order; of those that the server took none but the   *)
(* client's own is unanswered.                                             *)
InStep ==
    /\ \A i \in DOMAIN stored : stored[i] = i
    /\ block - 1 <= Len(stored) /\ Len(stored) <= block /\ Len(stored) <= BlockCount
    /\ Rank(Reached) <= 7 => block = 1 /\ stored = <<>>
    /\ Rank(Reached) = 8 => block <= BlockCount
    /\ Rank(Reached) >= 9 => block = BlockCount + 1
    /\ xfer.active => xfer.seq = (1 + Len(stored)) % SeqMod
    /\ \A i \in DOMAIN Coming : IsBlock(Coming[i]) =>
          Len(stored) <= Coming[i].block /\ Coming[i].block <= block
    /\ \A i, j \in DOMAIN Coming :
          i < j /\ IsBlock(Coming[i]) /\ IsBlock(Coming[j]) =>
              Coming[i].block <= Coming[j].block
    /\ \A i \in DOMAIN Returning : IsBlock(Returning[i].item) /\ Positive(Returning[i]) =>
          /\ Len(stored) = block
          /\ \A j \in DOMAIN Returning : j # i =>
                ~(IsBlock(Returning[j].item) /\ Positive(Returning[j]))

(* From the exit on the file is complete and closed, until the end. *)
Closed ==
    /\ Len(stored) = BlockCount /\ fw_file_ = NoHandle /\ ~xfer.active
    /\ exited # NotExited /\ (linked => exited.file = fw_filename_)
ClosedAfterExit ==
    \/ Rank(Reached) >= 10
    \/ \E i \in DOMAIN Returning : IsExit(Returning[i].item) /\ Positive(Returning[i])
    => Closed

(* What the checksum routine says of it. *)
Digest == IF exited.len = FileSize THEN 0 ELSE 1
Told ==
    /\ \A i \in DOMAIN Returning :
          IsChecksum(Returning[i].item) /\ Positive(Returning[i]) => Returning[i].status = Digest
    /\ Rank(Reached) >= 11 => verdict = Digest

(* A client that has come through the reset talks to a deaf server. *)
Deaf ==
    /\ \A i \in DOMAIN Returning :
          IsReset(Returning[i].item) /\ Positive(Returning[i]) => notReadyToReceive
    /\ raised = "no" /\ at = "default" /\ linked => notReadyToReceive
    /\ raised = "no" => \A i \in DOMAIN Returning : ~IsDefault(Returning[i].item)
    /\ raised = "no" /\ at # "default" => \A i \in DOMAIN Coming : ~IsDefault(Coming[i])

(* As long as no answer was late, nothing is under way but the request     *)
(* that the client waits for.                                              *)
Nothing == Coming = <<>> /\ Returning = <<>>
OneAtATime ==
    late = 0 /\ linked /\ raised = "no" =>
        IF waiting
        THEN \/ Coming = <<Expected>> /\ Returning = <<>>
             \/ Coming = <<>> /\ Len(Returning) = 1 /\ Returning[1].item = Expected
             \/ Nothing /\ losses > 0
        ELSE Nothing

(* And as long as the application refused nothing either, the server is    *)
(* where the client is.                                                    *)
InSync ==
    late = 0 /\ linked /\ ~failed =>
        /\ at = "file" =>
             \A i \in DOMAIN Returning : Positive(Returning[i]) =>
                 xfer.active /\ xfer.total = FileSize /\ xfer.bytes = 0
        /\ at = "block" =>
             /\ xfer.active /\ xfer.total = FileSize
             /\ Len(stored) < BlockCount => xfer.bytes = Len(stored) * BlockSize
             /\ Returning = <<>> => Len(stored) = block - 1
             /\ \A i \in DOMAIN Returning : Positive(Returning[i])

(* A transfer that failed is not open, and what is not lost or late does   *)
(* not open it after the client has given up.                              *)
Orderly ==
    late = 0 /\ losses = 0 =>
        /\ raised # "no" => ~xfer.active /\ \A i \in DOMAIN Coming : ~IsFile(Coming[i])
        /\ raised = "no" =>
             \A i \in DOMAIN Returning :
                 \/ IsExit(Returning[i].item)
                 \/ (IsFile(Returning[i].item) \/ IsBlock(Returning[i].item))
                      /\ ~Positive(Returning[i])
                 => ~xfer.active

WireInv ==
    /\ IInv /\ Typed /\ Cut /\ Behind /\ FileOnce /\ InStep /\ ClosedAfterExit /\ Told
    /\ Deaf /\ OneAtATime /\ InSync /\ Orderly /\ RetryHeals

-----------------------------------------------------------------------------
(***************************************************************************)
(* The requests of ProgramSoc.                                             *)
(***************************************************************************)
LEMMA StepNamesAre ==
    /\ StepNames = {"extended", "precheck", "programming", "seed", "key", "fingerprint",
                    "file", "block", "exit", "checksum", "start", "progress", "reset",
                    "default"}
    /\ DOMAIN Steps = 1..14
BY DEF StepNames, Steps

LEMMA RequestIs ==
    /\ ProgramSocRequest("extended", block) = Plain("0x10", 3)
    /\ \A i : ProgramSocRequest("file", i) = Item("0x38", kAddFile, FileSize, "none", 0)
    /\ \A i : ProgramSocRequest("block", i) = Item("0x36", i % SeqMod, BlockLen(i), "none", i)
    /\ \A i : ProgramSocRequest("exit", i) = Plain("0x37", 0)
    /\ \A i : ProgramSocRequest("checksum", i) = Routine(kStartRoutine, "0x0202")
    /\ \A i : ProgramSocRequest("start", i) = Routine(kStartRoutine, "0xFF02")
    /\ \A i : ProgramSocRequest("progress", i) = Routine(kRequestRoutineResults, "0xFF02")
    /\ \A i : ProgramSocRequest("reset", i) = Plain("0x11", 1)
    /\ \A i : ProgramSocRequest("default", i) = Plain("0x10", 1)
    /\ \A i : ProgramSocRequest("precheck", i) = Routine(kStartRoutine, "0x0203")
    /\ \A i : ProgramSocRequest("programming", i) = Plain("0x10", 2)
    /\ \A i : ProgramSocRequest("seed", i) = Plain("0x27", 5)
    /\ \A i : ProgramSocRequest("key", i) = Plain("0x27", 6)
    /\ \A i : ProgramSocRequest("fingerprint", i) = Plain("0x2E", 0)
BY DEF ProgramSocRequest

LEMMA BlockCountType == BlockCount \in Nat
<1>1. FileSize \in Nat /\ BlockSize \in Nat /\ BlockSize > 0 BY FileAssumption
<1>2. FileSize + BlockSize - 1 \in Nat BY <1>1
<1> QED BY <1>1, <1>2 DEF BlockCount

LEMMA StepItem ==
    ASSUME NEW step \in StepNames \ {"block"}, NEW item, NEW i,
           item = ProgramSocRequest(step, i)
    PROVE  /\ item = ProgramSocRequest(step, 1)
           /\ item.req.form = "ok" /\ ~item.req.functional /\ ~SuppressBit(item.req)
           /\ item.req.sid \in {"0x10", "0x11", "0x27", "0x2E", "0x31", "0x37", "0x38"}
           /\ IsFile(item) <=> step = "file"
           /\ IsFile(item) => item.req.sub = kAddFile /\ item.req.len = FileSize
           /\ IsExit(item) <=> step = "exit"
           /\ IsChecksum(item) <=> step = "checksum"
           /\ IsStart(item) <=> step = "start"
           /\ IsReset(item) <=> step = "reset"
           /\ IsDefault(item) <=> step = "default"
           /\ item.req.sid = "0x31" =>
                \/ item.req.sub = kStartRoutine
                \/ item.req.sub = kRequestRoutineResults /\ item.routine = "0xFF02"
<1> USE DEF ProgramSocRequest, Plain, Routine, Item, SuppressBit, HasSubFunction, IsFile, IsExit,
            IsChecksum, IsStart, IsReset, IsDefault, kStartRoutine, kRequestRoutineResults, kAddFile
<1>1. CASE step = "extended" BY <1>1
<1>9. CASE step = "precheck" BY <1>9
<1>10. CASE step = "programming" BY <1>10
<1>11. CASE step = "seed" BY <1>11
<1>12. CASE step = "key" BY <1>12
<1>13. CASE step = "fingerprint" BY <1>13
<1>2. CASE step = "file" BY <1>2
<1>3. CASE step = "exit" BY <1>3
<1>4. CASE step = "checksum" BY <1>4
<1>5. CASE step = "start" BY <1>5
<1>6. CASE step = "progress" BY <1>6
<1>7. CASE step = "reset" BY <1>7
<1>8. CASE step = "default" BY <1>8
<1> QED
  <2> HIDE DEF ProgramSocRequest, Plain, Routine, Item, SuppressBit, HasSubFunction, IsFile, IsExit,
           IsChecksum, IsStart, IsReset, IsDefault, kStartRoutine, kRequestRoutineResults, kAddFile
  <2>1. step \in {"extended", "precheck", "programming", "seed", "key", "fingerprint", "file",
                  "exit", "checksum", "start", "progress", "reset", "default"}
    BY StepNamesAre
  <2> QED BY <1>1, <1>2, <1>3, <1>4, <1>5, <1>6, <1>7, <1>8, <1>9, <1>10, <1>11, <1>12, <1>13, <2>1

LEMMA BlockItem ==
    ASSUME NEW i \in 1..BlockCount, NEW item, item = ProgramSocRequest("block", i)
    PROVE  /\ item.req.form = "ok" /\ ~item.req.functional /\ ~SuppressBit(item.req)
           /\ IsBlock(item) /\ item.block = i
           /\ item.req.sub = i % SeqMod /\ item.req.len = BlockLen(i)
<1>1. item = Item("0x36", i % SeqMod, BlockLen(i), "none", i) BY RequestIs
<1>2. /\ item.req.sid = "0x36" /\ item.req.form = "ok" /\ item.req.functional = FALSE
      /\ item.req.sub = i % SeqMod /\ item.req.len = BlockLen(i) /\ item.block = i
  BY <1>1 DEF Item
<1> QED BY <1>2 DEF SuppressBit, HasSubFunction, IsBlock

(* What the server gets to see. *)
LEMMA ItemFacts ==
    ASSUME NEW item \in Items
    PROVE  /\ item.req \in Requests /\ item.req # NoRequest
           /\ item.req.form = "ok" /\ ~item.req.functional /\ ~SuppressBit(item.req)
           /\ item.req.sid \in {"0x10", "0x11", "0x27", "0x2E", "0x31", "0x36", "0x37", "0x38"}
           /\ IsFile(item) => item.req.sub = kAddFile /\ item.req.len = FileSize
           /\ IsBlock(item) => /\ item.block \in 1..BlockCount
                               /\ item.req.sub = item.block % SeqMod
                               /\ item.req.len = BlockLen(item.block)
           /\ item.req.sid = "0x31" =>
                \/ item.req.sub = kStartRoutine
                \/ item.req.sub = kRequestRoutineResults /\ item.routine = "0xFF02"
           /\ RankOf(item) \in 1..13
<1>1. item.req \in ProgramSocRequests BY DEF ProgramSocRequests
<1>2. item.req \in Requests /\ item.req # NoRequest
  BY <1>1, ClientAssumption, RequestsAssumption
<1>3. RankOf(item) \in 1..13 BY DEF RankOf
<1>4. CASE \E step \in StepNames \ {"block"} : item = ProgramSocRequest(step, 1)
  <2>1. PICK step \in StepNames \ {"block"} : item = ProgramSocRequest(step, 1) BY <1>4
  <2> QED BY <1>2, <1>3, <2>1, StepItem DEF IsBlock
<1>5. CASE \E i \in 1..BlockCount : item = ProgramSocRequest("block", i)
  <2>1. PICK i \in 1..BlockCount : item = ProgramSocRequest("block", i) BY <1>5
  <2> QED BY <1>2, <1>3, <2>1, BlockItem DEF IsBlock, IsFile
<1> QED BY <1>4, <1>5 DEF Items

(* The kinds of items exclude one another. *)
LEMMA Kinds ==
    ASSUME NEW item
    PROVE  /\ IsFile(item) => ~IsBlock(item) /\ ~IsExit(item) /\ ~IsChecksum(item)
                              /\ ~IsReset(item) /\ ~IsDefault(item) /\ RankOf(item) = 7
           /\ IsBlock(item) => ~IsExit(item) /\ ~IsChecksum(item)
                              /\ ~IsReset(item) /\ ~IsDefault(item) /\ RankOf(item) = 8
           /\ IsExit(item) => ~IsChecksum(item) /\ ~IsReset(item) /\ ~IsDefault(item)
                              /\ RankOf(item) = 9
           /\ IsChecksum(item) => ~IsReset(item) /\ ~IsDefault(item) /\ RankOf(item) = 10
           /\ IsStart(item) => RankOf(item) = 11
           /\ IsReset(item) => RankOf(item) = 13
BY DEF IsFile, IsBlock, IsExit, IsChecksum, IsStart, IsReset, IsDefault, RankOf

LEMMA RankIs ==
    /\ \A step : Rank(step) \in 1..14
    /\ Rank("file") = 7 /\ Rank("block") = 8 /\ Rank("exit") = 9 /\ Rank("checksum") = 10
    /\ Rank("start") = 11 /\ Rank("progress") = 12 /\ Rank("reset") = 13
    /\ Rank("default") = 14 /\ Rank("done") = 14
    /\ \A step : Rank(step) = 7 <=> step = "file"
    /\ \A step : Rank(step) = 8 <=> step = "block"
    /\ \A step : Rank(step) = 9 <=> step = "exit"
    /\ \A step \in {"extended", "precheck", "programming", "seed", "key", "fingerprint"} :
          Rank(step) = 1
BY DEF Rank

(* What the client asks for. *)
LEMMA ExpectedItem ==
    ASSUME Typed, InStep, at # "done"
    PROVE  /\ Expected \in Items /\ RankOf(Expected) <= Rank(Reached)
           /\ IsFile(Expected) <=> at = "file"
           /\ IsBlock(Expected) <=> at = "block"
           /\ IsBlock(Expected) => Expected.block = block
           /\ IsDefault(Expected) <=> at = "default"
<1>1. CASE at = "block"
  <2>1. raised = "no" /\ Reached = "block" BY <1>1 DEF Typed, Reached
  <2>2. block \in 1..BlockCount BY <2>1, RankIs, BlockCountType DEF Typed, InStep
  <2>3. Expected = ProgramSocRequest("block", block) BY <1>1 DEF Expected
  <2>4. Expected \in Items BY <2>2, <2>3 DEF Items
  <2>5. IsBlock(Expected) /\ Expected.block = block BY <2>2, <2>3, BlockItem
  <2> QED BY <1>1, <2>1, <2>4, <2>5, Kinds, RankIs
<1>2. CASE at # "block"
  <2>1. at \in StepNames \ {"block"} BY <1>2 DEF Typed
  <2>2. Expected = ProgramSocRequest(at, block) BY DEF Expected
  <2>3. Expected \in Items BY <2>1, <2>2, StepItem DEF Items
  <2>4. /\ IsFile(Expected) <=> at = "file"
        /\ ~IsBlock(Expected)
        /\ IsDefault(Expected) <=> at = "default"
        /\ IsExit(Expected) <=> at = "exit"
        /\ IsChecksum(Expected) <=> at = "checksum"
        /\ IsStart(Expected) <=> at = "start"
        /\ IsReset(Expected) <=> at = "reset"
    BY <2>1, <2>2, StepItem DEF IsBlock
  <2>5. RankOf(Expected) <= Rank(at)
    BY <2>4 DEF RankOf, Rank
  <2>6. RankOf(Expected) <= Rank(Reached)
    <3>1. CASE raised = "no" BY <2>5, <3>1 DEF Reached
    <3>2. CASE raised # "no"
      <4>1. at = "default" BY <3>2 DEF Typed
      <4>2. RankOf(Expected) = 1 BY <2>4, <4>1 DEF RankOf
      <4> QED BY <4>2, RankIs
    <3> QED BY <3>1, <3>2
  <2> QED BY <1>2, <2>3, <2>4, <2>6
<1> QED BY <1>1, <1>2

(* An answer that the client takes for good is an answer to a request of   *)
(* the kind that it made.                                                  *)
LEMMA GoodAnswer ==
    ASSUME Typed, InStep, at # "done", NEW answer \in Responses, Good(answer)
    PROVE  /\ Positive(answer)
           /\ at = "file" => IsFile(answer.item)
           /\ at = "block" => IsBlock(answer.item)
           /\ at = "exit" => IsExit(answer.item)
           /\ at = "checksum" => IsChecksum(answer.item)
           /\ at = "reset" => IsReset(answer.item)
           /\ at = "default" => IsDefault(answer.item)
<1>1. /\ Positive(answer)
      /\ answer.item.req.sid = Expected.req.sid /\ answer.item.req.sub = Expected.req.sub
      /\ answer.item.routine = Expected.routine
  BY DEF Good, Positive
<1>2. at \in StepNames BY DEF Typed
<1>3. at = "block" => IsBlock(Expected) BY ExpectedItem
<1>4. at # "block" =>
      /\ at = "file" => IsFile(Expected)
      /\ at = "exit" => IsExit(Expected)
      /\ at = "checksum" => IsChecksum(Expected)
      /\ at = "reset" => IsReset(Expected)
      /\ at = "default" => IsDefault(Expected)
  BY <1>2, StepItem DEF Expected
<1> QED BY <1>1, <1>3, <1>4 DEF IsFile, IsBlock, IsExit, IsChecksum, IsReset, IsDefault

LEMMA AtIsReached ==
    ASSUME Typed
    PROVE  /\ raised = "no" => Reached = at
           /\ raised # "no" => Reached = raised /\ at \in {"default", "done"}
           /\ at \notin {"default", "done"} => raised = "no" /\ Reached = at
BY DEF Typed, Reached

-----------------------------------------------------------------------------
(***************************************************************************)
(* Sequences.                                                              *)
(***************************************************************************)
LEMMA AppendAt ==
    ASSUME NEW S, NEW seq \in Seq(S), NEW x \in S
    PROVE  /\ Append(seq, x) \in Seq(S) /\ Len(Append(seq, x)) = Len(seq) + 1
           /\ DOMAIN Append(seq, x) = 1..(Len(seq) + 1) /\ Len(seq) \in Nat
           /\ DOMAIN seq = 1..Len(seq)
           /\ \A i \in DOMAIN seq : Append(seq, x)[i] = seq[i]
           /\ Append(seq, x)[Len(seq) + 1] = x
OBVIOUS

LEMMA TailAt ==
    ASSUME NEW S, NEW seq \in Seq(S), seq # <<>>
    PROVE  /\ Tail(seq) \in Seq(S) /\ Len(Tail(seq)) = Len(seq) - 1
           /\ DOMAIN Tail(seq) = 1..(Len(seq) - 1) /\ Len(seq) \in Nat \ {0}
           /\ DOMAIN seq = 1..Len(seq)
           /\ \A i \in DOMAIN Tail(seq) : Tail(seq)[i] = seq[i + 1] /\ i + 1 \in DOMAIN seq
           /\ Head(seq) = seq[1] /\ 1 \in DOMAIN seq
OBVIOUS

LEMMA ConsAt ==
    ASSUME NEW S, NEW seq \in Seq(S), NEW x \in S
    PROVE  /\ <<x>> \o seq \in Seq(S) /\ Len(<<x>> \o seq) = Len(seq) + 1
           /\ DOMAIN (<<x>> \o seq) = 1..(Len(seq) + 1) /\ Len(seq) \in Nat
           /\ DOMAIN seq = 1..Len(seq)
           /\ (<<x>> \o seq)[1] = x
           /\ \A i \in DOMAIN seq : (<<x>> \o seq)[i + 1] = seq[i] /\ i + 1 \in 1..(Len(seq) + 1)
           /\ Tail(<<x>> \o seq) = seq /\ Head(<<x>> \o seq) = x /\ <<x>> \o seq # <<>>
<1>1. <<x>> \in Seq(S) /\ Len(<<x>>) = 1 /\ <<x>>[1] = x OBVIOUS
<1>2. /\ <<x>> \o seq \in Seq(S) /\ Len(<<x>> \o seq) = 1 + Len(seq)
      /\ \A i \in 1..1 + Len(seq) : (<<x>> \o seq)[i] =
             IF i <= 1 THEN <<x>>[i] ELSE seq[i - 1]
  BY <1>1, ConcatProperties
<1> DEFINE c == <<x>> \o seq
<1> HIDE DEF c
<1>3. c \in Seq(S) /\ Len(c) = Len(seq) + 1 /\ Len(seq) \in Nat /\ DOMAIN seq = 1..Len(seq)
      /\ DOMAIN c = 1..(Len(seq) + 1)
  BY <1>2, LenProperties DEF c
<1>4. c[1] = x /\ \A i \in DOMAIN seq : c[i + 1] = seq[i] /\ i + 1 \in 1..(Len(seq) + 1)
  <2>1. c[1] = x BY <1>1, <1>2, <1>3 DEF c
  <2>2. ASSUME NEW i \in DOMAIN seq PROVE c[i + 1] = seq[i] /\ i + 1 \in 1..(Len(seq) + 1)
    <3>1. i + 1 \in 1..1 + Len(seq) /\ ~(i + 1 <= 1) /\ (i + 1) - 1 = i BY <1>3
    <3> QED BY <1>2, <1>3, <3>1 DEF c
  <2> QED BY <2>1, <2>2
<1>5. c # <<>> /\ Head(c) = x /\ Tail(c) = seq
  <2>1. c # <<>> BY <1>3
  <2>2. /\ Tail(c) \in Seq(S) /\ Len(Tail(c)) = Len(c) - 1 /\ Head(c) = c[1]
        /\ DOMAIN Tail(c) = 1..(Len(c) - 1)
        /\ \A i \in DOMAIN Tail(c) : Tail(c)[i] = c[i + 1]
    BY <1>3, <2>1, TailAt
  <2>3. Len(Tail(c)) = Len(seq) BY <1>3, <2>2
  <2>4. \A i \in 1..Len(Tail(c)) : Tail(c)[i] = seq[i] BY <1>3, <1>4, <2>2, <2>3
  <2>5. Tail(c) = seq BY <2>2, <2>3, <2>4, SeqEqual
  <2> QED BY <1>4, <2>1, <2>2, <2>5
<1> QED BY <1>3, <1>4, <1>5 DEF c

LEMMA EmptyIs ==
    ASSUME NEW S, NEW seq \in Seq(S)
    PROVE  /\ seq = <<>> <=> Len(seq) = 0
           /\ seq = <<>> <=> DOMAIN seq = {}
           /\ Len(seq) \in Nat /\ DOMAIN seq = 1..Len(seq)
           /\ \A i \in DOMAIN seq : seq[i] \in S
           /\ <<>> \in Seq(S) /\ DOMAIN <<>> = {}
<1>1. /\ Len(seq) \in Nat /\ DOMAIN seq = 1..Len(seq) /\ \A i \in DOMAIN seq : seq[i] \in S
  BY LenProperties, ElementOfSeq
<1>2. seq = <<>> <=> Len(seq) = 0 OBVIOUS
<1>3. <<>> \in Seq(S) /\ DOMAIN <<>> = {} OBVIOUS
<1>4. Len(seq) # 0 => 1 \in DOMAIN seq BY <1>1
<1> QED BY <1>1, <1>2, <1>3, <1>4

LEMMA SingleIs ==
    ASSUME NEW S, NEW x \in S
    PROVE  /\ <<x>> \in Seq(S) /\ Len(<<x>>) = 1 /\ DOMAIN <<x>> = 1..1 /\ <<x>>[1] = x
           /\ <<x>> # <<>> /\ Tail(<<x>>) = <<>> /\ Head(<<x>>) = x
           /\ Append(<<>>, x) = <<x>> /\ <<x>> \o <<>> = <<x>>
<1>1. <<x>> \in Seq(S) /\ Len(<<x>>) = 1 /\ DOMAIN <<x>> = 1..1 /\ <<x>>[1] = x /\ <<x>> # <<>>
  OBVIOUS
<1>2. Tail(<<x>>) = <<>> /\ Head(<<x>>) = x OBVIOUS
<1>3. Append(<<>>, x) = <<x>> OBVIOUS
<1>4. <<x>> \o <<>> = <<x>> BY <1>1, ConcatEmptySeq
<1> QED BY <1>1, <1>2, <1>3, <1>4

(* A queue from which something was taken, wherever: the rest keeps its    *)
(* order.                                                                  *)
Fewer(t, s) ==
    \E f \in [DOMAIN t -> DOMAIN s] :
        /\ \A i \in DOMAIN t : t[i] = s[f[i]]
        /\ \A i, j \in DOMAIN t : i < j => f[i] < f[j]

LEMMA FewerSame == ASSUME NEW s PROVE Fewer(s, s)
<1> DEFINE f == [i \in DOMAIN s |-> i]
<1>1. /\ f \in [DOMAIN s -> DOMAIN s]
      /\ \A i \in DOMAIN s : s[i] = s[f[i]]
      /\ \A i, j \in DOMAIN s : i < j => f[i] < f[j]
  OBVIOUS
<1> QED BY <1>1 DEF Fewer

LEMMA FewerTail ==
    ASSUME NEW S, NEW s \in Seq(S), s # <<>>
    PROVE  Fewer(Tail(s), s)
<1> DEFINE t == Tail(s)
           f == [i \in DOMAIN t |-> i + 1]
<1>1. /\ DOMAIN t = 1..(Len(s) - 1) /\ Len(s) \in Nat \ {0} /\ DOMAIN s = 1..Len(s)
      /\ \A i \in DOMAIN t : t[i] = s[i + 1] /\ i + 1 \in DOMAIN s
  BY TailAt
<1> HIDE DEF t
<1>2. f \in [DOMAIN t -> DOMAIN s] /\ \A i \in DOMAIN t : t[i] = s[f[i]] BY <1>1
<1>3. \A i, j \in DOMAIN t : i < j => f[i] < f[j] BY <1>1
<1> HIDE DEF f
<1>4. Fewer(t, s) BY <1>2, <1>3 DEF Fewer
<1> QED BY <1>4 DEF t

LEMMA FewerSuffix ==
    ASSUME NEW S, NEW s \in Seq(S), NEW n \in 0..Len(s)
    PROVE  /\ SubSeq(s, n + 1, Len(s)) \in Seq(S)
           /\ Fewer(SubSeq(s, n + 1, Len(s)), s)
<1> DEFINE t == SubSeq(s, n + 1, Len(s))
           f == [i \in DOMAIN t |-> i + n]
<1>1. Len(s) \in Nat /\ DOMAIN s = 1..Len(s) /\ \A i \in DOMAIN s : s[i] \in S BY EmptyIs
<1>2. /\ t \in Seq(S) /\ Len(t) = IF n + 1 <= Len(s) THEN Len(s) - (n + 1) + 1 ELSE 0
      /\ \A i \in 1..Len(s) - (n + 1) + 1 : t[i] = s[(n + 1) + i - 1]
  <2>1. n + 1 \in Int /\ Len(s) \in Int /\ \A i \in (n + 1)..Len(s) : s[i] \in S BY <1>1
  <2> QED BY <2>1, SubSeqProperties
<1> HIDE DEF t
<1>3. Len(t) = Len(s) - n /\ DOMAIN t = 1..(Len(s) - n)
  <2>1. Len(t) = Len(s) - n
    <3>1. CASE n = Len(s)
      <4>1. Len(t) = 0 /\ Len(s) - n = 0 BY <1>1, <1>2, <3>1
      <4> QED BY <4>1
    <3>2. CASE n # Len(s)
      <4>2. PICK l \in Nat : l = Len(s) BY <1>1
      <4>3. n \in 0..l /\ n # l BY <3>2, <4>2
      <4>4. n + 1 <= l /\ l - (n + 1) + 1 = l - n BY <4>3
      <4>1. n + 1 <= Len(s) /\ Len(s) - (n + 1) + 1 = Len(s) - n BY <4>2, <4>4
      <4> QED BY <1>2, <4>1
    <3> QED BY <3>1, <3>2
  <2>2. DOMAIN t = 1..Len(t) BY <1>2, EmptyIs
  <2> QED BY <2>1, <2>2
<1>4. \A i \in DOMAIN t : t[i] = s[i + n] /\ i + n \in DOMAIN s
  <2>1. TAKE i \in DOMAIN t
  <2>2. i \in 1..Len(s) - (n + 1) + 1 /\ (n + 1) + i - 1 = i + n /\ i + n \in 1..Len(s)
    BY <1>1, <1>3
  <2> QED BY <1>1, <1>2, <2>2
<1>5. f \in [DOMAIN t -> DOMAIN s] /\ \A i \in DOMAIN t : t[i] = s[f[i]] BY <1>4
<1>6. \A i, j \in DOMAIN t : i < j => f[i] < f[j] BY <1>1, <1>3
<1> HIDE DEF f
<1>7. Fewer(t, s) BY <1>5, <1>6 DEF Fewer
<1> QED BY <1>2, <1>7 DEF t

LEMMA FewerCons ==
    ASSUME NEW S, NEW s \in Seq(S), NEW t \in Seq(S), NEW x \in S, Fewer(t, s)
    PROVE  Fewer(<<x>> \o t, <<x>> \o s)
<1>1. PICK f \in [DOMAIN t -> DOMAIN s] :
        /\ \A i \in DOMAIN t : t[i] = s[f[i]]
        /\ \A i, j \in DOMAIN t : i < j => f[i] < f[j]
  BY DEF Fewer
<1> DEFINE ct == <<x>> \o t
           cs == <<x>> \o s
           g  == [i \in DOMAIN ct |-> IF i = 1 THEN 1 ELSE f[i - 1] + 1]
<1>2. /\ DOMAIN ct = 1..(Len(t) + 1) /\ Len(t) \in Nat /\ DOMAIN t = 1..Len(t)
      /\ ct[1] = x /\ \A i \in DOMAIN t : ct[i + 1] = t[i]
  BY ConsAt
<1>3. /\ DOMAIN cs = 1..(Len(s) + 1) /\ Len(s) \in Nat /\ DOMAIN s = 1..Len(s)
      /\ cs[1] = x /\ \A i \in DOMAIN s : cs[i + 1] = s[i]
  BY ConsAt
<1> HIDE DEF ct, cs
<1>4. \A i \in DOMAIN ct : i # 1 => i - 1 \in DOMAIN t /\ i = (i - 1) + 1 BY <1>2
<1>5. \A i \in DOMAIN t : f[i] \in DOMAIN s /\ f[i] \in Nat /\ f[i] >= 1 BY <1>1, <1>3
<1>6. \A i \in DOMAIN ct : g[i] \in DOMAIN cs /\ ct[i] = cs[g[i]]
  <2>1. TAKE i \in DOMAIN ct
  <2>2. CASE i = 1 BY <1>2, <1>3, <2>2
  <2>3. CASE i # 1
    <3>1. i - 1 \in DOMAIN t /\ ct[i] = t[i - 1] /\ g[i] = f[i - 1] + 1 BY <1>2, <1>4, <2>3
    <3>2. f[i - 1] \in DOMAIN s /\ t[i - 1] = s[f[i - 1]] BY <1>1, <3>1
    <3> QED BY <1>3, <3>1, <3>2
  <2> QED BY <2>2, <2>3
<1>7. \A i, j \in DOMAIN ct : i < j => g[i] < g[j]
  <2>1. SUFFICES ASSUME NEW i \in DOMAIN ct, NEW j \in DOMAIN ct, i < j PROVE g[i] < g[j]
    OBVIOUS
  <2>2. j # 1 /\ j - 1 \in DOMAIN t /\ g[j] = f[j - 1] + 1 BY <1>2, <1>4, <2>1
  <2>3. CASE i = 1 BY <1>5, <2>2, <2>3
  <2>4. CASE i # 1
    <3>1. i - 1 \in DOMAIN t /\ g[i] = f[i - 1] + 1 /\ i - 1 < j - 1 BY <1>2, <1>4, <2>1, <2>4
    <3>2. f[i - 1] < f[j - 1] BY <1>1, <2>2, <3>1
    <3> QED BY <1>5, <2>2, <3>1, <3>2
  <2> QED BY <2>3, <2>4
<1>8. g \in [DOMAIN ct -> DOMAIN cs] BY <1>6
<1> HIDE DEF g
<1>9. Fewer(ct, cs) BY <1>6, <1>7, <1>8 DEF Fewer
<1> QED BY <1>9 DEF ct, cs

LEMMA FewerAppend ==
    ASSUME NEW S, NEW s \in Seq(S), NEW t \in Seq(S), NEW x \in S, Fewer(t, s)
    PROVE  Fewer(Append(t, x), Append(s, x))
<1>1. PICK f \in [DOMAIN t -> DOMAIN s] :
        /\ \A i \in DOMAIN t : t[i] = s[f[i]]
        /\ \A i, j \in DOMAIN t : i < j => f[i] < f[j]
  BY DEF Fewer
<1> DEFINE at_ == Append(t, x)
           as  == Append(s, x)
           g   == [i \in DOMAIN at_ |-> IF i \in DOMAIN t THEN f[i] ELSE Len(s) + 1]
<1>2. /\ DOMAIN at_ = 1..(Len(t) + 1) /\ Len(t) \in Nat /\ DOMAIN t = 1..Len(t)
      /\ at_[Len(t) + 1] = x /\ \A i \in DOMAIN t : at_[i] = t[i]
  BY AppendAt
<1>3. /\ DOMAIN as = 1..(Len(s) + 1) /\ Len(s) \in Nat /\ DOMAIN s = 1..Len(s)
      /\ as[Len(s) + 1] = x /\ \A i \in DOMAIN s : as[i] = s[i]
  BY AppendAt
<1> HIDE DEF at_, as
<1>4. \A i \in DOMAIN at_ : i \notin DOMAIN t => i = Len(t) + 1 BY <1>2
<1>5. \A i \in DOMAIN t : f[i] \in DOMAIN s /\ f[i] \in DOMAIN as /\ f[i] < Len(s) + 1
  BY <1>1, <1>3
<1>6. \A i \in DOMAIN at_ : g[i] \in DOMAIN as /\ at_[i] = as[g[i]]
  <2>1. TAKE i \in DOMAIN at_
  <2>2. CASE i \in DOMAIN t
    <3>1. g[i] = f[i] /\ at_[i] = t[i] BY <1>2, <2>2
    <3>2. f[i] \in DOMAIN s /\ f[i] \in DOMAIN as /\ t[i] = s[f[i]] BY <1>1, <1>5, <2>2
    <3> QED BY <1>3, <3>1, <3>2
  <2>3. CASE i \notin DOMAIN t
    <3>1. g[i] = Len(s) + 1 /\ at_[i] = x BY <1>2, <1>4, <2>3
    <3>2. Len(s) + 1 \in DOMAIN as /\ as[Len(s) + 1] = x BY <1>3
    <3> QED BY <3>1, <3>2
  <2> QED BY <2>2, <2>3
<1>7. \A i, j \in DOMAIN at_ : i < j => g[i] < g[j]
  <2>1. SUFFICES ASSUME NEW i \in DOMAIN at_, NEW j \in DOMAIN at_, i < j PROVE g[i] < g[j]
    OBVIOUS
  <2>2. i \in DOMAIN t /\ g[i] = f[i] BY <1>2, <2>1
  <2>3. CASE j \in DOMAIN t BY <1>1, <2>1, <2>2, <2>3
  <2>4. CASE j \notin DOMAIN t BY <1>5, <2>2, <2>4
  <2> QED BY <2>3, <2>4
<1>8. g \in [DOMAIN at_ -> DOMAIN as] BY <1>6
<1> HIDE DEF g
<1>9. Fewer(at_, as) BY <1>6, <1>7, <1>8 DEF Fewer
<1> QED BY <1>9 DEF at_, as

LEMMA FewerEmpty ==
    ASSUME NEW S, NEW t \in Seq(S), Fewer(t, <<>>)
    PROVE  t = <<>>
<1>1. PICK f \in [DOMAIN t -> DOMAIN <<>>] : TRUE BY DEF Fewer
<1>2. DOMAIN <<>> = {} BY EmptyIs
<1>3. DOMAIN t = {} BY <1>1, <1>2
<1> QED BY <1>3, EmptyIs

-----------------------------------------------------------------------------
(***************************************************************************)
(* What the steps do to the two queues.                                    *)
(***************************************************************************)
LEMMA QueueTypes ==
    ASSUME TypeOK, Typed
    PROVE  /\ Coming \in Seq(Items) /\ Returning \in Seq(Responses)
           /\ requestInProgress => inbox # NoRequest /\ asked \in Items /\ Answer \in Responses
           /\ \A i \in DOMAIN Coming : Coming[i] \in Items
           /\ \A i \in DOMAIN Returning : Returning[i] \in Responses /\ Returning[i].item \in Items
<1>1. requestInProgress => inbox # NoRequest /\ asked \in Items /\ Answer \in Responses
  BY DEF TypeOK, Typed, Answer, Responses
<1>2. Coming \in Seq(Items) BY ConsAt DEF Coming, Typed
<1>3. Returning \in Seq(Responses) BY <1>1, AppendAt DEF Returning, Typed
<1>4. \A i \in DOMAIN Coming : Coming[i] \in Items BY <1>2, EmptyIs
<1>5. \A i \in DOMAIN Returning : Returning[i] \in Responses BY <1>3, EmptyIs
<1> QED BY <1>1, <1>2, <1>3, <1>4, <1>5 DEF Responses

(* Steps that move neither a request nor an answer. *)
LEMMA SameQueues ==
    ASSUME UNCHANGED <<inbox, requestInProgress, asked, resp, status, air, replies>>
    PROVE  Coming' = Coming /\ Returning' = Returning
BY DEF Coming, Returning, Answer

LEMMA SendQueues ==
    ASSUME TypeOK, Typed, NEW item \in Items, air' = Append(air, item),
           NEW n \in 0..Len(replies), replies' = SubSeq(replies, n + 1, Len(replies)),
           UNCHANGED <<inbox, requestInProgress, asked, resp, status>>
    PROVE  /\ air' \in Seq(Items) /\ replies' \in Seq(Responses)
           /\ Coming' = Append(Coming, item)
           /\ Fewer(Returning', Returning)
<1>1. air \in Seq(Items) /\ replies \in Seq(Responses) BY DEF Typed
<1>2. air' \in Seq(Items) BY <1>1, AppendAt
<1>3. replies' \in Seq(Responses) /\ Fewer(replies', replies) BY <1>1, FewerSuffix
<1>4. Coming' = Append(Coming, item)
  <2>1. CASE inbox # NoRequest /\ ~requestInProgress
    <3>1. asked \in Items BY <2>1 DEF Typed
    <3>2. <<asked>> \in Seq(Items) /\ <<item>> \in Seq(Items) BY <3>1, SingleIs
    <3>3. Append(<<asked>> \o air, item) = (<<asked>> \o air) \o <<item>>
      <4>1. <<asked>> \o air \in Seq(Items) BY <1>1, <3>1, ConsAt
      <4> QED BY <4>1, AppendIsConcat
    <3>4. Append(air, item) = air \o <<item>> BY <1>1, AppendIsConcat
    <3>5. (<<asked>> \o air) \o <<item>> = <<asked>> \o (air \o <<item>>)
      BY <1>1, <3>2, ConcatAssociative
    <3>6. Coming = <<asked>> \o air /\ Coming' = <<asked>> \o air' BY <2>1 DEF Coming
    <3> QED BY <3>3, <3>4, <3>5, <3>6
  <2>2. CASE ~(inbox # NoRequest /\ ~requestInProgress) BY <2>2 DEF Coming
  <2> QED BY <2>1, <2>2
<1>5. Fewer(Returning', Returning)
  <2>1. CASE requestInProgress
    <3>1. Returning = Append(replies, Answer) /\ Returning' = Append(replies', Answer)
      BY <2>1 DEF Returning, Answer
    <3>2. Answer \in Responses BY <2>1, QueueTypes
    <3> QED BY <1>1, <1>3, <3>1, <3>2, FewerAppend
  <2>2. CASE ~requestInProgress BY <1>3, <2>2 DEF Returning
  <2> QED BY <2>1, <2>2
<1> QED BY <1>2, <1>3, <1>4, <1>5

LEMMA TakeQueues ==
    ASSUME TypeOK, Typed, replies # <<>>, replies' = Tail(replies),
           UNCHANGED <<inbox, requestInProgress, asked, resp, status, air>>
    PROVE  /\ replies' \in Seq(Responses)
           /\ Returning # <<>> /\ Head(Returning) = Head(replies)
           /\ Head(replies) \in Responses
           /\ Returning' = Tail(Returning) /\ Coming' = Coming
<1>1. replies \in Seq(Responses) BY DEF Typed
<1>2. replies' \in Seq(Responses) /\ Head(replies) \in Responses BY <1>1, HeadTailProperties
<1>3. Coming' = Coming BY DEF Coming
<1>4. CASE requestInProgress
  <2>1. Returning = Append(replies, Answer) /\ Returning' = Append(replies', Answer)
    BY <1>4 DEF Returning, Answer
  <2>2. Answer \in Responses BY <1>4, QueueTypes
  <2>3. /\ Head(Append(replies, Answer)) = Head(replies)
        /\ Tail(Append(replies, Answer)) = Append(Tail(replies), Answer)
    BY <1>1, <2>2, HeadTailAppend
  <2>4. Append(replies, Answer) # <<>> BY <1>1, <2>2, AppendProperties
  <2> QED BY <1>2, <1>3, <2>1, <2>3, <2>4
<1>5. CASE ~requestInProgress
  <2>1. Returning = replies /\ Returning' = replies' BY <1>5 DEF Returning
  <2> QED BY <1>2, <1>3, <2>1
<1> QED BY <1>4, <1>5

LEMMA LoseQueues ==
    ASSUME TypeOK, Typed, air # <<>>, air' = Tail(air),
           UNCHANGED <<inbox, requestInProgress, asked, resp, status, replies>>
    PROVE  /\ air' \in Seq(Items) /\ Returning' = Returning
           /\ Fewer(Coming', Coming) /\ Coming # <<>>
           /\ Len(Coming) = 1 => Coming' = <<>>
<1>1. air \in Seq(Items) BY DEF Typed
<1>2. /\ air' \in Seq(Items) /\ Fewer(air', air) /\ Len(air') = Len(air) - 1
      /\ Len(air) \in Nat \ {0}
  BY <1>1, TailAt, FewerTail
<1>3. Returning' = Returning BY DEF Returning, Answer
<1>4. CASE inbox # NoRequest /\ ~requestInProgress
  <2>1. asked \in Items BY <1>4 DEF Typed
  <2>2. Coming = <<asked>> \o air /\ Coming' = <<asked>> \o air' BY <1>4 DEF Coming
  <2>3. Fewer(<<asked>> \o air', <<asked>> \o air) BY <1>1, <1>2, <2>1, FewerCons
  <2>4. Len(<<asked>> \o air) = Len(air) + 1 /\ <<asked>> \o air # <<>> BY <1>1, <2>1, ConsAt
  <2>5. Len(Coming) # 1 BY <1>2, <2>2, <2>4
  <2> QED BY <1>2, <1>3, <2>2, <2>3, <2>4, <2>5
<1>5. CASE ~(inbox # NoRequest /\ ~requestInProgress)
  <2>1. Coming = air /\ Coming' = air' BY <1>5 DEF Coming
  <2>2. Len(air) = 1 => air' = <<>>
    <3>1. Len(air) = 1 => Len(air') = 0 BY <1>2
    <3> QED BY <1>2, <3>1, EmptyIs
  <2> QED BY <1>2, <1>3, <2>1, <2>2
<1> QED BY <1>4, <1>5

LEMMA ArriveQueues ==
    ASSUME TypeOK, Typed, air # <<>>, air' = Tail(air), asked' = Head(air),
           inbox = NoRequest, inbox' = Head(air).req,
           UNCHANGED <<requestInProgress, resp, status, replies>>
    PROVE  /\ air' \in Seq(Items) /\ asked' \in Items /\ inbox' \in Requests
           /\ Coming' = Coming /\ Returning' = Returning
<1>1. air \in Seq(Items) /\ ~requestInProgress BY DEF Typed, TypeOK
<1>2. air' \in Seq(Items) /\ asked' \in Items BY <1>1, HeadTailProperties
<1>3. inbox' \in Requests /\ inbox' # NoRequest BY <1>2, ItemFacts
<1>4. Coming = air /\ Coming' = <<asked'>> \o air' BY <1>1, <1>3 DEF Coming
<1>5. <<asked'>> \o air' = air
  <2>1. /\ <<asked'>> \o air' \in Seq(Items) /\ Len(<<asked'>> \o air') = Len(air') + 1
        /\ (<<asked'>> \o air')[1] = asked'
        /\ \A i \in DOMAIN air' : (<<asked'>> \o air')[i + 1] = air'[i]
    BY <1>2, ConsAt
  <2>2. /\ Len(air') = Len(air) - 1 /\ Len(air) \in Nat \ {0} /\ DOMAIN air' = 1..(Len(air) - 1)
        /\ \A i \in DOMAIN air' : air'[i] = air[i + 1]
        /\ asked' = air[1]
    BY <1>1, TailAt
  <2> DEFINE c == <<asked'>> \o air'
  <2>3. c \in Seq(Items) /\ Len(c) = Len(air) /\ c[1] = air[1]
        /\ \A i \in DOMAIN air' : c[i + 1] = air[i + 1]
    BY <2>1, <2>2
  <2> HIDE DEF c
  <2>4. \A i \in 1..Len(c) : c[i] = air[i]
    <3>1. TAKE i \in 1..Len(c)
    <3>2. i = 1 \/ (i - 1 \in DOMAIN air' /\ (i - 1) + 1 = i) BY <2>2, <2>3
    <3> QED BY <2>3, <3>2
  <2>5. c = air BY <1>1, <2>3, <2>4, SeqEqual
  <2> QED BY <2>5 DEF c
<1>6. Returning' = Returning BY <1>1 DEF Returning
<1> QED BY <1>2, <1>3, <1>4, <1>5, <1>6

LEMMA ServeQueues ==
    ASSUME TypeOK, Typed, inbox # NoRequest, ~requestInProgress, requestInProgress',
           UNCHANGED <<inbox, asked, air, replies>>
    PROVE  /\ asked \in Items /\ inbox = asked.req
           /\ Coming # <<>> /\ Coming[1] = asked /\ Coming' = Tail(Coming)
           /\ Returning' = Append(Returning, Answer')
           /\ Answer' = [item |-> asked, code |-> resp', status |-> status']
<1>1. asked \in Items /\ inbox = asked.req /\ air \in Seq(Items) BY DEF Typed
<1>2. Coming = <<asked>> \o air /\ Coming' = air BY DEF Coming
<1>3. Tail(<<asked>> \o air) = air /\ (<<asked>> \o air)[1] = asked /\ <<asked>> \o air # <<>>
  BY <1>1, ConsAt
<1>4. Returning' = Append(Returning, Answer') BY DEF Returning
<1>5. Answer' = [item |-> asked, code |-> resp', status |-> status'] BY DEF Answer
<1> QED BY <1>1, <1>2, <1>3, <1>4, <1>5

(* The final response. *)
LEMMA RespondQueues ==
    ASSUME TypeOK, Typed, requestInProgress, ~requestInProgress', inbox' = NoRequest,
           replies' = Append(replies, Answer), air' = air
    PROVE  /\ replies' \in Seq(Responses)
           /\ Coming' = Coming /\ Returning' = Returning
<1>1. replies' \in Seq(Responses) BY QueueTypes, AppendAt DEF Typed
<1> QED BY <1>1 DEF Coming, Returning

LEMMA EmptyQueues ==
    ASSUME air' = <<>>, replies' = <<>>, inbox' = NoRequest, ~requestInProgress'
    PROVE  Coming' = <<>> /\ Returning' = <<>>
BY DEF Coming, Returning

-----------------------------------------------------------------------------
(***************************************************************************)
(* Calm steps: those in which the client goes no further than to give up,  *)
(* and the server does nothing with a request.                             *)
(***************************************************************************)
SameServer ==
    /\ UNCHANGED <<xfer, serving, notReadyToReceive, stored, fw_filename_, fw_file_, exited, linked>>
    /\ upgrade_thread_' # "none" => upgrade_thread_ # "none"

SameStep ==
    /\ Reached' = Reached /\ block' = block /\ verdict' = verdict
    /\ raised' = "no" => raised = "no"
    /\ waiting' = waiting \/ raised' # "no" \/ at' = "block"

Calm ==
    /\ SameServer /\ SameStep
    /\ Fewer(Coming', Coming) /\ Fewer(Returning', Returning)

Safe ==
    /\ Cut /\ Behind /\ FileOnce /\ InStep /\ ClosedAfterExit /\ Told /\ Deaf

(* What is left in a queue was in it. *)
LEMMA FewerFrom ==
    ASSUME NEW s, NEW t, Fewer(t, s)
    PROVE  \A i \in DOMAIN t : \E k \in DOMAIN s : t[i] = s[k]
BY DEF Fewer

LEMMA FewerPair ==
    ASSUME NEW S, NEW s \in Seq(S), NEW t \in Seq(S), Fewer(t, s),
           NEW i \in DOMAIN t, NEW j \in DOMAIN t, i # j
    PROVE  \E k, l \in DOMAIN s : /\ t[i] = s[k] /\ t[j] = s[l] /\ k # l
                                  /\ (i < j => k < l)
<1>1. PICK f \in [DOMAIN t -> DOMAIN s] :
        /\ \A h \in DOMAIN t : t[h] = s[f[h]]
        /\ \A h, k \in DOMAIN t : h < k => f[h] < f[k]
  BY DEF Fewer
<1>2. DOMAIN s = 1..Len(s) /\ Len(s) \in Nat /\ DOMAIN t = 1..Len(t) /\ Len(t) \in Nat
  BY EmptyIs
<1>3. i < j \/ j < i BY <1>2
<1>4. f[i] \in DOMAIN s /\ f[j] \in DOMAIN s /\ f[i] # f[j]
  <2>1. f[i] \in Int /\ f[j] \in Int BY <1>1, <1>2
  <2>2. f[i] < f[j] \/ f[j] < f[i] BY <1>1, <1>3
  <2> QED BY <1>1, <2>1, <2>2
<1>5. t[i] = s[f[i]] /\ t[j] = s[f[j]] /\ (i < j => f[i] < f[j]) BY <1>1
<1> QED BY <1>4, <1>5

(* Typed states are typed one step on. *)
LEMMA NextQueueTypes ==
    ASSUME TypeOK', Typed'
    PROVE  /\ Coming' \in Seq(Items) /\ Returning' \in Seq(Responses)
           /\ \A i \in DOMAIN Coming' : Coming'[i] \in Items
           /\ \A i \in DOMAIN Returning' : Returning'[i] \in Responses /\ Returning'[i].item \in Items
<1>1. requestInProgress' => inbox' # NoRequest /\ asked' \in Items /\ Answer' \in Responses
  BY DEF TypeOK, Typed, Answer, Responses
<1>2. Coming' \in Seq(Items) BY ConsAt DEF Coming, Typed
<1>3. Returning' \in Seq(Responses) BY <1>1, AppendAt DEF Returning, Typed
<1>4. \A i \in DOMAIN Coming' : Coming'[i] \in Items BY <1>2, EmptyIs
<1>5. \A i \in DOMAIN Returning' : Returning'[i] \in Responses BY <1>3, EmptyIs
<1> QED BY <1>2, <1>3, <1>4, <1>5 DEF Responses

(* The queues of a step that takes something from them. *)
LEMMA LessQueues ==
    ASSUME TypeOK, Typed, TypeOK', Typed', Fewer(Coming', Coming), Fewer(Returning', Returning)
    PROVE  /\ \A i \in DOMAIN Coming' : \E k \in DOMAIN Coming : Coming'[i] = Coming[k]
           /\ \A i \in DOMAIN Returning' : \E k \in DOMAIN Returning : Returning'[i] = Returning[k]
           /\ \A i, j \in DOMAIN Coming' : i # j =>
                \E k, l \in DOMAIN Coming : /\ Coming'[i] = Coming[k] /\ Coming'[j] = Coming[l]
                                            /\ k # l /\ (i < j => k < l)
           /\ \A i, j \in DOMAIN Returning' : i # j =>
                \E k, l \in DOMAIN Returning : /\ Returning'[i] = Returning[k]
                                               /\ Returning'[j] = Returning[l]
                                               /\ k # l
           /\ Coming = <<>> => Coming' = <<>>
           /\ Returning = <<>> => Returning' = <<>>
<1>1. /\ Coming \in Seq(Items) /\ Returning \in Seq(Responses)
      /\ Coming' \in Seq(Items) /\ Returning' \in Seq(Responses)
  BY QueueTypes, NextQueueTypes
<1>2. /\ Len(Coming) \in Nat /\ DOMAIN Coming = 1..Len(Coming)
      /\ Len(Returning) \in Nat /\ DOMAIN Returning = 1..Len(Returning)
      /\ Len(Coming') \in Nat /\ DOMAIN Coming' = 1..Len(Coming')
      /\ Len(Returning') \in Nat /\ DOMAIN Returning' = 1..Len(Returning')
  BY <1>1, EmptyIs
<1>3. /\ \A i \in DOMAIN Coming' : \E k \in DOMAIN Coming : Coming'[i] = Coming[k]
      /\ \A i \in DOMAIN Returning' : \E k \in DOMAIN Returning : Returning'[i] = Returning[k]
  BY FewerFrom
<1>4. \A i, j \in DOMAIN Coming' : i # j =>
        \E k, l \in DOMAIN Coming : /\ Coming'[i] = Coming[k] /\ Coming'[j] = Coming[l]
                                    /\ k # l /\ (i < j => k < l)
  BY <1>1, FewerPair
<1>5. \A i, j \in DOMAIN Returning' : i # j =>
        \E k, l \in DOMAIN Returning : /\ Returning'[i] = Returning[k]
                                       /\ Returning'[j] = Returning[l]
                                       /\ k # l
  <2>1. \A i, j \in DOMAIN Returning' : i # j =>
          \E k, l \in DOMAIN Returning : /\ Returning'[i] = Returning[k]
                                         /\ Returning'[j] = Returning[l]
                                         /\ k # l /\ (i < j => k < l)
    BY <1>1, FewerPair
  <2> QED BY <2>1
<1>6. Coming = <<>> => Coming' = <<>>
  BY <1>1, FewerEmpty
<1>7. Returning = <<>> => Returning' = <<>>
  BY <1>1, FewerEmpty
<1> QED BY <1>3, <1>4, <1>5, <1>6, <1>7

LEMMA CalmStep ==
    ASSUME TypeOK, Typed, Safe, TypeOK', Typed', Calm
    PROVE  Safe'
<1>1. /\ UNCHANGED <<xfer, serving, notReadyToReceive, stored, fw_filename_, fw_file_, exited, linked>>
      /\ upgrade_thread_' # "none" => upgrade_thread_ # "none"
  BY DEF Calm, SameServer
<1>2. /\ Reached' = Reached /\ block' = block /\ verdict' = verdict
      /\ raised' = "no" => raised = "no"
      /\ waiting' = waiting \/ raised' # "no" \/ at' = "block"
  BY DEF Calm, SameStep
<1>3. /\ \A i \in DOMAIN Coming' : \E k \in DOMAIN Coming : Coming'[i] = Coming[k]
      /\ \A i \in DOMAIN Returning' : \E k \in DOMAIN Returning : Returning'[i] = Returning[k]
  BY LessQueues DEF Calm
<1>4. /\ \A i, j \in DOMAIN Coming' : i # j =>
           \E k, l \in DOMAIN Coming : /\ Coming'[i] = Coming[k] /\ Coming'[j] = Coming[l]
                                       /\ k # l /\ (i < j => k < l)
      /\ \A i, j \in DOMAIN Returning' : i # j =>
           \E k, l \in DOMAIN Returning : /\ Returning'[i] = Returning[k]
                                          /\ Returning'[j] = Returning[l]
                                          /\ k # l
  BY LessQueues DEF Calm
<1>5. (Coming = <<>> => Coming' = <<>>) /\ (Returning = <<>> => Returning' = <<>>)
  BY LessQueues DEF Calm
<1>6. Rank(Reached)' = Rank(Reached)
  BY <1>2 DEF Rank
<1>7. Cut'
  BY <1>1, <1>5, Zenon DEF Safe, Cut
<1>8. Behind'
  <2>1. \A i \in DOMAIN Coming' : RankOf(Coming'[i]) <= Rank(Reached)'
    BY <1>3, <1>6 DEF Safe, Behind
  <2>2. \A i \in DOMAIN Returning' : RankOf(Returning'[i].item) <= Rank(Reached)'
    BY <1>3, <1>6 DEF Safe, Behind
  <2> QED BY <1>1, <1>6, <2>1, <2>2 DEF Safe, Behind
<1>9. FileOnce'
  <2>1. ASSUME NEW i \in DOMAIN Coming', IsFile(Coming'[i])
        PROVE  /\ Rank(Reached)' = 7 /\ ~xfer'.active /\ (waiting' \/ raised' # "no")
               /\ \A j \in DOMAIN Coming' : j # i => ~IsFile(Coming'[j])
               /\ \A j \in DOMAIN Returning' : ~IsFile(Returning'[j].item)
    <3>1. PICK k \in DOMAIN Coming : Coming'[i] = Coming[k] BY <1>3
    <3>2. /\ Rank(Reached) = 7 /\ ~xfer.active /\ (waiting \/ raised # "no")
          /\ \A j \in DOMAIN Coming : j # k => ~IsFile(Coming[j])
          /\ \A j \in DOMAIN Returning : ~IsFile(Returning[j].item)
      BY <2>1, <3>1 DEF Safe, FileOnce
    <3>3. waiting' \/ raised' # "no"
      <4>1. SUFFICES ASSUME raised' = "no" PROVE waiting'
        OBVIOUS
      <4>2. at' # "block"
        BY <1>6, <3>2, <4>1, RankIs DEF Reached
      <4> QED BY <1>2, <3>2, <4>1, <4>2
    <3>4. ASSUME NEW j \in DOMAIN Coming', j # i PROVE ~IsFile(Coming'[j])
      <4>1. PICK p, q \in DOMAIN Coming : Coming'[i] = Coming[p] /\ Coming'[j] = Coming[q] /\ p # q
        BY <1>4, <3>4
      <4>2. p = k BY <2>1, <3>2, <4>1
      <4> QED BY <3>2, <4>1, <4>2
    <3>5. \A j \in DOMAIN Returning' : ~IsFile(Returning'[j].item) BY <1>3, <3>2
    <3> QED BY <1>1, <1>6, <3>2, <3>3, <3>4, <3>5
  <2>2. ASSUME at' = "file", ~waiting'
        PROVE  ~xfer'.active /\ \A j \in DOMAIN Returning' : ~IsFile(Returning'[j].item)
    <3>1. raised' = "no" BY <2>2 DEF Typed
    <3>2. raised = "no" /\ waiting' = waiting BY <1>2, <2>2, <3>1
    <3>3. at = "file" /\ ~waiting BY <1>2, <2>2, <3>1, <3>2 DEF Reached
    <3> QED BY <1>1, <1>3, <3>3 DEF Safe, FileOnce
  <2> QED BY <2>1, <2>2 DEF FileOnce
<1>10. InStep'
  <2>1. /\ \A i \in DOMAIN stored : stored[i] = i
        /\ block - 1 <= Len(stored) /\ Len(stored) <= block /\ Len(stored) <= BlockCount
        /\ Rank(Reached) <= 7 => block = 1 /\ stored = <<>>
        /\ Rank(Reached) = 8 => block <= BlockCount
        /\ Rank(Reached) >= 9 => block = BlockCount + 1
        /\ xfer.active => xfer.seq = (1 + Len(stored)) % SeqMod
    BY DEF Safe, InStep
  <2>2. \A i \in DOMAIN Coming' : IsBlock(Coming'[i]) =>
          Len(stored) <= Coming'[i].block /\ Coming'[i].block <= block
    BY <1>3 DEF Safe, InStep
  <2>3. ASSUME NEW i \in DOMAIN Coming', NEW j \in DOMAIN Coming', i < j,
               IsBlock(Coming'[i]), IsBlock(Coming'[j])
        PROVE  Coming'[i].block <= Coming'[j].block
    <3>1. i # j
      <4>1. Coming' \in Seq(Items) BY NextQueueTypes
      <4>2. i \in Int /\ j \in Int BY <4>1, EmptyIs
      <4> QED BY <2>3, <4>2
    <3>2. PICK p, q \in DOMAIN Coming : Coming'[i] = Coming[p] /\ Coming'[j] = Coming[q] /\ p < q
      BY <1>4, <2>3, <3>1
    <3> QED BY <2>3, <3>2 DEF Safe, InStep
  <2>4. ASSUME NEW i \in DOMAIN Returning', IsBlock(Returning'[i].item), Positive(Returning'[i])
        PROVE  /\ Len(stored) = block
               /\ \A j \in DOMAIN Returning' : j # i =>
                     ~(IsBlock(Returning'[j].item) /\ Positive(Returning'[j]))
    <3>1. PICK k \in DOMAIN Returning : Returning'[i] = Returning[k] BY <1>3
    <3>2. Len(stored) = block BY <2>4, <3>1 DEF Safe, InStep
    <3>3. ASSUME NEW j \in DOMAIN Returning', j # i
          PROVE  ~(IsBlock(Returning'[j].item) /\ Positive(Returning'[j]))
      <4>1. PICK p, q \in DOMAIN Returning :
              Returning'[i] = Returning[p] /\ Returning'[j] = Returning[q] /\ p # q
        BY <1>4, <3>3
      <4> QED BY <2>4, <4>1 DEF Safe, InStep
    <3> QED BY <3>2, <3>3
  <2> QED BY <1>1, <1>2, <1>6, <2>1, <2>2, <2>3, <2>4 DEF InStep
<1>11. ClosedAfterExit'
  <2>1. SUFFICES ASSUME \/ Rank(Reached)' >= 10
                        \/ \E i \in DOMAIN Returning' :
                              IsExit(Returning'[i].item) /\ Positive(Returning'[i])
                 PROVE  Closed'
    BY DEF ClosedAfterExit
  <2>2. Closed BY <1>3, <1>6, <2>1 DEF Safe, ClosedAfterExit
  <2> QED BY <1>1, <2>2 DEF Closed, NotExited, NoHandle
<1>12. Told'
  <2>1. Digest' = Digest BY <1>1 DEF Digest
  <2>2. \A i \in DOMAIN Returning' :
          IsChecksum(Returning'[i].item) /\ Positive(Returning'[i]) => Returning'[i].status = Digest
    BY <1>3 DEF Safe, Told
  <2> QED BY <1>2, <1>6, <2>1, <2>2 DEF Safe, Told
<1>13. Deaf'
  <2>1. \A i \in DOMAIN Returning' :
          IsReset(Returning'[i].item) /\ Positive(Returning'[i]) => notReadyToReceive
    BY <1>3 DEF Safe, Deaf
  <2>2. raised' = "no" => raised = "no" /\ at' = at
    BY <1>2 DEF Reached
  <2>3. raised' = "no" => \A i \in DOMAIN Returning' : ~IsDefault(Returning'[i].item)
    BY <1>3, <2>2 DEF Safe, Deaf
  <2>4. raised' = "no" /\ at' # "default" => \A i \in DOMAIN Coming' : ~IsDefault(Coming'[i])
    BY <1>3, <2>2 DEF Safe, Deaf
  <2> QED BY <1>1, <2>1, <2>2, <2>3, <2>4 DEF Safe, Deaf
<1> QED BY <1>7, <1>8, <1>9, <1>10, <1>11, <1>12, <1>13 DEF Safe

-----------------------------------------------------------------------------
(***************************************************************************)
(* The client makes a request.                                             *)
(***************************************************************************)
Sends ==
    /\ at # "done" /\ ~waiting /\ linked /\ waiting' = TRUE
    /\ UNCHANGED <<at, block, raised, verdict>>
    /\ UNCHANGED <<xfer, serving, notReadyToReceive, stored, fw_filename_, fw_file_, exited, linked,
                   upgrade_thread_>>
    /\ Coming' = Append(Coming, Expected) /\ Fewer(Returning', Returning)

LEMMA SendsStep ==
    ASSUME TypeOK, Typed, Safe, TypeOK', Typed', Sends
    PROVE  Safe'
<1>1. /\ UNCHANGED <<xfer, serving, notReadyToReceive, stored, fw_filename_, fw_file_, exited, linked,
                     upgrade_thread_>>
      /\ UNCHANGED <<at, block, raised, verdict>> /\ waiting' = TRUE /\ linked /\ ~waiting
  BY DEF Sends
<1>2. Reached' = Reached /\ Rank(Reached)' = Rank(Reached)
  BY <1>1 DEF Reached, Rank
<1>3. Coming \in Seq(Items) /\ Returning \in Seq(Responses)
  BY QueueTypes
<1>4. /\ Expected \in Items /\ RankOf(Expected) <= Rank(Reached)
      /\ IsFile(Expected) <=> at = "file"
      /\ IsBlock(Expected) <=> at = "block"
      /\ IsBlock(Expected) => Expected.block = block
      /\ IsDefault(Expected) <=> at = "default"
  BY ExpectedItem DEF Sends, Safe
<1> DEFINE n == Len(Coming)
<1>5. /\ n \in Nat /\ DOMAIN Coming' = 1..(n + 1) /\ DOMAIN Coming = 1..n
      /\ \A i \in DOMAIN Coming : Coming'[i] = Coming[i]
      /\ Coming'[n + 1] = Expected
  BY <1>3, <1>4, AppendAt DEF Sends
<1> HIDE DEF n
<1>6. \A i \in DOMAIN Coming' :
         \/ i \in DOMAIN Coming /\ Coming'[i] = Coming[i] /\ i < n + 1
         \/ i = n + 1 /\ Coming'[i] = Expected
  BY <1>5
<1>7. /\ \A i \in DOMAIN Returning' : \E k \in DOMAIN Returning : Returning'[i] = Returning[k]
      /\ \A i, j \in DOMAIN Returning' : i # j =>
           \E k, l \in DOMAIN Returning : /\ Returning'[i] = Returning[k]
                                          /\ Returning'[j] = Returning[l]
                                          /\ k # l
  <2>1. Fewer(Coming, Coming) BY FewerSame
  <2>2. Returning' \in Seq(Responses) /\ Fewer(Returning', Returning) BY NextQueueTypes DEF Sends
  <2>3. \A i \in DOMAIN Returning' : \E k \in DOMAIN Returning : Returning'[i] = Returning[k]
    BY <2>2, FewerFrom
  <2>4. ASSUME NEW i \in DOMAIN Returning', NEW j \in DOMAIN Returning', i # j
        PROVE  \E k, l \in DOMAIN Returning : /\ Returning'[i] = Returning[k]
                                              /\ Returning'[j] = Returning[l]
                                              /\ k # l
    <3>1. \E k, l \in DOMAIN Returning : /\ Returning'[i] = Returning[k]
                                         /\ Returning'[j] = Returning[l]
                                         /\ k # l /\ (i < j => k < l)
      BY <1>3, <2>2, <2>4, FewerPair
    <3> QED BY <3>1
  <2> QED BY <2>3, <2>4
<1>8. Cut'
  BY <1>1 DEF Cut
<1>9. Behind'
  <2>1. \A i \in DOMAIN Coming' : RankOf(Coming'[i]) <= Rank(Reached)'
    BY <1>2, <1>4, <1>6 DEF Safe, Behind
  <2>2. \A i \in DOMAIN Returning' : RankOf(Returning'[i].item) <= Rank(Reached)'
    BY <1>2, <1>7 DEF Safe, Behind
  <2> QED BY <1>1, <1>2, <2>1, <2>2 DEF Safe, Behind
<1>10. FileOnce'
  <2>1. ASSUME NEW i \in DOMAIN Coming', IsFile(Coming'[i])
        PROVE  /\ Rank(Reached) = 7 /\ ~xfer.active
               /\ \A j \in DOMAIN Coming' : j # i => ~IsFile(Coming'[j])
               /\ \A j \in DOMAIN Returning : ~IsFile(Returning[j].item)
    <3>1. CASE i \in DOMAIN Coming /\ Coming'[i] = Coming[i]
      <4>1. /\ Rank(Reached) = 7 /\ ~xfer.active /\ raised # "no"
            /\ \A j \in DOMAIN Coming : j # i => ~IsFile(Coming[j])
            /\ \A j \in DOMAIN Returning : ~IsFile(Returning[j].item)
        BY <1>1, <2>1, <3>1 DEF Safe, FileOnce
      <4>2. ~IsFile(Expected) BY <1>4, <4>1 DEF Typed
      <4> QED BY <1>6, <4>1, <4>2
    <3>2. CASE i = n + 1 /\ Coming'[i] = Expected
      <4>1. at = "file" BY <1>4, <2>1, <3>2
      <4>2. raised = "no" /\ Reached = "file" BY <4>1, AtIsReached
      <4>3. \A j \in DOMAIN Coming : ~IsFile(Coming[j])
        BY <1>1, <4>2 DEF Safe, FileOnce
      <4>4. ~xfer.active /\ \A j \in DOMAIN Returning : ~IsFile(Returning[j].item)
        BY <1>1, <4>1 DEF Safe, FileOnce
      <4> QED BY <1>6, <3>2, <4>2, <4>3, <4>4, RankIs
    <3> QED BY <1>6, <3>1, <3>2
  <2> QED BY <1>1, <1>2, <1>7, <2>1 DEF FileOnce
<1>11. InStep'
  <2>1. /\ \A i \in DOMAIN stored : stored[i] = i
        /\ block - 1 <= Len(stored) /\ Len(stored) <= block /\ Len(stored) <= BlockCount
        /\ Rank(Reached) <= 7 => block = 1 /\ stored = <<>>
        /\ Rank(Reached) = 8 => block <= BlockCount
        /\ Rank(Reached) >= 9 => block = BlockCount + 1
        /\ xfer.active => xfer.seq = (1 + Len(stored)) % SeqMod
    BY DEF Safe, InStep
  <2>2. \A i \in DOMAIN Coming' : IsBlock(Coming'[i]) =>
          Len(stored) <= Coming'[i].block /\ Coming'[i].block <= block
    <3>1. block \in Nat BY DEF Typed
    <3> QED BY <1>4, <1>6, <2>1, <3>1 DEF Safe, InStep
  <2>3. ASSUME NEW i \in DOMAIN Coming', NEW j \in DOMAIN Coming', i < j,
               IsBlock(Coming'[i]), IsBlock(Coming'[j])
        PROVE  Coming'[i].block <= Coming'[j].block
    <3>1. i \in DOMAIN Coming /\ Coming'[i] = Coming[i] BY <1>5, <1>6, <2>3
    <3>2. CASE j \in DOMAIN Coming /\ Coming'[j] = Coming[j]
      BY <2>3, <3>1, <3>2 DEF Safe, InStep
    <3>3. CASE Coming'[j] = Expected
      BY <1>4, <2>3, <3>1, <3>3 DEF Safe, InStep
    <3> QED BY <1>6, <3>2, <3>3
  <2>4. ASSUME NEW i \in DOMAIN Returning', IsBlock(Returning'[i].item), Positive(Returning'[i])
        PROVE  /\ Len(stored) = block
               /\ \A j \in DOMAIN Returning' : j # i =>
                     ~(IsBlock(Returning'[j].item) /\ Positive(Returning'[j]))
    <3>1. PICK k \in DOMAIN Returning : Returning'[i] = Returning[k] BY <1>7
    <3>2. Len(stored) = block BY <2>4, <3>1 DEF Safe, InStep
    <3>3. ASSUME NEW j \in DOMAIN Returning', j # i
          PROVE  ~(IsBlock(Returning'[j].item) /\ Positive(Returning'[j]))
      <4>1. PICK p, q \in DOMAIN Returning :
              Returning'[i] = Returning[p] /\ Returning'[j] = Returning[q] /\ p # q
        BY <1>7, <3>3
      <4> QED BY <2>4, <4>1 DEF Safe, InStep
    <3> QED BY <3>2, <3>3
  <2> QED BY <1>1, <1>2, <2>1, <2>2, <2>3, <2>4 DEF InStep
<1>12. ClosedAfterExit'
  <2>1. SUFFICES ASSUME \/ Rank(Reached)' >= 10
                        \/ \E i \in DOMAIN Returning' :
                              IsExit(Returning'[i].item) /\ Positive(Returning'[i])
                 PROVE  Closed'
    BY DEF ClosedAfterExit
  <2>2. Closed BY <1>2, <1>7, <2>1 DEF Safe, ClosedAfterExit
  <2> QED BY <1>1, <2>2 DEF Closed, NotExited, NoHandle
<1>13. Told'
  <2>1. Digest' = Digest BY <1>1 DEF Digest
  <2>2. \A i \in DOMAIN Returning' :
          IsChecksum(Returning'[i].item) /\ Positive(Returning'[i]) => Returning'[i].status = Digest
    BY <1>7 DEF Safe, Told
  <2> QED BY <1>1, <1>2, <2>1, <2>2 DEF Safe, Told
<1>14. Deaf'
  <2>1. \A i \in DOMAIN Returning' :
          IsReset(Returning'[i].item) /\ Positive(Returning'[i]) => notReadyToReceive
    BY <1>7 DEF Safe, Deaf
  <2>2. raised = "no" => \A i \in DOMAIN Returning' : ~IsDefault(Returning'[i].item)
    BY <1>7 DEF Safe, Deaf
  <2>3. raised = "no" /\ at # "default" => \A i \in DOMAIN Coming' : ~IsDefault(Coming'[i])
    BY <1>4, <1>6 DEF Safe, Deaf
  <2> QED BY <1>1, <2>1, <2>2, <2>3 DEF Safe, Deaf
<1> QED BY <1>8, <1>9, <1>10, <1>11, <1>12, <1>13, <1>14 DEF Safe

-----------------------------------------------------------------------------
(***************************************************************************)
(* The client gets a good answer and goes on.                              *)
(***************************************************************************)
Early == {"extended", "precheck", "programming", "seed", "key"}

LEMMA StepAfter ==
    ASSUME NEW name \in StepNames, NEW i \in 1..14, Steps[i] = name
    PROVE  (CHOOSE k \in DOMAIN Steps : Steps[k] = name) = i
<1>1. DOMAIN Steps = 1..14 BY StepNamesAre
<1>2. ASSUME NEW k \in 1..14, Steps[k] = name PROVE k = i
  BY <1>2 DEF Steps
<1> QED BY <1>1, <1>2

LEMMA AfterIs ==
    ASSUME at \in StepNames, block' \in Nat, NEW answer
    PROVE  /\ at \in Early => After(answer) \in Early \cup {"fingerprint"}
           /\ at = "fingerprint" => After(answer) = "file"
           /\ at \in {"file", "block"} =>
                After(answer) = IF block' <= BlockCount THEN "block" ELSE "exit"
           /\ at = "exit" => After(answer) = "checksum"
           /\ at = "checksum" => After(answer) = "start"
           /\ at = "start" => After(answer) = "progress"
           /\ at = "progress" => After(answer) \in {"progress", "reset"}
           /\ at = "reset" => After(answer) = "default"
           /\ at = "default" => After(answer) = "done"
<1> DEFINE Following == Steps[1 + CHOOSE i \in DOMAIN Steps : Steps[i] = at]
<1>1. ASSUME NEW i \in 1..13, Steps[i] = at PROVE Following = Steps[i + 1]
  <2>1. i \in 1..14 /\ 1 + i = i + 1 OBVIOUS
  <2> QED BY <1>1, <2>1, StepAfter
<1>2. /\ Steps[1] = "extended" /\ Steps[2] = "precheck" /\ Steps[3] = "programming"
      /\ Steps[4] = "seed" /\ Steps[5] = "key" /\ Steps[6] = "fingerprint" /\ Steps[7] = "file"
      /\ Steps[9] = "exit" /\ Steps[10] = "checksum" /\ Steps[11] = "start"
      /\ Steps[12] = "progress" /\ Steps[13] = "reset" /\ Steps[14] = "default"
  BY DEF Steps
<1>3. /\ at = "extended" => Following = "precheck"
      /\ at = "precheck" => Following = "programming"
      /\ at = "programming" => Following = "seed"
      /\ at = "seed" => Following = "key"
      /\ at = "key" => Following = "fingerprint"
      /\ at = "fingerprint" => Following = "file"
      /\ at = "exit" => Following = "checksum"
      /\ at = "checksum" => Following = "start"
      /\ at = "start" => Following = "progress"
      /\ at = "progress" => Following = "reset"
      /\ at = "reset" => Following = "default"
  BY <1>1, <1>2
<1> HIDE DEF Following
<1>4. After(answer) =
        CASE at = "default"  -> "done"
          [] at \in {"file", "block"} /\ block' <= BlockCount -> "block"
          [] at \in {"file", "block"} /\ block' > BlockCount -> "exit"
          [] at = "progress" /\ answer.status = 2 -> "progress"
          [] OTHER -> Following
  BY DEF After, Following
<1>5. at \in {"file", "block"} => After(answer) = IF block' <= BlockCount THEN "block" ELSE "exit"
  BY <1>4, BlockCountType
<1>6. at = "default" => After(answer) = "done" BY <1>4
<1>7. at \notin {"default", "file", "block", "progress"} => After(answer) = Following BY <1>4
<1>8. at = "progress" => After(answer) \in {"progress", Following} BY <1>4
<1> QED BY <1>3, <1>5, <1>6, <1>7, <1>8 DEF Early

GoesOn ==
    LET answer == Head(replies) IN
    /\ waiting /\ replies # <<>> /\ raised = "no"
    /\ Good(answer) /\ waiting' = FALSE
    /\ block' = IF at = "block" THEN block + 1 ELSE block
    /\ at' = After(answer)
    /\ verdict' = IF at = "checksum" THEN answer.status ELSE verdict
    /\ UNCHANGED raised
    /\ UNCHANGED <<xfer, serving, notReadyToReceive, stored, fw_filename_, fw_file_, exited, linked,
                   upgrade_thread_>>
    /\ Coming' = Coming /\ Returning # <<>> /\ Head(Returning) = answer
    /\ Returning' = Tail(Returning)

(* Where it goes, and what the server has done by then. *)
LEMMA GoesOnTo ==
    ASSUME TypeOK, Typed, Safe, GoesOn
    PROVE  /\ at \in StepNames \ {"default"} /\ linked
           /\ Reached = at /\ Reached' = at' /\ Rank(at') >= Rank(at)
           /\ \/ at \in Early /\ at' \in Early \cup {"fingerprint"}
              \/ at = "fingerprint" /\ at' = "file"
              \/ at \in {"file", "block"} /\ at' = IF block' <= BlockCount THEN "block" ELSE "exit"
              \/ at = "exit" /\ at' = "checksum"
              \/ at = "checksum" /\ at' = "start"
              \/ at \in {"start", "progress"} /\ at' \in {"progress", "reset"}
              \/ at = "reset" /\ at' = "default"
           /\ at = "file" => \A i \in DOMAIN Coming : ~IsFile(Coming[i])
           /\ at = "block" =>
                /\ Len(stored) = block
                /\ \A j \in DOMAIN Returning : j # 1 =>
                     ~(IsBlock(Returning[j].item) /\ Positive(Returning[j]))
           /\ at = "exit" => Closed
           /\ at = "checksum" => verdict' = Digest
           /\ at = "reset" => notReadyToReceive
<1> DEFINE answer == Head(replies)
<1>1. Returning \in Seq(Responses) BY QueueTypes
<1>2. 1 \in DOMAIN Returning /\ answer = Returning[1] /\ answer \in Responses
  <2>1. Head(Returning) = Returning[1] /\ 1 \in DOMAIN Returning BY <1>1, TailAt DEF GoesOn
  <2> QED BY <1>1, <2>1, EmptyIs DEF GoesOn
<1>3. linked BY <1>2, EmptyIs DEF Safe, Cut, GoesOn
<1>4. at # "done" BY DEF GoesOn, Typed
<1>5. Good(answer) BY DEF GoesOn
<1> HIDE DEF answer
<1>6. /\ Positive(answer)
      /\ at = "file" => IsFile(answer.item)
      /\ at = "block" => IsBlock(answer.item)
      /\ at = "exit" => IsExit(answer.item)
      /\ at = "checksum" => IsChecksum(answer.item)
      /\ at = "reset" => IsReset(answer.item)
      /\ at = "default" => IsDefault(answer.item)
  BY <1>2, <1>4, <1>5, GoodAnswer DEF Safe
<1>7. raised = "no" BY DEF GoesOn
<1>8. at # "default" BY <1>2, <1>6, <1>7 DEF Safe, Deaf
<1>9. at \in StepNames \ {"default"} /\ Reached = at /\ Reached' = at'
  BY <1>4, <1>7, <1>8 DEF Typed, Reached, GoesOn
<1>10. block' \in Nat BY DEF GoesOn, Typed
<1>11. at' = After(answer) BY DEF GoesOn, answer
<1>12. \/ at \in Early /\ at' \in Early \cup {"fingerprint"}
       \/ at = "fingerprint" /\ at' = "file"
       \/ at \in {"file", "block"} /\ at' = IF block' <= BlockCount THEN "block" ELSE "exit"
       \/ at = "exit" /\ at' = "checksum"
       \/ at = "checksum" /\ at' = "start"
       \/ at \in {"start", "progress"} /\ at' \in {"progress", "reset"}
       \/ at = "reset" /\ at' = "default"
  <2>1. /\ at \in Early => After(answer) \in Early \cup {"fingerprint"}
        /\ at = "fingerprint" => After(answer) = "file"
        /\ at \in {"file", "block"} =>
             After(answer) = IF block' <= BlockCount THEN "block" ELSE "exit"
        /\ at = "exit" => After(answer) = "checksum"
        /\ at = "checksum" => After(answer) = "start"
        /\ at = "start" => After(answer) = "progress"
        /\ at = "progress" => After(answer) \in {"progress", "reset"}
        /\ at = "reset" => After(answer) = "default"
    BY <1>9, <1>10, AfterIs
  <2>2. at \in Early \cup {"fingerprint", "file", "block", "exit", "checksum", "start", "progress",
                           "reset"}
    BY <1>9, StepNamesAre DEF Early
  <2> QED BY <1>11, <2>1, <2>2
<1>13. Rank(at') >= Rank(at)
  BY <1>12 DEF Early, Rank
<1>14. at = "file" => \A i \in DOMAIN Coming : ~IsFile(Coming[i])
  BY <1>2, <1>6 DEF Safe, FileOnce
<1>15. at = "block" =>
         /\ Len(stored) = block
         /\ \A j \in DOMAIN Returning : j # 1 =>
              ~(IsBlock(Returning[j].item) /\ Positive(Returning[j]))
  BY <1>2, <1>6 DEF Safe, InStep
<1>16. at = "exit" => Closed
  BY <1>2, <1>6 DEF Safe, ClosedAfterExit
<1>17. at = "checksum" => verdict' = Digest
  BY <1>2, <1>6 DEF Safe, Told, GoesOn, answer
<1>18. at = "reset" => notReadyToReceive
  BY <1>2, <1>6 DEF Safe, Deaf
<1> QED BY <1>3, <1>9, <1>12, <1>13, <1>14, <1>15, <1>16, <1>17, <1>18

LEMMA GoesOnStep ==
    ASSUME TypeOK, Typed, Safe, TypeOK', Typed', GoesOn
    PROVE  Safe'
<1>1. /\ UNCHANGED <<xfer, serving, notReadyToReceive, stored, fw_filename_, fw_file_, exited, linked,
                     upgrade_thread_>>
      /\ Coming' = Coming /\ raised' = "no" /\ raised = "no" /\ waiting' = FALSE
      /\ block' = IF at = "block" THEN block + 1 ELSE block
      /\ at # "checksum" => verdict' = verdict
  BY DEF GoesOn
<1>2. /\ at \in StepNames \ {"default"} /\ linked
      /\ Reached = at /\ Reached' = at' /\ Rank(at') >= Rank(at)
      /\ \/ at \in Early /\ at' \in Early \cup {"fingerprint"}
         \/ at = "fingerprint" /\ at' = "file"
         \/ at \in {"file", "block"} /\ at' = IF block' <= BlockCount THEN "block" ELSE "exit"
         \/ at = "exit" /\ at' = "checksum"
         \/ at = "checksum" /\ at' = "start"
         \/ at \in {"start", "progress"} /\ at' \in {"progress", "reset"}
         \/ at = "reset" /\ at' = "default"
  BY GoesOnTo
<1>3. /\ at = "file" => \A i \in DOMAIN Coming : ~IsFile(Coming[i])
      /\ at = "block" =>
           /\ Len(stored) = block
           /\ \A j \in DOMAIN Returning : j # 1 =>
                ~(IsBlock(Returning[j].item) /\ Positive(Returning[j]))
      /\ at = "exit" => Closed
      /\ at = "checksum" => verdict' = Digest
      /\ at = "reset" => notReadyToReceive
  BY GoesOnTo
<1>4. Rank(Reached)' = Rank(at') /\ Rank(Reached) = Rank(at)
  BY <1>2 DEF Rank
<1>5. /\ \A step : Rank(step) \in 1..14
      /\ \A step \in Early \cup {"fingerprint"} : Rank(step) = 1
  BY RankIs DEF Early
<1>6. Returning \in Seq(Responses) BY QueueTypes
<1>7. /\ DOMAIN Returning' = 1..(Len(Returning) - 1) /\ Len(Returning) \in Nat
      /\ \A i \in DOMAIN Returning' : Returning'[i] = Returning[i + 1] /\ i + 1 \in DOMAIN Returning
  BY <1>6, TailAt DEF GoesOn
<1>8. \A i \in DOMAIN Returning' : i + 1 # 1
  BY <1>7
<1>9. Cut' BY <1>1, <1>2 DEF Cut
<1>10. Behind'
  <2>1. \A r \in Int : r <= Rank(at) => r <= Rank(at')
    BY <1>2, <1>5
  <2>2. \A i \in DOMAIN Coming' : RankOf(Coming'[i]) \in Int /\ RankOf(Coming'[i]) <= Rank(at)
    <3>1. \A i \in DOMAIN Coming : Coming[i] \in Items BY QueueTypes
    <3>2. \A i \in DOMAIN Coming : RankOf(Coming[i]) \in 1..13 BY <3>1, ItemFacts
    <3> QED BY <1>1, <1>4, <3>2 DEF Safe, Behind
  <2>3. \A i \in DOMAIN Returning' : RankOf(Returning'[i].item) \in Int
                                     /\ RankOf(Returning'[i].item) <= Rank(at)
    <3>1. \A i \in DOMAIN Returning : Returning[i].item \in Items BY QueueTypes
    <3>2. \A i \in DOMAIN Returning : RankOf(Returning[i].item) \in 1..13 BY <3>1, ItemFacts
    <3> QED BY <1>4, <1>7, <3>2 DEF Safe, Behind
  <2>4. /\ xfer.active => Rank(at') >= 7
        /\ ~serving => Rank(at') >= 10
        /\ upgrade_thread_ # "none" => Rank(at') >= 11
        /\ linked /\ notReadyToReceive => Rank(at') >= 13
    BY <1>2, <1>4, <1>5 DEF Safe, Behind
  <2> QED BY <1>1, <1>4, <2>1, <2>2, <2>3, <2>4 DEF Behind
<1>11. FileOnce'
  <2>1. \A i \in DOMAIN Coming' : ~IsFile(Coming'[i])
    <3>1. SUFFICES ASSUME NEW i \in DOMAIN Coming, IsFile(Coming[i]) PROVE FALSE
      BY <1>1
    <3>2. at = "file" BY <1>4, <3>1, RankIs DEF Safe, FileOnce
    <3> QED BY <1>3, <3>1, <3>2
  <2>2. ASSUME at' = "file"
        PROVE  ~xfer'.active /\ \A j \in DOMAIN Returning' : ~IsFile(Returning'[j].item)
    <3>1. at = "fingerprint" BY <1>2, <2>2 DEF Early
    <3>2. Rank(Reached) = 1 BY <1>4, <3>1, RankIs
    <3>3. ~xfer.active BY <3>2 DEF Safe, Behind
    <3>4. ASSUME NEW j \in DOMAIN Returning, IsFile(Returning[j].item) PROVE FALSE
      <4>1. RankOf(Returning[j].item) = 7 BY <3>4, Kinds
      <4> QED BY <3>2, <4>1 DEF Safe, Behind
    <3> QED BY <1>1, <1>7, <3>3, <3>4
  <2> QED BY <2>1, <2>2 DEF FileOnce
<1>12. InStep'
  <2>1. /\ \A i \in DOMAIN stored : stored[i] = i
        /\ block - 1 <= Len(stored) /\ Len(stored) <= block /\ Len(stored) <= BlockCount
        /\ Rank(at) <= 7 => block = 1 /\ stored = <<>>
        /\ Rank(at) = 8 => block <= BlockCount
        /\ Rank(at) >= 9 => block = BlockCount + 1
        /\ xfer.active => xfer.seq = (1 + Len(stored)) % SeqMod
    BY <1>4 DEF Safe, InStep
  <2>2. block \in Nat \ {0} /\ Len(stored) \in Nat /\ BlockCount \in Nat
    BY EmptyIs, BlockCountType DEF Typed
  <2>3. block' - 1 <= Len(stored) /\ Len(stored) <= block' /\ block <= block'
    BY <1>1, <1>3, <2>1, <2>2
  <2>4. /\ Rank(at') <= 7 => block' = 1 /\ stored = <<>>
        /\ Rank(at') = 8 => block' <= BlockCount
        /\ Rank(at') >= 9 => block' = BlockCount + 1
    <3>1. CASE at \in Early \cup {"fingerprint"}
      <4>1. at' \in Early \cup {"fingerprint", "file"} BY <1>2, <3>1 DEF Early
      <4>2. Rank(at') <= 7 /\ Rank(at) <= 7 BY <1>5, <3>1, <4>1, RankIs
      <4>3. block' = block BY <1>1, <3>1 DEF Early
      <4>4. Rank(at') \in Int BY <1>5
      <4> QED BY <2>1, <4>2, <4>3, <4>4
    <3>2. CASE at \in {"file", "block"}
      <4>1. at' = IF block' <= BlockCount THEN "block" ELSE "exit" BY <1>2, <3>2 DEF Early
      <4>2. block' <= BlockCount + 1
        <5>1. CASE at = "file"
          <6>1. block = 1 BY <2>1, <5>1, RankIs
          <6> QED BY <1>1, <2>2, <5>1, <6>1
        <5>2. CASE at = "block" BY <1>1, <2>1, <2>2, <5>2, RankIs
        <5> QED BY <3>2, <5>1, <5>2
      <4>3. block' \in Nat BY <1>1, <2>2
      <4>4. CASE block' <= BlockCount BY <4>1, <4>4, RankIs
      <4>5. CASE ~(block' <= BlockCount)
        <5>1. block' = BlockCount + 1 BY <2>2, <4>2, <4>3, <4>5
        <5> QED BY <4>1, <4>5, <5>1, RankIs
      <4> QED BY <4>4, <4>5
    <3>3. CASE at \in {"exit", "checksum", "start", "progress", "reset"}
      <4>1. Rank(at) >= 9 /\ block' = block BY <1>1, <3>3, RankIs
      <4>2. Rank(at') \in Int /\ Rank(at) \in Int BY <1>5
      <4> QED BY <1>2, <2>1, <4>1, <4>2
    <3> QED BY <1>2, <3>1, <3>2, <3>3
  <2>5. \A i \in DOMAIN Coming : IsBlock(Coming[i]) =>
          Len(stored) <= Coming[i].block /\ Coming[i].block <= block'
    <3>1. SUFFICES ASSUME NEW i \in DOMAIN Coming, IsBlock(Coming[i])
                   PROVE  Len(stored) <= Coming[i].block /\ Coming[i].block <= block'
      OBVIOUS
    <3>2. Len(stored) <= Coming[i].block /\ Coming[i].block <= block
      BY <3>1 DEF Safe, InStep
    <3>3. Coming[i].block \in Int
      <4>1. Coming[i] \in Items BY QueueTypes
      <4> QED BY <3>1, <4>1, ItemFacts
    <3>4. block' \in Nat BY <1>1, <2>2
    <3> QED BY <2>2, <2>3, <3>2, <3>3, <3>4
  <2>6. \A i, j \in DOMAIN Coming :
          i < j /\ IsBlock(Coming[i]) /\ IsBlock(Coming[j]) => Coming[i].block <= Coming[j].block
    BY DEF Safe, InStep
  <2>7. ASSUME NEW i \in DOMAIN Returning', IsBlock(Returning'[i].item), Positive(Returning'[i])
        PROVE  /\ Len(stored) = block'
               /\ \A j \in DOMAIN Returning' : j # i =>
                     ~(IsBlock(Returning'[j].item) /\ Positive(Returning'[j]))
    <3>1. i + 1 \in DOMAIN Returning /\ Returning'[i] = Returning[i + 1] /\ i + 1 # 1
      BY <1>7, <1>8
    <3>2. at # "block" BY <1>3, <2>7, <3>1
    <3>3. /\ Len(stored) = block
          /\ \A j \in DOMAIN Returning : j # i + 1 =>
                ~(IsBlock(Returning[j].item) /\ Positive(Returning[j]))
      BY <2>7, <3>1 DEF Safe, InStep
    <3>4. \A j \in DOMAIN Returning' : j # i => j + 1 # i + 1 BY <1>7
    <3> QED BY <1>1, <1>7, <3>2, <3>3, <3>4
  <2> QED BY <1>1, <1>4, <2>1, <2>3, <2>4, <2>5, <2>6, <2>7 DEF InStep
<1>13. ClosedAfterExit'
  <2>1. SUFFICES ASSUME \/ Rank(at') >= 10
                        \/ \E i \in DOMAIN Returning' :
                              IsExit(Returning'[i].item) /\ Positive(Returning'[i])
                 PROVE  Closed'
    BY <1>4 DEF ClosedAfterExit
  <2>2. Closed
    <3>1. CASE Rank(at') >= 10
      <4>1. at = "exit" \/ Rank(at) >= 10
        BY <1>2, <3>1 DEF Early, Rank
      <4> QED BY <1>3, <1>4, <4>1 DEF Safe, ClosedAfterExit
    <3>2. CASE \E i \in DOMAIN Returning' : IsExit(Returning'[i].item) /\ Positive(Returning'[i])
      BY <1>7, <3>2 DEF Safe, ClosedAfterExit
    <3> QED BY <2>1, <3>1, <3>2
  <2> QED BY <1>1, <2>2 DEF Closed, NotExited, NoHandle
<1>14. Told'
  <2>1. Digest' = Digest BY <1>1 DEF Digest
  <2>2. \A i \in DOMAIN Returning' :
          IsChecksum(Returning'[i].item) /\ Positive(Returning'[i]) => Returning'[i].status = Digest
    BY <1>7 DEF Safe, Told
  <2>3. Rank(at') >= 11 => verdict' = Digest
    <3>1. Rank(at') >= 11 => at = "checksum" \/ (Rank(at) >= 11 /\ at # "checksum")
      BY <1>2 DEF Early, Rank
    <3> QED BY <1>1, <1>3, <1>4, <3>1 DEF Safe, Told
  <2> QED BY <1>4, <2>1, <2>2, <2>3 DEF Told
<1>15. Deaf'
  <2>1. \A i \in DOMAIN Returning' :
          IsReset(Returning'[i].item) /\ Positive(Returning'[i]) => notReadyToReceive
    BY <1>7 DEF Safe, Deaf
  <2>2. \A i \in DOMAIN Returning' : ~IsDefault(Returning'[i].item)
    BY <1>1, <1>7 DEF Safe, Deaf
  <2>3. \A i \in DOMAIN Coming' : ~IsDefault(Coming'[i])
    BY <1>1, <1>2 DEF Safe, Deaf
  <2>4. at' = "default" => notReadyToReceive
    BY <1>2, <1>3 DEF Early
  <2> QED BY <1>1, <2>1, <2>2, <2>3, <2>4 DEF Deaf
<1> QED BY <1>9, <1>10, <1>11, <1>12, <1>13, <1>14, <1>15 DEF Safe

-----------------------------------------------------------------------------
(***************************************************************************)
(* The server evaluates a request.                                         *)
(***************************************************************************)
(* Nothing in ProgramSoc's requests suppresses a response. *)
LEMMA ReplyIsSent ==
    ASSUME NEW req, ~req.functional, ~SuppressBit(req), NEW code, Reply(req, code)
    PROVE  rc' = code /\ resp' = code
BY DEF Reply, Deliver

(* The server of this module is the one of UpgradeServer. *)
LEMMA ServeItemServes ==
    ASSUME TypeOK, Typed, NEW ev \in Events, ServeItem(ev)
    PROVE  /\ Serve(ev) /\ PollNewRequest(ev) /\ ProcessUdsEvent(inbox, ev)
           /\ inbox # NoRequest /\ ~requestInProgress /\ inbox \in Requests
           /\ asked \in Items /\ inbox = asked.req
<1>1. serving /\ PollNewRequest(ev) BY DEF ServeItem
<1>2. inbox # NoRequest /\ ~requestInProgress BY <1>1 DEF PollNewRequest
<1>3. asked \in Items /\ inbox = asked.req /\ inbox \in Requests BY <1>2 DEF Typed, TypeOK
<1>4. ProcessUdsEvent(inbox, ev)
  <2>1. CASE inbox.sid = "0x31"
    <3>1. HandleRoutine(ev) BY <2>1 DEF ServeItem
    <3>2. asked.routine = "0x0203" => inbox.sub % 128 = kStartRoutine
      <4>1. asked.routine = "0x0203" => inbox.sub = 1
        BY <1>3, <2>1, ItemFacts DEF kStartRoutine
      <4> QED BY <4>1 DEF kStartRoutine
    <3>3. HandleRoutineCtrl(inbox, ev)
      BY <2>1, <3>1, <3>2 DEF HandleRoutine, HandleRoutineCtrl
    <3> QED BY <3>3 DEF ProcessUdsEvent
  <2>2. CASE inbox.sid # "0x31" BY <2>2 DEF ServeItem
  <2> QED BY <2>1, <2>2
<1> QED BY <1>1, <1>2, <1>3, <1>4 DEF Serve

Unmoved == UNCHANGED <<serving, upgrade_thread_, notReadyToReceive>>
Evaluates ==
    /\ asked.req.sub = xfer.seq /\ xfer.bytes + asked.req.len <= xfer.total
FileAccepted ==
    /\ IsFile(asked) /\ ~xfer.active /\ resp' = kPositiveResponse /\ stored' = <<>>
    /\ xfer' = [active |-> TRUE, seq |-> 1, bytes |-> 0, total |-> FileSize]
    /\ Unmoved
FileRefused ==
    /\ IsFile(asked) /\ resp' # kPositiveResponse
    /\ xfer' = xfer /\ stored' = stored /\ Unmoved
BlockAccepted ==
    /\ IsBlock(asked) /\ xfer.active /\ Evaluates /\ resp' = kPositiveResponse
    /\ xfer' = [xfer EXCEPT !.seq = (xfer.seq + 1) % SeqMod, !.bytes = @ + asked.req.len]
    /\ stored' = Append(stored, asked.block)
    /\ Unmoved /\ UNCHANGED <<fw_filename_, exited>>
BlockRefused ==
    /\ IsBlock(asked) /\ resp' # kPositiveResponse
    /\ xfer.active /\ Evaluates => failed'
    /\ ~xfer'.active /\ stored' = stored
    /\ Unmoved /\ UNCHANGED <<fw_filename_, exited>>
    /\ ~xfer.active => fw_file_' = fw_file_
ExitAccepted ==
    /\ IsExit(asked) /\ xfer.active /\ resp' = kPositiveResponse
    /\ ~xfer'.active /\ stored' = stored /\ Unmoved
    /\ fw_file_' = NoHandle /\ exited' # NotExited
    /\ fw_filename_' = fw_filename_ /\ exited'.file = fw_filename_
ExitRefused ==
    /\ IsExit(asked) /\ resp' # kPositiveResponse
    /\ ~xfer'.active /\ stored' = stored
    /\ Unmoved /\ UNCHANGED <<fw_filename_, fw_file_, exited>>
OtherServed ==
    /\ ~IsFile(asked) /\ ~IsBlock(asked) /\ ~IsExit(asked)
    /\ xfer' = xfer /\ stored' = stored /\ UNCHANGED <<fw_filename_, fw_file_, exited>>
    /\ IsChecksum(asked) => status' = IF content[fw_filename_] = FileSize THEN 0 ELSE 1
    /\ serving' # serving => IsChecksum(asked) \/ IsStart(asked)
    /\ upgrade_thread_' # "none" => upgrade_thread_ # "none" \/ IsStart(asked)
    /\ notReadyToReceive' => notReadyToReceive \/ IsReset(asked)
    /\ IsReset(asked) /\ resp' = kPositiveResponse => notReadyToReceive'

(* The server's side. *)
LEMMA OtherEvaluated ==
    ASSUME NEW req, NEW ev, ~req.functional, ~SuppressBit(req), req.form = "ok",
           req.sid \in {"0x10", "0x11", "0x27", "0x2E", "0x31"}, EvaluateServiceResponse(req, ev)
    PROVE  /\ xfer' = xfer
           /\ req.sid # "0x11" => notReadyToReceive' = notReadyToReceive
           /\ req.sid = "0x11" /\ resp' = kPositiveResponse => notReadyToReceive'
<1>1. CASE req.sid = "0x11"
  <2>1. ECUReset(req, ev)
    BY <1>1 DEF EvaluateServiceResponse, StatelessService, ReadDataByIdentifier,
       ReadMemoryByAddress, CommunicationControl, WriteDataByIdentifier, RoutineControl,
       ControlDTCSetting, NoService, DiagnosticSessionControl, SecurityAccess, TesterPresent,
       TransferService, RequestUpDownload, RequestFileTransfer, TransferData, RequestTransferExit
  <2>2. Refuse(req, ev) => resp' # kPositiveResponse
    BY ReplyIsSent DEF Refuse
  <2> QED BY <1>1, <2>1, <2>2 DEF ECUReset
<1>2. CASE req.sid \in {"0x10", "0x27", "0x2E", "0x31"}
  <2>1. StatelessService(req, ev) \/ DiagnosticSessionControl(req, ev) \/ SecurityAccess(req, ev)
    BY <1>2 DEF EvaluateServiceResponse, ECUReset, TesterPresent, TransferService,
       RequestUpDownload, RequestFileTransfer, TransferData, RequestTransferExit
  <2> QED BY <1>2, <2>1 DEF StatelessService, DiagnosticSessionControl, SecurityAccess, reset
<1> QED BY <1>1, <1>2

TransferOnly(req, ev) ==
    /\ req.sid = "0x38" => RequestFileTransfer(req, ev)
    /\ req.sid = "0x36" => TransferData(req, ev)
    /\ req.sid = "0x37" => RequestTransferExit(req, ev)
    /\ UNCHANGED notReadyToReceive

LEMMA TransferEvaluated ==
    ASSUME NEW req, NEW ev, req.sid \in {"0x36", "0x37", "0x38"}, EvaluateServiceResponse(req, ev)
    PROVE  TransferOnly(req, ev)
<1>1. TransferService(req, ev)
  BY DEF EvaluateServiceResponse, StatelessService, ReadDataByIdentifier,
     ReadMemoryByAddress, CommunicationControl, WriteDataByIdentifier, RoutineControl,
     ControlDTCSetting, NoService, DiagnosticSessionControl, ECUReset, SecurityAccess, TesterPresent
<1> QED BY <1>1 DEF TransferOnly, TransferService, RequestUpDownload, RequestFileTransfer,
       TransferData, RequestTransferExit, reset

LEMMA FileEvaluated ==
    ASSUME NEW req, NEW ev, ~req.functional, ~SuppressBit(req), req.form = "ok",
           RequestFileTransfer(req, ev), req.sub = kAddFile
    PROVE  \/ /\ ev = kPositiveResponse /\ resp' = kPositiveResponse /\ ~xfer.active
              /\ xfer' = [active |-> TRUE, seq |-> 1, bytes |-> 0, total |-> req.len]
           \/ ev # kPositiveResponse /\ resp' # kPositiveResponse /\ xfer' = xfer
<1>1. CASE Accept(req, ev) /\ ~xfer.active /\ StartTransfer(req.len)
  BY <1>1, ReplyIsSent DEF Accept, StartTransfer, NoTransfer
<1>2. CASE xfer.active /\ Reject(req, ev, "kConditionsNotCorrect") /\ xfer' = xfer
  BY <1>2, ReplyIsSent DEF Reject, NoEvent, kPositiveResponse
<1>3. CASE ~xfer.active /\ Refuse(req, ev) /\ xfer' = xfer
  BY <1>3, ReplyIsSent DEF Refuse
<1> QED BY <1>1, <1>2, <1>3 DEF RequestFileTransfer, DecodeFails

LEMMA BlockEvaluated ==
    ASSUME NEW req, NEW ev, ~req.functional, ~SuppressBit(req), req.form = "ok", ~RCRRP,
           xfer \in Xfer, req.len \in Nat, ev # kResponsePending, TransferData(req, ev)
    PROVE  \/ /\ ev = kPositiveResponse /\ resp' = kPositiveResponse /\ xfer.active
              /\ req.sub = xfer.seq /\ xfer.bytes + req.len <= xfer.total
              /\ xfer' = [xfer EXCEPT !.seq = (xfer.seq + 1) % SeqMod, !.bytes = @ + req.len]
           \/ /\ ev # kPositiveResponse /\ resp' # kPositiveResponse /\ ~xfer'.active
              /\ xfer.active /\ req.sub = xfer.seq /\ xfer.bytes + req.len <= xfer.total
                   => ev \in Answers
              /\ ~xfer.active => ev = NoEvent
<1>1. CASE ~xfer.active
  BY <1>1, ReplyIsSent DEF TransferData, Reject, NoEvent, kPositiveResponse
<1>2. CASE xfer.active /\ Accept(req, ev)
  <2>1. /\ ~OutOfSequence(req) /\ xfer.bytes + req.len <= xfer.total
        /\ xfer' = [xfer EXCEPT !.seq = NextSeq, !.bytes = @ + req.len]
    BY <1>2 DEF TransferData, Accept, Reject, Refuse, NoEvent, kPositiveResponse, kResponsePending
  <2> QED BY <1>2, <2>1, ReplyIsSent DEF Accept, OutOfSequence, NextSeq
<1>3. CASE xfer.active /\ ~Accept(req, ev)
  <2>1. ResetTransfer BY <1>3 DEF TransferData
  <2>2. ~xfer'.active BY <2>1 DEF ResetTransfer, NoTransfer
  <2>3. \/ OutOfSequence(req) /\ Reject(req, ev, "kRequestSequenceError")
        \/ xfer.bytes + req.len > xfer.total /\ Reject(req, ev, "kTransferDataSuspended")
        \/ Refuse(req, ev)
    BY <1>3 DEF TransferData
  <2>4. CASE OutOfSequence(req) /\ Reject(req, ev, "kRequestSequenceError")
    BY <1>3, <2>2, <2>4, ReplyIsSent DEF OutOfSequence, Reject, NoEvent, kPositiveResponse
  <2>5. CASE xfer.bytes + req.len > xfer.total /\ Reject(req, ev, "kTransferDataSuspended")
    <3>1. ~(xfer.bytes + req.len <= xfer.total) BY <2>5 DEF Xfer
    <3> QED BY <1>3, <2>2, <2>5, <3>1, ReplyIsSent DEF Reject, NoEvent, kPositiveResponse
  <2>6. CASE Refuse(req, ev)
    BY <1>3, <2>2, <2>6, ReplyIsSent DEF Refuse
  <2> QED BY <2>3, <2>4, <2>5, <2>6
<1> QED BY <1>1, <1>2, <1>3

LEMMA ExitEvaluated ==
    ASSUME NEW req, NEW ev, ~req.functional, ~SuppressBit(req), ev # kResponsePending,
           RequestTransferExit(req, ev)
    PROVE  /\ ~xfer'.active
           /\ \/ ev = kPositiveResponse /\ resp' = kPositiveResponse /\ xfer.active
              \/ ev # kPositiveResponse /\ resp' # kPositiveResponse
<1>1. CASE ~xfer.active
  BY <1>1, ReplyIsSent DEF RequestTransferExit, Reject, NoEvent, kPositiveResponse
<1>2. CASE xfer.active
  <2>1. ResetTransfer /\ (Accept(req, ev) \/ Refuse(req, ev)) BY <1>2 DEF RequestTransferExit
  <2> QED BY <1>2, <2>1, ReplyIsSent DEF Accept, Refuse, ResetTransfer, NoTransfer
<1> QED BY <1>1, <1>2

(* The application's side. *)
LEMMA AppServes ==
    ASSUME NEW req, NEW ev, ProcessUdsEvent(req, ev)
    PROVE  /\ req.sid = "0x38" =>
                HandleRequestFileTransfer(req, ev) \/ (ev = NoEvent /\ UNCHANGED app)
           /\ req.sid = "0x36" =>
                HandleTransferData(req, ev) \/ (ev = NoEvent /\ UNCHANGED app)
           /\ req.sid = "0x37" =>
                HandleRequestTransferExit(req, ev) \/ (ev = NoEvent /\ UNCHANGED app)
           /\ req.sid \in {"0x10", "0x11", "0x27", "0x2E"} => UNCHANGED app
BY DEF ProcessUdsEvent, HandleRequestFileTransfer, HandleTransferData, HandleRequestTransferExit,
   HandleRoutineCtrl, AnswersOf

LEMMA RoutineServes ==
    ASSUME asked \in Items, inbox = asked.req, inbox.sid = "0x31", NEW ev, HandleRoutine(ev)
    PROVE  /\ UNCHANGED <<fw_filename_, fw_file_, exited>>
           /\ serving' # serving => IsChecksum(asked) \/ IsStart(asked)
           /\ upgrade_thread_' # upgrade_thread_ => IsStart(asked)
<1>1. \/ inbox.sub = 1
      \/ inbox.sub = 3 /\ asked.routine = "0xFF02"
  BY ItemFacts DEF kStartRoutine, kRequestRoutineResults
<1>2. inbox.sub % 128 = kStartRoutine => inbox.sub = 1
  BY <1>1 DEF kStartRoutine
<1>3. CASE asked.routine = "0x0202" /\ CheckSum(inbox, ev)
  BY <1>3 DEF CheckSum, app, disk, IsChecksum
<1>4. CASE asked.routine = "0x0203" /\ UNCHANGED app
  BY <1>4 DEF app
<1>5. CASE asked.routine = "0xFF02" /\ UpgradeFw(inbox, ev)
  BY <1>2, <1>5 DEF UpgradeFw, app, disk, IsStart
<1> QED BY <1>3, <1>4, <1>5 DEF HandleRoutine

ServeEffect ==
    \/ FileAccepted \/ FileRefused \/ BlockAccepted \/ BlockRefused
    \/ ExitAccepted \/ ExitRefused \/ OtherServed

(* What the server does with the request, and nothing else happens. *)
LEMMA ServeEffects ==
    ASSUME IInv, Typed, NEW ev \in Events, ServeItem(ev)
    PROVE  /\ serving /\ ~notReadyToReceive /\ inbox # NoRequest /\ ~requestInProgress
           /\ requestInProgress' /\ asked \in Items
           /\ UNCHANGED <<inbox, asked, air, replies, linked, at, block, waiting, raised, verdict,
                          late, losses, crashes>>
           /\ status' \in 0..2 /\ ServeEffect
           /\ failed => failed'
           /\ failed' \in BOOLEAN
<1> USE DEF IInv
<1>1. /\ PollNewRequest(ev) /\ ProcessUdsEvent(inbox, ev) /\ inbox # NoRequest
      /\ ~requestInProgress /\ inbox \in Requests /\ asked \in Items /\ inbox = asked.req
  BY ServeItemServes
<1>2. /\ EvaluateServiceResponse(inbox, ev) /\ ~notReadyToReceive /\ requestInProgress'
      /\ inbox' = inbox /\ serving
  BY <1>1 DEF PollNewRequest, ServeItem
<1>3. UNCHANGED <<asked, air, replies, linked, at, block, waiting, raised, verdict,
                  late, losses, crashes>>
  BY DEF ServeItem, progsoc, network, faults
<1>4. status' = StatusRecord BY DEF ServeItem
<1>5. status' \in 0..2 BY <1>4 DEF StatusRecord, QueryUpgradeProgress
<1>6. failed' = (failed \/ ev \notin {kPositiveResponse, NoEvent}) BY DEF ServeItem
<1>7. stored' = IF ev # kPositiveResponse THEN stored
                ELSE IF inbox.sid = "0x38" THEN <<>>
                ELSE IF inbox.sid = "0x36" THEN Append(stored, asked.block) ELSE stored
  BY DEF ServeItem
<1>8. /\ inbox.form = "ok" /\ ~inbox.functional /\ ~SuppressBit(inbox)
      /\ inbox.sid \in {"0x10", "0x11", "0x27", "0x2E", "0x31", "0x36", "0x37", "0x38"}
      /\ IsFile(asked) => inbox.sub = kAddFile /\ inbox.len = FileSize
  BY <1>1, ItemFacts
<1>9. ev # kResponsePending /\ ~RCRRP /\ xfer \in Xfer /\ inbox.len \in Nat
  BY <1>1, EventApp, RequestsAssumption DEF TypeOK, Request
<1>10. CASE inbox.sid = "0x38"
  <2>1. IsFile(asked) BY <1>1, <1>10 DEF IsFile
  <2>2. RequestFileTransfer(inbox, ev) /\ notReadyToReceive' = notReadyToReceive
    BY <1>2, <1>10, TransferEvaluated DEF TransferOnly
  <2>3. UNCHANGED <<serving, upgrade_thread_>>
    BY <1>1, <1>10, AppServes DEF HandleRequestFileTransfer, app
  <2>4. ASSUME /\ ev = kPositiveResponse /\ resp' = kPositiveResponse /\ ~xfer.active
               /\ xfer' = [active |-> TRUE, seq |-> 1, bytes |-> 0, total |-> inbox.len]
        PROVE  ServeEffect
    <3>1. FileAccepted BY <1>7, <1>8, <1>10, <2>1, <2>2, <2>3, <2>4 DEF FileAccepted, Unmoved
    <3> QED BY <3>1 DEF ServeEffect
  <2>5. ASSUME ev # kPositiveResponse /\ resp' # kPositiveResponse /\ xfer' = xfer
        PROVE  ServeEffect
    <3>1. FileRefused BY <1>7, <2>1, <2>2, <2>3, <2>5 DEF FileRefused, Unmoved
    <3> QED BY <3>1 DEF ServeEffect
  <2>6. ServeEffect BY <1>8, <2>1, <2>2, <2>4, <2>5, FileEvaluated
  <2> QED BY <1>1, <1>2, <1>3, <1>5, <1>6, <2>6
<1>11. CASE inbox.sid = "0x36"
  <2>1. IsBlock(asked) BY <1>1, <1>11 DEF IsBlock
  <2>2. TransferData(inbox, ev) /\ notReadyToReceive' = notReadyToReceive
    BY <1>2, <1>11, TransferEvaluated DEF TransferOnly
  <2>3. UNCHANGED <<serving, upgrade_thread_, fw_filename_, exited>>
    BY <1>1, <1>11, AppServes DEF HandleTransferData, app
  <2>4. ASSUME /\ ev = kPositiveResponse /\ resp' = kPositiveResponse /\ xfer.active
               /\ inbox.sub = xfer.seq /\ xfer.bytes + inbox.len <= xfer.total
               /\ xfer' = [xfer EXCEPT !.seq = (xfer.seq + 1) % SeqMod, !.bytes = @ + inbox.len]
        PROVE  ServeEffect
    <3>1. stored' = Append(stored, asked.block) BY <1>7, <1>11, <2>4
    <3>2. BlockAccepted
      BY <1>1, <2>1, <2>2, <2>3, <2>4, <3>1 DEF BlockAccepted, Evaluates, Unmoved
    <3> QED BY <3>2 DEF ServeEffect
  <2>5. ASSUME /\ ev # kPositiveResponse /\ resp' # kPositiveResponse /\ ~xfer'.active
               /\ xfer.active /\ inbox.sub = xfer.seq /\ xfer.bytes + inbox.len <= xfer.total
                    => ev \in Answers
               /\ ~xfer.active => ev = NoEvent
        PROVE  ServeEffect
    <3>1. xfer.active /\ Evaluates => failed'
      BY <1>1, <1>6, <2>5, AnswersAssumption DEF Evaluates
    <3>2. ~xfer.active => fw_file_' = fw_file_
      BY <1>1, <1>11, <2>5, AppServes DEF HandleTransferData, app, NoEvent, kPositiveResponse
    <3>3. BlockRefused
      BY <1>7, <2>1, <2>2, <2>3, <2>5, <3>1, <3>2 DEF BlockRefused, Unmoved
    <3> QED BY <3>3 DEF ServeEffect
  <2>6. ServeEffect BY <1>8, <1>9, <2>2, <2>4, <2>5, BlockEvaluated
  <2> QED BY <1>1, <1>2, <1>3, <1>5, <1>6, <2>6
<1>12. CASE inbox.sid = "0x37"
  <2>1. IsExit(asked) BY <1>1, <1>12 DEF IsExit
  <2>2. RequestTransferExit(inbox, ev) /\ notReadyToReceive' = notReadyToReceive
    BY <1>2, <1>12, TransferEvaluated DEF TransferOnly
  <2>3. stored' = stored BY <1>7, <1>12
  <2>4. ~xfer'.active BY <1>8, <1>9, <2>2, ExitEvaluated
  <2>5. ASSUME ev = kPositiveResponse /\ resp' = kPositiveResponse /\ xfer.active
        PROVE  ServeEffect
    <3>1. HandleRequestTransferExit(inbox, ev)
      BY <1>1, <1>12, <2>5, AppServes DEF NoEvent, kPositiveResponse
    <3>2. fw_file_ # NoHandle /\ fw_file_.file = fw_filename_
      BY <2>5 DEF FileFollowsTransfer
    <3>3. fw_file_.file \in Files
      BY <3>2, Named DEF AppInv
    <3>4. /\ UNCHANGED <<serving, upgrade_thread_, fw_filename_>>
          /\ fw_file_' = NoHandle
          /\ exited' = [file |-> fw_file_.file, len |-> content'[fw_file_.file]]
      BY <3>1, <3>2 DEF HandleRequestTransferExit
    <3>5. exited'.file = fw_file_.file BY <3>4
    <3>6. exited' # NotExited BY <3>3, <3>5, FilesAssumption DEF NotExited
    <3>7. ExitAccepted
      BY <2>1, <2>2, <2>3, <2>4, <2>5, <3>2, <3>4, <3>5, <3>6 DEF ExitAccepted, Unmoved
    <3> QED BY <3>7 DEF ServeEffect
  <2>6. ASSUME ev # kPositiveResponse /\ resp' # kPositiveResponse
        PROVE  ServeEffect
    <3>1. UNCHANGED app BY <1>1, <1>12, <2>6, AppServes DEF HandleRequestTransferExit
    <3>2. ExitRefused
      BY <2>1, <2>2, <2>3, <2>4, <2>6, <3>1 DEF ExitRefused, Unmoved, app
    <3> QED BY <3>2 DEF ServeEffect
  <2>7. ServeEffect BY <1>8, <1>9, <2>2, <2>5, <2>6, ExitEvaluated
  <2> QED BY <1>1, <1>2, <1>3, <1>5, <1>6, <2>7
<1>13. CASE inbox.sid \in {"0x10", "0x11", "0x27", "0x2E", "0x31"}
  <2>1. ~IsFile(asked) /\ ~IsBlock(asked) /\ ~IsExit(asked)
    BY <1>1, <1>13 DEF IsFile, IsBlock, IsExit
  <2>2. /\ xfer' = xfer
        /\ inbox.sid # "0x11" => notReadyToReceive' = notReadyToReceive
        /\ inbox.sid = "0x11" /\ resp' = kPositiveResponse => notReadyToReceive'
    BY <1>2, <1>8, <1>13, OtherEvaluated
  <2>3. stored' = stored BY <1>7, <1>13
  <2>4. /\ UNCHANGED <<fw_filename_, fw_file_, exited>>
        /\ serving' # serving => IsChecksum(asked) \/ IsStart(asked)
        /\ upgrade_thread_' # upgrade_thread_ => IsStart(asked)
    <3>1. CASE inbox.sid = "0x31"
      <4>1. HandleRoutine(ev) BY <3>1 DEF ServeItem
      <4> QED BY <1>1, <3>1, <4>1, RoutineServes
    <3>2. CASE inbox.sid # "0x31"
      <4>1. UNCHANGED app BY <1>1, <1>13, <3>2, AppServes
      <4> QED BY <4>1 DEF app
    <3> QED BY <3>1, <3>2
  <2>5. IsChecksum(asked) => status' = IF content[fw_filename_] = FileSize THEN 0 ELSE 1
    BY <1>4 DEF StatusRecord, IsChecksum
  <2>6. OtherServed
    BY <1>1, <2>1, <2>2, <2>3, <2>4, <2>5 DEF OtherServed, IsReset
  <2>7. ServeEffect BY <2>6 DEF ServeEffect
  <2> QED BY <1>1, <1>2, <1>3, <1>5, <1>6, <2>7
<1> QED BY <1>8, <1>10, <1>11, <1>12, <1>13

-----------------------------------------------------------------------------
(***************************************************************************)
(* Serving a request keeps the server behind the client.                   *)
(***************************************************************************)
Served == [item |-> asked, code |-> resp', status |-> status']
Serves ==
    /\ serving /\ ~notReadyToReceive /\ asked \in Items
    /\ UNCHANGED <<linked, at, block, waiting, raised, verdict>>
    /\ Coming # <<>> /\ Coming[1] = asked /\ Coming' = Tail(Coming)
    /\ Returning' = Append(Returning, Served)
    /\ status' \in 0..2 /\ resp' \in Codes
    /\ ServeEffect

LEMMA ServesQueues ==
    ASSUME TypeOK, Typed, Safe, Serves
    PROVE  /\ \A i \in DOMAIN Coming' : /\ i \in Nat /\ i >= 1
                                        /\ i + 1 \in DOMAIN Coming /\ Coming'[i] = Coming[i + 1]
           /\ \A i \in DOMAIN Returning' :
                 \/ i \in DOMAIN Returning /\ Returning'[i] = Returning[i]
                 \/ i = Len(Returning) + 1 /\ Returning'[i] = Served
           /\ \A i \in DOMAIN Returning : i # Len(Returning) + 1
           /\ 1 \in DOMAIN Coming /\ linked
           /\ Served.item = asked /\ Served.code = resp' /\ Served.status = status'
           /\ RankOf(asked) <= Rank(Reached)
           /\ Reached' = Reached /\ Rank(Reached)' = Rank(Reached)
<1>1. Coming \in Seq(Items) /\ Returning \in Seq(Responses) BY QueueTypes
<1>2. /\ DOMAIN Coming' = 1..(Len(Coming) - 1) /\ Len(Coming) \in Nat \ {0}
      /\ \A i \in DOMAIN Coming' : Coming'[i] = Coming[i + 1] /\ i + 1 \in DOMAIN Coming
      /\ 1 \in DOMAIN Coming
  BY <1>1, TailAt DEF Serves
<1>3. Served.item = asked /\ Served.code = resp' /\ Served.status = status' BY DEF Served
<1>4. Served \in Responses BY DEF Served, Responses, Serves
<1>5. /\ DOMAIN Returning' = 1..(Len(Returning) + 1) /\ Len(Returning) \in Nat
      /\ DOMAIN Returning = 1..Len(Returning)
      /\ \A i \in DOMAIN Returning : Returning'[i] = Returning[i]
      /\ Returning'[Len(Returning) + 1] = Served
  BY <1>1, <1>4, AppendAt DEF Serves
<1>6. \A i \in DOMAIN Returning' :
         \/ i \in DOMAIN Returning /\ Returning'[i] = Returning[i]
         \/ i = Len(Returning) + 1 /\ Returning'[i] = Served
  BY <1>5
<1>7. \A i \in DOMAIN Returning : i # Len(Returning) + 1 BY <1>5
<1>8. linked BY DEF Safe, Cut, Serves
<1>9. RankOf(asked) <= Rank(Reached)
  BY <1>2 DEF Safe, Behind, Serves
<1>10. Reached' = Reached /\ Rank(Reached)' = Rank(Reached) BY DEF Reached, Rank, Serves
<1>11. \A i \in DOMAIN Coming' : i \in Nat /\ i >= 1 BY <1>2
<1> QED BY <1>2, <1>3, <1>6, <1>7, <1>8, <1>9, <1>10, <1>11

(* Once the file is closed it stays as it is. *)
LEMMA ServesClosed ==
    ASSUME TypeOK, Typed, Safe, Serves,
           \/ Rank(Reached) >= 10
           \/ \E i \in DOMAIN Returning : IsExit(Returning[i].item) /\ Positive(Returning[i])
    PROVE  Closed /\ Closed' /\ exited' = exited /\ fw_filename_' = fw_filename_ /\ ~IsFile(asked)
<1>1. Closed BY DEF Safe, ClosedAfterExit
<1>2. Rank(Reached) \in 1..14 BY RankIs
<1>3. Rank(Reached) # 7
  <2>1. \A i \in DOMAIN Returning : IsExit(Returning[i].item) => 9 <= Rank(Reached)
    BY Kinds DEF Safe, Behind
  <2> QED BY <1>2, <2>1
<1>4. ~IsFile(asked)
  BY <1>3, ServesQueues DEF Safe, FileOnce, Serves
<1>5. BlockRefused \/ ExitRefused \/ OtherServed
  BY <1>1, <1>4 DEF Serves, ServeEffect, Closed, FileAccepted, FileRefused, BlockAccepted,
     ExitAccepted
<1>6. UNCHANGED <<stored, fw_file_, exited, fw_filename_>> /\ ~xfer'.active
  BY <1>1, <1>5 DEF Closed, BlockRefused, ExitRefused, OtherServed
<1>7. linked' = linked BY DEF Serves
<1> QED BY <1>1, <1>4, <1>6, <1>7 DEF Closed, NoHandle, NotExited

LEMMA ServesBehind ==
    ASSUME TypeOK, Typed, Safe, Serves
    PROVE  Behind'
<1> DEFINE r == Rank(Reached)
<1>1. r \in 1..14 /\ Rank(Reached)' = r /\ RankOf(asked) <= r BY RankIs, ServesQueues
<1>2. \A i \in DOMAIN Coming' : RankOf(Coming'[i]) <= r
  BY ServesQueues DEF Safe, Behind
<1>3. \A i \in DOMAIN Returning' : RankOf(Returning'[i].item) <= r
  BY <1>1, ServesQueues DEF Safe, Behind
<1>4. /\ IsFile(asked) => r >= 7 
      /\ IsChecksum(asked) => r >= 10
      /\ IsStart(asked) => r >= 11
      /\ IsReset(asked) => r >= 13
  <2> HIDE DEF r
  <2>1. RankOf(asked) \in 1..13 BY ItemFacts DEF Serves
  <2> QED BY <1>1, <2>1, Kinds
<1>5. xfer.active => r >= 7 BY DEF Safe, Behind
<1>6. upgrade_thread_ # "none" => r >= 11 BY DEF Safe, Behind
<1>7. serving /\ ~notReadyToReceive BY DEF Serves
<1> HIDE DEF r
<1>8. xfer'.active => r >= 7
  BY <1>4, <1>5 DEF Serves, ServeEffect, FileAccepted, FileRefused, BlockAccepted, BlockRefused,
     ExitAccepted, ExitRefused, OtherServed
<1>9. ~serving' => r >= 10
  <2>1. r >= 11 => r >= 10 BY <1>1
  <2>2. serving' # serving => IsChecksum(asked) \/ IsStart(asked)
    BY DEF Serves, ServeEffect, FileAccepted, FileRefused, BlockAccepted, BlockRefused,
       ExitAccepted, ExitRefused, OtherServed, Unmoved
  <2> QED BY <1>4, <1>7, <2>1, <2>2
<1>10. upgrade_thread_' # "none" => r >= 11
  <2>1. upgrade_thread_' # "none" => upgrade_thread_ # "none" \/ IsStart(asked)
    BY DEF Serves, ServeEffect, FileAccepted, FileRefused, BlockAccepted, BlockRefused,
       ExitAccepted, ExitRefused, OtherServed, Unmoved
  <2> QED BY <1>4, <1>6, <2>1
<1>11. notReadyToReceive' => r >= 13
  <2>1. notReadyToReceive' => notReadyToReceive \/ IsReset(asked)
    BY DEF Serves, ServeEffect, FileAccepted, FileRefused, BlockAccepted, BlockRefused,
       ExitAccepted, ExitRefused, OtherServed, Unmoved
  <2> QED BY <1>4, <1>7, <2>1
<1> QED BY <1>1, <1>2, <1>3, <1>8, <1>9, <1>10, <1>11 DEF Behind

LEMMA ServesFileOnce ==
    ASSUME TypeOK, Typed, Safe, Serves
    PROVE  FileOnce'
<1>1. /\ \A i \in DOMAIN Coming' : /\ i \in Nat /\ i >= 1
                                   /\ i + 1 \in DOMAIN Coming /\ Coming'[i] = Coming[i + 1]
      /\ \A i \in DOMAIN Returning' :
            \/ i \in DOMAIN Returning /\ Returning'[i] = Returning[i]
            \/ i = Len(Returning) + 1 /\ Returning'[i] = Served
      /\ 1 \in DOMAIN Coming /\ Coming[1] = asked /\ Served.item = asked
      /\ Reached' = Reached /\ Rank(Reached)' = Rank(Reached)
  BY ServesQueues DEF Serves
<1>2. UNCHANGED <<at, waiting, raised>> BY DEF Serves
<1>3. ASSUME ~IsFile(asked), ~xfer.active,
             \A j \in DOMAIN Returning : ~IsFile(Returning[j].item)
      PROVE  ~xfer'.active /\ \A j \in DOMAIN Returning' : ~IsFile(Returning'[j].item)
  <2>1. ~xfer'.active
    BY <1>3 DEF Serves, ServeEffect, FileAccepted, FileRefused, BlockAccepted, BlockRefused,
       ExitAccepted, ExitRefused, OtherServed
  <2>2. \A j \in DOMAIN Returning' : ~IsFile(Returning'[j].item) BY <1>1, <1>3
  <2> QED BY <2>1, <2>2
<1>4. ASSUME NEW i \in DOMAIN Coming', IsFile(Coming'[i])
      PROVE  /\ Rank(Reached)' = 7 /\ ~xfer'.active /\ (waiting' \/ raised' # "no")
             /\ \A j \in DOMAIN Coming' : j # i => ~IsFile(Coming'[j])
             /\ \A j \in DOMAIN Returning' : ~IsFile(Returning'[j].item)
  <2>1. i + 1 \in DOMAIN Coming /\ IsFile(Coming[i + 1]) /\ i \in Nat /\ i >= 1 BY <1>1, <1>4
  <2>2. /\ Rank(Reached) = 7 /\ ~xfer.active /\ (waiting \/ raised # "no")
        /\ \A j \in DOMAIN Coming : j # i + 1 => ~IsFile(Coming[j])
        /\ \A j \in DOMAIN Returning : ~IsFile(Returning[j].item)
    BY <2>1 DEF Safe, FileOnce
  <2>3. ~IsFile(asked)
    <3>1. 1 # i + 1 BY <2>1
    <3> QED BY <1>1, <2>2, <3>1
  <2>4. ASSUME NEW j \in DOMAIN Coming', j # i PROVE ~IsFile(Coming'[j])
    <3>1. j + 1 \in DOMAIN Coming /\ Coming'[j] = Coming[j + 1] /\ j \in Nat BY <1>1
    <3>2. j + 1 # i + 1 BY <2>1, <2>4, <3>1
    <3> QED BY <2>2, <3>1, <3>2
  <2> QED BY <1>1, <1>2, <1>3, <2>2, <2>3, <2>4
<1>5. ASSUME at' = "file", ~waiting'
      PROVE  ~xfer'.active /\ \A j \in DOMAIN Returning' : ~IsFile(Returning'[j].item)
  <2>1. at = "file" /\ ~waiting BY <1>2, <1>5
  <2>2. raised = "no" BY <2>1 DEF Typed
  <2>3. ~IsFile(asked) BY <1>1, <2>1, <2>2 DEF Safe, FileOnce
  <2>4. ~xfer.active /\ \A j \in DOMAIN Returning : ~IsFile(Returning[j].item)
    BY <2>1 DEF Safe, FileOnce
  <2> QED BY <1>3, <2>3, <2>4
<1> QED BY <1>4, <1>5 DEF FileOnce

(* Counters of blocks that follow one another differ. *)
LEMMA NotNext ==
    ASSUME NEW n \in Nat, NEW m \in Nat, m >= 2
    PROVE  n % m # (n + 1) % m
<1>1. n % m \in 0..m-1 OBVIOUS
<1>2. ((n % m) + 1) % m = (n + 1) % m BY ModSucc
<1> DEFINE r == n % m
<1>3. r \in 0..m-1 BY <1>1
<1> HIDE DEF r
<1>4. (r + 1) % m # r
  <2>1. CASE r + 1 < m
    <3>1. (r + 1) % m = r + 1 BY <1>3, <2>1
    <3> QED BY <1>3, <3>1
  <2>2. CASE r + 1 = m
    <3>1. (r + 1) % m = 0
      <4>1. m % m = 0
        <5>1. (m * 1 + 0) % m = 0 BY ModUnique
        <5> QED BY <5>1
      <4> QED BY <2>2, <4>1
    <3> QED BY <1>3, <2>2, <3>1
  <2> QED BY <1>3, <2>1, <2>2
<1> QED BY <1>2, <1>4 DEF r

(* The server accepts a block: it is the one after the last it stored, and *)
(* the client's own.                                                       *)
LEMMA BlockInStep ==
    ASSUME TypeOK, Typed, Safe, Serves, BlockAccepted
    PROVE  /\ asked.block = Len(stored) + 1 /\ block = Len(stored) + 1
           /\ asked.block <= BlockCount /\ Rank(Reached) >= 8
           /\ xfer'.seq = (1 + (Len(stored) + 1)) % SeqMod
<1> DEFINE n == Len(stored)
           b == asked.block
<1>1. IsBlock(asked) /\ xfer.active /\ asked.req.sub = xfer.seq BY DEF BlockAccepted, Evaluates
<1>2. b \in 1..BlockCount /\ asked.req.sub = b % SeqMod BY <1>1, ItemFacts DEF Serves
<1>3. n \in Nat /\ block \in Nat /\ BlockCount \in Nat
  BY BlockCountType, LenProperties DEF Typed
<1>4. n <= b /\ b <= block /\ block - 1 <= n
  BY <1>1, ServesQueues DEF Safe, InStep, Serves
<1>5. xfer.seq = (1 + n) % SeqMod BY <1>1 DEF Safe, InStep
<1>6. Rank(Reached) >= 8 BY <1>1, Kinds, ServesQueues
<1>7. xfer'.seq = (xfer.seq + 1) % SeqMod
  <2>1. xfer \in Xfer BY DEF TypeOK
  <2>2. xfer' = [xfer EXCEPT !.seq = (xfer.seq + 1) % SeqMod, !.bytes = @ + asked.req.len]
    BY DEF BlockAccepted
  <2> QED BY <2>1, <2>2 DEF Xfer
<1> HIDE DEF n, b
<1>8. b # n
  <2>1. SUFFICES ASSUME b = n PROVE FALSE
    OBVIOUS
  <2>2. n % SeqMod = (n + 1) % SeqMod
    <3>1. n % SeqMod = (1 + n) % SeqMod BY <1>1, <1>2, <1>5, <2>1
    <3>2. 1 + n = n + 1 BY <1>3
    <3> QED BY <3>1, <3>2
  <2> QED BY <1>3, <2>2, NotNext, DurationsAssumption
<1>9. b = n + 1 /\ block = n + 1 BY <1>2, <1>3, <1>4, <1>8
<1>10. xfer'.seq = (1 + (n + 1)) % SeqMod
  <2>1. (((n + 1) % SeqMod) + 1) % SeqMod = ((n + 1) + 1) % SeqMod
    <3> DEFINE a == n + 1
    <3>1. a \in Nat /\ SeqMod \in Nat /\ SeqMod >= 2 BY <1>3, DurationsAssumption
    <3> HIDE DEF a
    <3>2. ((a % SeqMod) + 1) % SeqMod = (a + 1) % SeqMod BY <3>1, ModSucc
    <3> QED BY <3>2 DEF a
  <2>2. 1 + n = n + 1 /\ (n + 1) + 1 = 1 + (n + 1) BY <1>3
  <2> QED BY <1>5, <1>7, <2>1, <2>2
<1> QED BY <1>2, <1>6, <1>9, <1>10 DEF n, b

LEMMA ServesInStep ==
    ASSUME TypeOK, Typed, Safe, Serves
    PROVE  InStep'
<1>1. /\ \A i \in DOMAIN Coming' : /\ i \in Nat /\ i >= 1
                                   /\ i + 1 \in DOMAIN Coming /\ Coming'[i] = Coming[i + 1]
      /\ \A i \in DOMAIN Returning' :
            \/ i \in DOMAIN Returning /\ Returning'[i] = Returning[i]
            \/ i = Len(Returning) + 1 /\ Returning'[i] = Served
      /\ \A i \in DOMAIN Returning : i # Len(Returning) + 1
      /\ 1 \in DOMAIN Coming /\ Coming[1] = asked
      /\ Served.item = asked /\ Served.code = resp'
      /\ Rank(Reached)' = Rank(Reached) /\ RankOf(asked) <= Rank(Reached)
  BY ServesQueues DEF Serves
<1>2. block' = block BY DEF Serves
<1>3. /\ \A i \in DOMAIN stored : stored[i] = i
      /\ block - 1 <= Len(stored) /\ Len(stored) <= block /\ Len(stored) <= BlockCount
      /\ Rank(Reached) <= 7 => block = 1 /\ stored = <<>>
      /\ Rank(Reached) = 8 => block <= BlockCount
      /\ Rank(Reached) >= 9 => block = BlockCount + 1
      /\ xfer.active => xfer.seq = (1 + Len(stored)) % SeqMod
  BY DEF Safe, InStep
<1>4. \A i \in DOMAIN Coming : IsBlock(Coming[i]) =>
         Len(stored) <= Coming[i].block /\ Coming[i].block <= block
  BY DEF Safe, InStep
<1>5. \A i, j \in DOMAIN Coming :
          i < j /\ IsBlock(Coming[i]) /\ IsBlock(Coming[j]) =>
              Coming[i].block <= Coming[j].block
  BY DEF Safe, InStep
<1>6. \A i \in DOMAIN Returning : IsBlock(Returning[i].item) /\ Positive(Returning[i]) =>
          /\ Len(stored) = block
          /\ \A j \in DOMAIN Returning : j # i =>
                ~(IsBlock(Returning[j].item) /\ Positive(Returning[j]))
  BY DEF Safe, InStep
<1>7. ASSUME NEW i \in DOMAIN Coming', NEW j \in DOMAIN Coming', i < j,
             IsBlock(Coming'[i]), IsBlock(Coming'[j])
      PROVE  Coming'[i].block <= Coming'[j].block
  <2>1. /\ i + 1 \in DOMAIN Coming /\ Coming'[i] = Coming[i + 1] /\ i \in Nat
        /\ j + 1 \in DOMAIN Coming /\ Coming'[j] = Coming[j + 1] /\ j \in Nat
    BY <1>1
  <2>2. i + 1 < j + 1 BY <1>7, <2>1
  <2> QED BY <1>5, <1>7, <2>1, <2>2
<1>8. CASE ~BlockAccepted
  <2>1. stored' = stored
    <3>1. CASE FileAccepted
      <4>1. IsFile(asked) /\ stored' = <<>> BY <3>1 DEF FileAccepted
      <4>2. Rank(Reached) = 7 BY <1>1, <4>1 DEF Safe, FileOnce
      <4> QED BY <1>3, <4>1, <4>2
    <3>2. CASE ~FileAccepted
      BY <1>8, <3>2 DEF Serves, ServeEffect, FileRefused, BlockRefused, ExitAccepted,
         ExitRefused, OtherServed
    <3> QED BY <3>1, <3>2
  <2>2. xfer'.active => xfer'.seq = (1 + Len(stored)) % SeqMod
    <3>1. CASE FileAccepted
      <4>1. IsFile(asked) /\ xfer' = [active |-> TRUE, seq |-> 1, bytes |-> 0, total |-> FileSize]
        BY <3>1 DEF FileAccepted
      <4>2. Rank(Reached) = 7 BY <1>1, <4>1 DEF Safe, FileOnce
      <4>3. stored = <<>> BY <1>3, <4>2
      <4>4. Len(stored) = 0 BY <4>3
      <4>5. (1 + 0) % SeqMod = 1 BY DurationsAssumption
      <4> QED BY <4>1, <4>4, <4>5
    <3>2. CASE ~FileAccepted
      <4>1. xfer'.active => xfer' = xfer
        BY <1>8, <3>2 DEF Serves, ServeEffect, FileRefused, BlockRefused, ExitAccepted,
           ExitRefused, OtherServed
      <4> QED BY <1>3, <4>1
    <3> QED BY <3>1, <3>2
  <2>3. ~(IsBlock(asked) /\ resp' = kPositiveResponse)
    BY <1>8, Kinds DEF Serves, ServeEffect, FileAccepted, FileRefused, BlockRefused, ExitAccepted,
       ExitRefused, OtherServed
  <2>4. \A i \in DOMAIN Coming' : IsBlock(Coming'[i]) =>
          Len(stored) <= Coming'[i].block /\ Coming'[i].block <= block
    BY <1>1, <1>4
  <2>5. ASSUME NEW i \in DOMAIN Returning', IsBlock(Returning'[i].item), Positive(Returning'[i])
        PROVE  /\ Len(stored) = block
               /\ \A j \in DOMAIN Returning' : j # i =>
                     ~(IsBlock(Returning'[j].item) /\ Positive(Returning'[j]))
    <3>1. ~(IsBlock(Served.item) /\ Positive(Served)) BY <1>1, <2>3 DEF Positive
    <3>2. i \in DOMAIN Returning /\ Returning'[i] = Returning[i] BY <1>1, <2>5, <3>1
    <3> QED BY <1>1, <1>6, <2>5, <3>1, <3>2
  <2> QED BY <1>1, <1>2, <1>3, <1>7, <2>1, <2>2, <2>4, <2>5 DEF InStep
<1>9. CASE BlockAccepted
  <2> DEFINE n == Len(stored)
  <2>1. /\ asked.block = n + 1 /\ block = n + 1 /\ asked.block <= BlockCount
        /\ Rank(Reached) >= 8 /\ xfer'.seq = (1 + (n + 1)) % SeqMod
        /\ IsBlock(asked)
    BY <1>9, BlockInStep DEF BlockAccepted
  <2>2. stored \in Seq(Nat) /\ n \in Nat /\ n + 1 \in Nat BY LenProperties DEF Typed
  <2>3. stored' = Append(stored, n + 1) BY <1>9, <2>1 DEF BlockAccepted
  <2>4. /\ Len(stored') = n + 1 /\ DOMAIN stored' = 1..(n + 1) /\ DOMAIN stored = 1..n
        /\ \A i \in DOMAIN stored : stored'[i] = stored[i]
        /\ stored'[n + 1] = n + 1
    BY <2>2, <2>3, AppendAt
  <2> HIDE DEF n
  <2>5. \A i \in DOMAIN stored' : stored'[i] = i
    <3>1. TAKE i \in DOMAIN stored'
    <3>2. i \in DOMAIN stored \/ i = n + 1 BY <2>2, <2>4
    <3> QED BY <1>3, <2>4, <3>2
  <2>6. ASSUME NEW i \in DOMAIN Coming', IsBlock(Coming'[i])
        PROVE  Len(stored') <= Coming'[i].block /\ Coming'[i].block <= block
    <3>1. i + 1 \in DOMAIN Coming /\ Coming'[i] = Coming[i + 1] /\ 1 < i + 1 BY <1>1
    <3> QED BY <1>1, <1>4, <1>5, <2>1, <2>4, <2>6, <3>1
  <2>7. \A i \in DOMAIN Returning : ~(IsBlock(Returning[i].item) /\ Positive(Returning[i]))
    <3>1. n # n + 1 BY <2>2
    <3> QED BY <1>6, <2>1, <3>1 DEF n
  <2>8. ASSUME NEW i \in DOMAIN Returning', IsBlock(Returning'[i].item), Positive(Returning'[i])
        PROVE  /\ Len(stored') = block
               /\ \A j \in DOMAIN Returning' : j # i =>
                     ~(IsBlock(Returning'[j].item) /\ Positive(Returning'[j]))
    BY <1>1, <2>1, <2>4, <2>7, <2>8
  <2>9. Rank(Reached) \in Nat BY RankIs
  <2>10. /\ block - 1 <= n + 1 /\ n + 1 <= block /\ n + 1 <= BlockCount
         /\ ~(Rank(Reached) <= 7)
    BY <2>1, <2>2, <2>9
  <2> QED BY <1>1, <1>2, <1>3, <1>7, <2>1, <2>4, <2>5, <2>6, <2>8, <2>10 DEF InStep
<1> QED BY <1>8, <1>9

LEMMA ServesStep ==
    ASSUME TypeOK, Typed, Safe, Serves, IInv
    PROVE  Safe'
<1>1. /\ \A i \in DOMAIN Coming' : /\ i \in Nat /\ i >= 1
                                   /\ i + 1 \in DOMAIN Coming /\ Coming'[i] = Coming[i + 1]
      /\ \A i \in DOMAIN Returning' :
            \/ i \in DOMAIN Returning /\ Returning'[i] = Returning[i]
            \/ i = Len(Returning) + 1 /\ Returning'[i] = Served
      /\ 1 \in DOMAIN Coming /\ Coming[1] = asked /\ linked
      /\ Served.item = asked /\ Served.code = resp' /\ Served.status = status'
      /\ Rank(Reached)' = Rank(Reached) /\ RankOf(asked) <= Rank(Reached)
  BY ServesQueues DEF Serves
<1>2. UNCHANGED <<linked, at, raised, verdict>> /\ ~notReadyToReceive BY DEF Serves
<1>3. Rank(Reached) \in Nat BY RankIs
<1>4. Cut' BY <1>1, <1>2 DEF Cut
<1>5. Behind' BY ServesBehind
<1>6. FileOnce' BY ServesFileOnce
<1>7. InStep' BY ServesInStep
<1>8. ClosedAfterExit'
  <2>1. SUFFICES ASSUME \/ Rank(Reached)' >= 10
                        \/ \E i \in DOMAIN Returning' :
                              IsExit(Returning'[i].item) /\ Positive(Returning'[i])
                 PROVE  Closed'
    BY DEF ClosedAfterExit
  <2>2. CASE \/ Rank(Reached) >= 10
             \/ \E i \in DOMAIN Returning : IsExit(Returning[i].item) /\ Positive(Returning[i])
    BY <2>2, ServesClosed
  <2>3. CASE ~(\/ Rank(Reached) >= 10
               \/ \E i \in DOMAIN Returning : IsExit(Returning[i].item) /\ Positive(Returning[i]))
    <3>1. IsExit(asked) /\ resp' = kPositiveResponse
      BY <1>1, <2>1, <2>3 DEF Positive
    <3>2. ExitAccepted
      BY <3>1, Kinds DEF Serves, ServeEffect, FileAccepted, FileRefused, BlockAccepted, BlockRefused,
         ExitRefused, OtherServed
    <3>3. Rank(Reached) >= 9 BY <1>1, <3>1, Kinds
    <3>4. Len(stored) \in Nat /\ block \in Nat /\ BlockCount \in Nat
      BY BlockCountType, LenProperties DEF Typed
    <3>5. block - 1 <= Len(stored) /\ Len(stored) <= BlockCount /\ block = BlockCount + 1
      BY <3>3 DEF Safe, InStep
    <3>6. Len(stored) = BlockCount BY <3>4, <3>5
    <3> QED BY <3>2, <3>6 DEF ExitAccepted, Closed, NoHandle, NotExited
  <2> QED BY <2>2, <2>3
<1>9. Told'
  <2>1. Rank(Reached) >= 10 => Closed /\ exited' = exited
    BY ServesClosed
  <2>2. ASSUME NEW i \in DOMAIN Returning', IsChecksum(Returning'[i].item), Positive(Returning'[i])
        PROVE  Returning'[i].status = Digest'
    <3>1. CASE i \in DOMAIN Returning /\ Returning'[i] = Returning[i]
      <4>1. RankOf(Returning[i].item) = 10 BY <2>2, <3>1, Kinds
      <4>2. Rank(Reached) >= 10 BY <3>1, <4>1 DEF Safe, Behind
      <4>3. Returning[i].status = Digest BY <2>2, <3>1 DEF Safe, Told
      <4> QED BY <2>1, <3>1, <4>2, <4>3 DEF Digest
    <3>2. CASE Returning'[i] = Served
      <4>1. IsChecksum(asked) BY <1>1, <2>2, <3>2
      <4>2. Rank(Reached) >= 10 BY <1>1, <4>1, Kinds
      <4>3. OtherServed
        BY <4>1, Kinds DEF Serves, ServeEffect, FileAccepted, FileRefused, BlockAccepted,
           BlockRefused, ExitAccepted, ExitRefused
      <4>4. status' = IF content[fw_filename_] = FileSize THEN 0 ELSE 1
        BY <4>1, <4>3 DEF OtherServed
      <4>5. content[fw_filename_] = exited.len
        BY <1>1, <2>1, <4>2 DEF Closed, IInv, AppInv, ExitedFileSafe
      <4> QED BY <1>1, <2>1, <3>2, <4>2, <4>4, <4>5 DEF Digest
    <3> QED BY <1>1, <3>1, <3>2
  <2>3. ASSUME Rank(Reached) >= 11 PROVE verdict' = Digest'
    <3>1. Rank(Reached) >= 10 BY <1>3, <2>3
    <3>2. verdict = Digest BY <2>3 DEF Safe, Told
    <3> QED BY <1>2, <2>1, <3>1, <3>2 DEF Digest
  <2> QED BY <1>1, <2>2, <2>3 DEF Told
<1>10. Deaf'
  <2>1. \A i \in DOMAIN Returning : ~(IsReset(Returning[i].item) /\ Positive(Returning[i]))
    BY <1>2 DEF Safe, Deaf
  <2>2. ~(raised = "no" /\ at = "default") BY <1>1, <1>2 DEF Safe, Deaf
  <2>3. IsReset(asked) /\ resp' = kPositiveResponse => notReadyToReceive'
    BY Kinds DEF Serves, ServeEffect, FileAccepted, FileRefused, BlockAccepted,
       BlockRefused, ExitAccepted, ExitRefused, OtherServed
  <2>4. \A i \in DOMAIN Returning' :
          IsReset(Returning'[i].item) /\ Positive(Returning'[i]) => notReadyToReceive'
    BY <1>1, <2>1, <2>3 DEF Positive
  <2>5. raised = "no" => ~IsDefault(asked)
    BY <1>1, <2>2 DEF Safe, Deaf
  <2>6. raised = "no" => \A i \in DOMAIN Returning' : ~IsDefault(Returning'[i].item)
    BY <1>1, <2>5 DEF Safe, Deaf
  <2>7. raised = "no" /\ at # "default" => \A i \in DOMAIN Coming' : ~IsDefault(Coming'[i])
    BY <1>1 DEF Safe, Deaf
  <2> QED BY <1>2, <2>2, <2>4, <2>6, <2>7 DEF Deaf
<1> QED BY <1>4, <1>5, <1>6, <1>7, <1>8, <1>9, <1>10 DEF Safe

-----------------------------------------------------------------------------
(***************************************************************************)
(* The actions.  What each of them does to the queues and the types.       *)
(***************************************************************************)
LEMMA RaiseFacts ==
    ASSUME Typed, at # "done", Raise
    PROVE  /\ at' \in {"default", "done"} /\ at' \in StepNames \cup {"done"}
           /\ raised' \in StepNames /\ raised' # "no" /\ raised \in StepNames \cup {"no"}
           /\ waiting' = FALSE /\ block' = block /\ verdict' = verdict
           /\ Reached' = Reached /\ SameStep
<1>1. at \in StepNames BY DEF Typed
<1>2. "no" \notin StepNames /\ "default" \in StepNames BY StepNamesAre
<1>3. /\ at' = IF at = "default" THEN "done" ELSE "default"
      /\ raised' = IF raised = "no" THEN at ELSE raised
      /\ waiting' = FALSE /\ block' = block /\ verdict' = verdict
  BY DEF Raise
<1>4. raised' \in StepNames /\ raised' # "no" BY <1>1, <1>2, <1>3 DEF Typed
<1>5. Reached' = Reached BY <1>2, <1>3, <1>4 DEF Reached
<1>6. at' \in {"default", "done"} BY <1>3
<1>7. SameStep BY <1>3, <1>4, <1>5 DEF SameStep
<1> QED BY <1>2, <1>3, <1>4, <1>5, <1>6, <1>7 DEF Typed

(* Everything but the client, what is in the air and the counters. *)
ServerStays == UNCHANGED <<allVars, linked, query, stored, failed>>

LEMMA ServerStaysFacts ==
    ASSUME ServerStays
    PROVE  /\ UNCHANGED <<pc, inbox, xfer, notReadyToReceive, RCRRP, requestInProgress, resp,
                          fw_filename_, fw_file_, content, upgrade_thread_, serving, exited,
                          linked, asked, status, stored, failed>>
           /\ SameServer
           /\ IInv => IInv'
<1>1. UNCHANGED <<allVars, linked, query, stored, failed>> BY DEF ServerStays
<1>2. UNCHANGED <<pc, inbox, xfer, notReadyToReceive, RCRRP, requestInProgress, resp,
                  fw_filename_, fw_file_, content, upgrade_thread_, serving, exited,
                  linked, asked, status, stored, failed>>
  BY <1>1 DEF allVars, vars, app, reset, progress, response, query
<1>3. IInv => IInv' BY <1>1, InvariantStep
<1> QED BY <1>2, <1>3 DEF SameServer

(* A step of the client that raises an exception. *)
LEMMA GivesUp ==
    ASSUME IInv, Typed, Raise, at # "done", ServerStays, UNCHANGED air,
           replies' = replies \/ (replies # <<>> /\ replies' = Tail(replies)),
           late' \in Nat, losses' \in Nat
    PROVE  /\ IInv' /\ Typed' /\ Calm /\ Coming' = Coming
           /\ Returning' = Returning \/ (Returning # <<>> /\ Returning' = Tail(Returning))
<1> USE DEF IInv
<1>1. /\ UNCHANGED <<pc, inbox, requestInProgress, resp, asked, status, linked, stored, failed>>
      /\ SameServer /\ IInv'
  BY ServerStaysFacts
<1>2. /\ at' \in {"default", "done"} /\ at' \in StepNames \cup {"done"}
      /\ raised' \in StepNames /\ raised' # "no"
      /\ waiting' = FALSE /\ block' = block /\ SameStep
  BY RaiseFacts
<1>3. /\ replies' \in Seq(Responses) /\ Coming' = Coming
      /\ Returning' = Returning \/ (Returning # <<>> /\ Returning' = Tail(Returning))
  <2>1. CASE replies' = replies
    BY <1>1, <2>1, SameQueues DEF Typed
  <2>2. CASE replies # <<>> /\ replies' = Tail(replies)
    BY <1>1, <2>2, TakeQueues
  <2> QED BY <2>1, <2>2
<1>4. Returning \in Seq(Responses) BY QueueTypes
<1>5. Fewer(Coming', Coming) BY <1>3, FewerSame
<1>6. Fewer(Returning', Returning)
  <2>1. CASE Returning' = Returning BY <2>1, FewerSame
  <2>2. CASE Returning # <<>> /\ Returning' = Tail(Returning) BY <1>4, <2>2, FewerTail
  <2> QED BY <1>3, <2>1, <2>2
<1>7. Typed' BY <1>1, <1>2, <1>3 DEF Typed
<1> QED BY <1>1, <1>2, <1>3, <1>5, <1>6, <1>7 DEF Calm

LEMMA SendStep ==
    ASSUME IInv, Typed, Safe, Send, linked
    PROVE  IInv' /\ Typed' /\ Sends /\ UNCHANGED <<failed, late, losses>>
<1> USE DEF IInv
<1>1. /\ ServerStays /\ UNCHANGED <<late, losses>>
      /\ at # "done" /\ ~waiting /\ air' = Append(air, Expected) /\ waiting' = TRUE
      /\ \E n \in 0..Len(replies) : replies' = SubSeq(replies, n + 1, Len(replies))
      /\ UNCHANGED <<at, block, raised, verdict>>
  BY DEF Send, ServerStays, faults
<1>2. /\ UNCHANGED <<pc, inbox, xfer, notReadyToReceive, requestInProgress, resp,
                     fw_filename_, fw_file_, upgrade_thread_, serving, exited,
                     linked, asked, status, stored, failed>>
      /\ IInv'
  BY <1>1, ServerStaysFacts
<1>3. Expected \in Items BY <1>1, ExpectedItem DEF Safe
<1>4. /\ air' \in Seq(Items) /\ replies' \in Seq(Responses)
      /\ Coming' = Append(Coming, Expected) /\ Fewer(Returning', Returning)
  <2>1. PICK n \in 0..Len(replies) : replies' = SubSeq(replies, n + 1, Len(replies)) BY <1>1
  <2> QED BY <1>1, <1>2, <1>3, <2>1, SendQueues
<1>5. Typed' BY <1>1, <1>2, <1>4 DEF Typed
<1> QED BY <1>1, <1>2, <1>4, <1>5 DEF Sends

(* A good answer: on to the next step, or the end of `finally'. *)
LEMMA GoodAnswerStep ==
    ASSUME IInv, Typed, Safe, TakeAnswer, Good(Head(replies)), at' = After(Head(replies)),
           waiting' = FALSE, block' = IF at = "block" THEN block + 1 ELSE block,
           verdict' = IF at = "checksum" THEN Head(replies).status ELSE verdict, raised' = raised
    PROVE  IInv' /\ Typed' /\ (GoesOn \/ (Calm /\ raised # "no"))
<1> USE DEF IInv
<1>1. /\ ServerStays /\ UNCHANGED <<air, late, losses>>
      /\ waiting /\ replies # <<>> /\ replies' = Tail(replies)
  BY DEF TakeAnswer, ServerStays, faults
<1>2. /\ UNCHANGED <<pc, inbox, xfer, notReadyToReceive, requestInProgress, resp,
                     fw_filename_, fw_file_, upgrade_thread_, serving, exited,
                     linked, asked, status, stored, failed>>
      /\ IInv' /\ SameServer
  BY <1>1, ServerStaysFacts
<1>3. /\ replies' \in Seq(Responses) /\ Returning # <<>> /\ Head(Returning) = Head(replies)
      /\ Returning' = Tail(Returning) /\ Coming' = Coming
  BY <1>1, <1>2, TakeQueues
<1>4. CASE raised = "no"
  <2>1. GoesOn BY <1>1, <1>2, <1>3, <1>4 DEF GoesOn
  <2>2. /\ at \in StepNames \ {"default"}
        /\ \/ at \in Early /\ at' \in Early \cup {"fingerprint"}
           \/ at = "fingerprint" /\ at' = "file"
           \/ at \in {"file", "block"} /\ at' = IF block' <= BlockCount THEN "block" ELSE "exit"
           \/ at = "exit" /\ at' = "checksum"
           \/ at = "checksum" /\ at' = "start"
           \/ at \in {"start", "progress"} /\ at' \in {"progress", "reset"}
           \/ at = "reset" /\ at' = "default"
    BY <2>1, GoesOnTo
  <2>3. at' \in StepNames /\ at' # "done" BY <2>2, StepNamesAre DEF Early
  <2>4. block' \in Nat \ {0} BY DEF Typed
  <2>5. Typed' BY <1>1, <1>2, <1>3, <1>4, <2>3, <2>4 DEF Typed
  <2> QED BY <1>2, <2>1, <2>5
<1>5. CASE raised # "no"
  <2>1. at = "default" BY <1>1, <1>5 DEF Typed
  <2>2. at' = "done" /\ block' = block /\ verdict' = verdict BY <2>1 DEF After
  <2>3. Typed' BY <1>1, <1>2, <1>3, <1>5, <2>2 DEF Typed
  <2>4. SameStep BY <1>5, <2>2 DEF SameStep, Reached
  <2>5. Returning \in Seq(Responses) BY QueueTypes
  <2>6. Fewer(Coming', Coming) /\ Fewer(Returning', Returning)
    BY <1>3, <2>5, FewerSame, FewerTail
  <2> QED BY <1>2, <1>5, <2>3, <2>4, <2>6 DEF Calm
<1> QED BY <1>4, <1>5

LEMMA RetryStep ==
    ASSUME IInv, Typed, Timeout, at = "block"
    PROVE  /\ IInv' /\ Typed' /\ Calm /\ Coming' = Coming /\ Returning' = Returning
           /\ UNCHANGED <<at, block, raised>> /\ waiting' = FALSE
<1> USE DEF IInv
<1>1. /\ ServerStays /\ UNCHANGED <<air, replies, losses, at, block, raised, verdict>>
      /\ waiting' = FALSE /\ late' \in {late, late + 1}
  BY DEF Timeout, Retry, ServerStays, network
<1>2. /\ UNCHANGED <<pc, inbox, requestInProgress, resp, asked, status, linked, stored, failed>>
      /\ SameServer /\ IInv'
  BY <1>1, ServerStaysFacts
<1>3. Coming' = Coming /\ Returning' = Returning BY <1>1, <1>2, SameQueues
<1>4. late' \in Nat /\ losses' \in Nat BY <1>1 DEF Typed
<1>5. Typed' BY <1>1, <1>2, <1>4, Zenon DEF Typed
<1>6. SameStep BY <1>1 DEF SameStep, Reached
<1> QED BY <1>1, <1>2, <1>3, <1>5, <1>6, FewerSame DEF Calm

LEMMA LoseStep ==
    ASSUME IInv, Typed, Lose
    PROVE  /\ IInv' /\ Typed' /\ Calm /\ Returning' = Returning
           /\ Coming # <<>> /\ (Len(Coming) = 1 => Coming' = <<>>)
           /\ ServerStays /\ UNCHANGED <<at, block, waiting, raised, late>> /\ losses' > 0
<1> USE DEF IInv
<1>1. /\ ServerStays /\ UNCHANGED <<replies, at, block, waiting, raised, verdict, late>>
      /\ air # <<>> /\ air' = Tail(air) /\ losses' = losses + 1
  BY DEF Lose, ServerStays, progsoc
<1>2. /\ UNCHANGED <<pc, inbox, requestInProgress, resp, asked, status, linked, stored, failed>>
      /\ SameServer /\ IInv'
  BY <1>1, ServerStaysFacts
<1>3. /\ air' \in Seq(Items) /\ Returning' = Returning /\ Fewer(Coming', Coming)
      /\ Coming # <<>> /\ (Len(Coming) = 1 => Coming' = <<>>)
  BY <1>1, <1>2, LoseQueues
<1>4. losses' \in Nat /\ losses' > 0 BY <1>1 DEF Typed
<1>5. Typed' BY <1>1, <1>2, <1>3, <1>4, Zenon DEF Typed
<1>6. SameStep BY <1>1 DEF SameStep, Reached
<1> QED BY <1>1, <1>2, <1>3, <1>4, <1>5, <1>6, FewerSame DEF Calm

(* The steps of the network, the server and the clock that the client and  *)
(* the transfer do not notice.                                             *)
Unnoticed ==
    /\ UNCHANGED <<at, block, waiting, raised, verdict, late, losses>>
    /\ UNCHANGED <<xfer, serving, notReadyToReceive, stored, fw_filename_, fw_file_, exited, linked,
                   content, failed>>
    /\ upgrade_thread_' # "none" => upgrade_thread_ # "none"
    /\ Coming' = Coming /\ Returning' = Returning

LEMMA UnnoticedCalm ==
    ASSUME Unnoticed
    PROVE  Calm
BY FewerSame DEF Unnoticed, Calm, SameServer, SameStep, Reached

LEMMA ArriveStep ==
    ASSUME IInv, Typed, Arrive
    PROVE  IInv' /\ Typed' /\ Unnoticed
<1> USE DEF IInv
<1>1. /\ air # <<>> /\ air' = Tail(air) /\ asked' = Head(air)
      /\ Receive(Head(air).req) /\ UNCHANGED app
      /\ UNCHANGED <<at, block, waiting, raised, verdict, late, losses, replies, linked, status,
                     stored, failed>>
  BY DEF Arrive, progsoc, faults
<1>2. /\ inbox = NoRequest /\ inbox' = Head(air).req
      /\ UNCHANGED <<pc, xfer, notReadyToReceive, requestInProgress, resp>>
      /\ UNCHANGED <<serving, fw_filename_, fw_file_, exited, content, upgrade_thread_>>
  BY <1>1 DEF Receive, reset, progress, response, app
<1>3. /\ air' \in Seq(Items) /\ asked' \in Items /\ inbox' \in Requests
      /\ Coming' = Coming /\ Returning' = Returning
  BY <1>1, <1>2, ArriveQueues
<1>4. IInv'
  <2>1. \E req \in Requests : Receive(req) BY <1>1, <1>2, <1>3
  <2>2. AllNext BY <1>1, <2>1 DEF AllNext
  <2> QED BY <2>2, InvariantStep
<1>5. Typed' BY <1>1, <1>2, <1>3, Zenon DEF Typed
<1> QED BY <1>1, <1>2, <1>3, <1>4, <1>5 DEF Unnoticed

LEMMA PollItemStep ==
    ASSUME IInv, Typed, PollItem
    PROVE  IInv' /\ Typed' /\ Unnoticed
<1> USE DEF IInv
<1>1. /\ Poll
      /\ replies' = IF inbox # NoRequest /\ inbox' = NoRequest
                    THEN Append(replies, [item |-> asked, code |-> resp, status |-> status])
                    ELSE replies
      /\ UNCHANGED <<at, block, waiting, raised, verdict, late, losses, air, linked, asked, status,
                     stored, failed>>
  BY DEF PollItem, progsoc, query, faults
<1>2. IInv' BY <1>1, InvariantStep DEF AllNext, Step
<1>3. /\ UNCHANGED <<xfer, notReadyToReceive, resp>> /\ pc' \in {"poll", "serve"}
      /\ UNCHANGED <<fw_filename_, fw_file_, content, exited, serving, upgrade_thread_>>
  <2>1. PollTimers \/ PollIdle \/ PollWait \/ PollRespond BY <1>1 DEF Poll
  <2>2. UNCHANGED <<xfer, notReadyToReceive, resp>> /\ pc' \in {"poll", "serve"}
    BY <2>1 DEF PollTimers, PollIdle, PollWait, PollRespond, reset, response
  <2>3. UNCHANGED <<fw_filename_, fw_file_, content, exited, serving, upgrade_thread_>>
    BY <1>1 DEF Poll, HandleDoScheduledReset, app, disk
  <2> QED BY <2>2, <2>3
<1>4. CASE UNCHANGED <<inbox, requestInProgress>>
  <2>1. replies' = replies BY <1>1, <1>4
  <2>2. Coming' = Coming /\ Returning' = Returning BY <1>1, <1>3, <1>4, <2>1, SameQueues
  <2>3. Typed' BY <1>1, <1>3, <1>4, <2>1, Zenon DEF Typed
  <2> QED BY <1>1, <1>2, <1>3, <2>2, <2>3 DEF Unnoticed
<1>5. CASE AtRespond /\ inbox' = NoRequest /\ requestInProgress' = FALSE
  <2>1. requestInProgress /\ inbox # NoRequest BY <1>5 DEF AtRespond, Typed, TypeOK
  <2>2. replies' = Append(replies, Answer) BY <1>1, <1>5, <2>1 DEF Answer
  <2>3. replies' \in Seq(Responses) /\ Coming' = Coming /\ Returning' = Returning
    BY <1>1, <1>5, <2>1, <2>2, RespondQueues
  <2>4. Typed' BY <1>1, <1>3, <1>5, <2>3, Zenon DEF Typed
  <2> QED BY <1>1, <1>2, <1>3, <2>3, <2>4 DEF Unnoticed
<1>6. \/ UNCHANGED <<inbox, requestInProgress>>
      \/ AtRespond /\ inbox' = NoRequest /\ requestInProgress' = FALSE
  <2>1. PollTimers \/ PollIdle \/ PollWait \/ PollRespond BY <1>1 DEF Poll
  <2> QED BY <2>1 DEF PollTimers, PollIdle, PollWait, PollRespond, progress
<1> QED BY <1>4, <1>5, <1>6

LEMMA ClockStep ==
    ASSUME IInv, Typed, TimePasses \/ ThreadEnds
    PROVE  IInv' /\ Typed' /\ Unnoticed
<1> USE DEF IInv
<1>1. UNCHANGED <<at, block, waiting, raised, verdict, late, losses, air, replies, linked, asked,
                  status, stored, failed>>
  BY DEF TimePasses, ThreadEnds, progsoc, network, query, faults
<1>2. /\ UNCHANGED <<pc, inbox, xfer, notReadyToReceive, requestInProgress, resp>>
      /\ UNCHANGED <<serving, fw_filename_, fw_file_, exited, content>>
      /\ upgrade_thread_' # "none" => upgrade_thread_ # "none"
  <2>1. CASE TimePasses
    BY <2>1 DEF TimePasses, Tick, reset, progress, response, app
  <2>2. CASE ThreadEnds
    BY <2>2 DEF ThreadEnds, UpgradeEnds, vars, reset, progress, response, disk
  <2> QED BY <2>1, <2>2
<1>3. IInv'
  <2>1. AllNext BY DEF TimePasses, ThreadEnds, AllNext
  <2> QED BY <2>1, InvariantStep
<1>4. Coming' = Coming /\ Returning' = Returning BY <1>1, <1>2, SameQueues
<1>5. Typed' BY <1>1, <1>2, Zenon DEF Typed
<1> QED BY <1>1, <1>2, <1>3, <1>4, <1>5 DEF Unnoticed

LEMMA ServeItemStep ==
    ASSUME IInv, Typed, Safe, NEW ev \in Events, ServeItem(ev)
    PROVE  /\ IInv' /\ Typed' /\ Serves
           /\ UNCHANGED <<late, losses>> /\ (failed => failed')
<1> USE DEF IInv
<1>1. /\ serving /\ ~notReadyToReceive /\ inbox # NoRequest /\ ~requestInProgress
      /\ requestInProgress' /\ asked \in Items
      /\ UNCHANGED <<inbox, asked, air, replies, linked, at, block, waiting, raised, verdict,
                     late, losses, crashes>>
      /\ status' \in 0..2 /\ ServeEffect
      /\ failed => failed'
      /\ failed' \in BOOLEAN
  BY ServeEffects
<1>2. Serve(ev) /\ PollNewRequest(ev) BY ServeItemServes
<1>3. IInv'
  <2>1. AllNext BY <1>2 DEF AllNext, Step
  <2> QED BY <2>1, InvariantStep
<1>4. /\ Coming # <<>> /\ Coming[1] = asked /\ Coming' = Tail(Coming)
      /\ Returning' = Append(Returning, Answer')
      /\ Answer' = [item |-> asked, code |-> resp', status |-> status']
  BY <1>1, ServeQueues
<1>5. resp' \in Codes BY <1>3 DEF TypeOK
<1>6. Serves BY <1>1, <1>4, <1>5 DEF Serves, Served
<1>7. pc' \in {"poll", "serve"} BY <1>2 DEF PollNewRequest
<1>8. stored' \in Seq(Nat)
  <2>1. CASE BlockAccepted
    <3>1. asked.block \in Nat BY <1>1, <2>1, ItemFacts DEF BlockAccepted
    <3> QED BY <2>1, <3>1, AppendAt DEF BlockAccepted, Typed
  <2>2. CASE FileAccepted BY <2>2, EmptyIs DEF FileAccepted, Typed
  <2>3. CASE ~BlockAccepted /\ ~FileAccepted
    <3>1. stored' = stored
      BY <1>1, <2>3 DEF ServeEffect, FileRefused, BlockRefused, ExitAccepted, ExitRefused,
         OtherServed
    <3> QED BY <3>1 DEF Typed
  <2> QED BY <2>1, <2>2, <2>3
<1>9. Typed' BY <1>1, <1>7, <1>8, Zenon DEF Typed
<1> QED BY <1>1, <1>3, <1>6, <1>9

LEMMA CrashStep ==
    ASSUME IInv, Typed, Safe, Crash
    PROVE  /\ IInv' /\ Typed' /\ Safe' /\ ~linked' /\ ~xfer'.active
           /\ UNCHANGED <<raised, late, losses>> /\ Coming' = <<>> /\ Returning' = <<>>
<1> USE DEF IInv
<1>1. /\ Boot /\ air' = <<>> /\ replies' = <<>> /\ linked' = FALSE
      /\ UNCHANGED <<at, block, waiting, raised, verdict, late, losses, asked, status, stored,
                     failed>>
      /\ Kill \/ PowerCut
  BY DEF Crash, Kill, PowerCut, progsoc, query
<1>2. /\ pc' = "poll" /\ inbox' = NoRequest /\ ~requestInProgress' /\ ~notReadyToReceive'
      /\ xfer' = [NoTransfer EXCEPT !.seq = 0]
      /\ fw_file_' = NoHandle /\ upgrade_thread_' = "none" /\ serving' = TRUE /\ exited' = exited
  BY <1>1 DEF Boot
<1>3. ~xfer'.active BY <1>2 DEF NoTransfer
<1>4. IInv'
  <2>1. AllNext BY <1>1 DEF AllNext
  <2> QED BY <2>1, InvariantStep
<1>5. Coming' = <<>> /\ Returning' = <<>> BY <1>1, <1>2, EmptyQueues
<1>6. DOMAIN Coming' = {} /\ DOMAIN Returning' = {} BY <1>5, EmptyIs
<1>7. air' \in Seq(Items) /\ replies' \in Seq(Responses) BY <1>1, EmptyIs
<1>8. Typed' BY <1>1, <1>2, <1>7, Zenon DEF Typed
<1>9. Rank(Reached)' = Rank(Reached) BY <1>1 DEF Reached, Rank
<1>10. Cut' BY <1>2, <1>3, <1>5 DEF Cut
<1>11. Behind' BY <1>1, <1>2, <1>3, <1>6 DEF Behind
<1>12. FileOnce' BY <1>3, <1>6 DEF FileOnce
<1>13. InStep'
  <2>1. /\ \A i \in DOMAIN stored : stored[i] = i
        /\ block - 1 <= Len(stored) /\ Len(stored) <= block /\ Len(stored) <= BlockCount
        /\ Rank(Reached) <= 7 => block = 1 /\ stored = <<>>
        /\ Rank(Reached) = 8 => block <= BlockCount
        /\ Rank(Reached) >= 9 => block = BlockCount + 1
    BY DEF Safe, InStep
  <2> QED BY <1>1, <1>3, <1>6, <1>9, <2>1 DEF InStep
<1>14. ClosedAfterExit'
  <2>1. SUFFICES ASSUME Rank(Reached)' >= 10 PROVE Closed'
    BY <1>6 DEF ClosedAfterExit
  <2>2. Closed BY <1>9, <2>1 DEF Safe, ClosedAfterExit
  <2> QED BY <1>1, <1>2, <1>3, <2>2 DEF Closed, NoHandle, NotExited
<1>15. Told' BY <1>1, <1>2, <1>6, <1>9 DEF Safe, Told, Digest
<1>16. Deaf' BY <1>1, <1>6 DEF Deaf
<1> QED BY <1>1, <1>3, <1>4, <1>5, <1>8, <1>10, <1>11, <1>12, <1>13, <1>14, <1>15, <1>16 DEF Safe

-----------------------------------------------------------------------------
(***************************************************************************)
(* The blocks of the file.                                                 *)
(***************************************************************************)
LEMMA MulLE ==
    ASSUME NEW a \in Nat, NEW b \in Nat, NEW c \in Nat, a <= b
    PROVE  a * c <= b * c /\ a * c \in Nat /\ b * c \in Nat
<1>1. PICK d \in Nat : b = a + d
  <2>1. b - a \in Nat /\ b = a + (b - a) OBVIOUS
  <2> QED BY <2>1
<1>2. b * c = a * c + d * c BY <1>1
<1>3. a * c \in Nat /\ b * c \in Nat /\ d * c \in Nat OBVIOUS
<1> QED BY <1>2, <1>3

LEMMA DivMod ==
    ASSUME NEW a \in Nat, NEW m \in Nat, m >= 1
    PROVE  a = m * (a \div m) + (a % m) /\ a % m \in 0..m-1
OBVIOUS

(* The blocks before the last are full, and together they are no longer    *)
(* than the file.                                                          *)
LEMMA BlocksFit ==
    ASSUME NEW i \in 1..BlockCount
    PROVE  /\ BlockLen(i) \in Nat
           /\ (i - 1) * BlockSize \in Nat
           /\ (i - 1) * BlockSize + BlockLen(i) <= FileSize
           /\ i < BlockCount => (i - 1) * BlockSize + BlockLen(i) = i * BlockSize
<1> DEFINE F == FileSize
           B == BlockSize
           q == BlockCount
           j == i - 1
<1>1. F \in Nat /\ B \in Nat /\ B >= 1 /\ q \in Nat BY FileAssumption, BlockCountType
<1>2. i \in Nat /\ j \in Nat /\ i <= q /\ i = j + 1 BY <1>1
<1>3. q * B <= F + B - 1
  <2> DEFINE x == F + B - 1
  <2>1. x \in Nat /\ q = x \div B BY <1>1 DEF BlockCount
  <2> HIDE DEF x, q, B, F
  <2>2. x = B * (x \div B) + (x % B) /\ x % B \in 0..B-1 BY <1>1, <2>1, DivMod
  <2>3. B * q = q * B /\ q * B \in Nat BY <1>1
  <2> QED BY <1>1, <2>1, <2>2, <2>3 DEF x
<1> HIDE DEF F, B, q, j
<1>4. i * B <= q * B /\ i * B \in Nat /\ q * B \in Nat BY <1>1, <1>2, MulLE
<1>5. i * B = j * B + B /\ j * B \in Nat BY <1>1, <1>2
<1>6. j * B + B <= F + B - 1 BY <1>1, <1>3, <1>4, <1>5
<1>7. j * B <= F - 1 BY <1>1, <1>5, <1>6
<1>8. CASE i * B <= F
  <2>1. BlockLen(i) = B BY <1>8 DEF BlockLen, F, B
  <2>2. BlockLen(i) \in Nat /\ j * B + BlockLen(i) = i * B BY <1>1, <1>5, <2>1
  <2> QED BY <1>1, <1>5, <1>8, <2>2 DEF F, B, j
<1>9. CASE ~(i * B <= F)
  <2>1. BlockLen(i) = F % B BY <1>9 DEF BlockLen, F, B
  <2> DEFINE r == F - j * B
  <2>2. r \in 0..B-1 /\ F = B * j + r
    <3>1. B * j = j * B BY <1>1, <1>2
    <3>2. F \in Int /\ j * B \in Int /\ B \in Int BY <1>1, <1>5
    <3>3. F < j * B + B BY <1>1, <1>4, <1>5, <1>9
    <3> QED BY <1>7, <3>1, <3>2, <3>3
  <2> HIDE DEF r
  <2>3. F % B = r BY <1>1, <1>2, <2>2, ModUnique
  <2>4. j * B + BlockLen(i) = F /\ BlockLen(i) \in Nat BY <1>1, <1>5, <2>1, <2>2, <2>3 DEF r
  <2>5. ~(i < q)
    <3>1. SUFFICES ASSUME i < q PROVE FALSE
      OBVIOUS
    <3>2. i + 1 \in Nat /\ i + 1 <= q BY <1>1, <1>2, <3>1
    <3>3. (i + 1) * B <= q * B BY <1>1, <3>2, MulLE
    <3>4. (i + 1) * B = i * B + B BY <1>1, <1>2
    <3> QED BY <1>1, <1>3, <1>4, <1>9, <3>3, <3>4
  <2> QED BY <1>1, <1>5, <2>4, <2>5 DEF F, B, j, q
<1> QED BY <1>8, <1>9

-----------------------------------------------------------------------------
(***************************************************************************)
(* The steps by kind.                                                      *)
(***************************************************************************)
Base == IInv /\ Typed /\ Safe

(* The client gives up. *)
Abandons ==
    /\ Raise /\ at # "done" /\ raised' # "no" /\ at' \in {"default", "done"}
    /\ Reached' = Reached
    /\ UNCHANGED <<xfer, linked, failed>> /\ late' \in {late, late + 1} /\ losses' = losses
    /\ Coming' = Coming
    /\ \/ ~linked
       \/ at \in {"extended", "checksum"} /\ ~waiting
       \/ /\ waiting /\ replies # <<>> /\ Returning # <<>> /\ Head(Returning) = Head(replies)
          /\ ~(Good(Head(replies)) /\ (at = "precheck" => Head(replies).status = 0))
       \/ waiting /\ at # "block" /\ (late' = late => Hopeless)

(* It takes the answer it waited for. *)
Proceeds ==
    GoesOn /\ UNCHANGED <<failed, late, losses>> /\ replies # <<>>

(* The end of `finally'. *)
Finishes ==
    /\ Calm /\ raised # "no" /\ raised' = raised /\ at' = "done"
    /\ UNCHANGED <<failed, late, losses>>

(* A block is to be sent again. *)
Repeats ==
    /\ at = "block" /\ UNCHANGED <<at, block, raised, xfer, linked, stored, failed, losses>>
    /\ Coming' = Coming /\ Returning' = Returning
    /\ waiting /\ waiting' = FALSE
    /\ late' \in {late, late + 1} /\ (late' = late => Hopeless)

Loses ==
    /\ Returning' = Returning /\ Coming # <<>> /\ (Len(Coming) = 1 => Coming' = <<>>)
    /\ UNCHANGED <<at, block, waiting, raised, xfer, linked, stored, failed, late>>
    /\ losses' > 0

Crashes ==
    /\ Safe' /\ ~linked' /\ ~xfer'.active /\ Coming' = <<>> /\ Returning' = <<>>
    /\ UNCHANGED <<raised, late, losses>>

Moves ==
    \/ Sends /\ UNCHANGED <<failed, late, losses>>
    \/ Abandons \/ Proceeds \/ Finishes \/ Repeats \/ Loses
    \/ Unnoticed
    \/ Serves /\ UNCHANGED <<late, losses>> /\ (failed => failed')
    \/ Crashes

LEMMA ClientKinds ==
    ASSUME Base, Client
    PROVE  IInv' /\ Typed' /\ Safe' /\ Moves
<1> USE DEF Base
<1>0. TypeOK BY DEF IInv
<1>1. ASSUME IInv', Typed', Calm PROVE Safe'
  <2>1. TypeOK' BY <1>1 DEF IInv
  <2> QED BY <1>0, <1>1, <2>1, CalmStep
<1>2. ASSUME Raise, at # "done", ServerStays, UNCHANGED <<air, losses>>,
             replies' = replies \/ (replies # <<>> /\ replies' = Tail(replies)),
             late' \in {late, late + 1},
             \/ ~linked
             \/ at \in {"extended", "checksum"} /\ ~waiting
             \/ /\ waiting /\ replies # <<>>
                /\ ~(Good(Head(replies)) /\ (at = "precheck" => Head(replies).status = 0))
                /\ replies' = Tail(replies)
             \/ waiting /\ at # "block" /\ (late' = late => Hopeless)
      PROVE  IInv' /\ Typed' /\ Safe' /\ Abandons
  <2>1. late' \in Nat /\ losses' \in Nat BY <1>2 DEF Typed
  <2>2. /\ IInv' /\ Typed' /\ Calm /\ Coming' = Coming
        /\ Returning' = Returning \/ (Returning # <<>> /\ Returning' = Tail(Returning))
    BY <1>2, <2>1, GivesUp
  <2>3. at' \in {"default", "done"} /\ raised' # "no" /\ Reached' = Reached BY <1>2, RaiseFacts
  <2>4. /\ UNCHANGED <<inbox, requestInProgress, resp, asked, status>>
        /\ UNCHANGED <<xfer, linked, failed>>
    BY <1>2, ServerStaysFacts
  <2>5. replies # <<>> /\ replies' = Tail(replies) =>
          Returning # <<>> /\ Head(Returning) = Head(replies)
    BY <1>0, <1>2, <2>4, TakeQueues
  <2>6. Abandons BY <1>2, <2>2, <2>3, <2>4, <2>5 DEF Abandons
  <2> QED BY <1>1, <2>2, <2>6
<1>3. CASE Send
  <2>1. CASE linked
    <3>1. IInv' /\ Typed' /\ Sends /\ UNCHANGED <<failed, late, losses>> BY <1>3, <2>1, SendStep
    <3>2. TypeOK' BY <3>1 DEF IInv
    <3>3. Safe' BY <1>0, <3>1, <3>2, SendsStep
    <3> QED BY <3>1, <3>3 DEF Moves
  <2>2. CASE ~linked
    <3>1. /\ Raise /\ at # "done" /\ ServerStays /\ UNCHANGED <<air, replies, late, losses>>
      BY <1>3, <2>2 DEF Send, ServerStays, faults
    <3> QED BY <1>2, <2>2, <3>1 DEF Moves
  <2> QED BY <2>1, <2>2
<1>4. CASE LocalFailure
  <2>1. /\ Raise /\ at # "done" /\ ServerStays /\ UNCHANGED <<air, replies, late, losses>>
        /\ at \in {"extended", "checksum"} /\ ~waiting
    BY <1>4 DEF LocalFailure, ServerStays, network, faults
  <2> QED BY <1>2, <2>1 DEF Moves
<1>5. CASE TakeAnswer
  <2>1. /\ waiting /\ replies # <<>> /\ replies' = Tail(replies)
        /\ UNCHANGED <<air, failed, late, losses>> /\ ServerStays
    BY <1>5 DEF TakeAnswer, ServerStays, faults
  <2>2. at # "done" BY <2>1 DEF Typed
  <2>3. CASE Good(Head(replies)) /\ (at = "precheck" => Head(replies).status = 0)
    <3>1. /\ waiting' = FALSE /\ block' = IF at = "block" THEN block + 1 ELSE block
          /\ at' = After(Head(replies)) /\ raised' = raised
          /\ verdict' = IF at = "checksum" THEN Head(replies).status ELSE verdict
      BY <1>5, <2>3 DEF TakeAnswer
    <3>2. IInv' /\ Typed' /\ (GoesOn \/ (Calm /\ raised # "no"))
      BY <1>5, <2>3, <3>1, GoodAnswerStep
    <3>3. TypeOK' BY <3>2 DEF IInv
    <3>4. CASE GoesOn
      <4>1. Safe' BY <1>0, <3>2, <3>3, <3>4, GoesOnStep
      <4> QED BY <2>1, <3>2, <3>4, <4>1 DEF Proceeds, Moves
    <3>5. CASE Calm /\ raised # "no"
      <4>1. Safe' BY <1>1, <3>2, <3>5
      <4>2. at = "default" BY <2>2, <3>5 DEF Typed
      <4>3. at' = "done" BY <3>1, <4>2 DEF After
      <4> QED BY <2>1, <3>1, <3>2, <3>5, <4>1, <4>3 DEF Finishes, Moves
    <3> QED BY <3>2, <3>4, <3>5
  <2>4. CASE ~(Good(Head(replies)) /\ (at = "precheck" => Head(replies).status = 0))
    <3>1. Raise BY <1>5, <2>4 DEF TakeAnswer
    <3> QED BY <1>2, <2>1, <2>2, <2>4, <3>1 DEF Moves
  <2> QED BY <2>3, <2>4
<1>6. CASE Timeout
  <2>1. /\ waiting /\ late' \in {late, late + 1} /\ Retry
        /\ UNCHANGED <<air, replies, losses>> /\ ServerStays
        /\ late' = IF Hopeless THEN late ELSE late + 1
    BY <1>6 DEF Timeout, ServerStays, network
  <2>2. at # "done" BY <2>1 DEF Typed
  <2>3. late' = late => Hopeless BY <2>1 DEF Typed
  <2>4. CASE at = "block"
    <3>1. /\ IInv' /\ Typed' /\ Calm /\ Coming' = Coming /\ Returning' = Returning
          /\ UNCHANGED <<at, block, raised>> /\ waiting' = FALSE
      BY <1>6, <2>4, RetryStep
    <3>2. UNCHANGED <<xfer, linked, stored, failed>> BY <2>1, ServerStaysFacts
    <3>3. Repeats BY <2>1, <2>3, <2>4, <3>1, <3>2 DEF Repeats
    <3> QED BY <1>1, <3>1, <3>3 DEF Moves
  <2>5. CASE at # "block"
    <3>1. Raise BY <2>1, <2>5 DEF Retry
    <3> QED BY <1>2, <2>1, <2>2, <2>3, <2>5, <3>1 DEF Moves
  <2> QED BY <2>4, <2>5
<1>7. CASE ConnectionLost
  <2>1. /\ Raise /\ waiting /\ ~linked /\ ServerStays /\ UNCHANGED <<air, replies, late, losses>>
    BY <1>7 DEF ConnectionLost, ServerStays, network, faults
  <2>2. at # "done" BY <2>1 DEF Typed
  <2> QED BY <1>2, <2>1, <2>2 DEF Moves
<1> QED BY <1>3, <1>4, <1>5, <1>6, <1>7 DEF Client

LEMMA StepKinds ==
    ASSUME Base, TransferNext
    PROVE  IInv' /\ Typed' /\ Safe' /\ Moves
<1> USE DEF Base
<1>0. TypeOK BY DEF IInv
<1>1. ASSUME IInv', Typed', Calm PROVE Safe'
  <2>1. TypeOK' BY <1>1 DEF IInv
  <2> QED BY <1>0, <1>1, <2>1, CalmStep
<1>2. CASE Client BY <1>2, ClientKinds
<1>3. ASSUME NEW ev \in Events, ServeItem(ev) PROVE IInv' /\ Typed' /\ Safe' /\ Moves
  <2>1. /\ IInv' /\ Typed' /\ Serves
        /\ UNCHANGED <<late, losses>> /\ (failed => failed')
    BY <1>3, ServeItemStep
  <2>2. Safe' BY <1>0, <2>1, ServesStep
  <2> QED BY <2>1, <2>2 DEF Moves
<1>4. CASE PollItem \/ Arrive \/ TimePasses \/ ThreadEnds
  <2>1. IInv' /\ Typed' /\ Unnoticed BY <1>4, PollItemStep, ArriveStep, ClockStep
  <2>2. Safe' BY <1>1, <2>1, UnnoticedCalm
  <2> QED BY <2>1, <2>2 DEF Moves
<1>5. CASE Lose
  <2>1. /\ IInv' /\ Typed' /\ Calm /\ Returning' = Returning
        /\ Coming # <<>> /\ (Len(Coming) = 1 => Coming' = <<>>)
        /\ ServerStays /\ UNCHANGED <<at, block, waiting, raised, late>> /\ losses' > 0
    BY <1>5, LoseStep
  <2>2. UNCHANGED <<xfer, linked, stored, failed>> BY <2>1, ServerStaysFacts
  <2>3. Loses BY <2>1, <2>2 DEF Loses
  <2> QED BY <1>1, <2>1, <2>3 DEF Moves
<1>6. CASE Crash
  <2>1. /\ IInv' /\ Typed' /\ Safe' /\ ~linked' /\ ~xfer'.active
        /\ UNCHANGED <<raised, late, losses>> /\ Coming' = <<>> /\ Returning' = <<>>
    BY <1>6, CrashStep
  <2>2. Crashes BY <2>1 DEF Crashes
  <2> QED BY <2>1, <2>2 DEF Moves
<1> QED BY <1>2, <1>3, <1>4, <1>5, <1>6 DEF TransferNext, Server

-----------------------------------------------------------------------------
(***************************************************************************)
(* While no answer is late: one request at a time.                         *)
(***************************************************************************)
LEMMA SameExpected ==
    ASSUME UNCHANGED <<at, block>>
    PROVE  Expected' = Expected
BY DEF Expected, ProgramSocRequest, Plain, Routine, Item, BlockLen, BlockCount

(* The server serves the request that the client waits for. *)
LEMMA ServedAlone ==
    ASSUME Base, OneAtATime, Serves, late = 0, raised = "no"
    PROVE  /\ linked /\ waiting /\ asked = Expected /\ Coming' = <<>> /\ Returning = <<>>
           /\ Served \in Responses /\ Served.item = asked /\ Served.code = resp'
           /\ Returning' = <<Served>> /\ DOMAIN Returning' = {1} /\ Returning'[1] = Served
<1>1. TypeOK /\ Typed /\ Safe BY DEF Base, IInv
<1>2. /\ 1 \in DOMAIN Coming /\ Coming[1] = asked /\ linked /\ Coming # <<>>
      /\ Coming' = Tail(Coming) /\ Returning' = Append(Returning, Served)
      /\ Served.item = asked /\ Served.code = resp'
  BY <1>1, ServesQueues DEF Serves
<1>3. waiting /\ Coming = <<Expected>> /\ Returning = <<>>
  <2>1. waiting BY <1>2 DEF OneAtATime, Nothing
  <2> QED BY <1>2, <2>1 DEF OneAtATime, Nothing
<1>4. asked = Expected /\ asked \in Items BY <1>2, <1>3 DEF Serves
<1>5. Coming' = <<>> BY <1>2, <1>3, <1>4, SingleIs
<1>6. Served \in Responses BY DEF Served, Responses, Serves
<1>7. /\ Append(<<>>, Served) = <<Served>> /\ DOMAIN <<Served>> = 1..1 /\ <<Served>>[1] = Served
  BY <1>6, SingleIs
<1>8. DOMAIN <<Served>> = {1} BY <1>7
<1> QED BY <1>2, <1>3, <1>4, <1>5, <1>6, <1>7, <1>8

(* The client has an answer: it is the one it waits for. *)
LEMMA AnswerAlone ==
    ASSUME Base, OneAtATime, waiting, Returning # <<>>, late = 0, raised = "no"
    PROVE  /\ linked /\ Coming = <<>> /\ 1 \in DOMAIN Returning /\ Returning[1].item = Expected
           /\ Head(Returning) = Returning[1] /\ Tail(Returning) = <<>>
           /\ \A i \in DOMAIN Returning : i = 1
<1>1. TypeOK /\ Typed /\ Safe BY DEF Base, IInv
<1>2. linked BY <1>1 DEF Safe, Cut
<1>3. Coming = <<>> /\ Len(Returning) = 1 /\ Returning[1].item = Expected
  BY <1>2 DEF OneAtATime, Nothing
<1>4. Returning \in Seq(Responses) BY <1>1, QueueTypes
<1>5. /\ Head(Returning) = Returning[1] /\ 1 \in DOMAIN Returning
      /\ Tail(Returning) \in Seq(Responses) /\ Len(Tail(Returning)) = 0
      /\ DOMAIN Returning = 1..1
  BY <1>3, <1>4, TailAt
<1>6. Tail(Returning) = <<>> BY <1>5, EmptyIs
<1> QED BY <1>2, <1>3, <1>5, <1>6

(* Nobody works on an answer, but the server is there: nothing is coming. *)
LEMMA HopelessNothing ==
    ASSUME Base, Hopeless, linked, Rank(Reached) < 10
    PROVE  Nothing
<1>1. TypeOK /\ Typed /\ Safe BY DEF Base, IInv
<1>2. Rank(Reached) \in Nat BY RankIs
<1>3. serving /\ ~notReadyToReceive
  <2>1. ~(Rank(Reached) >= 10) /\ ~(Rank(Reached) >= 13) BY <1>2
  <2> QED BY <1>1, <2>1 DEF Safe, Behind
<1>4. inbox = NoRequest /\ air = <<>> /\ replies = <<>> BY <1>3 DEF Hopeless
<1>5. ~requestInProgress BY <1>1, <1>4 DEF TypeOK
<1> QED BY <1>4, <1>5 DEF Nothing, Coming, Returning

LEMMA LateGrows ==
    ASSUME Base, Moves
    PROVE  /\ late' = 0 => late = 0
           /\ losses' = 0 => losses = 0 /\ ~Loses
           /\ linked' => linked /\ ~Crashes
           /\ failed => failed' \/ ~linked'
<1>1. late \in Nat /\ losses \in Nat BY DEF Base, Typed
<1>2. late' \in {late, late + 1} \/ late' = late
  BY DEF Moves, Abandons, Proceeds, Finishes, Repeats, Loses, Unnoticed, Crashes
<1>3. Loses \/ losses' = losses
  BY DEF Moves, Abandons, Proceeds, Finishes, Repeats, Unnoticed, Crashes
<1>4. Crashes \/ linked' = linked
  BY DEF Moves, Abandons, Proceeds, Finishes, Repeats, Loses, Unnoticed, Sends, Serves, GoesOn,
     Calm, SameServer
<1>5. Crashes \/ (failed => failed')
  BY DEF Moves, Abandons, Proceeds, Finishes, Repeats, Loses, Unnoticed
<1>6. Crashes => ~linked' BY DEF Crashes
<1>7. Loses => losses' > 0 BY DEF Loses
<1>8. Loses => losses' # 0
  <2>1. SUFFICES ASSUME Loses, losses' = 0 PROVE FALSE
    OBVIOUS
  <2> QED BY <1>7, <2>1
<1> QED BY <1>1, <1>2, <1>3, <1>4, <1>5, <1>6, <1>8

LEMMA OneAtATimeStep ==
    ASSUME Base, IInv', Typed', OneAtATime, Moves
    PROVE  OneAtATime'
<1> SUFFICES ASSUME late' = 0, linked', raised' = "no"
             PROVE  IF waiting'
                    THEN \/ Coming' = <<Expected'>> /\ Returning' = <<>>
                         \/ Coming' = <<>> /\ Len(Returning') = 1 /\ Returning'[1].item = Expected'
                         \/ Nothing' /\ losses' > 0
                    ELSE Nothing'
  BY DEF OneAtATime
<1> USE DEF Nothing
<1>1. late = 0 /\ linked /\ ~Crashes BY LateGrows
<1>2. TypeOK /\ Typed /\ Safe /\ TypeOK' BY DEF Base, IInv
<1>3. CASE Sends
  <2>1. /\ waiting' = TRUE /\ ~waiting /\ raised = "no" /\ at # "done"
        /\ UNCHANGED <<at, block>>
        /\ Coming' = Append(Coming, Expected) /\ Fewer(Returning', Returning)
    BY <1>3 DEF Sends
  <2>2. Coming = <<>> /\ Returning = <<>> BY <1>1, <2>1 DEF OneAtATime
  <2>3. Expected \in Items BY <1>2, <2>1, ExpectedItem DEF Safe
  <2>4. Coming' = <<Expected>> BY <2>1, <2>2, <2>3, SingleIs
  <2>5. Returning' \in Seq(Responses) BY <1>2, NextQueueTypes
  <2>6. Returning' = <<>> BY <2>1, <2>2, <2>5, FewerEmpty
  <2> QED BY <2>1, <2>4, <2>6, SameExpected
<1>4. CASE Abandons BY <1>4 DEF Abandons
<1>5. CASE Proceeds
  <2>1. /\ waiting /\ raised = "no" /\ waiting' = FALSE /\ Returning # <<>>
        /\ Coming' = Coming /\ Returning' = Tail(Returning)
    BY <1>5 DEF Proceeds, GoesOn
  <2>2. Coming = <<>> /\ Tail(Returning) = <<>> BY <1>1, <2>1, AnswerAlone
  <2> QED BY <2>1, <2>2
<1>6. CASE Finishes BY <1>6 DEF Finishes
<1>7. CASE Repeats
  <2>1. /\ at = "block" /\ Hopeless /\ waiting' = FALSE /\ raised = "no"
        /\ Coming' = Coming /\ Returning' = Returning
    BY <1>1, <1>7 DEF Repeats
  <2>2. Reached = "block" BY <2>1 DEF Reached
  <2>3. Rank(Reached) < 10 BY <2>2, RankIs
  <2>4. Coming = <<>> /\ Returning = <<>> BY <1>1, <2>1, <2>3, HopelessNothing
  <2> QED BY <2>1, <2>4
<1>8. CASE Loses
  <2>1. /\ UNCHANGED <<at, block, waiting, raised>> /\ Returning' = Returning /\ Coming # <<>>
        /\ Len(Coming) = 1 => Coming' = <<>>
        /\ losses' > 0
    BY <1>8 DEF Loses
  <2>2. waiting /\ Coming = <<Expected>> /\ Returning = <<>> BY <1>1, <2>1 DEF OneAtATime
  <2>3. Len(<<Expected>>) = 1 OBVIOUS
  <2> QED BY <2>1, <2>2, <2>3
<1>9. CASE Unnoticed
  <2>1. /\ UNCHANGED <<at, block, waiting, raised, losses>>
        /\ Coming' = Coming /\ Returning' = Returning
    BY <1>9 DEF Unnoticed
  <2>2. Expected' = Expected BY <2>1, SameExpected
  <2> QED BY <1>1, <2>1, <2>2 DEF OneAtATime
<1>10. CASE Serves
  <2>1. UNCHANGED <<at, block, waiting, raised>> BY <1>10 DEF Serves
  <2>2. /\ waiting /\ asked = Expected /\ Coming' = <<>> /\ Served \in Responses
        /\ Served.item = asked /\ Returning' = <<Served>> /\ Returning'[1] = Served
    BY <1>1, <1>10, <2>1, ServedAlone
  <2>3. Len(<<Served>>) = 1 OBVIOUS
  <2> QED BY <2>1, <2>2, <2>3, SameExpected
<1> QED BY <1>1, <1>3, <1>4, <1>5, <1>6, <1>7, <1>8, <1>9, <1>10 DEF Moves

LEMMA RetryHealsStep ==
    ASSUME Base, OneAtATime, InSync, RetryHeals, Moves
    PROVE  RetryHeals'
<1> SUFFICES ASSUME raised' = "block", ~failed', linked', ~(late' > 0)
             PROVE  FALSE
  BY DEF RetryHeals
<1>1. TypeOK /\ Typed /\ Safe /\ late \in Nat BY DEF Base, IInv, Typed
<1>2. late' = 0
  <2>1. late' \in {late, late + 1} \/ late' = late
    BY DEF Moves, Abandons, Proceeds, Finishes, Repeats, Loses, Unnoticed, Crashes
  <2> QED BY <1>1, <2>1
<1>3. late = 0 /\ linked /\ ~Crashes /\ ~failed BY <1>2, LateGrows
<1>4. ~(late > 0) BY <1>3
<1>5. raised # "block" BY <1>3, <1>4 DEF RetryHeals
<1>6. Abandons
  <2>1. Abandons \/ raised' = raised
    BY <1>3 DEF Moves, Proceeds, Finishes, Repeats, Loses, Unnoticed, Sends, Serves, GoesOn
  <2> QED BY <1>5, <2>1
<1>7. raised = "no" /\ at = "block"
  <2>1. raised' = IF raised = "no" THEN at ELSE raised BY <1>6 DEF Abandons, Raise
  <2> QED BY <1>5, <2>1
<1>8. /\ waiting /\ Returning # <<>> /\ Head(Returning) = Head(replies)
      /\ ~Good(Head(replies))
  BY <1>3, <1>6, <1>7 DEF Abandons
<1>9. /\ 1 \in DOMAIN Returning /\ Returning[1].item = Expected /\ Head(Returning) = Returning[1]
  BY <1>3, <1>7, <1>8, AnswerAlone
<1>10. Positive(Returning[1]) BY <1>3, <1>7, <1>9 DEF InSync
<1> QED BY <1>8, <1>9, <1>10 DEF Good, Positive

(* While the application refused nothing either, the next block is accepted. *)
LEMMA BlockServedInSync ==
    ASSUME Base, OneAtATime, InSync, Serves, late = 0, ~failed', failed => failed', at = "block"
    PROVE  /\ BlockAccepted /\ asked.block = block /\ Positive(Served)
           /\ xfer'.active /\ xfer'.total = FileSize
           /\ Len(stored') = block
           /\ Len(stored') < BlockCount => xfer'.bytes = Len(stored') * BlockSize
<1>1. TypeOK /\ Typed /\ Safe BY DEF Base, IInv
<1>2. raised = "no" /\ Reached = "block" BY <1>1, AtIsReached
<1>3. /\ linked /\ asked = Expected /\ Returning = <<>>
      /\ Served \in Responses /\ Served.code = resp'
  BY <1>2, ServedAlone
<1>4. ~failed OBVIOUS
<1>5. /\ xfer.active /\ xfer.total = FileSize
      /\ Len(stored) < BlockCount => xfer.bytes = Len(stored) * BlockSize
      /\ Len(stored) = block - 1
  BY <1>3, <1>4 DEF InSync
<1>6. /\ IsBlock(asked) /\ asked.block = block /\ asked \in Items
      /\ asked.block \in 1..BlockCount
      /\ asked.req.sub = asked.block % SeqMod /\ asked.req.len = BlockLen(asked.block)
  <2>1. IsBlock(asked) /\ asked.block = block BY <1>1, <1>3, ExpectedItem DEF Safe
  <2>2. asked \in Items BY DEF Serves
  <2> QED BY <2>1, <2>2, ItemFacts
<1>7. block \in Nat /\ block \in 1..BlockCount /\ Len(stored) \in Nat /\ BlockCount \in Nat
  <2>1. Len(stored) \in Nat BY <1>1, EmptyIs DEF Typed
  <2> QED BY <1>1, <1>6, <2>1, BlockCountType DEF Typed
<1>8. xfer.seq = block % SeqMod
  <2>1. xfer.seq = (1 + Len(stored)) % SeqMod BY <1>1, <1>5 DEF Safe, InStep
  <2>2. 1 + Len(stored) = block BY <1>5, <1>7
  <2> QED BY <2>1, <2>2
<1>9. /\ BlockLen(block) \in Nat /\ (block - 1) * BlockSize \in Nat
      /\ (block - 1) * BlockSize + BlockLen(block) <= FileSize
      /\ block < BlockCount => (block - 1) * BlockSize + BlockLen(block) = block * BlockSize
  BY <1>7, BlocksFit
<1>10. xfer.bytes = (block - 1) * BlockSize
  <2>1. Len(stored) < BlockCount BY <1>5, <1>7
  <2> QED BY <1>5, <2>1
<1>11. Evaluates BY <1>5, <1>6, <1>8, <1>9, <1>10 DEF Evaluates
<1>12. ~BlockRefused BY <1>5, <1>11 DEF BlockRefused
<1>13. BlockAccepted
  <2>1. ~IsFile(asked) /\ ~IsExit(asked) BY <1>6, Kinds
  <2>2. ServeEffect BY DEF Serves
  <2> QED BY <1>6, <1>12, <2>1, <2>2
      DEF ServeEffect, FileAccepted, FileRefused, ExitAccepted, ExitRefused, OtherServed
<1>14. xfer \in Xfer BY <1>1 DEF TypeOK
<1>15. /\ xfer'.active = xfer.active /\ xfer'.total = xfer.total
       /\ xfer'.bytes = xfer.bytes + asked.req.len
  BY <1>13, <1>14 DEF BlockAccepted, Xfer
<1>16. Len(stored') = block
  <2>1. stored' = Append(stored, asked.block) BY <1>13 DEF BlockAccepted
  <2>2. asked.block \in Nat BY <1>6, <1>7
  <2>3. stored \in Seq(Nat) BY <1>1 DEF Typed
  <2>4. Len(stored') = Len(stored) + 1 BY <2>1, <2>2, <2>3, AppendAt
  <2> QED BY <1>5, <1>7, <2>4
<1>17. Len(stored') < BlockCount => xfer'.bytes = Len(stored') * BlockSize
  BY <1>6, <1>9, <1>10, <1>15, <1>16
<1>18. Positive(Served) BY <1>3, <1>13 DEF Positive, BlockAccepted
<1> QED BY <1>5, <1>6, <1>13, <1>15, <1>16, <1>17, <1>18

LEMMA InSyncStep ==
    ASSUME Base, IInv', Typed', OneAtATime, InSync, Moves
    PROVE  InSync'
<1> SUFFICES ASSUME late' = 0, linked', ~failed', at' \in {"file", "block"}
             PROVE  /\ at' = "file" =>
                         \A i \in DOMAIN Returning' : Positive(Returning'[i]) =>
                             xfer'.active /\ xfer'.total = FileSize /\ xfer'.bytes = 0
                    /\ at' = "block" =>
                         /\ xfer'.active /\ xfer'.total = FileSize
                         /\ Len(stored') < BlockCount => xfer'.bytes = Len(stored') * BlockSize
                         /\ Returning' = <<>> => Len(stored') = block' - 1
                         /\ \A i \in DOMAIN Returning' : Positive(Returning'[i])
  BY DEF InSync, Positive
<1>1. late = 0 /\ linked /\ ~failed /\ ~Crashes BY LateGrows
<1>2. TypeOK /\ Typed /\ Safe /\ TypeOK' BY DEF Base, IInv
<1>3. DOMAIN <<>> = {} OBVIOUS
<1>4. CASE Sends
  <2>1. /\ at # "done" /\ ~waiting /\ UNCHANGED <<at, block, raised, xfer, stored>>
        /\ Fewer(Returning', Returning)
    BY <1>4 DEF Sends
  <2>2. raised = "no" BY <1>2, <2>1, AtIsReached
  <2>3. Returning = <<>> BY <1>1, <2>1, <2>2 DEF OneAtATime, Nothing
  <2>4. Returning' \in Seq(Responses) BY <1>2, NextQueueTypes
  <2>5. Returning' = <<>> BY <2>1, <2>3, <2>4, FewerEmpty
  <2> QED BY <1>1, <1>3, <2>1, <2>3, <2>5 DEF InSync
<1>5. CASE Abandons BY <1>5 DEF Abandons
<1>6. CASE Proceeds
  <2>1. GoesOn BY <1>6 DEF Proceeds
  <2>2. /\ waiting /\ raised = "no" /\ Returning # <<>> /\ Head(Returning) = Head(replies)
        /\ Good(Head(replies)) /\ Returning' = Tail(Returning)
        /\ block' = (IF at = "block" THEN block + 1 ELSE block)
        /\ UNCHANGED <<xfer, stored>>
    BY <2>1 DEF GoesOn
  <2>3. /\ 1 \in DOMAIN Returning /\ Head(Returning) = Returning[1] /\ Tail(Returning) = <<>>
    BY <1>1, <2>2, AnswerAlone
  <2>4. Returning' = <<>> BY <2>2, <2>3
  <2>5. CASE at' = "file" BY <1>3, <2>4, <2>5
  <2>6. CASE at' = "block"
    <3>1. at \in {"file", "block"} BY <1>2, <2>1, <2>6, GoesOnTo DEF Early
    <3>2. Positive(Returning[1]) BY <2>2, <2>3 DEF Good, Positive
    <3>3. CASE at = "file"
      <4>1. xfer.active /\ xfer.total = FileSize /\ xfer.bytes = 0
        BY <1>1, <2>3, <3>2, <3>3 DEF InSync
      <4>2. block = 1 /\ stored = <<>>
        <5>1. Reached = "file" BY <1>2, <3>3, AtIsReached
        <5>2. Rank(Reached) <= 7 BY <5>1, RankIs
        <5> QED BY <1>2, <5>2 DEF Safe, InStep
      <4>3. Len(stored) = 0 /\ 0 * BlockSize = 0
        <5>1. Len(<<>>) = 0 OBVIOUS
        <5>2. 0 * BlockSize = 0 BY FileAssumption
        <5> QED BY <4>2, <5>1, <5>2
      <4>4. xfer.bytes = Len(stored) * BlockSize BY <4>1, <4>3
      <4>5. block' - 1 = 0 BY <2>2, <3>3, <4>2
      <4> QED BY <1>3, <2>2, <2>4, <2>6, <4>1, <4>3, <4>4, <4>5
    <3>4. CASE at = "block"
      <4>1. /\ xfer.active /\ xfer.total = FileSize
            /\ Len(stored) < BlockCount => xfer.bytes = Len(stored) * BlockSize
        BY <1>1, <3>4 DEF InSync
      <4>2. Len(stored) = block /\ block \in Nat BY <1>2, <2>1, <3>4, GoesOnTo DEF Typed
      <4>3. block' - 1 = block BY <2>2, <3>4, <4>2
      <4> QED BY <1>3, <2>2, <2>4, <2>6, <4>1, <4>2, <4>3
    <3> QED BY <3>1, <3>3, <3>4
  <2> QED BY <2>5, <2>6
<1>7. CASE Finishes BY <1>7 DEF Finishes
<1>8. CASE Repeats \/ Loses \/ Unnoticed
  <2>1. UNCHANGED <<at, block, xfer, stored>> /\ Returning' = Returning
    BY <1>8 DEF Repeats, Loses, Unnoticed
  <2> QED BY <1>1, <2>1 DEF InSync
<1>9. CASE Serves /\ UNCHANGED <<late, losses>> /\ (failed => failed')
  <2>1. UNCHANGED <<at, block, raised>> BY <1>9 DEF Serves
  <2>2. raised = "no" /\ at # "done" BY <1>2, <2>1, AtIsReached
  <2>3. /\ asked = Expected /\ Returning' = <<Served>>
        /\ Served.code = resp' /\ DOMAIN Returning' = {1} /\ Returning'[1] = Served
    BY <1>1, <1>9, <2>2, ServedAlone
  <2>4. CASE at = "file"
    <3>1. IsFile(asked) BY <1>2, <2>2, <2>3, <2>4, ExpectedItem DEF Safe
    <3>2. FileAccepted \/ FileRefused
      <4>1. ~IsBlock(asked) /\ ~IsExit(asked) BY <3>1, Kinds
      <4>2. ServeEffect BY <1>9 DEF Serves
      <4> QED BY <3>1, <4>1, <4>2
          DEF ServeEffect, BlockAccepted, BlockRefused, ExitAccepted, ExitRefused, OtherServed
    <3>3. Positive(Served) => xfer'.active /\ xfer'.total = FileSize /\ xfer'.bytes = 0
      BY <2>3, <3>2 DEF Positive, FileAccepted, FileRefused
    <3> QED BY <2>1, <2>3, <2>4, <3>3
  <2>5. CASE at = "block"
    <3>1. /\ Positive(Served) /\ xfer'.active /\ xfer'.total = FileSize /\ Len(stored') = block
          /\ Len(stored') < BlockCount => xfer'.bytes = Len(stored') * BlockSize
      BY <1>1, <1>9, <2>5, BlockServedInSync
    <3>2. Returning' # <<>> BY <1>3, <2>3
    <3> QED BY <2>1, <2>3, <2>5, <3>1, <3>2
  <2> QED BY <2>1, <2>4, <2>5
<1> QED BY <1>1, <1>4, <1>5, <1>6, <1>7, <1>8, <1>9 DEF Moves

(* While no request is lost either, the client gives up a transfer only    *)
(* when the server has closed it.                                          *)
LEMMA GivenUpClosed ==
    ASSUME Base, OneAtATime, Orderly, late = 0, losses = 0, late' = 0, raised = "no", Abandons
    PROVE  ~xfer.active /\ \A i \in DOMAIN Coming : ~IsFile(Coming[i])
<1>1. TypeOK /\ Typed /\ Safe BY DEF Base, IInv
<1>2. DOMAIN <<>> = {} OBVIOUS
<1>3. Reached = at /\ at # "done" /\ Rank(Reached) \in Nat BY <1>1, AtIsReached, RankIs DEF Abandons
<1>4. ASSUME Rank(Reached) < 7 \/ Rank(Reached) >= 10 PROVE ~xfer.active
  <2>1. CASE Rank(Reached) < 7
    <3>1. ~(Rank(Reached) >= 7) BY <1>3, <2>1
    <3> QED BY <1>1, <3>1 DEF Safe, Behind
  <2>2. CASE Rank(Reached) >= 10
    <3>1. Closed BY <1>1, <2>2 DEF Safe, ClosedAfterExit
    <3> QED BY <3>1 DEF Closed
  <2> QED BY <1>4, <2>1, <2>2
<1>5. CASE ~linked BY <1>1, <1>2, <1>5 DEF Safe, Cut
<1>6. CASE linked /\ at \in {"extended", "checksum"} /\ ~waiting
  <2>1. Coming = <<>> BY <1>6 DEF OneAtATime, Nothing
  <2>2. Rank(Reached) = 1 \/ Rank(Reached) = 10 BY <1>3, <1>6, RankIs
  <2>3. Rank(Reached) < 7 \/ Rank(Reached) >= 10 BY <2>2
  <2> QED BY <1>2, <1>4, <2>1, <2>3
<1>7. CASE /\ waiting /\ Returning # <<>> /\ Head(Returning) = Head(replies)
           /\ ~(Good(Head(replies)) /\ (at = "precheck" => Head(replies).status = 0))
  <2>1. /\ linked /\ Coming = <<>> /\ 1 \in DOMAIN Returning /\ Returning[1].item = Expected
        /\ Head(replies) = Returning[1]
    BY <1>7, AnswerAlone
  <2>2. CASE at \in {"file", "block"}
    <3>1. IsFile(Expected) \/ IsBlock(Expected) BY <1>1, <1>3, <2>2, ExpectedItem DEF Safe
    <3>2. ~Good(Returning[1]) BY <1>7, <2>1, <2>2
    <3>3. ~Positive(Returning[1]) BY <2>1, <3>2 DEF Good, Positive
    <3>4. ~xfer.active BY <2>1, <3>1, <3>3 DEF Orderly
    <3> QED BY <1>2, <2>1, <3>4
  <2>3. CASE at = "exit"
    <3>1. Expected = Plain("0x37", 0) BY <2>3, RequestIs DEF Expected
    <3>2. IsExit(Expected) BY <3>1 DEF IsExit, Plain, Item
    <3>3. ~xfer.active BY <2>1, <3>2 DEF Orderly
    <3> QED BY <1>2, <2>1, <3>3
  <2>4. CASE at \notin {"file", "block", "exit"}
    <3>1. Rank(Reached) # 7 /\ Rank(Reached) # 8 /\ Rank(Reached) # 9 BY <1>3, <2>4, RankIs
    <3>2. Rank(Reached) < 7 \/ Rank(Reached) >= 10 BY <1>3, <3>1
    <3> QED BY <1>2, <1>4, <2>1, <3>2
  <2> QED BY <2>2, <2>3, <2>4
<1>8. CASE linked /\ waiting /\ at # "block" /\ Hopeless
  <2>1. Rank(Reached) >= 10
    <3>1. SUFFICES ASSUME ~(Rank(Reached) >= 10) PROVE FALSE
      OBVIOUS
    <3>2. Rank(Reached) < 10 BY <1>3, <3>1
    <3>3. Coming = <<>> /\ Returning = <<>> BY <1>8, <3>2, HopelessNothing DEF Nothing
    <3>4. ~(losses > 0) OBVIOUS
    <3>5. <<Expected>> # <<>> /\ Len(<<>>) # 1 OBVIOUS
    <3> QED BY <1>8, <3>3, <3>4, <3>5 DEF OneAtATime
  <2>2. Rank(Reached) # 7 BY <1>3, <2>1
  <2>3. \A i \in DOMAIN Coming : ~IsFile(Coming[i]) BY <1>1, <2>2 DEF Safe, FileOnce
  <2> QED BY <1>4, <2>1, <2>3
<1>9. late' = late OBVIOUS
<1> QED BY <1>5, <1>6, <1>7, <1>8, <1>9 DEF Abandons

LEMMA ServesOrderly ==
    ASSUME Base, OneAtATime, Orderly, late = 0, losses = 0, Serves
    PROVE  /\ raised # "no" => ~xfer'.active /\ \A i \in DOMAIN Coming' : ~IsFile(Coming'[i])
           /\ raised = "no" =>
                \A i \in DOMAIN Returning' :
                    \/ IsExit(Returning'[i].item)
                    \/ (IsFile(Returning'[i].item) \/ IsBlock(Returning'[i].item))
                         /\ ~Positive(Returning'[i])
                    => ~xfer'.active
<1>1. TypeOK /\ Typed /\ Safe BY DEF Base, IInv
<1>2. /\ \A i \in DOMAIN Coming' : i + 1 \in DOMAIN Coming /\ Coming'[i] = Coming[i + 1]
      /\ 1 \in DOMAIN Coming
  BY <1>1, ServesQueues
<1>3. Coming[1] = asked /\ ServeEffect BY DEF Serves
<1>4. CASE raised # "no"
  <2>1. ~xfer.active /\ \A i \in DOMAIN Coming : ~IsFile(Coming[i]) BY <1>4 DEF Orderly
  <2>2. ~IsFile(asked) BY <1>2, <1>3, <2>1
  <2>3. ~xfer'.active
    BY <1>3, <2>1, <2>2 DEF ServeEffect, FileAccepted, FileRefused, BlockAccepted, BlockRefused,
       ExitAccepted, ExitRefused, OtherServed
  <2> QED BY <1>2, <1>4, <2>1, <2>3
<1>5. CASE raised = "no"
  <2>1. /\ Served.item = asked /\ Served.code = resp'
        /\ DOMAIN Returning' = {1} /\ Returning'[1] = Served
    BY <1>5, ServedAlone
  <2>2. IsExit(asked) => ~xfer'.active
    <3>1. IsExit(asked) => ~IsFile(asked) /\ ~IsBlock(asked) BY Kinds
    <3> QED BY <1>3, <3>1 DEF ServeEffect, FileAccepted, FileRefused, BlockAccepted, BlockRefused,
               ExitAccepted, ExitRefused, OtherServed
  <2>3. IsBlock(asked) /\ ~Positive(Served) => ~xfer'.active
    <3>1. IsBlock(asked) => ~IsFile(asked) /\ ~IsExit(asked) BY Kinds
    <3> QED BY <1>3, <2>1, <3>1 DEF ServeEffect, FileAccepted, FileRefused, BlockAccepted,
               BlockRefused, ExitAccepted, ExitRefused, OtherServed, Positive
  <2>4. IsFile(asked) /\ ~Positive(Served) => ~xfer'.active
    <3>1. IsFile(asked) => ~IsBlock(asked) /\ ~IsExit(asked) BY Kinds
    <3>2. IsFile(asked) => ~xfer.active BY <1>1, <1>2, <1>3 DEF Safe, FileOnce
    <3> QED BY <1>3, <2>1, <3>1, <3>2 DEF ServeEffect, FileAccepted, FileRefused, BlockAccepted,
               BlockRefused, ExitAccepted, ExitRefused, OtherServed, Positive
  <2> QED BY <1>5, <2>1, <2>2, <2>3, <2>4
<1> QED BY <1>4, <1>5

LEMMA OrderlyStep ==
    ASSUME Base, IInv', Typed', OneAtATime, Orderly, Moves
    PROVE  Orderly'
<1> SUFFICES ASSUME late' = 0, losses' = 0
             PROVE  /\ raised' # "no" =>
                         ~xfer'.active /\ \A i \in DOMAIN Coming' : ~IsFile(Coming'[i])
                    /\ raised' = "no" =>
                         \A i \in DOMAIN Returning' :
                             \/ IsExit(Returning'[i].item)
                             \/ (IsFile(Returning'[i].item) \/ IsBlock(Returning'[i].item))
                                  /\ ~Positive(Returning'[i])
                             => ~xfer'.active
  BY DEF Orderly, Positive, IsFile, IsBlock, IsExit
<1>1. late = 0 /\ losses = 0 /\ ~Loses BY LateGrows
<1>2. TypeOK /\ Typed /\ Safe /\ TypeOK' BY DEF Base, IInv
<1>3. DOMAIN <<>> = {} OBVIOUS
<1>4. CASE Sends
  <2>1. /\ at # "done" /\ ~waiting /\ linked /\ UNCHANGED <<at, raised, xfer>>
        /\ Coming' = Append(Coming, Expected) /\ Fewer(Returning', Returning)
    BY <1>4 DEF Sends
  <2>2. CASE raised = "no"
    <3>1. Returning = <<>> BY <1>1, <2>1, <2>2 DEF OneAtATime, Nothing
    <3>2. Returning' \in Seq(Responses) BY <1>2, NextQueueTypes
    <3>3. Returning' = <<>> BY <2>1, <3>1, <3>2, FewerEmpty
    <3> QED BY <1>3, <2>1, <2>2, <3>3
  <2>3. CASE raised # "no"
    <3>1. ~xfer.active /\ \A i \in DOMAIN Coming : ~IsFile(Coming[i]) BY <1>1, <2>3 DEF Orderly
    <3>2. at # "file" BY <1>2, <2>3 DEF Typed
    <3>3. Expected \in Items /\ ~IsFile(Expected) BY <1>2, <2>1, <3>2, ExpectedItem DEF Safe
    <3>4. Coming \in Seq(Items) BY <1>2, QueueTypes
    <3>5. \A i \in DOMAIN Coming' : ~IsFile(Coming'[i])
      <4>1. /\ DOMAIN Coming' = 1..(Len(Coming) + 1) /\ Len(Coming) \in Nat
            /\ DOMAIN Coming = 1..Len(Coming)
            /\ \A i \in DOMAIN Coming : Coming'[i] = Coming[i]
            /\ Coming'[Len(Coming) + 1] = Expected
        BY <2>1, <3>3, <3>4, AppendAt
      <4>2. \A i \in DOMAIN Coming' : i \in DOMAIN Coming \/ i = Len(Coming) + 1 BY <4>1
      <4> QED BY <3>1, <3>3, <4>1, <4>2
    <3> QED BY <2>1, <2>3, <3>1, <3>5
  <2> QED BY <2>2, <2>3
<1>5. CASE Abandons
  <2>1. raised' # "no" /\ xfer' = xfer /\ Coming' = Coming BY <1>5 DEF Abandons
  <2>2. ~xfer.active /\ \A i \in DOMAIN Coming : ~IsFile(Coming[i])
    <3>1. CASE raised = "no" BY <1>1, <1>5, <3>1, GivenUpClosed
    <3>2. CASE raised # "no" BY <1>1, <3>2 DEF Orderly
    <3> QED BY <3>1, <3>2
  <2> QED BY <2>1, <2>2
<1>6. CASE Proceeds
  <2>1. /\ waiting /\ raised = "no" /\ raised' = raised /\ Returning # <<>>
        /\ Returning' = Tail(Returning)
    BY <1>6 DEF Proceeds, GoesOn
  <2>2. Returning' = <<>> BY <1>1, <2>1, AnswerAlone
  <2> QED BY <1>3, <2>1, <2>2
<1>7. CASE Finishes
  <2>1. raised # "no" /\ raised' = raised /\ xfer' = xfer BY <1>7 DEF Finishes, Calm, SameServer
  <2>2. \A i \in DOMAIN Coming' : \E k \in DOMAIN Coming : Coming'[i] = Coming[k]
    BY <1>2, <1>7, LessQueues DEF Finishes, Calm
  <2>3. ~xfer.active /\ \A i \in DOMAIN Coming : ~IsFile(Coming[i]) BY <1>1, <2>1 DEF Orderly
  <2> QED BY <2>1, <2>2, <2>3
<1>8. CASE Repeats \/ Unnoticed
  <2>1. UNCHANGED <<raised, xfer>> /\ Returning' = Returning /\ Coming' = Coming
    BY <1>8 DEF Repeats, Unnoticed
  <2> QED BY <1>1, <2>1 DEF Orderly
<1>9. CASE Serves
  <2>1. raised' = raised BY <1>9 DEF Serves
  <2> QED BY <1>1, <1>9, <2>1, ServesOrderly
<1>10. CASE Crashes
  <2>1. ~xfer'.active /\ Coming' = <<>> /\ Returning' = <<>> BY <1>10 DEF Crashes
  <2> QED BY <1>3, <2>1
<1> QED BY <1>1, <1>4, <1>5, <1>6, <1>7, <1>8, <1>9, <1>10 DEF Moves

-----------------------------------------------------------------------------
(***************************************************************************)
(* The invariant holds.                                                    *)
(***************************************************************************)
LEMMA WireInit == TransferInit => WireInv
<1> SUFFICES ASSUME TransferInit PROVE WireInv
  OBVIOUS
<1>1. /\ at = "extended" /\ block = 1 /\ waiting = FALSE /\ raised = "no"
      /\ air = <<>> /\ replies = <<>> /\ linked = TRUE /\ status = 0
      /\ stored = <<>> /\ failed = FALSE /\ late = 0 /\ losses = 0
  BY DEF TransferInit
<1>2. /\ pc = "poll" /\ inbox = NoRequest /\ ~xfer.active /\ ~notReadyToReceive
      /\ ~requestInProgress /\ upgrade_thread_ = "none" /\ serving = TRUE
  BY DEF TransferInit, AllInit, Init, AppInit, NoTransfer
<1>3. IInv BY InitIInv DEF TransferInit
<1>4. DOMAIN <<>> = {} /\ Len(<<>>) = 0 /\ \A S : <<>> \in Seq(S) OBVIOUS
<1>5. Coming = <<>> /\ Returning = <<>> BY <1>1, <1>2 DEF Coming, Returning
<1>6. DOMAIN Coming = {} /\ DOMAIN Returning = {} /\ DOMAIN stored = {} /\ Len(stored) = 0
  BY <1>1, <1>4, <1>5
<1>7. Reached = "extended" /\ Rank(Reached) = 1 BY <1>1, RankIs DEF Reached
<1>8. Typed
  <2>1. at \in StepNames BY <1>1, StepNamesAre
  <2>2. air \in Seq(Items) /\ replies \in Seq(Responses) /\ stored \in Seq(Nat)
    BY <1>1, <1>4
  <2>3. block \in Nat \ {0} /\ status \in 0..2 /\ late \in Nat /\ losses \in Nat BY <1>1
  <2>4. waiting \in BOOLEAN /\ linked \in BOOLEAN /\ failed \in BOOLEAN BY <1>1
  <2>5. at # "done" /\ inbox = NoRequest /\ pc \in {"poll", "serve"} BY <1>1, <1>2
  <2> QED BY <1>1, <2>1, <2>2, <2>3, <2>4, <2>5, Zenon DEF Typed
<1>9. Cut /\ Behind /\ FileOnce BY <1>1, <1>2, <1>6, <1>7 DEF Cut, Behind, FileOnce
<1>10. InStep
  <2>1. 0 <= BlockCount BY BlockCountType
  <2> QED BY <1>1, <1>2, <1>6, <1>7, <2>1 DEF InStep
<1>11. ClosedAfterExit /\ Told /\ Deaf
  BY <1>1, <1>2, <1>6, <1>7 DEF ClosedAfterExit, Told, Deaf
<1>12. OneAtATime BY <1>1, <1>5 DEF OneAtATime, Nothing
<1>13. InSync /\ Orderly /\ RetryHeals
  BY <1>1, <1>2, <1>6 DEF InSync, Orderly, RetryHeals
<1> QED BY <1>3, <1>8, <1>9, <1>10, <1>11, <1>12, <1>13 DEF WireInv

LEMMA WireStep ==
    ASSUME WireInv, [TransferNext]_allOfIt
    PROVE  WireInv'
<1>1. CASE TransferNext
  <2>1. Base BY DEF WireInv, Base, Safe
  <2>2. OneAtATime /\ InSync /\ Orderly /\ RetryHeals BY DEF WireInv
  <2>3. IInv' /\ Typed' /\ Safe' /\ Moves BY <1>1, <2>1, StepKinds
  <2>4. OneAtATime' BY <2>1, <2>2, <2>3, OneAtATimeStep
  <2>5. InSync' BY <2>1, <2>2, <2>3, InSyncStep
  <2>6. Orderly' BY <2>1, <2>2, <2>3, OrderlyStep
  <2>7. RetryHeals' BY <2>1, <2>2, <2>3, RetryHealsStep
  <2> QED BY <2>3, <2>4, <2>5, <2>6, <2>7 DEF WireInv, Safe
<1>2. CASE UNCHANGED allOfIt
  <2>1. UNCHANGED <<allVars, at, block, waiting, raised, verdict, air, replies, linked,
                    asked, status, stored, failed, late, losses>>
    BY <1>2 DEF allOfIt, progsoc, network, query, faults
  <2>2. ServerStays BY <2>1 DEF ServerStays, query
  <2>3. /\ UNCHANGED <<pc, inbox, xfer, notReadyToReceive, RCRRP, requestInProgress, resp,
                       fw_filename_, fw_file_, content, upgrade_thread_, serving, exited>>
        /\ IInv'
    BY <2>2, ServerStaysFacts DEF WireInv
  <2>4. Coming' = Coming /\ Returning' = Returning BY <2>1, <2>3, SameQueues
  <2>5. Reached' = Reached /\ Rank(Reached)' = Rank(Reached) BY <2>1 DEF Reached, Rank
  <2>6. Expected' = Expected BY <2>1, SameExpected
  <2>7. Typed' BY <2>1, <2>3 DEF WireInv, Typed
  <2>8. Cut' /\ Behind' /\ FileOnce' /\ InStep'
    BY <2>1, <2>3, <2>4, <2>5 DEF WireInv, Cut, Behind, FileOnce, InStep
  <2>9. Closed' = Closed BY <2>1, <2>3 DEF Closed
  <2>10. ClosedAfterExit' /\ Told' /\ Deaf'
    BY <2>1, <2>3, <2>4, <2>5, <2>9 DEF WireInv, ClosedAfterExit, Told, Digest, Deaf
  <2>11. OneAtATime' BY <2>1, <2>4, <2>6 DEF WireInv, OneAtATime, Nothing
  <2>12. InSync' /\ Orderly' /\ RetryHeals'
    BY <2>1, <2>3, <2>4 DEF WireInv, InSync, Orderly, RetryHeals
  <2> QED BY <2>3, <2>7, <2>8, <2>10, <2>11, <2>12 DEF WireInv
<1> QED BY <1>1, <1>2

LEMMA SpecWireInv == TransferSpec => []WireInv
<1>1. WireInv /\ [TransferNext]_allOfIt => WireInv' BY WireStep
<1> QED BY <1>1, WireInit, PTL DEF TransferSpec

(* Every step over the wire is a step of the server or leaves it alone. *)
LEMMA StepOfServer ==
    ASSUME WireInv, [TransferNext]_allOfIt
    PROVE  [AllNext]_allVars
<1> USE DEF WireInv, IInv
<1>1. CASE UNCHANGED allOfIt BY <1>1 DEF allOfIt
<1>2. CASE Client \/ Lose
  <2>1. UNCHANGED allVars
    BY <1>2 DEF Client, Send, LocalFailure, TakeAnswer, Timeout, ConnectionLost, Lose
  <2> QED BY <2>1
<1>3. CASE PollItem \/ TimePasses \/ ThreadEnds \/ Crash
  BY <1>3 DEF PollItem, TimePasses, ThreadEnds, Crash, AllNext, Step
<1>4. ASSUME NEW ev \in Events, ServeItem(ev) PROVE AllNext
  BY <1>4, ServeItemServes DEF AllNext, Step
<1>5. CASE Arrive
  <2>1. air # <<>> /\ Receive(Head(air).req) /\ UNCHANGED app BY <1>5 DEF Arrive
  <2>2. Head(air) \in Items BY <2>1, TailAt, EmptyIs DEF Typed
  <2>3. Head(air).req \in Requests BY <2>2, ItemFacts
  <2> QED BY <2>1, <2>3 DEF AllNext
<1> QED BY <1>1, <1>2, <1>3, <1>4, <1>5 DEF TransferNext, Server

-----------------------------------------------------------------------------
(***************************************************************************)
(* The theorems.                                                           *)
(***************************************************************************)
(* What the server does over the wire, faults and all, it does by the      *)
(* steps of UpgradeServer.tla: what is proved of them holds here as well.  *)
THEOREM WireIsServer == TransferSpec => AllInit /\ [][AllNext]_allVars
<1>1. TransferInit => AllInit BY DEF TransferInit
<1>2. WireInv /\ [TransferNext]_allOfIt => [AllNext]_allVars BY StepOfServer
<1> QED BY <1>1, <1>2, SpecWireInv, PTL DEF TransferSpec

(* Whatever is lost, late or sent again, the server stores each block once *)
(* and in order, and upgrades with all of them, the file closed.           *)
THEOREM SpecStoredInOrder == TransferSpec => []StoredInOrder
<1>1. WireInv => StoredInOrder
  <2> SUFFICES ASSUME WireInv PROVE StoredInOrder
    OBVIOUS
  <2>1. Rank(Reached) \in Nat BY RankIs
  <2>2. upgrade_thread_ # "none" => Closed
    <3>1. SUFFICES ASSUME upgrade_thread_ # "none" PROVE Closed
      OBVIOUS
    <3>2. Rank(Reached) >= 11 BY <3>1 DEF WireInv, Behind
    <3>3. Rank(Reached) >= 10 BY <2>1, <3>2
    <3> QED BY <3>3 DEF WireInv, ClosedAfterExit
  <2> QED BY <2>2 DEF WireInv, InStep, Closed, StoredInOrder
<1> QED BY <1>1, SpecWireInv, PTL

(* A block that was lost is healed by sending it again: ProgramSoc gives   *)
(* up a transfer only over a late answer, a server that refused something, *)
(* or a connection that broke.                                             *)
THEOREM SpecRetryHeals == TransferSpec => []RetryHeals
<1>1. WireInv => RetryHeals BY DEF WireInv
<1> QED BY <1>1, SpecWireInv, PTL

(* A client that has ended leaves no transfer open on the server, unless a *)
(* message was lost or late.                                               *)
THEOREM SpecLeftOpenOnlyIfLost == TransferSpec => []LeftOpenOnlyIfLost
<1>1. WireInv => LeftOpenOnlyIfLost
  <2> SUFFICES ASSUME WireInv, at = "done", xfer.active PROVE losses + late > 0
    BY DEF LeftOpenOnlyIfLost
  <2>1. raised # "no" /\ late \in Nat /\ losses \in Nat BY DEF WireInv, Typed
  <2>2. ~(late = 0 /\ losses = 0) BY <2>1 DEF WireInv, Orderly
  <2> QED BY <2>1, <2>2
<1> QED BY <1>1, SpecWireInv, PTL

(* A file that fclose left incomplete is upgraded only after the checksum  *)
(* routine told the client.                                                *)
THEOREM SpecWarnedOfDamage == TransferSpec => []WarnedOfDamage
<1>1. WireInv => WarnedOfDamage
  <2> SUFFICES ASSUME WireInv, upgrade_thread_ # "none", exited.len # FileSize
               PROVE  verdict = 1
    BY DEF WarnedOfDamage
  <2>1. Rank(Reached) >= 11 BY DEF WireInv, Behind
  <2>2. verdict = Digest BY <2>1 DEF WireInv, Told
  <2> QED BY <2>2 DEF Digest
<1> QED BY <1>1, SpecWireInv, PTL

(* ProgramSoc ends with an exception whatever happens: a server that       *)
(* accepted the reset does not hear the session change in `finally'.       *)
THEOREM SpecNeverReturns == TransferSpec => []NeverReturns
<1>1. WireInv => NeverReturns BY DEF WireInv, Typed, NeverReturns
<1> QED BY <1>1, SpecWireInv, PTL
=============================================================================
