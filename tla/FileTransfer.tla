---------------------------- MODULE FileTransfer ----------------------------
(***************************************************************************)
(* An upgrade over the wire: ProgramSoc of upgrade_client/uds_client.py    *)
(* against the server of UpgradeServer.tla as main() sets it up (class     *)
(* UpgradeServerTest).  The client is udsoncan's, outside the repository:  *)
(* one request at a time, TimeoutException when the answer does not come   *)
(* in time, another exception when it is negative or not the one expected; *)
(* before it sends it empties its receive queue.  Below are doipclient and *)
(* TCP.  A request may be lost to DoipTpAckRecv (DoIPTp.tla), an answer    *)
(* may come after the timeout, the server may be killed or lose power.     *)
(***************************************************************************)
EXTENDS UpgradeServer, Sequences

CONSTANTS
    FileSize,       \* os.path.getsize(app)
    BlockSize,      \* max_length - 2
    MaxLate,        \* bound: answers that come after the timeout
    MaxLosses,      \* bound: requests lost
    MaxCrashes      \* bound: kills and power cuts

ASSUME FileAssumption == FileSize \in Nat /\ BlockSize \in Nat \ {0}
ASSUME FaultsAssumption == MaxLate \in Nat /\ MaxLosses \in Nat /\ MaxCrashes \in Nat

VARIABLES
    at,         \* client: the step of ProgramSoc, or "done"
    block,      \* client: index + 1
    waiting,    \* client: it waits for an answer
    raised,     \* client: the step whose exception it handles, or "no"
    verdict,    \* history: what the checksum routine told the client, or -1
    air,        \* requests on their way
    asked,      \* what the request in inbox asks, see Item
    status,     \* the status record of the server's response
    replies,    \* answers on their way
    linked,     \* the connection is up
    stored,     \* history: the blocks accepted since the file was opened
    failed,     \* history: srv->fn has refused something
    late, losses, crashes

progsoc == <<at, block, waiting, raised, verdict>>
network == <<air, replies, linked>>
query   == <<asked, status>>
faults  == <<late, losses, crashes>>
allOfIt == <<allVars, progsoc, network, query, stored, failed, faults>>

(***************************************************************************)
(* ProgramSoc's requests in order.  An item is a request, the routine it   *)
(* names and the block it carries.                                         *)
(***************************************************************************)
Steps == <<"extended", "precheck", "programming", "seed", "key", "fingerprint",
           "file", "block", "exit", "checksum", "start", "progress", "reset", "default">>
StepNames == {Steps[i] : i \in DOMAIN Steps}

BlockCount == (FileSize + BlockSize - 1) \div BlockSize
BlockLen(i) == IF i * BlockSize <= FileSize THEN BlockSize ELSE FileSize % BlockSize

Item(sid, sub, len, routine, index) ==
    [req |-> [sid |-> sid, form |-> "ok", sub |-> sub, len |-> len, functional |-> FALSE],
     routine |-> routine, block |-> index]
Plain(sid, sub) == Item(sid, sub, 0, "none", 0)
Routine(sub, id) == Item("0x31", sub, 0, id, 0)

(* The counter is (index + 1) & 0xff.                                      *)
ProgramSocRequest(step, i) ==
    CASE step = "extended"    -> Plain("0x10", 3)
      [] step = "precheck"    -> Routine(kStartRoutine, "0x0203")
      [] step = "programming" -> Plain("0x10", 2)
      [] step = "seed"        -> Plain("0x27", 5)
      [] step = "key"         -> Plain("0x27", 6)
      [] step = "fingerprint" -> Plain("0x2E", 0)
      [] step = "file"        -> Item("0x38", kAddFile, FileSize, "none", 0)
      [] step = "block"       -> Item("0x36", i % SeqMod, BlockLen(i), "none", i)
      [] step = "exit"        -> Plain("0x37", 0)
      [] step = "checksum"    -> Routine(kStartRoutine, "0x0202")
      [] step = "start"       -> Routine(kStartRoutine, "0xFF02")
      [] step = "progress"    -> Routine(kRequestRoutineResults, "0xFF02")
      [] step = "reset"       -> Plain("0x11", 1)
      [] step = "default"     -> Plain("0x10", 1)
Expected == ProgramSocRequest(at, block)

(* All of them: only the blocks are told apart by an index.                *)
Items == {ProgramSocRequest(step, 1) : step \in StepNames \ {"block"}}
             \cup {ProgramSocRequest("block", i) : i \in 1..BlockCount}
ProgramSocRequests == {item.req : item \in Items}
ASSUME ClientAssumption == ProgramSocRequests \subseteq Requests

NoItem == Item("other", 0, 0, "none", 0)

TransferInit ==
    /\ AllInit
    /\ at = "extended" /\ block = 1 /\ waiting = FALSE /\ raised = "no" /\ verdict = -1
    /\ air = <<>> /\ replies = <<>> /\ linked = TRUE
    /\ asked = NoItem /\ status = 0
    /\ stored = <<>> /\ failed = FALSE
    /\ late = 0 /\ losses = 0 /\ crashes = 0

-----------------------------------------------------------------------------
(***************************************************************************)
(* The client.                                                             *)
(***************************************************************************)
(* An exception: the `finally' clause, which may raise in its turn.        *)
Raise ==
    /\ waiting' = FALSE
    /\ raised' = IF raised = "no" THEN at ELSE raised
    /\ at' = IF at = "default" THEN "done" ELSE "default"
    /\ UNCHANGED <<block, verdict>>

(* What comes after a good answer.                                         *)
After(answer) ==
    CASE at = "default"  -> "done"
      [] at \in {"file", "block"} /\ block' <= BlockCount -> "block"
      [] at \in {"file", "block"} /\ block' > BlockCount -> "exit"
      [] at = "progress" /\ answer.status = 2 -> "progress"
      [] OTHER -> Steps[1 + CHOOSE i \in DOMAIN Steps : Steps[i] = at]

(* send_request, on a queue emptied of the answers that have arrived.      *)
Send ==
    /\ at # "done" /\ ~waiting
    /\ IF linked
       THEN /\ air' = Append(air, Expected)
            /\ \E n \in 0..Len(replies) : replies' = SubSeq(replies, n + 1, Len(replies))
            /\ waiting' = TRUE
            /\ UNCHANGED <<at, block, raised, verdict>>
       ELSE Raise /\ UNCHANGED <<air, replies>>
    /\ UNCHANGED <<allVars, linked, query, stored, failed, faults>>

(* The file, or its .md5, cannot be read.                                  *)
LocalFailure ==
    /\ at \in {"extended", "checksum"} /\ ~waiting
    /\ Raise
    /\ UNCHANGED <<allVars, network, query, stored, failed, faults>>

(* udsoncan compares the echoed service, sub-function, counter and routine.*)
Good(answer) ==
    /\ answer.code = kPositiveResponse
    /\ answer.item.req.sid = Expected.req.sid
    /\ answer.item.req.sub = Expected.req.sub
    /\ answer.item.routine = Expected.routine

TakeAnswer ==
    LET answer == Head(replies) IN
    /\ waiting /\ replies # <<>>
    /\ replies' = Tail(replies)
    /\ IF Good(answer) /\ (at = "precheck" => answer.status = 0)
       THEN /\ waiting' = FALSE
            /\ block' = IF at = "block" THEN block + 1 ELSE block
            /\ at' = After(answer)
            /\ verdict' = IF at = "checksum" THEN answer.status ELSE verdict
            /\ UNCHANGED raised
       ELSE Raise
    /\ UNCHANGED <<allVars, air, linked, query, stored, failed, faults>>

(* Mutant: after a timeout the next block is sent.                         *)
GoOn ==
    IF at = "block"
    THEN waiting' = FALSE /\ block' = block + 1 /\ UNCHANGED <<at, raised, verdict>>
    ELSE Raise

(* TimeoutException: a block is sent again, with the same counter.         *)
Retry ==
    IF at = "block"
    THEN waiting' = FALSE /\ UNCHANGED <<at, block, raised, verdict>>
    ELSE Raise

(* Nobody works on the answer any more.                                    *)
Hopeless ==
    /\ air = <<>> /\ replies = <<>>
    /\ inbox = NoRequest \/ notReadyToReceive \/ ~serving

Timeout ==
    /\ waiting
    /\ Hopeless \/ late < MaxLate
    /\ late' = IF Hopeless THEN late ELSE late + 1
    /\ Retry
    /\ UNCHANGED <<allVars, network, query, stored, failed, losses, crashes>>

(* The connection breaks.                                                  *)
ConnectionLost ==
    /\ waiting /\ ~linked
    /\ Raise
    /\ UNCHANGED <<allVars, network, query, stored, failed, faults>>

-----------------------------------------------------------------------------
(***************************************************************************)
(* The network and the server.                                             *)
(***************************************************************************)
others == <<progsoc, linked, crashes>>

(* A request that is received before DoipTpAckRecv of the one before is    *)
(* discarded with it.                                                      *)
Lose ==
    /\ air # <<>> /\ losses < MaxLosses
    /\ air' = Tail(air) /\ losses' = losses + 1
    /\ UNCHANGED <<allVars, progsoc, replies, linked, query, stored, failed, late, crashes>>

Arrive ==
    /\ air # <<>>
    /\ Receive(Head(air).req) /\ UNCHANGED app
    /\ asked' = Head(air) /\ air' = Tail(air)
    /\ UNCHANGED <<progsoc, replies, linked, status, stored, failed, faults>>

HandleRoutine(ev) ==
    \/ asked.routine = "0x0202" /\ CheckSum(inbox, ev)
    \/ asked.routine = "0x0203" /\ ev = kPositiveResponse /\ UNCHANGED app
    \/ asked.routine = "0xFF02" /\ UpgradeFw(inbox, ev)

(* Mutant: UpgradeServerT5, whose thread stays joinable.                   *)
QueryUpgradeProgressT5 == IF upgrade_thread_ # "none" THEN 2 ELSE 0

(* upgrading_ of UpgradeServerTest.                                        *)
QueryUpgradeProgress == IF upgrade_thread_ = "running" THEN 2 ELSE 0

(* Mutant: the digests are not compared.                                   *)
StatusRecordOk ==
    IF asked.routine = "0xFF02" /\ inbox.sub = kRequestRoutineResults
    THEN QueryUpgradeProgress ELSE 0

(* The status record of a routine's response.                              *)
StatusRecord ==
    CASE asked.routine = "0x0202" -> IF content[fw_filename_] = FileSize THEN 0 ELSE 1
      [] asked.routine = "0xFF02" /\ inbox.sub = kRequestRoutineResults -> QueryUpgradeProgress
      [] OTHER -> 0

ServeItem(ev) ==
    /\ serving /\ PollNewRequest(ev)
    /\ IF inbox.sid = "0x31" THEN HandleRoutine(ev) ELSE ProcessUdsEvent(inbox, ev)
    /\ status' = StatusRecord
    /\ stored' = IF ev # kPositiveResponse THEN stored
                 ELSE IF inbox.sid = "0x38" THEN <<>>
                 ELSE IF inbox.sid = "0x36" THEN Append(stored, asked.block) ELSE stored
    /\ failed' = (failed \/ ev \notin {kPositiveResponse, NoEvent})
    /\ UNCHANGED <<progsoc, network, asked, faults>>

(* Poll, and the response on its way if it was sent.                       *)
PollItem ==
    /\ Poll
    /\ replies' = IF inbox # NoRequest /\ inbox' = NoRequest
                  THEN Append(replies, [item |-> asked, code |-> resp, status |-> status])
                  ELSE replies
    /\ UNCHANGED <<progsoc, air, linked, query, stored, failed, faults>>

TimePasses ==
    /\ Tick /\ UNCHANGED app
    /\ UNCHANGED <<progsoc, network, query, stored, failed, faults>>

ThreadEnds ==
    /\ UpgradeEnds
    /\ UNCHANGED <<progsoc, network, query, stored, failed, faults>>

Crash ==
    /\ crashes < MaxCrashes /\ crashes' = crashes + 1
    /\ Kill \/ PowerCut
    /\ air' = <<>> /\ replies' = <<>> /\ linked' = FALSE
    /\ UNCHANGED <<progsoc, query, stored, failed, late, losses>>

Client == Send \/ LocalFailure \/ TakeAnswer \/ Timeout \/ ConnectionLost
Server == PollItem \/ \E ev \in Events : ServeItem(ev)

TransferNext ==
    \/ Client
    \/ Server
    \/ Lose \/ Arrive
    \/ TimePasses \/ ThreadEnds
    \/ Crash

(* The client runs and its timeout comes, the server polls, the network    *)
(* delivers, time passes, the upgrade takes its five minutes.              *)
TransferFairness ==
    /\ WF_allOfIt(Client) /\ WF_allOfIt(Server)
    /\ WF_allOfIt(Arrive) /\ WF_allOfIt(TimePasses) /\ WF_allOfIt(ThreadEnds)

TransferSpec == TransferInit /\ [][TransferNext]_allOfIt /\ TransferFairness

-----------------------------------------------------------------------------
(***************************************************************************)
(* Properties.                                                             *)
(***************************************************************************)
(* Whatever is lost, late or sent again, the server stores each block once *)
(* and in order, and what the upgrade thread is started with is all of     *)
(* them, closed.                                                           *)
StoredInOrder ==
    /\ \A i \in DOMAIN stored : stored[i] = i
    /\ upgrade_thread_ # "none" => Len(stored) = BlockCount /\ fw_file_ = NoHandle

(* Sending a block again heals a lost request: it costs the transfer only  *)
(* when the first answer was merely late (the server has advanced its      *)
(* counter and refuses the block), or the server failed.                   *)
RetryHeals == raised = "block" => late > 0 \/ failed \/ ~linked

(* A client that has ended leaves no transfer open on the server, which    *)
(* would refuse the next RequestFileTransfer, unless a message was lost or *)
(* late.                                                                   *)
LeftOpenOnlyIfLost == at = "done" /\ xfer.active => losses + late > 0

(* A file that fclose left incomplete is upgraded, but not without the     *)
(* client having been told by the checksum routine.                        *)
WarnedOfDamage ==
    upgrade_thread_ # "none" /\ exited # NotExited /\ exited.len # FileSize => verdict = 1

(* ProgramSoc never returns: after the reset it accepted the server is     *)
(* deaf, and the session change in `finally' raises.                       *)
NeverReturns == at = "done" => raised # "no"

(* ProgramSoc ends, whatever is lost or late.                              *)
ProgramSocEnds == <>(at = "done")
=============================================================================
