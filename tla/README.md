# TLA+ models of ecu_upgrade_framework

`ecu_upgrade_framework` upgrades the firmware of ECUs and SOCs over UDS (ISO 14229):
`upgrade_server` runs on the device and serves UDS requests that reach it through DoIP,
`upgrade_client` runs on a tester and drives the upgrade. This directory holds
specifications of the parts that carry the logic, the model-checking runs over them, and
machine-checked proofs. Paths are relative to the repository's root.

## 1. Inventory

| component | source | state | operations |
|---|---|---|---|
| UDS server | `upgrade_server/src/iso14229.c` 918-1931, `include/iso14229.h` | session, security level, transfer counters, reset schedule, `RCRRP`, `requestInProgress`, five deadlines | `UDSServerInit`, `UDSServerPoll`, one handler per service |
| transport contract | `iso14229.h` 260-305 | one message slot | `peek`, `ack_recv`, `send` |
| DoIP transport | `upgrade_server/src/doiptp.cpp` | `recv_buf_`, `recv_len_`, `acked_len_`, `connection_`, two threads | `ReceiveFromLibrary`, `DoipTpPeek`, `DoipTpAckRecv`, `DoipTpSend`, `ListenTcp` |
| upgrade application | `upgrade_server/src/upgrade_server.cpp`, `main.cpp` | `seed_`, `fw_filename_`, `fw_file_`, `upgrade_thread_`, files | one handler per server event, `RequestUpgradeFw`, `QueryUpgradeProgress`, `RebootDevice` |
| security algorithm | `security_alg/src/security_alg.c` | none | `seedToKey` |
| client sequences | `upgrade_client/uds_client.py` | progress, connection | `ProgramSoc`, `ProgramEcu`, `DownLoadFW`, `ExecRoutine` |
| client orchestration | `upgrade_client/ecu_modules.py`, `upgrade_job.py` | per module: upgrading, done, success, job | `Modules.upgrade`, `Module.upgrade`, `UpgradeJob.run` |
| UDS client library in C | `iso14229.c` 10-906 | request state, error, timings, download sequence | `UDSClientPoll`, `UDSSend...`, `UDSConfigDownload`; nothing in the repository calls it |
| ISO-TP links, CAN transport | `iso14229.c` 2041-2497, 2967-3499 | a sending and a receiving half per link, one buffer for both links | `isotp_poll`, `isotp_on_can_message`, `SocketCANRecv`, `tp_peek`, `tp_ack_recv`; compiled with `UDS_TP_ISOTP_C...` |
| kernel ISO-TP and mock transports | `iso14229.c` 2500-2965 | | the former is compiled (`UDS_TP_ISOTP_SOCK`), `main()` uses neither |
| libdoip, udsoncan, doipclient | not in the repository (libdoip: headers only) | | |

How they interact. `main()` starts the DoIP threads, initialises the server and then
calls `UDSServerPoll` every millisecond. A receiver thread of `DoIPTp` puts a message
into the shared buffer; the poll peeks at it, evaluates it through the service handlers,
which call the application (`srv->fn`) synchronously, and leaves a response in the send
buffer. A later poll sends it, once `p2_timer` has expired, and calls `ack_recv`. The
application opens, writes and closes the firmware file from these calls and starts a
thread for the upgrade itself. On the tester `Modules.upgrade` makes a job per module;
a job is a thread that runs `ProgramSoc` or `ProgramEcu`, one UDS request at a time through
udsoncan and doipclient.

What is hard:

* two threads over one buffer whose lock does not cover the evaluation;
* a request that is evaluated again in each poll while the application answers 0x78;
* deadlines against each other (reset against response, boot delay against failure delay);
* a transfer whose state is spread over the server's counters and the application's file,
  with error paths in both;
* kill and power loss between a positive response and the medium;
* retries of the client against a server that has already acted;
* a client that connects anew while the old connection is in use;
* segmented messages over a bus that loses frames, two links on one buffer;
* a scheduler whose rounds are cut short by exceptions while its jobs run on.

What makes the parts correct. Server: counters follow the accepted blocks, the response
tells what happened, key attempts are limited, the reset follows the response and comes,
every request is answered. Transport: the contract of `UDSTpHandle`. Application: its
file is the server's transfer, and what was closed stays. Client: an upgrade that is
reported as successful was transferred, verified and started, and the upgrade ends.
ISO-TP: a message arrives whole or not at all, and a link does not stay busy.

`PROJECT.json` lists the components with their status, and the hazards with the lines
where they bite.

## 2. Modules

| module | models | extends |
|---|---|---|
| `UDSServer` | services and poll loop; `srv->fn` open (any answer in `Answers`) | |
| `UDSServer_proofs` | theorems about it | `UDSServer`, `TLAPS` |
| `MCUDSServer` | the requests of the runs | `UDSServer` |
| `UDSClock` | the 32-bit clock and `UDSTimeAfter`, with theorems | `TLAPS` |
| `UpgradeServer` | the application in the place of `srv->fn`, files, kill, power cut | `UDSServer` |
| `UpgradeServer_proofs` | theorems about it | `UpgradeServer`, `UDSServer_proofs` |
| `MCUpgradeServer` | the requests of the run | `UpgradeServer` |
| `FileTransfer` | `ProgramSoc` over a network that loses and delays, against the server | `UpgradeServer` |
| `FileTransfer_proofs` | theorems about it | `FileTransfer`, `UpgradeServer_proofs` |
| `UpgradeModules` | the scheduler of the client and its jobs | |
| `UpgradeModules_proofs` | theorems about it | `UpgradeModules`, `TLAPS` |
| `Mailbox` | the transport contract (abstract) | |
| `DoIPTp` | receiver thread and main thread over the buffer; refines `Mailbox` | |
| `DoIPTp_proofs` | theorems about it, and the refinement | `DoIPTp`, `TLAPS` |
| `IsoTp` | an ISO-TP link over CAN, with the server's peek and ack | |
| `IsoTp_proofs` | theorems about it | `IsoTp`, `TLAPS` |
| `UDSClient` | the C client: one request, the download sequence; a server and a transport that may fail it | |
| `UDSClient_proofs` | theorems about it | `UDSClient`, `TLAPS` |
| `MCUDSClient` | the requests and options of the runs | `UDSClient` |

### UDSServer

The variables carry the names of the fields of `UDSServer_t`; `xfer` groups the four
`xfer*` fields, `timer` the deadlines as ticks left (0: `UDSTimeAfter` is true).
`pc` splits `UDSServerPoll` where time may pass within it: the timers at the start
(`PollTimers`), the evaluation (`PollNewRequest`, `PollPending`), the comparison with
0x78 (`PollEvaluated`), the response (`PollWait`, `PollRespond`). A whole service handler
is one step: it runs without interruption and reads the clock a few instructions apart.
A request is reduced to what the handlers read of it: service, whether it is well formed
("short", "range"), byte 1, a length, functional or physical addressing. Responses are
reduced to their code, or `NoResponse`. The answer of `srv->fn` is the parameter `ev` of
each service; `NoEvent` says that the service decided without calling it, `Insufficient`
that it answered positively but copied too little.

Three variables are history: `blocks` (blocks accepted in the transfer), `fails` and `age`
(failed keys, and ticks since boot).

### UpgradeServer

Every handler `Handle...` is an operator that says which answer it gives and what it does;
`Serve(ev)` is the server's step and the handler's in one. A file is the number of leading
bytes of the transfer that truncated it last; `fw_file_.buffered` is what stdio holds
back, `synced` the files that are on the medium. `fwrite` may pass on any part and may be
short, `fclose` may lose what it could not write (its result is not looked at),
`fopen` may fail. `serving = FALSE` stands for a process that terminated
(`std::terminate` on the second upgrade thread; the exception in `calcFileChecksum`) or
that waits for ever (md5sum without a file name). `Kill` starts a new process over the
same files, `PowerCut` also loses what was not synced; both are possible in every state,
and so is an orderly stop, which ends in `std::terminate` because the static `DoIPTp`
still has joinable threads, so that stdio is not flushed either.
`RebootsDevice` selects the class: `UpgradeServerT5` reboots, `UpgradeServerTest` does not.

### FileTransfer

The server here is `UpgradeServer` with the class `main()` installs (`UpgradeServerTest`);
`ServeItem` and `PollItem` are its `Serve` and `Poll` with what this module adds: the
routine a request names, the status record of the response, and the histories. `at` is the
statement of `ProgramSoc` the client is at, `block` the loop's `index + 1`. udsoncan is
outside the repository and modelled as `ProgramSoc` relies on it: it empties its queue
before it sends (of the answers that have arrived, any number), and raises if the answer is
late, negative, or does not echo the service, sub-function, counter or routine. Only
`transfer_data` catches `TimeoutException` and sends again; every other exception runs the
`finally` clause, which sends once more and may raise in its turn. `air` and `replies`
are what is under way, in order. `Items` are all the requests `ProgramSoc` makes for the
file at hand; the server's `Requests` must contain them. A request may be lost to `ack_recv` (`Lose`: this is the
finding of `doip_prompt`), an answer may come after the timeout, and a crash breaks the
connection. One attempt of `ProgramSoc` is modelled.

### UpgradeModules

One step per iteration of the loops of `Modules.upgrade` and of `upgrade_module`, whose
recursion is the variable `calls`; the dependencies of a module are visited in any order.
An exception anywhere in a round leads to `NextRound(TRUE)`, as the `except` clause does.
The dependency graph is chosen in `Init`, cyclic ones included. A job ends with a result,
assigned in two steps, or never; its constructor may raise. In the repository the
constructor always raises: `Module.upgrade` passes `{"MODULE_PARAM": ...}` where it reads
`params["data_path"]`. Nor does anything start the thread; and `ProgramSoc`, which never
returns (see `NeverReturns`), would kill it. So today the loop runs for ever in the case
`Lost` of the model, and the other cases are those of a job that works.

### IsoTp

`out` is the sending half of the tester's link, `recv` and `func` the receiving halves of
the server's two links, named as the fields of `IsoTpLink`. A message is a number and a
size in cells; the first frame carries one cell, each consecutive frame one. Every frame,
and every flow control frame, may be lost, and writing one may fail; a receiver of another
make may ask to wait. `reader` is `UDSServerPoll` between peek and ack. Functional
messages are single frames. The frames are handled in the tick in which they were sent,
and the timers are the code's, in ticks.

### DoIPTp and Mailbox

Messages are numbers with a length in cells; the copy into the buffer and the
evaluation's reads go cell by cell, since only the former is under `buf_guard_`. Three
kinds of client: *slow* (sends when the server has come back from `ack_recv`), *prompt*
(sends when it has the response), *impatient* (may give up waiting, send again, or connect
anew). `ListenTcp` replaces `connection_` when it takes the next connection (`Accept`),
between two steps of the main thread's `DoipTpSend`: a response sent on the freed object
goes astray, reaches the new client, or kills the process. `Mailbox` is what `iso14229.h`
promises; `DoIPTp` refines it for the slow client only. A message may be longer than
`recv_buf_` (`BufLen`): nobody compares the two, the copy goes on behind the buffer
(`CopyPastEnd`), and from there on (`poll = "overrun"`) the code does not say what the
process does, so the model takes no further step of it. Any request may have been an
ECUReset that is accepted: the server then stays `deaf`, as the one `main()` installs does
(`NeverReturns`), and never peeks again, while the receiver thread goes on.
`UDSServer` relies on `Mailbox` (`Receive` needs an empty slot).

### UDSClient

`client` is `UDSClient_t` with the fields of the download sequence it points to. One call
of `UDSClientPoll` does a step of the request, and in the same call may run a callback
that sends the next request and does that request's first step; so the steps are
operators from a client (with its transport) to the next one, and `ClientPoll` composes
them as the code does. Between two polls the user may send a request (`UserSend`), call a
`UDSSend...` that refuses its arguments after it has cleared the error
(`UserSendRejected`), or configure a download. A message is the service, byte 1 (with bit
7, which a suppressed request sets), whether it is long enough, and the number of the
request it is or answers; the client cannot see that number, `taken` records it. The
server answers requests in order, at any time, and may send 0x78, refuse, cut the answer
short or lose it; the transport and the reading of the file may fail. The length of a
block is what the server announces, cut to the 16 bits of the sequence's field
(`DataLength`), less the two bytes in front of the data.
`UDSClientAwaitIdle` is only called when the client is idle and has no error, where it
always goes to the next callback.

## 3. Runs

| run | instance | shows |
|---|---|---|
| `server_transfer` | 2-4 bytes in blocks of 1-2, counter modulo 3, an ECUReset; fn may answer 0x78 | `TypeOK`, `XferConsistent`, `XferSequence`, `ReplyTellsTransfer`, `Answered`, `DeafForGood` |
| `server_control` | sessions, reset, seed and key, one request of each stateless service; delays of 1-2 ticks | `AttemptsRateLimited`, `ResetFollowsResponse`, `ResetHappens` |
| `server_reset_type` | reset types 0 and 1 | violation of `AcceptedResetIsScheduled` |
| `doip_buffer` | 3 messages of 1-3 cells, a buffer of 2, slow client or impatient one with two in flight and three connections | `TypeOK`, `InOrderAtMostOnce`, `OneStaleAnswer`, `ImplementsMailbox`, `NothingStuck` |
| `doip_prompt` | 3 messages, prompt client | violation of `AckDiscardsOnlyProcessed` |
| `upgrade_app` | two files of 1 byte, a block in and one out of sequence, routines, reset, kill, power cut | `AppTypeOK`, `FileFollowsTransfer`, `ExitedFileKept`, `HeardAgain` |
| `file_transfer` | 5 bytes in blocks of 2, counter modulo 2; two late answers, one lost request, one crash | `StoredInOrder`, `RetryHeals`, `LeftOpenOnlyIfLost`, `WarnedOfDamage`, `NeverReturns`, `ProgramSocEnds` |
| `upgrade_modules` | all graphs over 3 modules, recursion limit of 4 calls | `DependenciesFirst`, `HonestEnd`, `UpgradeEnds` |
| `iso_link` | messages of 1, 4 and 5 cells into a buffer of 4, blocks of 2, sequence numbers modulo 2, two faults, two waits | `TypeOK`, `WholeMessages`, `FlowRespected`, `NeverTwice`, `LinksEnd`, `Delivered` |
| `client_requests` | 3 requests, one fault, one 0x78, P2 0 and P2* 1 tick | `TypeOK`, `OwnAnswer`, `AnswersInOrder`, `RequestEnds` |
| `client_idle` | 1 request, one fault | violation of `IdleMeansIdle` |
| `client_download` | file of 3 cells in blocks of 1 or 2, 2 requests of the user, one fault, one 0x78 | `FileInOrder`, `CompletedMeansStored`, `DownloadEnds` |

Bounds. `SeqMod` 3 (2 with the application) instead of 256 makes the block counter wrap
within a transfer; the theorems hold for every width. Two files are enough for "another
file"; one byte is enough for a write that fails, one that stdio holds back and one that
`fclose` loses, and `file_transfer` has three blocks with a short last one. `MaxLag`
bounds the ticks between two polls, `MaxAge` the time in which failed keys are counted
(the delays are 1 tick, so four failures fit). Two cells give a message shorter than the
one before it, and a copy that is half done; a third cell gives one that does not fit the
buffer; three connections let a response outlive one
and a half. A file of 3 cells gives a short last block and, with blocks of one cell, an
empty last block and a counter that wraps, a length that is cut to fewer bits gives shorter
blocks than the server announced; three requests let a late answer displace two.
With `SeqMod` 2 a block that is sent twice has the counter of the block after the next, two
late answers let the client fall behind by more than one. Three modules give chains,
diamonds short of one, and cycles of every length a cycle can have there; the recursion
limit must exceed the number of modules, as 1000 does. Sequence numbers modulo 2 with
blocks of 2 are the tightest form of 8 <= 16 (with longer blocks than sequence numbers a
loss does go unnoticed); a message of 5 cells does not fit the buffer. Deadlock is checked
in every run but those whose system ends: the process of `DoIPTp` may die, `ProgramSoc`
and `Modules.upgrade` end.

Fairness. `main()` polls for ever (weak fairness of the poll's steps), the clock advances
(`Tick`), both threads of `DoIPTp` run. `Answered` also assumes that the application does
not answer 0x78 for ever: each time a pending request is evaluated it may decide, and it
eventually does (strong fairness of `FnDecides`). `HeardAgain` assumes that a reboot
that was ordered comes. The user of the C client polls
for ever and a transmission ends; its server need not answer. `ProgramSoc` runs, its
timeout comes, and the network delivers what is not lost; the loop of `Modules.upgrade`
runs, and a job that ends, ends in time. Both ends of the ISO-TP link poll, the bus
delivers, and a request is answered. Testers, losses, kill and power cut are owed nothing.

Findings.

1. `DoIPTp` discards a request that arrives between the response and `ack_recv`: the
   header promises that no message is received before `ack_recv`, and that what is
   acknowledged has been processed; the receiver thread looks at neither.
2. `ECUReset` of type 0 is answered positively and makes the server deaf, but is not
   scheduled, because the type itself is the flag `ecuResetScheduled`.
3. `UDSClientPoll` of the C client returns `UDS_CLIENT_IDLE` after a failed send although
   it sends the request again in the next poll and waits for the response: the header says
   that value means idle.

What the passing runs say that a user may not expect. `ProgramSoc` never returns: the
server is deaf after the reset it accepted, and the session change in `finally` raises
(`NeverReturns`). A damaged file is upgraded; the client has only been told
(`WarnedOfDamage`). A transfer that the client abandons stays active on the server, which
refuses the next one (`LeftOpenOnlyIfLost`). `UpgradeServerT5` never reports the end of an
upgrade (it is the mutant of `ProgramSocEnds`).

Limits of properties that hold. `WholeMessages` and `NeverTwice` of `IsoTp` are about physical
requests: `tp_ack_recv` empties only the physical link, so a functional request is peeked
at again in every poll, and may be overwritten by a physical one. `Delivered` needs a tester
that waits until the server is done with the previous message. `DeafForGood` leaves out a
reset that was itself pending: its `notReadyToReceive` is cleared when it stops being so
(`iso14229.c:1876`), and the server hears requests until the reset comes; nothing in the
repository says it must not, and its application never answers 0x78. `ResetFollowsResponse`
and `ResetHappens` are about such applications (`server_control`), and the former needs a
power-down time of at least P2 and one poll: the
application's 500 ms is, the library's default of 10 ms is not.
`TypeOK` of `DoIPTp` does not say that `recv_buf_` is never overrun: `doiptp.cpp:162` has no
check, libdoip passes on what its header allows, and the property only says that it takes a
message longer than `UDS_TP_MTU`. `NothingStuck` holds while the server listens: a message
that comes after an accepted reset stays in the buffer for ever (with
`UpgradeServerTest`), and none is promised after an overrun. `InOrderAtMostOnce` looks at
the first cell of what was evaluated: a request that is evaluated from the bytes of two
counts as the one its first byte is of; only for the slow client are all bytes of one message
(`ImplementsMailbox`). `FileInOrder` and
`CompletedMeansStored` need `UDS_NEG_RESP_IS_ERR` among the default options (without it a
refused block goes unnoticed), a user that sends nothing while `err` is set (any later
request clears it, and the sequence goes on behind the block that failed), and a user that
does not set `UDS_SUPPRESS_POS_RESP` for its own requests meanwhile: `options` is reset
only by a poll that starts idle, so a block may be sent with the user's options, which
sets bit 7 of its counter.

## 4. Proofs

Every theorem holds for all values of the constants, under the assumptions that the
component's module names; TLC evaluates those in the runs. Each follows from an inductive
invariant that TLC has checked on a small instance first; a lemma per action shows that the
step preserves it.

`UDSServer_proofs`, from `DurationsAssumption` and the assumptions on the sets of requests
and answers:

* `TypeCorrect`: `TypeOK`. One lemma per service gives the types it leaves.
* `TransferBounded` (`XferConsistent`), `BlocksCounted` (`XferSequence`) and
  `TransferToldTruly` (`ReplyTellsTransfer`), from the lemma `TransferInvariant`.
  They are not inductive alone: a block that fn keeps pending is evaluated again, and the
  argument needs where the poll is (`Flow`: a request is in progress in the states that
  respond, and `RCRRP` is exactly "the last answer was 0x78" outside the short window of
  `PollEvaluated`). The modular counter is carried by two lemmas on `%`.
* `KeysRateLimited`: `AttemptsRateLimited`. The strengthening bounds the time already
  waited plus what is left on the two timers, by the number of failures.
* `ResetOrderly` (`ResetFollowsResponse`), under the
  assumption on `Answers` and `PowerDown` given above (`ResetAssumption`). The strengthening
  relates what is left on `ecuReset` to what is left on `p2` while the response is owed.
* `ResetsAreFinal` (`ResetIsFinal`, the safety half of `DeafForGood`), for every set
  `Answers`, with 0x78 or without: a server that is deaf with no request pending is deaf for
  good, since only a pending request takes the deafness back and only a server that listens
  can get one. That `RCRRP` is clear outside a pending request is part of `TransferInv`.

`UpgradeServer_proofs`, of `AllSpec` (the server, its application, kills, power cuts and
reboots), from `FilesAssumption`:

* `AppTypeCorrect` (`AppTypeOK`), `FileFollows` (`FileFollowsTransfer`) and `ExitedKept`
  (`ExitedFileKept`). The invariant adds to them that this application never leaves a
  request pending (`~RCRRP`: otherwise a block would be written twice), that a file that is
  open has been truncated and not lost since, and that a file closed by an exit is synced
  and not the one that is open. The server's half of each handler comes from the lemmas of
  `UDSServer_proofs`.

`UpgradeModules_proofs`, from `SizeAssumption` (the recursion limit is above the number of
modules), for every graph, cyclic ones too:

* `UpgradesInOrder` (`DependenciesFirst`): a call whose `ready` is still true has looked only
  at dependencies that are done (`CallsRight`), a module is done when its job is
  (`JobsAccounted`), and the first failure is remembered and ends the visits
  (`ErrorsKept`): so what is done and not failed has succeeded.
* `EndsHonestly` (`HonestEnd`): `ChecksRight` says what `all_done` has seen of the modules
  that the round has checked.

`DoIPTp_proofs`, from `BoundsAssumption`, for every number of messages, cells and
connections, every kind of client and every interleaving of the two threads:

* `TypeCorrect` (`TypeOK`): with `ConnsCounted` (the server is behind by as many connections
  as there are ends of streams on the wire) and `CellsWritten` (what may be read has been
  written). No bound on the length of a request is assumed: one that is longer than the
  buffer is the only way to the overrun.
* `EvaluatesInOrder` (`InOrderAtMostOnce`): the identities in the wire, in the copy and in
  the buffer's first cell are ordered (`Ordered`), and what is in the buffer when the server
  may peek at it is newer than all it has evaluated (`EvaluatedOnce`). That evaluation reads
  without the lock does no harm to this, since the first cell only becomes newer.
* `StaleAnswersBounded` (`OneStaleAnswer`): behind the last end of a stream there are only
  the new connection's messages, and once the client has heard one answer to an old
  request, neither the buffer nor the evaluation holds another one after `ack_recv`
  (`AnswersBounded`).
* `MeetsContract` (`ImplementsMailbox`): `PublishMessage` is `Deliver`, `Evaluate` is
  `Process`, `AckRecv` is `AckRecv`, every other step stutters. `SlowClient` (one message at a
  time, and all cells of the buffer are its) makes it so.

`UDSClock` proves that this abstraction of time is sound, for the words of 32 bits the code
has: `DeadlineHeld` (for 2^31 ms behind a deadline, `UDSTimeAfter` says exactly whether it
has passed) and `DeadlineComesBack` (behind that it lies in the future again). The argument
divides the start by 2^32 and follows the residues; it assumes that the signed subtraction
wraps, as it does in the project's build (no optimisation; the standard leaves it open).

`UDSClient_proofs`, for every file size, block length, counter width and number of requests:

* `SpecTypeOK` (`TypeOK`), `SpecOwnAnswer` (`OwnAnswer`) and `SpecAnswersInOrder`
  (`AnswersInOrder`), for every set of options and whatever the user sends, from
  `OrderInv`. A first part says of each operator what can come out of it (a poll waits,
  rests, gives up, sends, receives, takes an answer, ...), so that the rest need not look
  at `ClientPoll` again. The numbers of the final answers in the inbox, of the requests the
  server owes an answer and of the request on its way increase along that line (`Line`),
  and what was taken lies below all of them (`TakenInOrder`).
* `SpecFileInOrder` (`FileInOrder`) and `SpecCompletedMeansStored`
  (`CompletedMeansStored`), from `DownloadInv` and under `DownloadAssumption`, which is
  the condition on options and user given above: `UDS_NEG_RESP_IS_ERR` is set, responses are
  not suppressed and requests not functional, and the user sends nothing while `err` is set
  (`Careful`) and none of the services of the download. The run `client_download` meets
  it. The invariant says that one request at a time is on its way, owed, answered or lost
  (`OneRequest`), and that the file has been read up to the last block stored, or up to the
  block in transit (`Sequence`).

`IsoTp_proofs`, from the assumptions of `IsoTp` (a block is no longer than the sequence
numbers reach: 8 and 16 in the code), for every size of the buffer, number of messages,
losses and waits:

* `SpecTypeOK` (`TypeOK`), `SpecWholeMessages` (`WholeMessages`), `SpecNeverTwice`
  (`NeverTwice`) and `SpecFlowRespected` (`FlowRespected`), from `LinkInv`. A message is
  received whole although frames are lost because the receiver sees a gap in the sequence
  numbers, unless the gap is a whole turn of them. That it never is needs where the right to
  send the next block is: it is a token that one place holds, a first frame or the last
  frame of a block on the bus, the receiver that will answer it, a flow control frame on its
  way back, or `bs_remain`. `Announced`, `Answered`, `Allowed` and `Arriving` say in which
  places the two ends stand then; so all frames on the bus are within one block of what was
  received, and there a number stands for one place (`SameInWindow`).

`FileTransfer_proofs`, of `TransferSpec`, for every size of the file and of the blocks, every
counter width, any answers of the application and any number of losses, late answers and
crashes, from the assumptions of `UpgradeServer` and that its `Requests` contain those of
`ProgramSoc`:

* `WireIsServer`: a step over the wire is a step of `UpgradeServer` or leaves it alone. So
  the invariant of `UpgradeServer_proofs` holds here, and is used.
* `SpecStoredInOrder` (`StoredInOrder`), `SpecWarnedOfDamage` (`WarnedOfDamage`) and
  `SpecNeverReturns` (`NeverReturns`), from the part `Safe` of the invariant `WireInv`. What
  is under way is seen as two queues: `Coming`, the requests that the server has not
  evaluated (in the air or in its inbox), and `Returning`, the answers that the client has
  not taken. Every request has a rank, the step that makes it, and nothing that the server
  holds is of a higher rank than the step the client has come to (`Behind`); so after a late
  answer, a retry or an exception, what arrives is of the past. `InStep` says that the blocks
  coming are in order, none older than the last one stored, and that the server is at the
  client's block or the one before: a block that is sent twice carries the counter of the
  last one stored, which differs from the next (the width is at least 2), and is refused.
  `FileOnce` says that `RequestFileTransfer`, which would truncate the file, is made once;
  `ClosedAfterExit`, that the file is complete and closed from the positive answer to the
  exit on, which the upgrade thread needs; `Told`, that `verdict` is what that file's digest
  gives; `Deaf`, that a client past the reset talks to a server that does not listen.
* `SpecRetryHeals` (`RetryHeals`), from `OneAtATime` and `InSync`: as long as no answer was
  late, nothing is under way but the request the client waits for, or it was lost; and as
  long as the application refused nothing either, the server's counter, byte count and
  total are those the client's next block needs (`BlocksFit` is the arithmetic of the short
  last block).
* `SpecLeftOpenOnlyIfLost` (`LeftOpenOnlyIfLost`), from `Orderly`: without a loss and
  without a late answer, the answers that make the client give up a transfer are those of a
  server that has ended it, and no `RequestFileTransfer` is left to open another.

The proofs of a step sort the actions by what they do to the two queues (`Calm`, `Sends`,
`GoesOn`, `Serves`, `Crash`): most of them change nothing that the invariant looks at.

Only model-checked: all liveness (`Answered`, `ResetHappens`, `HeardAgain`, `NothingStuck`,
`RequestEnds`, `DownloadEnds`, `LinksEnd`, `Delivered`, `ProgramSocEnds`, `UpgradeEnds`), which
needs fairness and ENABLED and stays with TLC. Every other property of a passing run is
proved.

## 5. Not modelled

* Steps of the wall clock (`UDSMillis` is `gettimeofday`).
* Transport errors: `send` failing is only reported to the application, which has no
  handler for it.
* What libdoip, udsoncan and doipclient do beyond what the code relies on; the UDP thread.
* Contents of data identifiers; `seed_` and `seedToKey` (the value of a key matters to no
  property, and nothing says what it should be).
* The bytes of the C client's requests, and block lengths that come to less than 3 (an
  `assert` ends the process) or to more than `send_buf` has room for: `fread`
  (`iso14229.c:522`) is not bounded by `send_buf_size`, and what this repository's server
  announces, at most `UDS_TP_MTU`, fits the `send_buf_` of `DoIPTp` and not that of the ISO-TP
  transports in the project's build (`FileAssumption`).
* An error return of `PreRequestCheck` in the callbacks of the download, which ignore it
  (`iso14229.c:260-266`): it takes a client without a transport, or a `get_send_buf` that
  fails, and each one in the repository returns the size of a member.
* What a process does after `recv_buf_` was written past its end.
* `ProgramEcu`, `DownLoadFW` and `ExecRoutine`: they talk to an ECU with RequestDownload,
  which this server refuses; the ECU is not in the repository.
* A second attempt of `ProgramSoc` over the same server, and requests whose bytes mix in
  `DoIPTp`'s buffer, in `FileTransfer`.
* ISO-TP with STmin other than 0 or BlockSize 0, functional messages of several frames, a
  late evaluation's second read of `recv_buf`; the kernel's ISO-TP and the mock transport
  (test equipment, which drops a message when the receiver's buffer is in use).
* The hex file parser, which wraps a library.

## 6. Plan

The safety properties and the refinement of `Mailbox` are proved; what could follow:

1. `WireIsServer` over `DoIPTp`: a transport in `FileTransfer` whose requests are lost
   because of `ack_recv` and not by choice.
2. An abstract specification of the transfer (a file that is absent, open with the blocks
   stored so far, or closed), which `FileTransfer` implements step by step.
3. The properties of `UDSServer` that need `ResetAssumption`, for an application that
   answers 0x78.
