-------------------------- MODULE MCUpgradeServer --------------------------
(* The instance of UpgradeServer for TLC.                                  *)
EXTENDS UpgradeServer

Msg(sid, form, sub, len) ==
    [sid |-> sid, form |-> form, sub |-> sub, len |-> len, functional |-> FALSE]

(* A file of one byte, a block in and one out of sequence, the start of    *)
(* any routine, and a reset.                                               *)
AppRequests ==
    {Msg("0x38", "ok", 1, 1), Msg("0x37", "ok", 0, 0),
     Msg("0x31", "ok", kStartRoutine, 0), Msg("0x11", "ok", 1, 0)} \cup
    {Msg("0x36", "ok", s, 1) : s \in 0..SeqMod-1}
=============================================================================
