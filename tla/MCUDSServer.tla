---------------------------- MODULE MCUDSServer ----------------------------
(* Instances of UDSServer for TLC: which requests a client may send.       *)
EXTENDS UDSServer

Msg(sid, form, sub, len) ==
    [sid |-> sid, form |-> form, sub |-> sub, len |-> len, functional |-> FALSE]

(* A transfer of 2 or 4 bytes in blocks of 1 or 2, every value of the      *)
(* sequence counter, ill-formed messages of each kind, and a reset that fn *)
(* may delay like the rest.                                                *)
TransferRequests ==
    {Msg("0x38", "ok", 1, n) : n \in {2, 4}} \cup
    {Msg("0x38", "ok", 4, 4), Msg("0x34", "ok", 0, 2), Msg("0x34", "range", 0, 2),
     Msg("0x36", "short", 0, 0), Msg("0x37", "ok", 0, 0), Msg("0x11", "ok", 1, 0)} \cup
    {Msg("0x36", "ok", s, n) : s \in 0..SeqMod-1, n \in {1, 2}}

(* Sessions, resets, seed and key of one level, and one request of every   *)
(* service that keeps no state.                                            *)
ControlRequests ==
    {Msg("0x10", "ok", s, 0) : s \in {1, 2}} \cup
    {Msg("0x11", f, 1, 0) : f \in {"ok", "short"}} \cup
    {Msg("0x27", "ok", s, 4) : s \in {0, 5, 6}} \cup
    {Msg("0x3E", "ok", s, 0) : s \in {0, 1, 128}} \cup
    {Msg(sid, "ok", 1, 4) : sid \in {"0x22", "0x23", "0x2E", "0x31", "0x85", "other"}} \cup
    {[Msg("0x28", "ok", 0, 0) EXCEPT !.functional = TRUE]}

ResetRequests == {Msg("0x11", "ok", s, 0) : s \in 0..1}
=============================================================================
