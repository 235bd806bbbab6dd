---------------------------- MODULE MCUDSClient ----------------------------
(***************************************************************************)
(* Values for UDSClient's constants.                                       *)
(***************************************************************************)
EXTENDS UDSClient

(* The service whose response is compared with the request, with two       *)
(* values of what is compared.                                             *)
Resets == {[sid |-> "ECUReset", sub |-> 1], [sid |-> "ECUReset", sub |-> 3]}
ResetOptions == {{}, {"SUPPRESS_POS_RESP"}, {"FUNCTIONAL"}}

(* The service whose response changes the client's timings.                *)
Sessions == {[sid |-> "DiagnosticSessionControl", sub |-> 2]}
SessionOptions == {{"NEG_RESP_IS_ERR"}, {"NEG_RESP_IS_ERR", "IGNORE_SRV_TIMINGS"}}
SlowerServer == {[p2 |-> 1, p2Star |-> 1]}

NegRespIsErr == {"NEG_RESP_IS_ERR"}
NoOptions == {}
NoTimings == {}
NoBlockLengths == {}

(* None, one, two, and one cell in a length that is cut (LengthMod = 6).   *)
AnyBlockLengths == {0, 1, 2, 7}
=============================================================================
