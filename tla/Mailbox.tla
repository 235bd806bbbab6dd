------------------------------ MODULE Mailbox ------------------------------
(***************************************************************************)
(* What iso14229.h:284-304 promises of a transport (UDSTpHandle: peek and  *)
(* ack_recv): one slot, whose message does not change from the moment it   *)
(* can be peeked at until it is acknowledged, and which every message      *)
(* leaves after having been processed exactly once.  UDSServer.tla relies  *)
(* on it.                                                                  *)
(***************************************************************************)
EXTENDS Sequences

CONSTANTS Messages, None

VARIABLES
    slot,       \* the message that can be peeked at
    processed,  \* the messages the server has processed, in order
    taken       \* the message in the slot has been processed

vars == <<slot, processed, taken>>

Init == slot = None /\ processed = <<>> /\ taken = FALSE

Deliver(m) ==
    /\ slot = None
    /\ slot' = m
    /\ UNCHANGED <<processed, taken>>

Process ==
    /\ slot # None /\ ~taken
    /\ processed' = Append(processed, slot)
    /\ taken' = TRUE
    /\ UNCHANGED slot

AckRecv ==
    /\ taken
    /\ slot' = None /\ taken' = FALSE
    /\ UNCHANGED processed

Next == (\E m \in Messages : Deliver(m)) \/ Process \/ AckRecv

Spec == Init /\ [][Next]_vars
=============================================================================
