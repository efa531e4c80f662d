--------------------------- MODULE MCEventFanout ---------------------------
(* EventFanout with queues of three frames and a client that is slow, is   *)
(* dropped and joins again.                                                *)
EXTENDS EventFanout
=============================================================================
