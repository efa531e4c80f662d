--------------------------- MODULE MCSessionMove ---------------------------
(***************************************************************************)
(* SessionMove with a conversation and one agent that works in a folder of *)
(* its own, a process that opens them, a fault and kills.                  *)
(***************************************************************************)
EXTENDS SessionMove
=============================================================================
