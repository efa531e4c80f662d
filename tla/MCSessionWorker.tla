-------------------------- MODULE MCSessionWorker --------------------------
(***************************************************************************)
(* SessionWorker with one message that runs a turn, one more that steers   *)
(* it, mail, and the controls that share the slot with them.               *)
(***************************************************************************)
EXTENDS SessionWorker
=============================================================================
