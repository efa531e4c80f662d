-------------------------- MODULE MCScheduledRuns --------------------------
(***************************************************************************)
(* ScheduledRuns with one slot and two tasks.                              *)
(***************************************************************************)
EXTENDS ScheduledRuns
CONSTANTS a, b, a1, a2, b1
MCTaskOf == (a1 :> a) @@ (a2 :> a) @@ (b1 :> b)
=============================================================================
