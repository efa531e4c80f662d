----------------------------- MODULE MCMailbox -----------------------------
(***************************************************************************)
(* Mailbox with a report its sender names and may send again, an unnamed   *)
(* message, and a window too small for both.                               *)
(***************************************************************************)
EXTENDS Mailbox

\* Every message says something of its own.
OwnBody == [m \in Mail |-> m]
=============================================================================
