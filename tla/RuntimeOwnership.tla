-------------------------- MODULE RuntimeOwnership --------------------------
(***************************************************************************)
(* What the lease of a session promises to everything else: at any moment  *)
(* at most one process owns the session's runtime files, and only the      *)
(* owner touches the socket its clients connect to.  FileLease shows that  *)
(* the open / flock / lstat protocol of include/core/lease.h keeps it.     *)
(***************************************************************************)
CONSTANTS Proc,     \* the processes that may own the session
          Nobody    \* no process, not in Proc

VARIABLES owner,    \* the process that owns the session's files
          socket    \* the process whose listener the socket path names

vars == <<owner, socket>>

Init == owner = Nobody /\ socket = Nobody

\* An owner comes only when there is none.
Claim(p) == owner = Nobody /\ owner' = p /\ UNCHANGED socket

\* Only the owner makes or removes the socket.
Touch(p) == owner = p /\ socket' \in {p, Nobody} /\ UNCHANGED owner

\* It leaves, cleanly or not: a crash leaves its socket behind.
Leave(p) == owner = p /\ owner' = Nobody /\ UNCHANGED socket

Next == \E p \in Proc : Claim(p) \/ Touch(p) \/ Leave(p)

Spec == Init /\ [][Next]_vars
=============================================================================
