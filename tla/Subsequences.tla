---------------------------- MODULE Subsequences ----------------------------
(***************************************************************************)
(* What stands in some places of a sequence, in its order.  (The erase and *)
(* remove of a vector, as the code's queues use it.)                       *)
(***************************************************************************)
EXTENDS Naturals, Sequences, FiniteSets

\* How many of the places come up to i.
Rank(at, i) == Cardinality({j \in at : j <= i})
Kept(s, at) ==
    [k \in 1 .. Cardinality(at) |-> s[CHOOSE i \in at : Rank(at, i) = k]]
=============================================================================
