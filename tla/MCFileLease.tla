---------------------------- MODULE MCFileLease ----------------------------
(***************************************************************************)
(* FileLease with an inode for every descriptor and one more for the name, *)
(* so that opening never waits for an inode.                               *)
(***************************************************************************)
EXTENDS FileLease, FiniteSets

ASSUME EnoughInodes == Cardinality(Inode) > Cardinality(Proc)
=============================================================================
