-------------------------- MODULE MC_FsRepository ---------------------------
(***************************************************************************)
(* Instances of FsRepository: every transaction writes the same key, the   *)
(* case in which the files of two transactions meet.                       *)
(***************************************************************************)
EXTENDS FsRepository, TLC

CONSTANTS t1, t2, t3, k1

OneKey == [t \in Tx |-> k1]
=============================================================================
