-------------------------- MODULE MC_LeaseElection --------------------------
(***************************************************************************)
(* Small instances of LeaseElection.  Half-second ticks in the run that    *)
(* passes, so that a fractional lease duration is among them; one-second   *)
(* ticks and the constants of the code in the run that does not.           *)
(***************************************************************************)
EXTENDS LeaseElection, TLC

CONSTANTS n1, n2

PodSymmetry == Permutations(Nodes)
============================================================================
