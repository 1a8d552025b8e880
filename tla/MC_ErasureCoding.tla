-------------------------- MODULE MC_ErasureCoding --------------------------
(***************************************************************************)
(* Instances of ErasureCoding: two data shards, one parity shard, and as   *)
(* many nodes as shards.                                                   *)
(***************************************************************************)
EXTENDS ErasureCoding, TLC

CONSTANTS f1, f2, t1, t2, t3

\* Followers are interchangeable, and so are PUTs.
CodingSymmetry ==
  {p @@ q : p \in Permutations(Followers), q \in Permutations(Tx \ Deletes)}
============================================================================
