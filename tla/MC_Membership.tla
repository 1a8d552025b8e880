--------------------------- MODULE MC_Membership ----------------------------
(***************************************************************************)
(* Instances of Membership: pods are interchangeable, and so are handlers. *)
(***************************************************************************)
EXTENDS Membership, TLC

CONSTANTS p1, p2, w1, h1, h2

Symmetry == Permutations(Pods) \union Permutations(Handlers)
=============================================================================
