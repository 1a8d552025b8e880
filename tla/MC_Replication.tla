--------------------------- MODULE MC_Replication ---------------------------
(***************************************************************************)
(* Instances of Replication: requests for one key.                         *)
(***************************************************************************)
EXTENDS Replication, TLC

CONSTANTS f1, f2, t1, t2, k1, h1, h2

OneKey == [t \in Tx |-> k1]
HandlerEach == h1 :> f1 @@ h2 :> f2
OnFirst == [h \in Syncs |-> f1]
FollowerSymmetry ==
  {[x \in {f1, f2, h1, h2} |-> x], f1 :> f2 @@ f2 :> f1 @@ h1 :> h2 @@ h2 :> h1}
HandlerSymmetry == Permutations(Syncs)
============================================================================
