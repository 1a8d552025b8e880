---------------------------- MODULE MC_WriteGate ----------------------------
(***************************************************************************)
(* Instances of WriteGate: two client writes and three sync handlers, two  *)
(* of them for the same node, as when a follower whose sync request was    *)
(* cut off asks again while the first handler still runs.                  *)
(***************************************************************************)
EXTENDS WriteGate, TLC

CONSTANTS w1, w2, s1, s2, s3, n1, n2

HandlerNodes == s1 :> n1 @@ s2 :> n1 @@ s3 :> n2
OneHandler == s1 :> n1
============================================================================
