---------------------------- MODULE MC_Multipart ----------------------------
(***************************************************************************)
(* Instances of Multipart.                                                 *)
(***************************************************************************)
EXTENDS Multipart

CONSTANTS u1, u2, k1, k2

\* One part, both parts in either order, a part twice, none.
PartLists ==
  LET P(n, u) == [part |-> n, etag |-> u] IN
  {<<>>, <<P(1, u1)>>, <<P(1, u1), P(1, u1)>>, <<P(2, u2), P(1, u1)>>, <<P(1, u2)>>}
=============================================================================
