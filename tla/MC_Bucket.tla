----------------------------- MODULE MC_Bucket ------------------------------
(***************************************************************************)
(* Instances of Bucket: the keys a, b/1, b/2, c and prefixes "", "b".      *)
(***************************************************************************)
EXTENDS Bucket

CONSTANTS t1, t2, B

Prefixes == [k \in Keys |-> IF k \in {2, 3} THEN B ELSE None]
Whole == {Keys, Keys \intersect {2, 3}}
=============================================================================
