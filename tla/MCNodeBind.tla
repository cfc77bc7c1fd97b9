------------------------------ MODULE MCNodeBind ------------------------------
(* NodeBind for TLC: two adapters, a visa for each direction.              *)
EXTENDS NodeBind

CONSTANTS a, b, v1, v2, l1, l2

MCRoute == [v \in Visas |-> IF v = v1 THEN <<a, b>> ELSE <<b, a>>]
===============================================================================
