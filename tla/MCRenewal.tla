----------------------------- MODULE MCRenewal -----------------------------
(* Renewal on two links of one slot, with up to two attempts.              *)
EXTENDS Renewal

CONSTANT i1
=============================================================================
