-------------------------------- MODULE MCZdpr --------------------------------
(* Zdpr for TLC: packets are interchangeable.                              *)
EXTENDS Zdpr, TLC

PktSymmetry == Permutations(Pkts)
===============================================================================
