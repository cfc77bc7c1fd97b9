------------------------------ MODULE MCMgmtSend ------------------------------
(* MgmtSend for TLC: packets are interchangeable.                          *)
EXTENDS MgmtSend, TLC

PktSymmetry == Permutations(Pkts)
===============================================================================
