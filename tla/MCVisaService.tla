---------------------------- MODULE MCVisaService ----------------------------
(* VisaService for TLC.                                                     *)
EXTENDS VisaService, TLC
===============================================================================
