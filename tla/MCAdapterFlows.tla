--------------------------- MODULE MCAdapterFlows ---------------------------
(* Two flows over one link; the visa service may answer a request for the  *)
(* second with a visa for the first.                                       *)
EXTENDS AdapterFlows, TLC
CONSTANTS f1, f2
MCVisaFor == (f1 :> {f1}) @@ (f2 :> {f1, f2})
===============================================================================
