------------------------------ MODULE MCKeying ------------------------------
(* Keying with bounded starts of the adapter's link and failed handshakes.  *)
EXTENDS Keying
=============================================================================
