------------------------------ MODULE MCUplink ------------------------------
(* Uplink on small bounds.                                                 *)
EXTENDS Uplink
=============================================================================
