----------------------------- MODULE MCDownlink -----------------------------
(* Downlink for TLC; the .cfg files give the constants their values.        *)
EXTENDS Downlink
=============================================================================
