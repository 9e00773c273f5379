------------------------------- MODULE MCOta -------------------------------
(* Ota for TLC; the .cfg file gives the constants their values.            *)
EXTENDS Ota
=============================================================================
