---------------------------- MODULE MCConnection ----------------------------
(* Connection for TLC; the .cfg files give the constants their values.      *)
EXTENDS Connection
=============================================================================
