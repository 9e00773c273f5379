------------------------------ MODULE MCMotion ------------------------------
(* Motion for TLC; the .cfg files give the constants their values.          *)
EXTENDS Motion
=============================================================================
