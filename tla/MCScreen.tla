------------------------------ MODULE MCScreen ------------------------------
(* Screen for TLC; the .cfg file gives its constant a value.               *)
EXTENDS Screen
=============================================================================
