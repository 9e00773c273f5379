---------------------------- MODULE MCTurnMirror ----------------------------
(* TurnMirror on small bounds.                                             *)
EXTENDS TurnMirror
=============================================================================
