---------------------------- MODULE MCVoiceTurn -----------------------------
(* VoiceTurn for TLC; the .cfg files give the constants their values.       *)
EXTENDS VoiceTurn
=============================================================================
