---------------------------- MODULE MCAudioRecv ----------------------------
(* AudioRecv on small bounds.                                              *)
EXTENDS AudioRecv
=============================================================================
