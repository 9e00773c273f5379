--------------------------- MODULE MCProvisioning ---------------------------
(* Provisioning on small bounds.                                           *)
EXTENDS Provisioning
=============================================================================
