--------------------------- MODULE MCProvisioning ---------------------------
(* Two machines, two firmware files, and a key pair for a run after a run.  *)
EXTENDS Provisioning
=============================================================================
