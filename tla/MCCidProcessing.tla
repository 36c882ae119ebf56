-------------------------- MODULE MCCidProcessing --------------------------
(* Model-checking instances of the processing-group clean-up. *)
EXTENDS CidProcessing
=============================================================================
