------------------------------ MODULE MCStorage ------------------------------
(* Values for TLC.  *)
EXTENDS Storage
=============================================================================
