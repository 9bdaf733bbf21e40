-------------------------------- MODULE MCServe --------------------------------
(* ParolesServe with a few clients: see MCServe*.cfg. *)
EXTENDS ParolesServe
================================================================================
