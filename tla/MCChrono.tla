-------------------------------- MODULE MCChrono --------------------------------
(* The delivered servers on small tables: see MCChrono.cfg. *)
EXTENDS ChronoService

\* What the next request depends on.
Tables == <<users, groups, next_uid, next_gid, delivery, array, up, thread>>
================================================================================
