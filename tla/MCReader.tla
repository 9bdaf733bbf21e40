-------------------------------- MODULE MCReader --------------------------------
(* FeedReader on one small group: see MCReader.cfg. *)
EXTENDS FeedReader

Tables == <<users, groups, next_uid, next_gid, got>>
================================================================================
