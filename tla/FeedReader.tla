------------------------------- MODULE FeedReader -------------------------------
(***************************************************************************)
(* Members who read a group's feed page by page with `paroles_client feed' *)
(* (cmd_feed of src/src/client.c) while the others go on writing: the      *)
(* cursor of the next request is the last item printed.                    *)
(*                                                                         *)
(* An answer may be cut: cmd_feed keeps 65536 bytes of it, and             *)
(* conn_read_upto gives up on a silent server; the whole items that        *)
(* arrived are printed before the command fails.  A page is therefore any  *)
(* prefix of what the server sent.                                         *)
(***************************************************************************)
EXTENDS ParolesServer

CONSTANTS Readers,   \* the users who read
          IDG        \* the group they read

ASSUME ReadersCall == Readers \subseteq Callers

VARIABLE got         \* got[r]: the items printed for reader r, in order

readerVars == <<vars, got>>

\* The cursor: the last item read, or (0, 0), the first billet, to begin with.
NUMB(r) == IF got[r] = << >> THEN 0 ELSE got[r][Len(got[r])].numb
NUMR(r) == IF got[r] = << >> THEN 0 ELSE got[r][Len(got[r])].numr

\* One run of the command: a FEED request, and as much of the answer as arrives.
cmd_feed(r) ==
    /\ handle_feed(r, IDG, NUMB(r), NUMR(r), TRUE)
    /\ \E n \in 0 .. Len(reply'.items) :
         got' = [got EXCEPT ![r] = @ \o SubSeq(reply'.items, 1, n)]

ReaderInit == Init /\ got = [r \in Readers |-> << >>]
ReaderNext ==
    \/ \E r \in Readers : cmd_feed(r)
    \/ Next /\ UNCHANGED got
ReaderSpec == ReaderInit /\ [][ReaderNext]_readerVars

\* docs/GUIDE_TEST_COMPLET_PAROLES.md:976: the cursor resumes the feed after all that
\* was already read.  Whatever was written, left, rejoined or cut between two pages, a
\* reader has seen the items that follow the first billet, in order, each once.
ReadInOrder ==
    \A s \in DOMAIN groups : groups[s].idg = IDG => \A r \in Readers :
        LET feed == groups[s].feed
        IN  got[r] # << >> => /\ Len(got[r]) < Len(feed)
                              /\ got[r] = SubSeq(feed, 2, Len(got[r]) + 1)
================================================================================
