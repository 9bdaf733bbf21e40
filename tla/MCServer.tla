------------------------------- MODULE MCServer -------------------------------
(***************************************************************************)
(* ParolesServer on small tables (MCServer*.cfg), and a statement of       *)
(* the project's documents about what the server answers.                  *)
(***************************************************************************)
EXTENDS ParolesServerService

\* What the next request depends on.  reply and sent are outputs: no handler reads
\* them, and the properties about them are checked on every step.
Tables == <<users, groups, next_uid, next_gid>>

\* docs/checklist_projet_PR6.md:306, "(0,0) = tout le fil": a member who asks for the
\* feed of a group from (0,0), when it holds something and is sent, is sent all of it.
ZeroZeroIsWholeFeed ==
    [][\A uid \in Callers, idg \in Gids : \A s \in MemberOf(uid, idg) :
        LET feed == groups[s].feed
        IN  /\ feed # << >> /\ reply'.code = "FEED_OK"
            /\ handle_feed(uid, idg, 0, 0, TRUE)
            => reply'.items = feed]_vars
================================================================================
