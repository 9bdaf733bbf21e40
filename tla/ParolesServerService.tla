-------------------------- MODULE ParolesServerService --------------------------
(***************************************************************************)
(* The tables of the server as the people who use it see them, and the     *)
(* statement that the server implements ParolesService.                    *)
(*                                                                         *)
(* The entry a failed creation leaves in groups[] is an abandoned circle.  *)
(* Its administrator is the number 0, which no user has, and which a       *)
(* request may carry to a server without authentication.                   *)
(***************************************************************************)
EXTENDS ParolesServer

\* What people see of a group.
Circle(g) == [admin |-> g.admin_id, address |-> g.named, closed |-> g.closed,
              members |-> g.mem, invited |-> g.pend, thread |-> g.feed,
              topics |-> [i \in DOMAIN g.posts |-> g.posts[i].author]]

\* Ids are given in slot order (SlotsNumbered): the circle numbered s is in slot s.
CirclesSeen == [s \in DOMAIN groups |-> Circle(groups[s])]
UsersSeen == {users[i] : i \in DOMAIN users}
AnswerSeen == [granted |-> reply.code \notin {"NONE", "ERR"}, idg |-> reply.idg,
               numb |-> reply.numb, numr |-> reply.numr, items |-> reply.items]

Service == INSTANCE ParolesService
    WITH People <- Callers \cup 1 .. MAX_USERS,
         Nobody <- 0,
         CircleNumbers <- 1 .. MAX_GROUPS,
         ReplyNumbers <- 1 .. MaxReplies,
         Capacity <- MAX_USERS + 1,   \* more than there are: mem and pend grow
         registered <- UsersSeen, circles <- CirclesSeen,
         answer <- AnswerSeen, told <- sent

\* The server implements the service: whatever sequence of requests it is sent, by whomever,
\* every one is answered, and announced, as some request of the service is, and a refused
\* request (an INVITE, a creation or a post apart, for what the service says of them) leaves
\* no trace people can see, up to the request that ends the process (Nameless).
ImplementsService == Service!Spec
================================================================================
