----------------------------- MODULE ChronoService -----------------------------
(***************************************************************************)
(* The tables of a delivered server as the people who use it see them, and *)
(* the statement that every delivery implements ParolesService, the        *)
(* service the last server implements too (ParolesServerService).          *)
(*                                                                         *)
(* Deliveries 24 and 25 keep no feed.  What people know of the thread is   *)
(* then what they were answered: `thread' records it, for every delivery.  *)
(***************************************************************************)
EXTENDS ChronoServer

VARIABLE thread   \* thread[idg]: the posts and replies acknowledged, in order

Acknowledged(r) == [author |-> r.to, numb |-> r.numb, numr |-> r.numr]
Records ==
    thread' = IF reply'.code \in {"POST_OK", "REPLY_OK"}
              THEN [thread EXCEPT ![reply'.idg] = Append(@, Acknowledged(reply'))] ELSE thread

service_vars == <<chrono_vars, thread>>
ServiceInit == ChronoInit /\ thread = [idg \in Gids |-> << >>]
ServiceNext == ChronoNext /\ Records
ServiceSpec == ServiceInit /\ [][ServiceNext]_service_vars

\* What people see of a group: before delivery 18, when nobody could be invited, the
\* one who made it.
Circle(g) == [admin |-> g.admin_id, address |-> g.named, closed |-> g.closed,
              members |-> IF delivery < 18 /\ g.named THEN {g.admin_id} ELSE g.mem,
              invited |-> g.pend, thread |-> thread[g.idg],
              topics |-> [i \in DOMAIN g.posts |-> g.posts[i].author]]

CirclesSeen == [s \in DOMAIN groups |-> Circle(groups[s])]
UsersSeen == {users[i] : i \in DOMAIN users}
AnswerSeen == [granted |-> reply.code \notin {"NONE", "ERR"}, idg |-> reply.idg,
               numb |-> reply.numb, numr |-> reply.numr, items |-> reply.items]

Service == INSTANCE ParolesService
    WITH People <- Callers \cup 1 .. MAX_USERS,
         Nobody <- 0,
         CircleNumbers <- 1 .. MAX_GROUPS,
         ReplyNumbers <- 1 .. MaxReplies,
         Capacity <- MAX_GM,
         registered <- UsersSeen, circles <- CirclesSeen,
         answer <- AnswerSeen, told <- sent

(***************************************************************************)
(* Properties                                                              *)
(***************************************************************************)
\* Whatever a delivery serves, it serves as the last server does: each request is a
\* request of the same service, up to the crash that ends the server, and up to the size
\* of its lists.  Nothing it refuses leaves a trace people can see, but an INVITE or a
\* creation, as the service says.
DeliveriesImplementService == Service!Spec

\* From delivery 26 on, the feed is what was acknowledged: every post and reply answered
\* OK is in it once, in the order of the answers, and nothing else is, although a failed
\* allocation may have undone a request half-way.
FeedIsAcknowledged ==
    delivery >= 26 => \A s \in DOMAIN groups : groups[s].feed = thread[groups[s].idg]
================================================================================
