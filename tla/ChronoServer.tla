------------------------------ MODULE ChronoServer ------------------------------
(***************************************************************************)
(* The program as it was delivered, step by step, in                       *)
(* Projets/CHRONO_livrable_68/16 to 33: one server and one client each,    *)
(* over clear TCP, the request codes arriving one or two at a time.        *)
(*                                                                         *)
(* A behaviour is the server of one delivery, asked commands by the        *)
(* clients of any delivery.  What these servers share with the last one is *)
(* written with the operators of ParolesServer; their handlers differ in   *)
(* that they close the connection without a word where the last one sends  *)
(* ERR (reply.code = "ERR" here too), that their lists have a fixed size,  *)
(* and that they undo a post or reply they could not keep.                 *)
(***************************************************************************)
EXTENDS ParolesServer

CONSTANTS
    Deliveries,          \* servers started, among 16 .. 33
    Clients,             \* clients used, among 16 .. 33
    MAX_GM,              \* size of mem[] and pend[]: 512, for 1024 users
    MAX_POSTS_PER_GROUP

ASSUME Delivered == Deliveries \subseteq 16 .. 33 /\ Clients \subseteq 16 .. 33
ASSUME ListSizes == MAX_GM \in Nat \ {0} /\ MAX_POSTS_PER_GROUP \in Nat

VARIABLES
    delivery,  \* the delivery whose server runs
    array,     \* of each group: is feed[] allocated, "none", "held" or "lost"
    up,        \* the server process exists
    ran        \* the last command typed, whether the client knew it and exited with 0

chrono_vars == <<vars, delivery, array, up, ran>>

(***************************************************************************)
(* Requests on the wire: a code, and the widths in bytes of the fields     *)
(* after it.                                                               *)
(***************************************************************************)
Each(w) == -w   \* items of w bytes, as many as the field before says
Req(code, fields) == [code |-> code, fields |-> fields]

\* A table with the entries of another after its own (TLC's @@, which the proof system
\* does not expand).
f ++ g == [x \in DOMAIN f \cup DOMAIN g |-> IF x \in DOMAIN f THEN f[x] ELSE g[x]]

(***************************************************************************)
(* The requests serve_one_codereq() of each delivery knows, and the fields *)
(* it reads; at any other code it closes the connection.                   *)
(***************************************************************************)
serve_16 == [REG |-> <<10, 113>>, NEW_GROUP |-> <<4, 2, Each(1)>>]
serve_17 == serve_16
serve_18 == serve_17
serve_19 == serve_18 ++ [INVITE |-> <<4, 4, 4, Each(8)>>]
serve_20 == serve_19 ++ [LIST_INV |-> <<4>>]
serve_21 == serve_20 ++ [INV_ANS |-> <<4, 4, 1>>]
serve_22 == serve_21
serve_23 == serve_22 ++ [LIST_MEM |-> <<4, 4>>]
serve_24 == serve_23 ++ [POST |-> <<4, 4, 2, Each(1)>>]
serve_25 == serve_24 ++ [REPLY |-> <<4, 4, 4, 2, Each(1)>>]
serve_26 == serve_25 ++ [FEED |-> <<4, 4, 4, 4>>]
serve_27 == serve_26
serve_28 == serve_27
serve_29 == serve_28
serve_30 == serve_29
serve_31 == serve_30
serve_32 == serve_31
serve_33 == serve_32

Serves(d) == <<serve_16, serve_17, serve_18, serve_19, serve_20, serve_21, serve_22,
               serve_23, serve_24, serve_25, serve_26, serve_27, serve_28, serve_29,
               serve_30, serve_31, serve_32, serve_33>>[d - 15]

(***************************************************************************)
(* What the cmd_*() functions of each client send.                         *)
(***************************************************************************)
sends_16 == [reg |-> Req("REG", <<10, 113>>), newgroup |-> Req("NEW_GROUP", <<4, 2, Each(1)>>)]
sends_17 == sends_16
sends_18 == sends_17
sends_19 == sends_18 ++ [invite |-> Req("INVITE", <<4, 4, 4, Each(8)>>)]
sends_20 == sends_19 ++ [listinv |-> Req("LIST_INV", <<4>>)]
sends_21 == sends_20 ++ [ans |-> Req("INV_ANS", <<4, 4, 1>>)]
sends_22 == sends_21
sends_23 == sends_22 ++ [listmem |-> Req("LIST_MEM", <<4, 4>>)]
sends_24_Bare == sends_23 ++ [post |-> Req("POST", <<4, 4, Each(1)>>)]   \* a slip: no length
sends_24 == sends_23 ++ [post |-> Req("POST", <<4, 4, 2, Each(1)>>)]
sends_25 == sends_24 ++ [reply |-> Req("REPLY", <<4, 4, 4, 2, Each(1)>>)]
sends_26 == sends_25 ++ [feed |-> Req("FEED", <<4, 4, 4, 4>>)]
sends_27 == sends_26
sends_28 == sends_27
sends_29 == sends_28
sends_30 == sends_29
sends_31 == sends_30
sends_32 == sends_31
sends_33 == sends_32

Sends(c) == <<sends_16, sends_17, sends_18, sends_19, sends_20, sends_21, sends_22,
              sends_23, sends_24, sends_25, sends_26, sends_27, sends_28, sends_29,
              sends_30, sends_31, sends_32, sends_33>>[c - 15]

(***************************************************************************)
(* The commands main() of each client knows, with the numbers of words it  *)
(* accepts after the command (a text may be several).  Anything else only  *)
(* connects, hangs up and exits with 0.                                    *)
(***************************************************************************)
Words == 0 .. 5           \* bound: words typed after a command
AtLeast(n) == n .. 5

main_16 == [reg |-> AtLeast(1), newgroup |-> AtLeast(2)]
main_17 == main_16
main_18 == main_17
main_19 == main_18 ++ [invite |-> AtLeast(3)]
main_20 == main_19 ++ [listinv |-> {1}]
main_21 == main_20 ++ [ans |-> {3}]
main_22 == main_21
main_23 == main_22 ++ [listmem |-> {2}]
main_24 == main_23 ++ [post |-> AtLeast(3)]
main_25 == main_24 ++ [reply |-> AtLeast(4)]
main_26 == main_25 ++ [feed |-> {4}]
main_27 == main_26
main_28 == main_27
main_29 == main_28
main_30 == main_29
main_31 == main_30
main_32 == main_31
main_33 == main_32

Knows(c) == <<main_16, main_17, main_18, main_19, main_20, main_21, main_22,
              main_23, main_24, main_25, main_26, main_27, main_28, main_29,
              main_30, main_31, main_32, main_33>>[c - 15]

(***************************************************************************)
(* What each command takes for an answer: it exits with 0 then, if it can  *)
(* take all of it (MayFail).  From a server that closes the connection     *)
(* nothing comes, and listinv and listmem, which do not look at the code,  *)
(* fail for want of bytes.                                                 *)
(***************************************************************************)
NoAnswer == "ERR"

\* Slips a change of the code could introduce, each in place of the operator named
\* before its underscore.
cmd_listinv_Unread(r) == TRUE
Uncounted_Kept(g, i) == g
group_add_member_GM_Full(g, uid) == IF Cardinality(g.mem) =< MAX_GM THEN group_add_member(g, uid) ELSE g

cmd_reg(r) == r.code = "REG_OK"
cmd_newgroup(r) == r.code = "NEW_GROUP_OK"
cmd_invite(r) == r.code = "ACK"
cmd_listinv(r) == r.code # NoAnswer
cmd_ans(r) == r.code \in {"ACK", "JOIN_OK"}
cmd_listmem(r) == r.code # NoAnswer
cmd_post(r) == r.code = "POST_OK"
cmd_reply(r) == r.code = "REPLY_OK"
cmd_feed(r) == r.code = "FEED_OK"

Accepts(cmd, r) ==
    CASE cmd = "reg" -> cmd_reg(r)           [] cmd = "newgroup" -> cmd_newgroup(r)
      [] cmd = "invite" -> cmd_invite(r)     [] cmd = "listinv" -> cmd_listinv(r)
      [] cmd = "ans" -> cmd_ans(r)           [] cmd = "listmem" -> cmd_listmem(r)
      [] cmd = "post" -> cmd_post(r)         [] cmd = "reply" -> cmd_reply(r)
      [] cmd = "feed" -> cmd_feed(r)

\* The commands that may fail on an answer they accept.  listinv and listmem keep 8192
\* bytes of it and feed 65536, which is too little for long lists, and listinv gives up
\* at a name of 512 bytes or more; newgroup writes a name of more than 505 bytes past the
\* end of its msg[512], and may not live to read anything.
MayFail(cmd, r) == \/ cmd \in {"newgroup", "listinv", "listmem"}
                   \/ cmd = "feed" /\ r.items # << >>

(***************************************************************************)
(* The lists of a group                                                    *)
(***************************************************************************)
\* A member who finds no room is left out, and nobody is told.
group_add_member_GM(g, uid) ==
    IF uid \in g.mem \/ Cardinality(g.mem) < MAX_GM THEN group_add_member(g, uid) ELSE g

\* So are the invitees after the last that finds room.
group_add_pending_GM(g, inv, done) ==
    LET new(k) == {inv[i] : i \in 1 .. k} \ g.pend
        fits == {k \in done : Cardinality(g.pend \cup new(k)) =< MAX_GM}
    IN  group_add_pending(g, {inv[k] : k \in fits})

(***************************************************************************)
(* Keeping an item in feed[].  Before it, the body of a post is copied     *)
(* ("body" fails); the array is allocated with the first item, and         *)
(* feed_cap says so even when that failed ("array"); the item may fail     *)
(* too ("item").                                                           *)
(***************************************************************************)
Allocs == IF AllocMayFail THEN {"ok", "body", "array", "item"} ELSE {"ok"}

\* feed_push returns 0.
feed_push_26(s, alloc) == alloc = "ok" /\ array[s] # "lost"

\* It writes in an array that is not there, and the process ends.
Crash(s, alloc) == alloc = "ok" /\ array[s] = "lost"

\* What becomes of the array.
Array(s, alloc) ==
    array' = IF alloc = "body" \/ array[s] # "none" THEN array
             ELSE [array EXCEPT ![s] = IF alloc = "array" THEN "lost" ELSE "held"]

(***************************************************************************)
(* Requests                                                                *)
(***************************************************************************)
Idle == UNCHANGED <<array, up>>

handle_reg_codereq_1 == handle_reg /\ Idle

\* Another group of the same address and port: the entry is given back, its number not.
mcast_pair_conflict(idg) ==
    \E s \in DOMAIN groups : /\ groups[s].named
                             /\ mcast_ip(groups[s].idg) = mcast_ip(idg)
                             /\ mcast_port(groups[s].idg) = mcast_port(idg)

\* Before delivery 18 a group has no list of members.
handle_new_group_tcp(uid, alloc) ==
    LET g == [NewGroup(next_gid) EXCEPT !.named = TRUE, !.admin_id = uid]
        full == IF delivery < 18 THEN g ELSE group_add_member(g, uid)
        conflict == delivery >= 18 /\ alloc /\ mcast_pair_conflict(next_gid)
    IN  /\ UNCHANGED up
        /\ \/ /\ find_user(uid) /\ FreeGroup
              /\ next_gid' = next_gid + 1
              /\ groups' = IF conflict THEN groups
                           ELSE Append(groups, IF alloc THEN full ELSE NewGroup(next_gid))
              /\ array' = IF conflict THEN array ELSE Append(array, "none")
              /\ reply' = IF alloc /\ ~conflict THEN Answer(uid, "NEW_GROUP_OK", next_gid, 0, 0)
                                                ELSE send_err(uid)
              /\ sent' = {}
              /\ UNCHANGED <<users, next_uid>>
           \/ ~(find_user(uid) /\ FreeGroup) /\ Refused(uid) /\ UNCHANGED array

\* An invitee for whom there is no room in the list is notified all the same.
handle_invite_19(uid, idg, inv) ==
    LET done == Invited(inv)
    IN  /\ Idle
        /\ \/ AdminOf(uid, idg) = {} /\ Refused(uid)
           \/ \E s \in AdminOf(uid, idg) :
                /\ Update(s, group_add_pending_GM(groups[s], inv, done))
                /\ reply' = IF done = DOMAIN inv THEN send_ack(uid) ELSE send_err(uid)
                /\ sent' = UNION {notif_udp_user(inv[k], "INV_UDP", idg) : k \in done}

handle_list_inv_20(uid) ==
    \/ handle_list_inv(uid) /\ Idle
    \/ Nameless(uid) /\ Refused(uid) /\ up' = FALSE /\ UNCHANGED array   \* strlen(NULL)

\* Answers 0 and 2 are those of the last server.
handle_inv_ans_21(uid, idg, an) ==
    /\ Idle
    /\ \/ an = 0 /\ decline(uid, idg)
       \/ an = 1 /\ PendingOf(uid, idg) = {} /\ Refused(uid)
       \/ /\ an = 1
          /\ \E s \in PendingOf(uid, idg) :
               LET g == group_add_member_GM(group_remove_pending(groups[s], uid), uid)
                   listed == \A m \in g.mem : find_user(m)
               IN  /\ Update(s, g)
                   /\ reply' = IF listed THEN Answer(uid, "JOIN_OK", idg, 0, 0) ELSE send_err(uid)
                   /\ sent' = IF listed THEN notif_mcast(g, "JOIN") ELSE {}
       \/ an = 2 /\ leave(uid, idg)

handle_list_mem_23(uid, idg) == handle_list_mem(uid, idg) /\ Idle

NewPost(g, uid) ==
    [g EXCEPT !.posts = Append(@, [numb |-> g.next_billet, author |-> uid, next_reply |-> 0]),
              !.next_billet = @ + 1]
Posted(uid, idg, g) == /\ reply' = Answer(uid, "POST_OK", idg, g.next_billet, 0)
                       /\ sent' = notif_mcast(g, "NEW_MSG")

\* The groups in which uid may post.
Postable(uid, idg) == {s \in MemberOf(uid, idg) : Len(groups[s].posts) < MAX_POSTS_PER_GROUP}

\* Deliveries 24 and 25: there is no feed yet.
handle_post_24(uid, idg, alloc) ==
    /\ delivery < 26 /\ Idle
    /\ \/ (Postable(uid, idg) = {} \/ ~alloc) /\ Refused(uid)
       \/ \E s \in Postable(uid, idg) :
            alloc /\ Update(s, NewPost(groups[s], uid)) /\ Posted(uid, idg, groups[s])

\* From 26 on, a post that could not be kept is forgotten, its number with it.
handle_post_26(uid, idg, alloc) ==
    /\ delivery >= 26
    /\ \/ Postable(uid, idg) = {} /\ Refused(uid) /\ Idle
       \/ \E s \in Postable(uid, idg) :
            LET g == groups[s]
                item == [author |-> uid, numb |-> g.next_billet, numr |-> 0]
            IN  /\ Array(s, alloc) /\ up' = ~Crash(s, alloc)
                /\ \/ /\ feed_push_26(s, alloc)
                      /\ Update(s, feed_push(NewPost(g, uid), item)) /\ Posted(uid, idg, g)
                   \/ ~feed_push_26(s, alloc) /\ Refused(uid)

\* The billets uid may reply to, as slot and index.
Answerable(uid, idg, numb) ==
    {a \in MemberOf(uid, idg) \X (1 .. MAX_POSTS_PER_GROUP) :
        LET g == groups[a[1]]
        IN  a[2] \in find_post(g, numb) /\ g.posts[a[2]].next_reply < MaxReplies}
Unanswerable(uid, idg, numb) == \A s \in MemberOf(uid, idg) : find_post(groups[s], numb) = {}

Counted(g, i) == [g EXCEPT !.posts[i].next_reply = @ + 1]
Uncounted(g, i) == [g EXCEPT !.posts[i].next_reply = @ - 1]
Replied(uid, idg, g, i) ==
    LET author == g.posts[i].author
    IN  /\ reply' = Answer(uid, "REPLY_OK", idg, g.posts[i].numb, g.posts[i].next_reply + 1)
        /\ sent' = notif_mcast(g, "NEW_MSG") \cup
                   IF find_user(author) /\ author # uid
                   THEN notif_udp_user(author, "FETCH", idg) ELSE {}

\* Delivery 25 numbers the reply and drops its text.
handle_reply_25(uid, idg, numb) ==
    /\ delivery < 26 /\ Idle
    /\ \/ Unanswerable(uid, idg, numb) /\ Refused(uid)
       \/ \E a \in Answerable(uid, idg, numb) :
            LET g == groups[a[1]]
            IN  Update(a[1], Counted(g, a[2])) /\ Replied(uid, idg, g, a[2])

handle_reply_26(uid, idg, numb, alloc) ==
    /\ delivery >= 26 /\ alloc # "body"
    /\ \/ Unanswerable(uid, idg, numb) /\ Refused(uid) /\ Idle
       \/ \E a \in Answerable(uid, idg, numb) :
            LET s == a[1]  g == groups[s]  i == a[2]
                numr == g.posts[i].next_reply + 1
                item == [author |-> uid, numb |-> numb, numr |-> numr]
            IN  /\ Array(s, alloc) /\ up' = ~Crash(s, alloc)
                /\ \/ /\ feed_push_26(s, alloc)
                      /\ Update(s, feed_push(Counted(g, i), item)) /\ Replied(uid, idg, g, i)
                   \/ /\ ~feed_push_26(s, alloc)
                      /\ Update(s, Uncounted(Counted(g, i), i))
                      /\ reply' = send_err(uid) /\ sent' = {}

\* The positions in the feed after which (numb, numr) asks: (0, 0) is its beginning,
\* even when it also numbers the first billet.
From(g, numb, numr) ==
    IF numb = 0 /\ numr = 0 THEN {0} ELSE feed_index_after(g, numb, numr)

handle_feed_26(uid, idg, numb, numr, alloc) ==
    /\ Idle
    /\ \/ (~alloc \/ \A s \in MemberOf(uid, idg) : From(groups[s], numb, numr) = {}) /\ Refused(uid)
       \/ \E s \in MemberOf(uid, idg) : \E i \in From(groups[s], numb, numr) :
            LET items == After(groups[s], i)
            IN  /\ alloc /\ TablesUnchanged
                /\ reply' = [Answer(uid, "FEED_OK", idg, 0, 0) EXCEPT !.items = items]
                /\ sent' = Fetches(groups[s], uid, items)

(***************************************************************************)
(* Specification                                                           *)
(***************************************************************************)
ChronoInit == /\ Init /\ delivery \in Deliveries
              /\ array = << >> /\ up = TRUE
              /\ ran = [cmd |-> "reg", known |-> FALSE, done |-> TRUE]

\* Client c makes a request of the command, and the server reads it as it was sent.
Asks(c, cmd) ==
    /\ cmd \in DOMAIN Knows(c)
    /\ Sends(c)[cmd].code \in DOMAIN Serves(delivery)
    /\ Sends(c)[cmd].fields = Serves(delivery)[Sends(c)[cmd].code]

\* A known command reads the answer, or as much of it as it can.
Ran(cmd) == \E all \in IF MayFail(cmd, reply') THEN BOOLEAN ELSE {TRUE} :
    ran' = [cmd |-> cmd, known |-> TRUE, done |-> all /\ Accepts(cmd, reply')]

\* The server does not know the request.
Unserved(c, cmd) ==
    cmd \in DOMAIN Knows(c) /\ ~Asks(c, cmd) /\ Refused(0) /\ Idle /\ Ran(cmd)

\* The client does not know the command with so many words, and asks nothing.
Unknown(c, cmd) ==
    /\ cmd \in DOMAIN Knows(c) => \E n \in Words : n \notin Knows(c)[cmd]
    /\ Refused(0) /\ Idle
    /\ ran' = [cmd |-> cmd, known |-> FALSE, done |-> TRUE]

\* serve_one_codereq gives up before it has called a handler, or handle_list_inv before
\* it has looked at anything (no memory for the request or the answer, an empty name), or
\* the client does (an invitation that does not list as many people as it says, a name
\* that ends it before it has sent anything).
NotHandled(c, cmd) ==
    /\ Asks(c, cmd) /\ cmd \in {"newgroup", "invite", "listinv", "post", "reply"}
    /\ Refused(0) /\ Idle /\ Ran(cmd)

Command(cmd, uid) ==
    \/ cmd = "listinv" /\ handle_list_inv_20(uid)
    \/ \E idg \in {0} \cup Gids : cmd = "listmem" /\ handle_list_mem_23(uid, idg)
    \/ \E alloc \in Alloc : cmd = "newgroup" /\ handle_new_group_tcp(uid, alloc)
    \/ \E idg \in Gids :
        \/ \E inv \in Invitations : cmd = "invite" /\ handle_invite_19(uid, idg, inv)
        \/ \E an \in 0 .. 2 : cmd = "ans" /\ handle_inv_ans_21(uid, idg, an)
        \/ \E alloc \in Alloc : cmd = "post" /\ handle_post_24(uid, idg, alloc)
        \/ \E alloc \in Allocs : cmd = "post" /\ handle_post_26(uid, idg, alloc)
        \/ \E numb \in Billets : cmd = "reply" /\ handle_reply_25(uid, idg, numb)
        \/ \E numb \in Billets, alloc \in Allocs :
             cmd = "reply" /\ handle_reply_26(uid, idg, numb, alloc)
        \/ \E numb \in Billets, numr \in 0 .. MaxReplies, alloc \in Alloc :
             cmd = "feed" /\ handle_feed_26(uid, idg, numb, numr, alloc)

ChronoNext ==
    /\ up /\ UNCHANGED delivery
    /\ \E c \in Clients, cmd \in DOMAIN sends_33 :
        \/ Unserved(c, cmd) \/ Unknown(c, cmd) \/ NotHandled(c, cmd)
        \/ /\ Asks(c, cmd)
           /\ \/ cmd = "reg" /\ handle_reg_codereq_1
              \/ \E uid \in Callers : Command(cmd, uid)
           /\ Ran(cmd)

ChronoSpec == ChronoInit /\ [][ChronoNext]_chrono_vars

(***************************************************************************)
(* Properties                                                              *)
(***************************************************************************)
\* A client can be used with the server of its own delivery and with every later one:
\* each command it knows makes a request that such a server knows, and reads field by
\* field as it was written.
ClientsServed == \A c \in 16 .. delivery : \A cmd \in DOMAIN Knows(c) : Asks(c, cmd)

\* Whichever client is used with whichever server, and whatever memory runs out, a
\* command whose connection holds exits with 0 only if the server answered and did not
\* hang up, unless the client does not know what was typed; and an answer always shows
\* as 0 in those that have no list or feed to take in.  (An answer says what the server
\* says: JOIN_OK also comes from a group that has no room.)
Short == {"reg", "invite", "ans", "post", "reply"}
ExitTellsOutcome ==
    [][/\ ran'.done => reply'.code # NoAnswer \/ ~ran'.known
       /\ ran'.cmd \in Short /\ reply'.code # NoAnswer => ran'.done]_chrono_vars

\* From delivery 26 on, a number given to a billet or a reply is never lost, even when
\* memory runs out: every billet recorded, and every reply counted, is in the feed.
NothingNumberedInVain ==
    delivery >= 26 => \A s \in DOMAIN groups :
        /\ groups[s].next_billet = Len(groups[s].posts)
        /\ \A i \in DOMAIN groups[s].posts : \A r \in 0 .. groups[s].posts[i].next_reply :
              feed_index_after(groups[s], i - 1, r) # {}
================================================================================
