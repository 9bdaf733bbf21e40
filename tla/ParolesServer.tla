----------------------------- MODULE ParolesServer -----------------------------
(***************************************************************************)
(* The tables of paroles_server (src/src/server.c) and the requests that   *)
(* change or read them.                                                    *)
(*                                                                         *)
(* The server is one thread: main() accepts a connection, serve_client()   *)
(* runs one request to its end and closes the connection.  Each request is *)
(* therefore one step here, and what it sends (the TCP reply and the UDP   *)
(* datagrams) is part of the step.  How requests reach the server, and how *)
(* a session proves who it is, are the subject of other modules: here a    *)
(* request carries the uid that dispatch() hands to the handler.           *)
(*                                                                         *)
(* Abstracted: names, keys and message bodies; the order of the member and *)
(* pending lists (kept without duplicates by the code, sets here); the     *)
(* lists of ids and names inside LIST_INV_OK, LIST_MEM_OK and JOIN_OK.     *)
(***************************************************************************)
EXTENDS Integers, Sequences, FiniteSets

CONSTANTS
    MAX_USERS, MAX_GROUPS,   \* sizes of the two static tables
    UDP_PORTS, MCAST_PORTS,  \* 45000 and 30000 in the code
    Callers,                 \* numbers a request may carry as its uid
    SigningKey,              \* TRUE: the server runs with --signing-key
    AllocMayFail,            \* TRUE: malloc may return NULL
    MaxBillets, MaxReplies,  \* bounds: billets of a group, replies to a billet
    MaxInvitees              \* bound: invitees of one INVITE request

ASSUME TableSizes == MAX_USERS \in Nat /\ MAX_GROUPS \in Nat
ASSUME PortRanges == /\ UDP_PORTS \in Nat \ {0} /\ MAX_USERS =< UDP_PORTS
                     /\ MCAST_PORTS \in Nat \ {0} /\ MAX_GROUPS =< MCAST_PORTS
                     /\ MAX_GROUPS =< 9999
ASSUME CallerNumbers == Callers \subseteq Nat
ASSUME Switches == SigningKey \in BOOLEAN /\ AllocMayFail \in BOOLEAN
ASSUME Bounds == MaxBillets \in Nat /\ MaxReplies \in Nat /\ MaxInvitees \in Nat

VARIABLES
    users,     \* ids of the used entries of users[], in slot order
    groups,    \* the used entries of groups[], in slot order
    next_uid, next_gid,
    reply,     \* the TCP reply to the last request
    sent       \* the distinct datagrams the last request emitted

vars == <<users, groups, next_uid, next_gid, reply, sent>>

(***************************************************************************)
(* Types                                                                   *)
(***************************************************************************)
Post == [numb : Nat, author : Nat, next_reply : Nat]
FeedItem == [author : Nat, numb : Nat, numr : Nat]
Group == [idg : Nat, named : BOOLEAN, admin_id : Nat, closed : BOOLEAN,
          mem : SUBSET Nat, pend : SUBSET Nat,
          posts : Seq(Post), next_billet : Nat, feed : Seq(FeedItem)]

Notifs == {"JOIN", "LEAVE", "CLOSE", "NEW_MSG", "INV_UDP", "FETCH"}
ALL == 0      \* the destination of a multicast: no user has this id
Datagram == [code : Notifs, idg : Nat, to : Nat]

Codes == {"NONE", "ERR", "ACK", "REG_OK", "NEW_GROUP_OK", "JOIN_OK", "LIST_INV_OK",
          "LIST_MEM_OK", "POST_OK", "REPLY_OK", "FEED_OK"}
Reply == [to : Nat, code : Codes, idg : Nat, numb : Nat, numr : Nat,
          items : Seq(FeedItem)]

(***************************************************************************)
(* Slips a change of the code could introduce.  None is part of the        *)
(* specification: each takes the place of the operator named before its    *)
(* underscore when the properties are tried against a faulty server.       *)
(***************************************************************************)
FreeUser_OffByOne == Len(users) =< MAX_USERS
find_group_Closed(idg) == {s \in DOMAIN groups : groups[s].idg = idg}
PendingOf_Unchecked(uid, idg) ==
    {s \in DOMAIN groups : groups[s].idg = idg /\ ~groups[s].closed}
AdminOf_Unchecked(uid, idg) == PendingOf_Unchecked(uid, idg)
udp_port_Narrow(id) == 20000 + (id % (UDP_PORTS - 1))
group_add_pending_Restarted(g, uids) == [g EXCEPT !.pend = uids]
feed_push_Front(g, item) == [g EXCEPT !.feed = <<item>> \o @]
feed_push_Capped(g, item) == IF Len(g.feed) >= 2 THEN g ELSE [g EXCEPT !.feed = Append(@, item)]
notif_mcast_NoClose(g, code) ==
    IF code = "CLOSE" \/ ~g.named THEN {} ELSE {[code |-> code, idg |-> g.idg, to |-> ALL]}
NewGroup_OpenCount(idg) ==
    [idg |-> 1 + Cardinality({s \in DOMAIN groups : ~groups[s].closed}),
     named |-> FALSE, admin_id |-> 0, closed |-> FALSE,
     mem |-> {}, pend |-> {}, posts |-> << >>, next_billet |-> 0, feed |-> << >>]
Invited_Unchecked(inv) == DOMAIN inv
After_Inclusive(g, i) == SubSeq(g.feed, i, Len(g.feed))
After_Short(g, i) == SubSeq(g.feed, i + 1, Len(g.feed) - 1)
Fetches_Repliers(g, uid, items) ==
    {[code |-> "FETCH", idg |-> g.idg, to |-> items[k].author] :
        k \in {j \in DOMAIN items : items[j].author # uid}}

(***************************************************************************)
(* Reading the tables                                                      *)
(***************************************************************************)
find_user(uid) == \E i \in DOMAIN users : users[i] = uid

\* The slots of the open groups numbered idg (one at most: IdsNameOneEntry).
find_group(idg) == {s \in DOMAIN groups : groups[s].idg = idg /\ ~groups[s].closed}

\* The same, kept only if uid is a member, is pending, or is the administrator.
MemberOf(uid, idg) == {s \in find_group(idg) : uid \in groups[s].mem}
PendingOf(uid, idg) == {s \in find_group(idg) : uid \in groups[s].pend}
AdminOf(uid, idg) == {s \in find_group(idg) : groups[s].admin_id = uid}

find_post(g, numb) == {i \in DOMAIN g.posts : g.posts[i].numb = numb}

\* Index in the feed of the item numbered (numb, numr).
feed_index_after(g, numb, numr) ==
    {i \in DOMAIN g.feed : g.feed[i].numb = numb /\ g.feed[i].numr = numr}

\* An entry of the table is unused; entries are never given back.
FreeUser == Len(users) < MAX_USERS
FreeGroup == Len(groups) < MAX_GROUPS

udp_port(id) == 20000 + (id % UDP_PORTS)
mcast_port(idg) == 30000 + (idg % MCAST_PORTS)

\* The last 16 bits of the multicast address: idg is printed in decimal after "ff0e::1:",
\* and inet_pton reads its digits as hexadecimal ones.
mcast_ip(idg) == (idg % 10) + 16 * ((idg \div 10) % 10)
                   + 256 * ((idg \div 100) % 10) + 4096 * ((idg \div 1000) % 10)

(***************************************************************************)
(* Updating a group                                                        *)
(***************************************************************************)
group_add_member(g, uid) == [g EXCEPT !.mem = @ \cup {uid}]
group_add_pending(g, uids) == [g EXCEPT !.pend = @ \cup uids]
group_remove_pending(g, uid) == [g EXCEPT !.pend = @ \ {uid}]
group_remove_member(g, uid) == [g EXCEPT !.mem = @ \ {uid}]
feed_push(g, item) == [g EXCEPT !.feed = Append(@, item)]
close_group(g) == [g EXCEPT !.closed = TRUE]

(***************************************************************************)
(* What a request sends                                                    *)
(***************************************************************************)
Answer(uid, code, idg, numb, numr) ==
    [to |-> uid, code |-> code, idg |-> idg, numb |-> numb, numr |-> numr,
     items |-> << >>]
send_err(uid) == Answer(uid, "ERR", 0, 0, 0)
send_ack(uid) == Answer(uid, "ACK", 0, 0, 0)

\* An entry without a name has no address either (`::', port 0): sendto() fails, and
\* nothing leaves.
notif_mcast(g, code) ==
    IF g.named THEN {[code |-> code, idg |-> g.idg, to |-> ALL]} ELSE {}
notif_udp_user(uid, code, idg) == {[code |-> code, idg |-> idg, to |-> uid]}

TablesUnchanged == UNCHANGED <<users, groups, next_uid, next_gid>>

\* A handler that returns -1 before it changed anything: serve_client sends ERR.
Refused(uid) == TablesUnchanged /\ reply' = send_err(uid) /\ sent' = {}

\* A group's entry becomes g; the other tables are as they were.
Update(s, g) == groups' = [groups EXCEPT ![s] = g] /\ UNCHANGED <<users, next_uid, next_gid>>

\* With a signing key, dispatch() lets through only the uid that do_client_auth
\* found registered; without one the uid of the request is taken as it is.
Session(uid) == SigningKey => find_user(uid)

Alloc == IF AllocMayFail THEN BOOLEAN ELSE {TRUE}

(***************************************************************************)
(* Requests                                                                *)
(***************************************************************************)
handle_reg ==
    \/ /\ FreeUser
       /\ users' = Append(users, next_uid)
       /\ next_uid' = next_uid + 1
       /\ reply' = Answer(next_uid, "REG_OK", 0, 0, 0)
       /\ sent' = {}
       /\ UNCHANGED <<groups, next_gid>>
    \/ ~FreeUser /\ Refused(0)

\* The name's malloc fails after the entry was taken and numbered: the entry
\* stays, without name, administrator or members.
NewGroup(idg) ==
    [idg |-> idg, named |-> FALSE, admin_id |-> 0, closed |-> FALSE,
     mem |-> {}, pend |-> {}, posts |-> << >>, next_billet |-> 0, feed |-> << >>]

handle_new_group(uid, alloc) ==
    LET g == NewGroup(next_gid)
        full == group_add_member([g EXCEPT !.named = TRUE, !.admin_id = uid], uid)
    IN  /\ Session(uid)
        /\ \/ /\ find_user(uid) /\ FreeGroup
              /\ groups' = Append(groups, IF alloc THEN full ELSE g)
              /\ next_gid' = next_gid + 1
              /\ reply' = IF alloc THEN Answer(uid, "NEW_GROUP_OK", g.idg, 0, 0)
                                   ELSE send_err(uid)
              /\ sent' = {}
              /\ UNCHANGED <<users, next_uid>>
           \/ ~(find_user(uid) /\ FreeGroup) /\ Refused(uid)

\* The invitees before the first one that is not registered (or whose padding is
\* not zero, which ends the loop in the same way).
Invited(inv) == {k \in DOMAIN inv : \A i \in 1 .. k : find_user(inv[i])}

\* Invitees are handled one at a time, and those already handled stay pending and
\* notified when a later one makes the request fail.
handle_invite(uid, idg, inv) ==
    LET done == Invited(inv)
    IN  /\ Session(uid)
        /\ \/ AdminOf(uid, idg) = {} /\ Refused(uid)
           \/ \E s \in AdminOf(uid, idg) :
                /\ Update(s, group_add_pending(groups[s], {inv[k] : k \in done}))
                /\ reply' = IF done = DOMAIN inv THEN send_ack(uid) ELSE send_err(uid)
                /\ sent' = UNION {notif_udp_user(inv[k], "INV_UDP", idg) : k \in done}

\* An invitation whose group has no name, which only uid 0 can make, ends the process:
\* strlen() is given the name, NULL.  There is no step after that one.
Nameless(uid) == \E s \in DOMAIN groups :
    ~groups[s].named /\ ~groups[s].closed /\ uid \in groups[s].pend

handle_list_inv(uid) ==
    /\ Session(uid) /\ ~Nameless(uid)
    /\ TablesUnchanged
    /\ reply' = Answer(uid, "LIST_INV_OK", 0, 0, 0)
    /\ sent' = {}

\* handle_inv_ans with an = 0, 1 and 2; any other answer changes nothing (BadRequest).
decline(uid, idg) ==
    /\ Session(uid)
    /\ \/ PendingOf(uid, idg) = {} /\ Refused(uid)
       \/ \E s \in PendingOf(uid, idg) :
            /\ Update(s, group_remove_pending(groups[s], uid))
            /\ reply' = send_ack(uid)
            /\ sent' = {}

\* JOIN_OK lists every member: one that find_user() did not know would make the
\* request fail after the lists were changed, and before the notification.
accept(uid, idg) ==
    /\ Session(uid)
    /\ \/ PendingOf(uid, idg) = {} /\ Refused(uid)
       \/ \E s \in PendingOf(uid, idg) :
            LET g == group_add_member(group_remove_pending(groups[s], uid), uid)
                listed == \A m \in g.mem : find_user(m)
            IN  /\ Update(s, g)
                /\ reply' = IF listed THEN Answer(uid, "JOIN_OK", idg, 0, 0) ELSE send_err(uid)
                /\ sent' = IF listed THEN notif_mcast(g, "JOIN") ELSE {}

leave(uid, idg) ==
    /\ Session(uid)
    /\ \/ MemberOf(uid, idg) = {} /\ Refused(uid)
       \/ \E s \in MemberOf(uid, idg) :
            LET admin == groups[s].admin_id = uid
            IN  /\ Update(s, IF admin THEN close_group(groups[s])
                                      ELSE group_remove_member(groups[s], uid))
                /\ reply' = send_ack(uid)
                /\ sent' = notif_mcast(groups[s], IF admin THEN "CLOSE" ELSE "LEAVE")

\* idg = 0 asks for every user of the server, and nobody checks who asks.
handle_list_mem(uid, idg) ==
    /\ Session(uid)
    /\ \/ /\ \/ idg = 0
             \/ \E s \in MemberOf(uid, idg) : \A m \in groups[s].mem : find_user(m)
          /\ TablesUnchanged
          /\ reply' = Answer(uid, "LIST_MEM_OK", idg, 0, 0)
          /\ sent' = {}
       \/ /\ idg # 0
          /\ \A s \in MemberOf(uid, idg) : \E m \in groups[s].mem : ~find_user(m)
          /\ Refused(uid)

\* The billet is recorded first; a failed malloc (body or feed item) leaves it there
\* without an item in the feed.
handle_post(uid, idg, alloc) ==
    /\ Session(uid)
    /\ \/ MemberOf(uid, idg) = {} /\ Refused(uid)
       \/ \E s \in MemberOf(uid, idg) :
            LET g == groups[s]
                numb == g.next_billet
                po == [numb |-> numb, author |-> uid, next_reply |-> 0]
                posted == [g EXCEPT !.posts = Append(@, po), !.next_billet = @ + 1]
                item == [author |-> uid, numb |-> numb, numr |-> 0]
            IN  /\ Len(g.posts) < MaxBillets
                /\ Update(s, IF alloc THEN feed_push(posted, item) ELSE posted)
                /\ reply' = IF alloc THEN Answer(uid, "POST_OK", idg, numb, 0)
                                     ELSE send_err(uid)
                /\ sent' = IF alloc THEN notif_mcast(g, "NEW_MSG") ELSE {}

\* The reply takes its number before the malloc of the feed item, and tells the
\* author of the billet unless it is the author's own.
handle_reply(uid, idg, numb, alloc) ==
    /\ Session(uid)
    /\ \/ (\A s \in MemberOf(uid, idg) : find_post(groups[s], numb) = {}) /\ Refused(uid)
       \/ \E s \in MemberOf(uid, idg) : \E i \in find_post(groups[s], numb) :
            LET g == groups[s]
                author == g.posts[i].author
                numr == g.posts[i].next_reply + 1
                counted == [g EXCEPT !.posts[i].next_reply = numr]
                item == [author |-> uid, numb |-> numb, numr |-> numr]
                fetch == IF find_user(author) /\ author # uid
                         THEN notif_udp_user(author, "FETCH", idg) ELSE {}
            IN  /\ numr =< MaxReplies
                /\ Update(s, IF alloc THEN feed_push(counted, item) ELSE counted)
                /\ reply' = IF alloc THEN Answer(uid, "REPLY_OK", idg, numb, numr)
                                     ELSE send_err(uid)
                /\ sent' = IF alloc THEN notif_mcast(g, "NEW_MSG") \cup fetch ELSE {}

\* What the feed holds after the item at index i.
After(g, i) == SubSeq(g.feed, i + 1, Len(g.feed))

\* The FETCH datagrams of a read: each item returned tells the author of its billet,
\* unless that is the reader.
Fetches(g, uid, items) ==
    LET authors == {g.posts[p].author : p \in UNION {find_post(g, items[k].numb) : k \in DOMAIN items}}
    IN  UNION {notif_udp_user(a, "FETCH", g.idg) : a \in {b \in authors : b # uid /\ find_user(b)}}

handle_feed(uid, idg, numb, numr, alloc) ==
    LET anchor(s) == feed_index_after(groups[s], numb, numr)
    IN  /\ Session(uid)
        /\ \/ /\ ~alloc \/ \A s \in MemberOf(uid, idg) : anchor(s) = {}
              /\ Refused(uid)
           \/ \E s \in MemberOf(uid, idg) : \E i \in anchor(s) :
                LET items == After(groups[s], i)
                IN  /\ alloc
                    /\ TablesUnchanged
                    /\ reply' = [Answer(uid, "FEED_OK", idg, 0, 0) EXCEPT !.items = items]
                    /\ sent' = Fetches(groups[s], uid, items)

\* Everything dispatch(), serve_business_switch() and the handlers turn down before
\* looking at the tables: a short or overlong request, an unknown code, a REG inside
\* a session, a uid that is not the session's, an answer that is not 0, 1 or 2.
BadRequest(uid) == Refused(uid)

(***************************************************************************)
(* Specification                                                           *)
(***************************************************************************)
Init ==
    /\ users = << >> /\ groups = << >>
    /\ next_uid = 1 /\ next_gid = 1
    /\ reply = Answer(0, "NONE", 0, 0, 0)
    /\ sent = {}

Gids == 1 .. MAX_GROUPS     \* numbers a request may carry: not all are given yet
Billets == 0 .. MaxBillets
Invitations == UNION {[1 .. n -> Callers] : n \in 0 .. MaxInvitees}

Request(uid) ==
    \/ handle_list_inv(uid)
    \/ BadRequest(uid)
    \/ \E idg \in {0} \cup Gids : handle_list_mem(uid, idg)
    \/ \E alloc \in Alloc : handle_new_group(uid, alloc)
    \/ \E idg \in Gids :
        \/ \E inv \in Invitations : handle_invite(uid, idg, inv)
        \/ decline(uid, idg)
        \/ accept(uid, idg)
        \/ leave(uid, idg)
        \/ \E alloc \in Alloc : handle_post(uid, idg, alloc)
        \/ \E numb \in Billets, alloc \in Alloc : handle_reply(uid, idg, numb, alloc)
        \/ \E numb \in Billets, numr \in 0 .. MaxReplies, alloc \in Alloc :
              handle_feed(uid, idg, numb, numr, alloc)

Next == handle_reg \/ \E uid \in Callers : Request(uid)

Spec == Init /\ [][Next]_vars

(***************************************************************************)
(* Properties of every state                                               *)
(***************************************************************************)
\* Types, and both tables within their size.
TypeOK ==
    /\ users \in Seq(Nat) /\ Len(users) =< MAX_USERS /\ next_uid \in Nat
    /\ groups \in Seq(Group) /\ Len(groups) =< MAX_GROUPS /\ next_gid \in Nat
    /\ reply \in Reply
    /\ sent \subseteq Datagram

\* A number, once given, names one entry for ever: no two users and no two groups,
\* closed ones included, share a number, and the counters are past all of them.
\* find_user() and find_group() then have at most one match.
IdsNameOneEntry ==
    /\ \A i, j \in DOMAIN users : users[i] = users[j] => i = j
    /\ \A i \in DOMAIN users : users[i] \in 1 .. next_uid - 1
    /\ \A s, t \in DOMAIN groups : groups[s].idg = groups[t].idg => s = t
    /\ \A s \in DOMAIN groups : groups[s].idg \in 1 .. next_gid - 1

\* Whoever is in a list of a group is registered (so the find_user() of JOIN_OK and
\* LIST_MEM_OK cannot fail half-way), and the administrator of a group whose
\* creation succeeded is one of its members: closing is the only way out.
MembersRegistered ==
    \A s \in DOMAIN groups :
        LET g == groups[s]
        IN  /\ \A m \in g.mem \cup g.pend : find_user(m)
            /\ g.named => g.admin_id \in g.mem

\* The numbering of one group: billets are numbered from 0 in order; an item of the
\* feed belongs to a recorded billet, and to its author when it is the billet
\* itself; along the feed billets come in increasing order, and so do, after their
\* billet, the replies to each.
Numbered(g) ==
    /\ g.next_billet = Len(g.posts)
    /\ \A i \in DOMAIN g.posts : g.posts[i].numb = i - 1
    /\ \A k \in DOMAIN g.feed :
        LET it == g.feed[k]
        IN  /\ it.numb < Len(g.posts)
            /\ it.numr =< g.posts[it.numb + 1].next_reply
            /\ it.numr = 0 => it.author = g.posts[it.numb + 1].author
    /\ \A j, k \in DOMAIN g.feed : j < k =>
        /\ g.feed[j].numb = g.feed[k].numb => g.feed[j].numr < g.feed[k].numr
        /\ g.feed[j].numr = 0 /\ g.feed[k].numr = 0 => g.feed[j].numb < g.feed[k].numb

\* Every group's feed is so numbered; the position asked for by FEED is then unique
\* (feed_index_after stops at the first match).
FeedNumbered == \A s \in DOMAIN groups : Numbered(groups[s])

\* Without allocation failures nothing that was numbered is missing from the feed.
FeedComplete ==
    AllocMayFail \/ \A s \in DOMAIN groups : \A i \in DOMAIN groups[s].posts :
        \A r \in 0 .. groups[s].posts[i].next_reply :
            feed_index_after(groups[s], i - 1, r) # {}

\* The entry left behind by a failed creation stays empty, so that handle_list_inv,
\* which reads the name of every group where the caller is pending, never meets it.
\* (Without a signing key a request carrying uid 0 is that entry's administrator.)
GhostInert ==
    SigningKey \/ 0 \notin Callers =>
        \A s \in DOMAIN groups : ~groups[s].named =>
            /\ groups[s].admin_id = 0
            /\ groups[s].mem = {} /\ groups[s].pend = {} /\ groups[s].feed = << >>

\* No two users share a notification port, no two groups a multicast port or a
\* multicast address.
PortsDistinct ==
    /\ \A i, j \in DOMAIN users : udp_port(users[i]) = udp_port(users[j]) => i = j
    /\ \A s, t \in DOMAIN groups :
        \/ mcast_port(groups[s].idg) = mcast_port(groups[t].idg)
        \/ mcast_ip(groups[s].idg) = mcast_ip(groups[t].idg)
        => s = t

(***************************************************************************)
(* Properties of every step                                                *)
(***************************************************************************)
\* What is said of a step from group g to group h, the caller being reply'.to.
ByOwnDecision(g, h) ==
    LET caller == reply'.to
    IN  /\ h.mem \ g.mem \subseteq {caller} \cap g.pend
        /\ g.mem \ h.mem \subseteq {caller} \ {g.admin_id}
        /\ h.pend \ g.pend # {} => caller = g.admin_id
        /\ g.pend \ h.pend \subseteq {caller}
        /\ h.closed # g.closed => caller = g.admin_id
        /\ \A k \in Len(g.feed) + 1 .. Len(h.feed) :
              h.feed[k].author = caller /\ caller \in g.mem

\* Nobody is brought into a group but by accepting an invitation that is open, nobody
\* is taken out but by leaving, only the administrator invites and closes, and only a
\* member speaks, in his own name.
OwnDecisions == [][\A s \in DOMAIN groups : ByOwnDecision(groups[s], groups'[s])]_vars

Prolongs(old, new) == Len(old) =< Len(new) /\ \A k \in DOMAIN old : new[k] = old[k]

\* What was written stays: the feed only grows at its end, a billet keeps its number
\* and author, a group its number and administrator, and a closed group never changes
\* again, whatever is asked under its number.
HistoryKept ==
    [][/\ Prolongs(users, users')
       /\ Len(groups) =< Len(groups')
       /\ \A s \in DOMAIN groups :
            LET g == groups[s]  h == groups'[s]
            IN  /\ h.idg = g.idg /\ h.admin_id = g.admin_id
                /\ Prolongs(g.feed, h.feed)
                /\ Len(g.posts) =< Len(h.posts)
                /\ \A i \in DOMAIN g.posts :
                     /\ h.posts[i].numb = g.posts[i].numb
                     /\ h.posts[i].author = g.posts[i].author
                     /\ g.posts[i].next_reply =< h.posts[i].next_reply
                /\ g.closed => h = g]_vars

\* A datagram reaches only those it concerns: an invitation, someone now pending in
\* the group; a FETCH, the author of one of its billets, never the one whose request
\* caused it; a multicast is about a group that exists.
DatagramsAddressed ==
    [][\A d \in sent' : \E s \in DOMAIN groups :
        LET h == groups'[s]
        IN  /\ h.idg = d.idg
            /\ d.code = "INV_UDP" => d.to \in h.pend
            /\ d.code = "FETCH" =>
                 /\ d.to # reply'.to
                 /\ \E i \in DOMAIN h.posts : h.posts[i].author = d.to
            /\ d.to = ALL <=> d.code \notin {"INV_UDP", "FETCH"}]_vars

Multicast(code, g) == [code |-> code, idg |-> g.idg, to |-> ALL] \in sent'

\* Whoever listens to the multicast address of a group that has one can follow it: each
\* arrival, departure, new item and the closing is announced by the step that makes it.
ChangesAnnounced ==
    [][\A s \in DOMAIN groups : groups[s].named =>
        LET g == groups[s]  h == groups'[s]
        IN  /\ h.mem \ g.mem # {} => Multicast("JOIN", g)
            /\ g.mem \ h.mem # {} => Multicast("LEAVE", g)
            /\ h.feed # g.feed => Multicast("NEW_MSG", g)
            /\ h.closed # g.closed => Multicast("CLOSE", g)]_vars

\* A request answered ERR leaves members, feed and closing as they were, and the
\* pending list too unless it was an INVITE that failed on a later invitee; without
\* allocation failures it numbers nothing either.
ErrorsHarmless ==
    [][reply'.code = "ERR" =>
        /\ users' = users
        /\ \A s \in DOMAIN groups :
            LET g == groups[s]  h == groups'[s]
            IN  /\ h.mem = g.mem /\ h.feed = g.feed /\ h.closed = g.closed
                /\ g.pend \subseteq h.pend
                /\ AllocMayFail \/ (h.posts = g.posts /\ Len(groups') = Len(groups))]_vars
================================================================================
