--------------------------- MODULE ParolesServerProofs ---------------------------
(***************************************************************************)
(* Theorems about ParolesServer, for every size of the tables, every set   *)
(* of callers, with or without a signing key and allocation failures.      *)
(*                                                                         *)
(* After the types, what a request does to the tables has one of four      *)
(* shapes: nothing, a new user, a new group, or a step of one open group.  *)
(* The inductive invariant is proved shape by shape.                       *)
(***************************************************************************)
EXTENDS ParolesServer, TLAPS

(***************************************************************************)
(* The operators on a group, and replacing one entry of the table.         *)
(***************************************************************************)
\* Each update of a group yields a group, and touches only the field it is about.
LEMMA GroupOps ==
    ASSUME NEW g \in Group, NEW uid \in Nat, NEW uids \in SUBSET Nat, NEW item \in FeedItem
    PROVE  /\ group_add_member(g, uid) \in Group
           /\ group_add_pending(g, uids) \in Group
           /\ group_remove_pending(g, uid) \in Group
           /\ group_remove_member(g, uid) \in Group
           /\ feed_push(g, item) \in Group
           /\ close_group(g) \in Group
<1>1. group_add_member(g, uid) \in Group
  BY DEF Group, group_add_member
<1>2. group_add_pending(g, uids) \in Group
  BY DEF Group, group_add_pending
<1>3. group_remove_pending(g, uid) \in Group
  BY DEF Group, group_remove_pending
<1>4. group_remove_member(g, uid) \in Group
  BY DEF Group, group_remove_member
<1>5. feed_push(g, item) \in Group
  <2>1. g.feed \in Seq(FeedItem)
    BY DEF Group
  <2>2. Append(g.feed, item) \in Seq(FeedItem)
    BY <2>1
  <2>. QED  BY <2>2 DEF Group, feed_push
<1>6. close_group(g) \in Group
  BY DEF Group, close_group
<1>. QED  BY <1>1, <1>2, <1>3, <1>4, <1>5, <1>6

\* A request that replaces one entry by another group keeps the types of the tables.
LEMMA UpdateTypes ==
    ASSUME TypeOK, NEW s \in DOMAIN groups, NEW g \in Group, Update(s, g)
    PROVE  /\ groups' \in Seq(Group) /\ Len(groups') = Len(groups)
           /\ users' = users /\ next_uid' = next_uid /\ next_gid' = next_gid
           /\ DOMAIN groups' = DOMAIN groups
           /\ \A t \in DOMAIN groups : groups'[t] = IF t = s THEN g ELSE groups[t]
  BY DEF TypeOK, Update

\* The replies and datagrams the handlers build have the types of the reference.
LEMMA ReplyTypes ==
    ASSUME NEW uid \in Nat, NEW code \in Codes, NEW idg \in Nat, NEW numb \in Nat,
           NEW numr \in Nat
    PROVE  /\ Answer(uid, code, idg, numb, numr) \in Reply
           /\ send_err(uid) \in Reply /\ send_ack(uid) \in Reply
  BY DEF Answer, send_err, send_ack, Reply, Codes

LEMMA NotifTypes ==
    ASSUME NEW uid \in Nat, NEW idg \in Nat, NEW kind \in Notifs, NEW g \in Group
    PROVE  /\ notif_mcast(g, kind) \subseteq Datagram
           /\ notif_udp_user(uid, kind, idg) \subseteq Datagram
  BY DEF notif_mcast, notif_udp_user, Datagram, Group, ALL

(***************************************************************************)
(* Type correctness, one lemma per kind of request.                        *)
(***************************************************************************)
\* A refused request keeps the types.
LEMMA RefusedTypes ==
    ASSUME TypeOK, NEW uid \in Nat, Refused(uid)
    PROVE  TypeOK'
  BY ReplyTypes DEF TypeOK, Refused, TablesUnchanged, Codes

\* So does one that replaces an entry and sends well-formed answers.
LEMMA UpdateKeepsTypes ==
    ASSUME TypeOK, NEW s \in DOMAIN groups, NEW g \in Group, Update(s, g), 
           reply' \in Reply, sent' \subseteq Datagram
    PROVE  TypeOK'
  <1>1. /\ groups' \in Seq(Group) /\ Len(groups') = Len(groups)
        /\ users' = users /\ next_uid' = next_uid /\ next_gid' = next_gid
    BY UpdateTypes
  <1>. QED  BY <1>1 DEF TypeOK

\* Registration appends one number to the table, and only below its size.
LEMMA RegTypes ==
    ASSUME TypeOK, handle_reg
    PROVE  TypeOK'
  <1>1. CASE Refused(0)
    BY <1>1, RefusedTypes
  <1>2. CASE FreeUser /\ ~Refused(0)
    <2>1. Append(users, next_uid) \in Seq(Nat) /\ Len(Append(users, next_uid)) = Len(users) + 1
      BY DEF TypeOK
    <2>2. Answer(next_uid, "REG_OK", 0, 0, 0) \in Reply
      BY ReplyTypes DEF TypeOK, Codes
    <2>3. /\ users' = Append(users, next_uid) /\ next_uid' = next_uid + 1
          /\ reply' \in Reply /\ sent' = {} /\ groups' = groups /\ next_gid' = next_gid
      BY <1>2, <2>2 DEF handle_reg
    <2>. QED  BY <1>2, <2>1, <2>3, TableSizes DEF TypeOK, FreeUser
  <1>. QED  BY <1>1, <1>2 DEF handle_reg

\* The entry of a new group, complete or left behind by a failed malloc, is a group.
LEMMA NewGroupTypes ==
    ASSUME NEW idg \in Nat, NEW uid \in Nat
    PROVE  /\ NewGroup(idg) \in Group
           /\ group_add_member([NewGroup(idg) EXCEPT !.named = TRUE, !.admin_id = uid], uid)
                \in Group
<1>1. << >> \in Seq(Post) /\ << >> \in Seq(FeedItem)
  OBVIOUS
<1>2. NewGroup(idg) \in Group
  BY <1>1 DEF NewGroup, Group
<1>3. [NewGroup(idg) EXCEPT !.named = TRUE, !.admin_id = uid] \in Group
  BY <1>2 DEF Group
<1>. QED  BY <1>2, <1>3 DEF group_add_member, Group

LEMMA NewGroupStepTypes ==
    ASSUME TypeOK, NEW uid \in Nat, NEW alloc \in BOOLEAN, handle_new_group(uid, alloc)
    PROVE  TypeOK'
  <1>1. CASE Refused(uid)
    BY <1>1, RefusedTypes
  <1>2. CASE ~Refused(uid)
    <2>. DEFINE g == NewGroup(next_gid)
                h == IF alloc THEN group_add_member([g EXCEPT !.named = TRUE, !.admin_id = uid], uid)
                              ELSE g
    <2>1. h \in Group /\ g.idg = next_gid
      BY NewGroupTypes DEF TypeOK, NewGroup
    <2>2. Append(groups, h) \in Seq(Group) /\ Len(Append(groups, h)) = Len(groups) + 1
      BY <2>1 DEF TypeOK
    <2>3. reply' \in Reply /\ sent' = {}
      <3>1. reply' \in {Answer(uid, "NEW_GROUP_OK", next_gid, 0, 0), send_err(uid)} /\ sent' = {}
        BY <1>2, <2>1 DEF handle_new_group
      <3>. QED  BY <3>1, ReplyTypes DEF TypeOK, Codes
    <2>4. groups' = Append(groups, h) /\ FreeGroup
      BY <1>2 DEF handle_new_group
    <2>5. users' = users /\ next_uid' = next_uid /\ next_gid' = next_gid + 1
      BY <1>2 DEF handle_new_group
    <2>. HIDE DEF g, h
    <2>. QED  BY <2>2, <2>3, <2>4, <2>5, TableSizes DEF TypeOK, FreeGroup
  <1>. QED  BY <1>1, <1>2

LEMMA InviteTypes ==
    ASSUME TypeOK, NEW uid \in Nat, NEW idg \in Nat, NEW inv \in Invitations,
           handle_invite(uid, idg, inv)
    PROVE  TypeOK'
  <1>1. CASE Refused(uid)
    BY <1>1, RefusedTypes
  <1>2. CASE ~Refused(uid)
    <2>. DEFINE done == Invited(inv)
                now == {inv[k] : k \in done}
    <2>1. now \subseteq Nat
      BY CallerNumbers DEF Invited, Invitations
    <2>2. PICK s \in AdminOf(uid, idg) :
            /\ Update(s, group_add_pending(groups[s], now))
            /\ reply' = IF done = DOMAIN inv THEN send_ack(uid) ELSE send_err(uid)
            /\ sent' = UNION {notif_udp_user(inv[k], "INV_UDP", idg) : k \in done}
      BY <1>2 DEF handle_invite
    <2>3. s \in DOMAIN groups /\ groups[s] \in Group
      BY <2>2 DEF AdminOf, find_group, TypeOK
    <2>4. group_add_pending(groups[s], now) \in Group
      BY <2>1, <2>3 DEF group_add_pending, Group
    <2>5. reply' \in Reply
      BY <2>2, ReplyTypes DEF Codes
    <2>6. sent' \subseteq Datagram
      BY <2>1, <2>2 DEF notif_udp_user, Datagram, Notifs
    <2>. QED  BY <2>2, <2>3, <2>4, <2>5, <2>6, UpdateKeepsTypes
  <1>. QED  BY <1>1, <1>2

\* The three answers to an invitation.
LEMMA AnswerTypes ==
    ASSUME TypeOK, NEW uid \in Nat, NEW idg \in Nat,
           decline(uid, idg) \/ accept(uid, idg) \/ leave(uid, idg)
    PROVE  TypeOK'
  <1>1. CASE Refused(uid)
    BY <1>1, RefusedTypes
  <1>2. CASE decline(uid, idg) /\ ~Refused(uid)
    <2>1. PICK s \in PendingOf(uid, idg) :
            /\ Update(s, group_remove_pending(groups[s], uid))
            /\ reply' = send_ack(uid) /\ sent' = {}
      BY <1>2 DEF decline
    <2>2. s \in DOMAIN groups /\ groups[s] \in Group
      BY <2>1 DEF PendingOf, find_group, TypeOK
    <2>3. group_remove_pending(groups[s], uid) \in Group
      BY <2>2 DEF group_remove_pending, Group
    <2>4. reply' \in Reply
      BY <2>1, ReplyTypes DEF Codes
    <2>. QED  BY <2>1, <2>2, <2>3, <2>4, UpdateKeepsTypes
  <1>3. CASE accept(uid, idg) /\ ~Refused(uid)
    <2>. DEFINE joined(s) == group_add_member(group_remove_pending(groups[s], uid), uid)
    <2>1. PICK s \in PendingOf(uid, idg) :
            /\ Update(s, joined(s))
            /\ reply' \in {Answer(uid, "JOIN_OK", idg, 0, 0), send_err(uid)}
            /\ sent' \in {notif_mcast(joined(s), "JOIN"), {}}
      BY <1>3 DEF accept
    <2>2. s \in DOMAIN groups /\ groups[s] \in Group
      BY <2>1 DEF PendingOf, find_group, TypeOK
    <2>3. joined(s) \in Group
      BY <2>2 DEF group_remove_pending, group_add_member, Group
    <2>4. reply' \in Reply
      BY <2>1, ReplyTypes DEF Codes
    <2>5. sent' \subseteq Datagram
      BY <2>1, <2>3, NotifTypes DEF Notifs
    <2>. QED  BY <2>1, <2>2, <2>3, <2>4, <2>5, UpdateKeepsTypes
  <1>4. CASE leave(uid, idg) /\ ~Refused(uid)
    <2>1. PICK s \in MemberOf(uid, idg) :
            /\ \/ Update(s, close_group(groups[s]))
               \/ Update(s, group_remove_member(groups[s], uid))
            /\ reply' = send_ack(uid)
            /\ sent' \in {notif_mcast(groups[s], "CLOSE"), notif_mcast(groups[s], "LEAVE")}
      BY <1>4 DEF leave
    <2>2. s \in DOMAIN groups /\ groups[s] \in Group
      BY <2>1 DEF MemberOf, find_group, TypeOK
    <2>3. close_group(groups[s]) \in Group /\ group_remove_member(groups[s], uid) \in Group
      BY <2>2 DEF close_group, group_remove_member, Group
    <2>4. reply' \in Reply
      BY <2>1, ReplyTypes DEF Codes
    <2>5. sent' \subseteq Datagram
      BY <2>1, <2>2, NotifTypes DEF Notifs
    <2>. QED  BY <2>1, <2>2, <2>3, <2>4, <2>5, UpdateKeepsTypes
  <1>. QED  BY <1>1, <1>2, <1>3, <1>4

\* What a post and a reply make of a group.
PostedBillet(uid, g) ==
    [g EXCEPT !.posts = Append(@, [numb |-> g.next_billet, author |-> uid, next_reply |-> 0]),
              !.next_billet = @ + 1]
BilletItem(uid, g) == [author |-> uid, numb |-> g.next_billet, numr |-> 0]
CountedReply(g, i) == [g EXCEPT !.posts[i].next_reply = g.posts[i].next_reply + 1]
ReplyItem(uid, g, i) ==
    [author |-> uid, numb |-> g.posts[i].numb, numr |-> g.posts[i].next_reply + 1]

LEMMA PostedTypes ==
    ASSUME NEW g \in Group, NEW uid \in Nat
    PROVE  /\ PostedBillet(uid, g) \in Group
           /\ BilletItem(uid, g) \in FeedItem
           /\ feed_push(PostedBillet(uid, g), BilletItem(uid, g)) \in Group
  <1>. DEFINE po == [numb |-> g.next_billet, author |-> uid, next_reply |-> 0]
  <1>1. g.next_billet \in Nat /\ g.posts \in Seq(Post)
    BY DEF Group
  <1>2. po \in Post /\ BilletItem(uid, g) \in FeedItem
    BY <1>1 DEF Post, FeedItem, BilletItem
  <1>3. Append(g.posts, po) \in Seq(Post) /\ g.next_billet + 1 \in Nat
    BY <1>1, <1>2
  <1>4. PostedBillet(uid, g) = [g EXCEPT !.posts = Append(g.posts, po),
                                         !.next_billet = g.next_billet + 1]
    BY DEF PostedBillet
  <1>. HIDE DEF po
  <1>5. PostedBillet(uid, g) \in Group
    BY <1>3, <1>4 DEF Group
  <1>6. feed_push(PostedBillet(uid, g), BilletItem(uid, g)) \in Group
    BY <1>2, <1>5, GroupOps
  <1>. QED  BY <1>2, <1>5, <1>6

LEMMA RepliedTypes ==
    ASSUME NEW g \in Group, NEW uid \in Nat, NEW i \in DOMAIN g.posts
    PROVE  /\ CountedReply(g, i) \in Group
           /\ ReplyItem(uid, g, i) \in FeedItem
           /\ feed_push(CountedReply(g, i), ReplyItem(uid, g, i)) \in Group
           /\ g.posts[i] \in Post
  <1>. DEFINE po == [g.posts[i] EXCEPT !.next_reply = g.posts[i].next_reply + 1]
  <1>1. g.posts \in Seq(Post) /\ g.posts[i] \in Post
    BY DEF Group
  <1>2. g.posts[i].numb \in Nat /\ g.posts[i].next_reply + 1 \in Nat
    BY <1>1 DEF Post
  <1>3. po \in Post /\ ReplyItem(uid, g, i) \in FeedItem
    BY <1>1, <1>2 DEF Post, FeedItem, ReplyItem
  <1>4. [g.posts EXCEPT ![i] = po] \in Seq(Post)
    BY <1>1, <1>3
  <1>5. CountedReply(g, i) = [g EXCEPT !.posts = [g.posts EXCEPT ![i] = po]]
    BY DEF CountedReply
  <1>. HIDE DEF po
  <1>6. CountedReply(g, i) \in Group
    BY <1>4, <1>5 DEF Group
  <1>7. feed_push(CountedReply(g, i), ReplyItem(uid, g, i)) \in Group
    BY <1>3, <1>6, GroupOps
  <1>. QED  BY <1>1, <1>3, <1>6, <1>7

\* A post appends a billet, and its item when the allocations succeed.
LEMMA PostTypes ==
    ASSUME TypeOK, NEW uid \in Nat, NEW idg \in Nat, NEW alloc \in BOOLEAN,
           handle_post(uid, idg, alloc)
    PROVE  TypeOK'
  <1>1. CASE Refused(uid)
    BY <1>1, RefusedTypes
  <1>2. CASE ~Refused(uid)
    <2>1. PICK s, h :
            /\ s \in MemberOf(uid, idg)
            /\ h \in {PostedBillet(uid, groups[s]),
                      feed_push(PostedBillet(uid, groups[s]), BilletItem(uid, groups[s]))}
            /\ Update(s, h)
            /\ reply' \in {Answer(uid, "POST_OK", idg, groups[s].next_billet, 0), send_err(uid)}
            /\ sent' \in {notif_mcast(groups[s], "NEW_MSG"), {}}
      BY <1>2 DEF handle_post, PostedBillet, BilletItem
    <2>2. s \in DOMAIN groups /\ groups[s] \in Group /\ groups[s].next_billet \in Nat
      <3>1. s \in DOMAIN groups /\ groups[s] \in Group
        BY <2>1 DEF MemberOf, find_group, TypeOK
      <3>. QED  BY <3>1 DEF Group
    <2>3. h \in Group
      BY <2>1, <2>2, PostedTypes
    <2>4. reply' \in Reply
      BY <2>1, <2>2, ReplyTypes DEF Codes
    <2>5. sent' \subseteq Datagram
      BY <2>1, <2>2, NotifTypes DEF Notifs
    <2>. QED  BY <2>1, <2>2, <2>3, <2>4, <2>5, UpdateKeepsTypes
  <1>. QED  BY <1>1, <1>2

\* A reply advances the counter of its billet, and appends its item.
LEMMA ReplyStepTypes ==
    ASSUME TypeOK, NEW uid \in Nat, NEW idg \in Nat, NEW numb \in Nat,
           NEW alloc \in BOOLEAN, handle_reply(uid, idg, numb, alloc)
    PROVE  TypeOK'
  <1>1. CASE Refused(uid)
    BY <1>1, RefusedTypes
  <1>2. CASE ~Refused(uid)
    <2>. DEFINE numr(g, i) == g.posts[i].next_reply + 1
    <2>1. PICK s, i, h :
            /\ s \in MemberOf(uid, idg) /\ i \in find_post(groups[s], numb)
            /\ h \in {CountedReply(groups[s], i),
                      feed_push(CountedReply(groups[s], i), ReplyItem(uid, groups[s], i))}
            /\ Update(s, h)
            /\ reply' \in {Answer(uid, "REPLY_OK", idg, numb, numr(groups[s], i)), send_err(uid)}
            /\ sent' \subseteq notif_mcast(groups[s], "NEW_MSG")
                  \cup notif_udp_user(groups[s].posts[i].author, "FETCH", idg)
      BY <1>2 DEF handle_reply, CountedReply, ReplyItem, find_post
    <2>2. s \in DOMAIN groups /\ groups[s] \in Group /\ i \in DOMAIN groups[s].posts
      BY <2>1 DEF MemberOf, find_group, find_post, TypeOK
    <2>3. h \in Group /\ groups[s].posts[i] \in Post
      BY <2>1, <2>2, RepliedTypes
    <2>4. numr(groups[s], i) \in Nat /\ groups[s].posts[i].author \in Nat
      BY <2>3 DEF Post
    <2>5. reply' \in Reply
      BY <2>1, <2>4, ReplyTypes DEF Codes
    <2>6. sent' \subseteq Datagram
      BY <2>1, <2>2, <2>4, NotifTypes DEF Notifs
    <2>. QED  BY <2>1, <2>2, <2>3, <2>5, <2>6, UpdateKeepsTypes
  <1>. QED  BY <1>1, <1>2

\* A read changes no table; the items it returns are items of the feed.
LEMMA FeedTypes ==
    ASSUME TypeOK, NEW uid \in Nat, NEW idg \in Nat, NEW numb \in Nat, NEW numr \in Nat,
           NEW alloc \in BOOLEAN, handle_feed(uid, idg, numb, numr, alloc)
    PROVE  TypeOK'
  <1>1. CASE Refused(uid)
    BY <1>1, RefusedTypes
  <1>2. CASE ~Refused(uid)
    <2>1. PICK s, i :
            /\ s \in MemberOf(uid, idg) /\ i \in feed_index_after(groups[s], numb, numr)
            /\ TablesUnchanged
            /\ reply' = [Answer(uid, "FEED_OK", idg, 0, 0) EXCEPT !.items = After(groups[s], i)]
            /\ sent' = Fetches(groups[s], uid, After(groups[s], i))
      BY <1>2 DEF handle_feed
    <2>. DEFINE g == groups[s]
    <2>2. s \in DOMAIN groups /\ g \in Group /\ i \in DOMAIN g.feed
      BY <2>1 DEF MemberOf, find_group, feed_index_after, TypeOK
    <2>3. After(g, i) \in Seq(FeedItem)
      <3>1. g.feed \in Seq(FeedItem)
        BY <2>2 DEF Group
      <3>2. i \in 1 .. Len(g.feed)
        BY <2>2, <3>1
      <3>3. SubSeq(g.feed, i + 1, Len(g.feed)) \in Seq(FeedItem)
        BY <3>1, <3>2
      <3>. QED  BY <3>3 DEF After
    <2>4. reply' \in Reply
      <3>1. Answer(uid, "FEED_OK", idg, 0, 0) \in Reply
        BY ReplyTypes DEF Codes
      <3>. QED  BY <2>1, <2>3, <3>1 DEF Reply
    <2>5. sent' \subseteq Datagram
      <3>1. \A p \in DOMAIN g.posts : g.posts[p].author \in Nat
        <4>1. g.posts \in Seq(Post)
          BY <2>2 DEF Group
        <4>2. \A p \in DOMAIN g.posts : g.posts[p] \in Post
          BY <4>1
        <4>. QED  BY <4>2 DEF Post
      <3>2. g.idg \in Nat
        BY <2>2 DEF Group
      <3>. QED  BY <2>1, <3>1, <3>2 DEF Fetches, find_post, notif_udp_user, Datagram, Notifs
    <2>. QED  BY <2>1, <2>4, <2>5 DEF TypeOK, TablesUnchanged
  <1>. QED  BY <1>1, <1>2

\* The listings change no table.
LEMMA ListTypes ==
    ASSUME TypeOK, NEW uid \in Nat, NEW idg \in Nat,
           handle_list_inv(uid) \/ handle_list_mem(uid, idg)
    PROVE  TypeOK'
  <1>1. CASE Refused(uid)
    BY <1>1, RefusedTypes
  <1>2. CASE ~Refused(uid)
    <2>1. /\ TablesUnchanged /\ sent' = {}
          /\ reply' \in {Answer(uid, "LIST_INV_OK", 0, 0, 0), Answer(uid, "LIST_MEM_OK", idg, 0, 0)}
      BY <1>2 DEF handle_list_inv, handle_list_mem
    <2>2. reply' \in Reply
      BY <2>1, ReplyTypes DEF Codes
    <2>. QED  BY <2>1, <2>2 DEF TypeOK, TablesUnchanged
  <1>. QED  BY <1>1, <1>2

\* Next, with its quantifiers opened.
LEMMA NextCases ==
    ASSUME Next
    PROVE  \/ handle_reg
           \/ \E uid \in Callers, idg \in Nat, alloc \in Alloc :
                \/ handle_list_inv(uid) \/ handle_list_mem(uid, idg) \/ Refused(uid)
                \/ handle_new_group(uid, alloc)
                \/ \E inv \in Invitations : handle_invite(uid, idg, inv)
                \/ decline(uid, idg) \/ accept(uid, idg) \/ leave(uid, idg)
                \/ handle_post(uid, idg, alloc)
                \/ \E numb \in Nat : handle_reply(uid, idg, numb, alloc)
                \/ \E numb, numr \in Nat : handle_feed(uid, idg, numb, numr, alloc)
<1>1. Gids \subseteq Nat /\ 0 \in Nat /\ Billets \subseteq Nat /\ 0 .. MaxReplies \subseteq Nat
  BY TableSizes, Bounds DEF Gids, Billets
<1>2. TRUE \in Alloc
  BY DEF Alloc
<1>3. CASE handle_reg
  BY <1>3
<1>4. ASSUME NEW uid \in Callers, Request(uid)
      PROVE  \E idg \in Nat, alloc \in Alloc :
                \/ handle_list_inv(uid) \/ handle_list_mem(uid, idg) \/ Refused(uid)
                \/ handle_new_group(uid, alloc)
                \/ \E inv \in Invitations : handle_invite(uid, idg, inv)
                \/ decline(uid, idg) \/ accept(uid, idg) \/ leave(uid, idg)
                \/ handle_post(uid, idg, alloc)
                \/ \E numb \in Nat : handle_reply(uid, idg, numb, alloc)
                \/ \E numb, numr \in Nat : handle_feed(uid, idg, numb, numr, alloc)
  BY <1>1, <1>2, <1>4, Zenon DEF Request, BadRequest
<1>. QED  BY <1>3, <1>4 DEF Next

LEMMA NextTypes ==
    ASSUME TypeOK, [Next]_vars
    PROVE  TypeOK'
<1>1. CASE UNCHANGED vars
  BY <1>1 DEF TypeOK, vars
<1>2. CASE handle_reg
  BY <1>2, RegTypes
<1>3. ASSUME NEW uid \in Callers, NEW idg \in Nat, NEW alloc \in Alloc,
             \/ handle_list_inv(uid) \/ handle_list_mem(uid, idg) \/ Refused(uid)
             \/ handle_new_group(uid, alloc)
             \/ \E inv \in Invitations : handle_invite(uid, idg, inv)
             \/ decline(uid, idg) \/ accept(uid, idg) \/ leave(uid, idg)
             \/ handle_post(uid, idg, alloc)
             \/ \E numb \in Nat : handle_reply(uid, idg, numb, alloc)
             \/ \E numb, numr \in Nat : handle_feed(uid, idg, numb, numr, alloc)
      PROVE  TypeOK'
  <2>. uid \in Nat /\ alloc \in BOOLEAN
    BY CallerNumbers DEF Alloc
  <2>. QED  BY <1>3, RefusedTypes, ListTypes, NewGroupStepTypes, InviteTypes, AnswerTypes,
               PostTypes, ReplyStepTypes, FeedTypes
<1>. QED  BY <1>1, <1>2, <1>3, NextCases

LEMMA InitTypes == Init => TypeOK
<1>1. << >> \in Seq(Nat) /\ << >> \in Seq(Group) /\ Len(<< >>) = 0
  OBVIOUS
<1>2. Answer(0, "NONE", 0, 0, 0) \in Reply
  BY ReplyTypes DEF Codes
<1>. QED  BY <1>1, <1>2, TableSizes DEF Init, TypeOK

\* The tables of the server always have their types and stay within their sizes.
THEOREM TypeCorrect == Spec => []TypeOK
<1>. QED  BY InitTypes, NextTypes, PTL DEF Spec

(***************************************************************************)
(* The steps of one open group, uid being the caller.                      *)
(***************************************************************************)
Invites(uid, g, h) ==
    /\ uid = g.admin_id
    /\ \E new \in SUBSET Nat : /\ \A m \in new : find_user(m)
                               /\ h = group_add_pending(g, new)
Declines(uid, g, h) == uid \in g.pend /\ h = group_remove_pending(g, uid)
Joins(uid, g, h) ==
    uid \in g.pend /\ h = group_add_member(group_remove_pending(g, uid), uid)
Closes(uid, g, h) == uid \in g.mem /\ uid = g.admin_id /\ h = close_group(g)
Leaves(uid, g, h) == uid \in g.mem /\ uid # g.admin_id /\ h = group_remove_member(g, uid)

Posts(uid, g, h) ==
    /\ uid \in g.mem
    /\ \/ h = PostedBillet(uid, g)
       \/ h = feed_push(PostedBillet(uid, g), BilletItem(uid, g))

Replies(uid, g, h) ==
    /\ uid \in g.mem
    /\ \E i \in DOMAIN g.posts :
         \/ h = CountedReply(g, i)
         \/ h = feed_push(CountedReply(g, i), ReplyItem(uid, g, i))

GroupStep(uid, g, h) ==
    \/ Invites(uid, g, h) \/ Declines(uid, g, h) \/ Joins(uid, g, h)
    \/ Closes(uid, g, h) \/ Leaves(uid, g, h)
    \/ Posts(uid, g, h) \/ Replies(uid, g, h)

UserStep == /\ users' = Append(users, next_uid) /\ next_uid' = next_uid + 1
            /\ groups' = groups /\ next_gid' = next_gid

Complete(uid) ==
    group_add_member([NewGroup(next_gid) EXCEPT !.named = TRUE, !.admin_id = uid], uid)
NewGroupStep(uid) ==
    /\ find_user(uid)
    /\ \/ AllocMayFail /\ groups' = Append(groups, NewGroup(next_gid))
       \/ groups' = Append(groups, Complete(uid))
    /\ next_gid' = next_gid + 1 /\ users' = users /\ next_uid' = next_uid

OpenStep(uid) ==
    \E s \in DOMAIN groups, h \in Group :
        ~groups[s].closed /\ Update(s, h) /\ GroupStep(uid, groups[s], h)

(***************************************************************************)
(* Every request has one of the shapes.                                    *)
(***************************************************************************)
LEMMA InviteShape ==
    ASSUME TypeOK, NEW uid \in Nat, NEW idg \in Nat, NEW inv \in Invitations,
           handle_invite(uid, idg, inv)
    PROVE  TablesUnchanged \/ OpenStep(uid)
<1>1. CASE Refused(uid)
  BY <1>1 DEF Refused
<1>2. CASE ~Refused(uid)
  <2>. DEFINE new == {inv[k] : k \in Invited(inv)}
              h(s) == group_add_pending(groups[s], new)
  <2>1. new \in SUBSET Nat /\ \A m \in new : find_user(m)
    <3>0. PICK n \in 0 .. MaxInvitees : inv \in [1 .. n -> Callers]
      BY DEF Invitations
    <3>1. \A k \in Invited(inv) : k \in 1 .. n
      BY <3>0 DEF Invited
    <3>2. \A k \in Invited(inv) : inv[k] \in Nat
      BY <3>0, <3>1, CallerNumbers
    <3>3. \A k \in Invited(inv) : k \in 1 .. k
      BY <3>1, Bounds
    <3>. QED  BY <3>2, <3>3 DEF Invited
  <2>2. PICK s \in AdminOf(uid, idg) : Update(s, h(s))
    BY <1>2 DEF handle_invite
  <2>3. s \in DOMAIN groups /\ ~groups[s].closed /\ groups[s] \in Group
        /\ groups[s].admin_id = uid
    BY <2>2 DEF AdminOf, find_group, TypeOK
  <2>4. h(s) \in Group
    BY <2>1, <2>3 DEF group_add_pending, Group
  <2>5. GroupStep(uid, groups[s], h(s))
    BY <2>1, <2>3 DEF GroupStep, Invites
  <2>. QED  BY <2>2, <2>3, <2>4, <2>5 DEF OpenStep
<1>. QED  BY <1>1, <1>2

LEMMA AnswerShape ==
    ASSUME TypeOK, NEW uid \in Nat, NEW idg \in Nat,
           decline(uid, idg) \/ accept(uid, idg) \/ leave(uid, idg)
    PROVE  TablesUnchanged \/ OpenStep(uid)
<1>1. CASE Refused(uid)
  BY <1>1 DEF Refused
<1>2. CASE decline(uid, idg) /\ ~Refused(uid)
  <2>1. PICK s \in PendingOf(uid, idg) : Update(s, group_remove_pending(groups[s], uid))
    BY <1>2 DEF decline
  <2>2. s \in DOMAIN groups /\ ~groups[s].closed /\ groups[s] \in Group /\ uid \in groups[s].pend
    BY <2>1 DEF PendingOf, find_group, TypeOK
  <2>3. group_remove_pending(groups[s], uid) \in Group
    BY <2>2 DEF group_remove_pending, Group
  <2>. QED  BY <2>1, <2>2, <2>3 DEF OpenStep, GroupStep, Declines
<1>3. CASE accept(uid, idg) /\ ~Refused(uid)
  <2>. DEFINE h(s) == group_add_member(group_remove_pending(groups[s], uid), uid)
  <2>1. PICK s \in PendingOf(uid, idg) : Update(s, h(s))
    BY <1>3 DEF accept
  <2>2. s \in DOMAIN groups /\ ~groups[s].closed /\ groups[s] \in Group /\ uid \in groups[s].pend
    BY <2>1 DEF PendingOf, find_group, TypeOK
  <2>3. h(s) \in Group
    BY <2>2 DEF group_remove_pending, group_add_member, Group
  <2>. QED  BY <2>1, <2>2, <2>3 DEF OpenStep, GroupStep, Joins
<1>4. CASE leave(uid, idg) /\ ~Refused(uid)
  <2>1. PICK s \in MemberOf(uid, idg) :
          \/ groups[s].admin_id = uid /\ Update(s, close_group(groups[s]))
          \/ groups[s].admin_id # uid /\ Update(s, group_remove_member(groups[s], uid))
    BY <1>4 DEF leave
  <2>2. s \in DOMAIN groups /\ ~groups[s].closed /\ groups[s] \in Group /\ uid \in groups[s].mem
    BY <2>1 DEF MemberOf, find_group, TypeOK
  <2>3. close_group(groups[s]) \in Group /\ group_remove_member(groups[s], uid) \in Group
    BY <2>2 DEF close_group, group_remove_member, Group
  <2>. QED  BY <2>1, <2>2, <2>3 DEF OpenStep, GroupStep, Closes, Leaves
<1>. QED  BY <1>1, <1>2, <1>3, <1>4

LEMMA PostShape ==
    ASSUME TypeOK, NEW uid \in Nat, NEW idg \in Nat, NEW alloc \in BOOLEAN,
           handle_post(uid, idg, alloc)
    PROVE  TablesUnchanged \/ OpenStep(uid)
<1>1. CASE Refused(uid)
  BY <1>1 DEF Refused
<1>2. CASE ~Refused(uid)
  <2>1. PICK s, h :
          /\ s \in MemberOf(uid, idg)
          /\ Update(s, h)
          /\ h \in {PostedBillet(uid, groups[s]),
                    feed_push(PostedBillet(uid, groups[s]), BilletItem(uid, groups[s]))}
    BY <1>2 DEF handle_post, PostedBillet, BilletItem
  <2>. DEFINE g == groups[s]
  <2>2. s \in DOMAIN groups /\ ~g.closed /\ g \in Group /\ uid \in g.mem
    BY <2>1 DEF MemberOf, find_group, TypeOK
  <2>3. h \in Group
    BY <2>1, <2>2, PostedTypes
  <2>. QED  BY <2>1, <2>2, <2>3 DEF OpenStep, GroupStep, Posts
<1>. QED  BY <1>1, <1>2

LEMMA ReplyShape ==
    ASSUME TypeOK, NEW uid \in Nat, NEW idg \in Nat, NEW numb \in Nat,
           NEW alloc \in BOOLEAN, handle_reply(uid, idg, numb, alloc)
    PROVE  TablesUnchanged \/ OpenStep(uid)
<1>1. CASE Refused(uid)
  BY <1>1 DEF Refused
<1>2. CASE ~Refused(uid)
  <2>1. PICK s, i, h :
          /\ s \in MemberOf(uid, idg) /\ i \in find_post(groups[s], numb)
          /\ Update(s, h)
          /\ h \in {CountedReply(groups[s], i),
                    feed_push(CountedReply(groups[s], i), ReplyItem(uid, groups[s], i))}
    BY <1>2 DEF handle_reply, CountedReply, ReplyItem, find_post
  <2>2. /\ s \in DOMAIN groups /\ ~groups[s].closed /\ groups[s] \in Group
        /\ uid \in groups[s].mem /\ i \in DOMAIN groups[s].posts
    BY <2>1 DEF MemberOf, find_group, find_post, TypeOK
  <2>3. h \in Group
    BY <2>1, <2>2, RepliedTypes
  <2>. QED  BY <2>1, <2>2, <2>3 DEF OpenStep, GroupStep, Replies
<1>. QED  BY <1>1, <1>2

\* A step of the server: nothing, a registration, a creation, or a step of an open
\* group asked for by one of the callers, who gets the answer.
LEMMA NextShape ==
    ASSUME TypeOK, Next
    PROVE  \/ TablesUnchanged
           \/ UserStep
           \/ \E uid \in Callers :
                /\ Session(uid) /\ reply'.to = uid
                /\ NewGroupStep(uid) \/ OpenStep(uid)
<1>1. CASE handle_reg
  BY <1>1 DEF handle_reg, UserStep, Refused
<1>2. ASSUME NEW uid \in Callers, NEW idg \in Nat, NEW alloc \in Alloc,
             \/ handle_list_inv(uid) \/ handle_list_mem(uid, idg) \/ Refused(uid)
             \/ handle_new_group(uid, alloc)
             \/ \E inv \in Invitations : handle_invite(uid, idg, inv)
             \/ decline(uid, idg) \/ accept(uid, idg) \/ leave(uid, idg)
             \/ handle_post(uid, idg, alloc)
             \/ \E numb \in Nat : handle_reply(uid, idg, numb, alloc)
             \/ \E numb, numr \in Nat : handle_feed(uid, idg, numb, numr, alloc)
      PROVE  \/ TablesUnchanged
             \/ Session(uid) /\ reply'.to = uid /\ (NewGroupStep(uid) \/ OpenStep(uid))
  <2>1. uid \in Nat /\ alloc \in BOOLEAN
    BY CallerNumbers DEF Alloc
  <2>2. CASE Refused(uid) \/ handle_list_inv(uid) \/ handle_list_mem(uid, idg)
             \/ \E numb, numr \in Nat : handle_feed(uid, idg, numb, numr, alloc)
    BY <2>2 DEF Refused, handle_list_inv, handle_list_mem, handle_feed
  <2>3. CASE handle_new_group(uid, alloc)
    <3>1. Refused(uid) \/ reply'.to = uid
      BY <2>3 DEF handle_new_group, Answer, send_err
    <3>. QED  BY <2>3, <3>1 DEF handle_new_group, NewGroupStep, Complete, Refused, Alloc
  <2>4. ASSUME NEW inv \in Invitations, handle_invite(uid, idg, inv)
        PROVE  TablesUnchanged \/ (Session(uid) /\ reply'.to = uid /\ OpenStep(uid))
    <3>1. Refused(uid) \/ reply' \in {send_ack(uid), send_err(uid)}
      BY <2>4 DEF handle_invite
    <3>2. Refused(uid) \/ reply'.to = uid
      BY <3>1 DEF send_ack, send_err, Answer
    <3>3. Session(uid)
      BY <2>4 DEF handle_invite
    <3>. QED  BY <2>1, <2>4, <3>2, <3>3, InviteShape DEF Refused
  <2>5. CASE decline(uid, idg) \/ accept(uid, idg) \/ leave(uid, idg)
    <3>1. Refused(uid) \/ reply'.to = uid
      BY <2>5 DEF decline, accept, leave, Answer, send_ack, send_err
    <3>. QED  BY <2>1, <2>5, <3>1, AnswerShape DEF Refused, decline, accept, leave
  <2>6. CASE handle_post(uid, idg, alloc)
    <3>1. Refused(uid) \/ \E n : reply' \in {Answer(uid, "POST_OK", idg, n, 0), send_err(uid)}
      BY <2>6 DEF handle_post
    <3>2. Refused(uid) \/ reply'.to = uid
      BY <3>1 DEF Answer, send_err
    <3>3. Session(uid)
      BY <2>6 DEF handle_post
    <3>. QED  BY <2>1, <2>6, <3>2, <3>3, PostShape DEF Refused
  <2>7. ASSUME NEW numb \in Nat, handle_reply(uid, idg, numb, alloc)
        PROVE  TablesUnchanged \/ (Session(uid) /\ reply'.to = uid /\ OpenStep(uid))
    <3>1. Refused(uid) \/ \E n : reply' \in {Answer(uid, "REPLY_OK", idg, numb, n), send_err(uid)}
      BY <2>7 DEF handle_reply
    <3>2. Refused(uid) \/ reply'.to = uid
      BY <3>1 DEF Answer, send_err
    <3>3. Session(uid)
      BY <2>7 DEF handle_reply
    <3>. QED  BY <2>1, <2>7, <3>2, <3>3, ReplyShape DEF Refused
  <2>. QED  BY <1>2, <2>2, <2>3, <2>4, <2>5, <2>6, <2>7
<1>. QED  BY <1>1, <1>2, NextCases

(***************************************************************************)
(* The inductive invariant.  Besides the properties themselves it says     *)
(* that the counters are one past the tables, from which the freshness of  *)
(* a number and the bounds on the ports follow.                            *)
(***************************************************************************)
Counters == next_uid = Len(users) + 1 /\ next_gid = Len(groups) + 1

IInv == /\ TypeOK /\ Counters /\ IdsNameOneEntry /\ MembersRegistered
        /\ FeedNumbered /\ GhostInert

LEMMA InitIInv == Init => IInv
<1>. SUFFICES ASSUME Init PROVE IInv
  OBVIOUS
<1>1. users = << >> /\ groups = << >> /\ DOMAIN users = {} /\ DOMAIN groups = {}
  BY DEF Init
<1>2. TypeOK
  BY InitTypes
<1>3. Counters
  BY DEF Counters, Init
<1>4. IdsNameOneEntry /\ MembersRegistered /\ FeedNumbered /\ GhostInert
  BY <1>1 DEF IdsNameOneEntry, MembersRegistered, FeedNumbered, GhostInert
<1>. QED  BY <1>2, <1>3, <1>4 DEF IInv

\* What appending to a table does.
LEMMA AppendFacts ==
    ASSUME NEW S, NEW q \in Seq(S), NEW x \in S
    PROVE  /\ Append(q, x) \in Seq(S) /\ Len(Append(q, x)) = Len(q) + 1
           /\ DOMAIN Append(q, x) = DOMAIN q \cup {Len(q) + 1}
           /\ \A i \in DOMAIN q : Append(q, x)[i] = q[i]
           /\ Append(q, x)[Len(q) + 1] = x
           /\ DOMAIN q = 1 .. Len(q) /\ Len(q) \in Nat /\ Len(q) + 1 \notin DOMAIN q
  OBVIOUS

\* No step forgets a user.
LEMMA UsersStay ==
    ASSUME TypeOK, UserStep \/ users' = users
    PROVE  \A u : find_user(u) => find_user(u)'
<1>1. CASE users' = users
  BY <1>1 DEF find_user
<1>2. CASE UserStep
  <2>1. users \in Seq(Nat) /\ next_uid \in Nat /\ users' = Append(users, next_uid)
    BY <1>2 DEF TypeOK, UserStep
  <2>2. /\ DOMAIN users \subseteq DOMAIN users'
        /\ \A i \in DOMAIN users : users'[i] = users[i]
    BY <2>1, AppendFacts
  <2>. QED  BY <2>2 DEF find_user
<1>. QED  BY <1>1, <1>2

(***************************************************************************)
(* Numbers.                                                                *)
(***************************************************************************)
\* A step of an open group keeps its number, and the name, administrator and number
\* of an entry never change.
LEMMA GroupStepKeeps ==
    ASSUME NEW uid, NEW g \in Group, NEW h, GroupStep(uid, g, h)
    PROVE  h.idg = g.idg /\ h.admin_id = g.admin_id /\ h.named = g.named
  BY DEF GroupStep, Invites, Declines, Joins, Closes, Leaves, Posts, Replies, Group,
         group_add_pending, group_remove_pending, group_add_member, close_group,
         group_remove_member, PostedBillet, feed_push, CountedReply

LEMMA NumbersStep ==
    ASSUME IInv, Next
    PROVE  Counters' /\ IdsNameOneEntry'
<1>. USE DEF IInv
<1>1. CASE TablesUnchanged
  BY <1>1 DEF TablesUnchanged, Counters, IdsNameOneEntry
<1>2. CASE UserStep
  <2>1. users \in Seq(Nat) /\ next_uid \in Nat
    BY DEF TypeOK
  <2>. QED  BY <1>2, <2>1, AppendFacts DEF UserStep, Counters, IdsNameOneEntry
<1>3. ASSUME NEW uid \in Callers, NewGroupStep(uid)
      PROVE  Counters' /\ IdsNameOneEntry'
  <2>1. PICK h \in Group : h.idg = next_gid /\ groups' = Append(groups, h)
    BY <1>3, NewGroupTypes, CallerNumbers
       DEF NewGroupStep, Complete, NewGroup, TypeOK, group_add_member
  <2>2. groups \in Seq(Group) /\ next_gid \in Nat
    BY DEF TypeOK
  <2>. QED  BY <1>3, <2>1, <2>2, AppendFacts DEF NewGroupStep, Counters, IdsNameOneEntry
<1>4. ASSUME NEW uid \in Callers, OpenStep(uid)
      PROVE  Counters' /\ IdsNameOneEntry'
  <2>1. PICK s \in DOMAIN groups, h \in Group : Update(s, h) /\ GroupStep(uid, groups[s], h)
    BY <1>4 DEF OpenStep
  <2>2. h.idg = groups[s].idg
    BY <2>1, GroupStepKeeps DEF TypeOK
  <2>3. /\ DOMAIN groups' = DOMAIN groups /\ Len(groups') = Len(groups)
        /\ users' = users /\ next_uid' = next_uid /\ next_gid' = next_gid
        /\ \A t \in DOMAIN groups : groups'[t].idg = groups[t].idg
    BY <2>1, <2>2, UpdateTypes
  <2>. QED  BY <2>3 DEF Counters, IdsNameOneEntry
<1>. QED  BY <1>1, <1>2, <1>3, <1>4, NextShape

(***************************************************************************)
(* Membership.                                                             *)
(***************************************************************************)
Registered(g) == /\ \A m \in g.mem \cup g.pend : find_user(m)
                 /\ g.named => g.admin_id \in g.mem

LEMMA RegisteredStep ==
    ASSUME NEW uid, NEW g \in Group, NEW h, GroupStep(uid, g, h), Registered(g)
    PROVE  Registered(h)
<1>1. CASE Invites(uid, g, h)
  BY <1>1 DEF Invites, Registered, group_add_pending, Group
<1>2. CASE Declines(uid, g, h) \/ Joins(uid, g, h)
  BY <1>2 DEF Declines, Joins, Registered, group_remove_pending, group_add_member, Group
<1>3. CASE Closes(uid, g, h) \/ Leaves(uid, g, h)
  BY <1>3 DEF Closes, Leaves, Registered, close_group, group_remove_member, Group
<1>4. CASE Posts(uid, g, h) \/ Replies(uid, g, h)
  <2>1. h.mem = g.mem /\ h.pend = g.pend /\ h.named = g.named /\ h.admin_id = g.admin_id
    BY <1>4 DEF Posts, Replies, PostedBillet, CountedReply, feed_push, Group
  <2>. QED  BY <2>1 DEF Registered
<1>. QED  BY <1>1, <1>2, <1>3, <1>4 DEF GroupStep

LEMMA MembersStep ==
    ASSUME IInv, Next
    PROVE  MembersRegistered'
<1>. USE DEF IInv
<1>0. \A s \in DOMAIN groups : Registered(groups[s])
  BY DEF MembersRegistered, Registered
<1>1. CASE TablesUnchanged
  BY <1>1 DEF TablesUnchanged, MembersRegistered, find_user
<1>2. CASE UserStep
  BY <1>2, UsersStay DEF UserStep, MembersRegistered
<1>3. ASSUME NEW uid \in Callers, NewGroupStep(uid)
      PROVE  MembersRegistered'
  <2>1. PICK h \in Group : Registered(h) /\ groups' = Append(groups, h)
    BY <1>3, NewGroupTypes, CallerNumbers
       DEF NewGroupStep, Complete, NewGroup, TypeOK, group_add_member, Registered
  <2>2. groups \in Seq(Group) /\ users' = users
    BY <1>3 DEF TypeOK, NewGroupStep
  <2>3. \A s \in DOMAIN groups' : Registered(groups'[s])
    BY <1>0, <2>1, <2>2, AppendFacts
  <2>. QED  BY <2>2, <2>3 DEF MembersRegistered, Registered, find_user
<1>4. ASSUME NEW uid \in Callers, OpenStep(uid)
      PROVE  MembersRegistered'
  <2>1. PICK s \in DOMAIN groups, h \in Group : Update(s, h) /\ GroupStep(uid, groups[s], h)
    BY <1>4 DEF OpenStep
  <2>2. Registered(h)
    BY <1>0, <2>1, RegisteredStep DEF TypeOK
  <2>3. users' = users /\ \A t \in DOMAIN groups' : Registered(groups'[t])
    BY <1>0, <2>1, <2>2, UpdateTypes
  <2>. QED  BY <2>3 DEF MembersRegistered, Registered, find_user
<1>. QED  BY <1>1, <1>2, <1>3, <1>4, NextShape

(***************************************************************************)
(* The entry of a failed creation.                                         *)
(***************************************************************************)
Inert(g) == ~g.named => /\ g.admin_id = 0
                        /\ g.mem = {} /\ g.pend = {} /\ g.feed = << >>

LEMMA GhostStep ==
    ASSUME IInv, Next
    PROVE  GhostInert'
<1>. USE DEF IInv
<1>. SUFFICES ASSUME SigningKey \/ 0 \notin Callers
              PROVE  \A s \in DOMAIN groups' : Inert(groups'[s])
  BY DEF GhostInert, Inert
<1>0. \A s \in DOMAIN groups : Inert(groups[s])
  BY DEF GhostInert, Inert
<1>1. CASE TablesUnchanged \/ UserStep
  BY <1>0, <1>1 DEF TablesUnchanged, UserStep
<1>2. ASSUME NEW uid \in Callers, NewGroupStep(uid)
      PROVE  \A s \in DOMAIN groups' : Inert(groups'[s])
  <2>1. PICK h \in Group : Inert(h) /\ groups' = Append(groups, h)
    BY <1>2, NewGroupTypes, CallerNumbers
       DEF NewGroupStep, Complete, NewGroup, TypeOK, group_add_member, Inert
  <2>2. groups \in Seq(Group)
    BY DEF TypeOK
  <2>. QED  BY <1>0, <2>1, <2>2, AppendFacts
<1>3. ASSUME NEW uid \in Callers, Session(uid), OpenStep(uid)
      PROVE  \A s \in DOMAIN groups' : Inert(groups'[s])
  <2>1. PICK s \in DOMAIN groups, h \in Group : Update(s, h) /\ GroupStep(uid, groups[s], h)
    BY <1>3 DEF OpenStep
  <2>2. uid # 0
    <3>1. find_user(uid) => uid # 0
      BY DEF find_user, IdsNameOneEntry, TypeOK
    <3>. QED  BY <1>3, <3>1 DEF Session
  <2>3. ~groups[s].named => FALSE
    BY <1>0, <2>1, <2>2 DEF Inert, GroupStep, Invites, Declines, Joins, Closes, Leaves,
                            Posts, Replies
  <2>4. h.named = groups[s].named
    BY <2>1, GroupStepKeeps DEF TypeOK
  <2>5. Inert(h)
    BY <2>3, <2>4 DEF Inert
  <2>. QED  BY <1>0, <2>1, <2>5, UpdateTypes
<1>. QED  BY <1>1, <1>2, <1>3, NextShape

(***************************************************************************)
(* The feed.                                                               *)
(***************************************************************************)
\* Only a post or a reply touches what Numbered is about.
LEMMA NumberedOthers ==
    ASSUME NEW uid, NEW g \in Group, NEW h, Numbered(g),
           \/ Invites(uid, g, h) \/ Declines(uid, g, h) \/ Joins(uid, g, h)
           \/ Closes(uid, g, h) \/ Leaves(uid, g, h)
    PROVE  Numbered(h)
<1>1. h.posts = g.posts /\ h.next_billet = g.next_billet /\ h.feed = g.feed
  BY DEF Invites, Declines, Joins, Closes, Leaves, Group, group_add_pending,
         group_remove_pending, group_add_member, close_group, group_remove_member
<1>. QED  BY <1>1 DEF Numbered

\* A billet takes the next number, and its item follows items with smaller numbers.
LEMMA NumberedPost ==
    ASSUME NEW uid \in Nat, NEW g \in Group, NEW h, Numbered(g), Posts(uid, g, h)
    PROVE  Numbered(h)
<1>. DEFINE po == [numb |-> g.next_billet, author |-> uid, next_reply |-> 0]
<1>1. g.posts \in Seq(Post) /\ g.feed \in Seq(FeedItem) /\ g.next_billet \in Nat
  BY DEF Group
<1>2. po \in Post /\ BilletItem(uid, g) \in FeedItem
  BY <1>1 DEF Post, FeedItem, BilletItem
<1>3. /\ h.posts = Append(g.posts, po) /\ h.next_billet = g.next_billet + 1
      /\ h.feed = g.feed \/ h.feed = Append(g.feed, BilletItem(uid, g))
  BY DEF Posts, PostedBillet, feed_push, Group
<1>4. po.numb = Len(g.posts) /\ po.author = uid /\ po.next_reply = 0 /\ g.next_billet = Len(g.posts)
  BY DEF Numbered
<1>5. \A k \in DOMAIN g.feed : /\ g.feed[k] \in FeedItem
                               /\ g.feed[k].numb \in Nat /\ g.feed[k].numr \in Nat
  <2>1. \A k \in DOMAIN g.feed : g.feed[k] \in FeedItem
    BY <1>1
  <2>. QED  BY <2>1 DEF FeedItem
<1>. HIDE DEF po
<1>6. /\ Len(h.posts) = Len(g.posts) + 1
      /\ DOMAIN h.posts = 1 .. Len(g.posts) + 1
      /\ \A i \in DOMAIN g.posts : h.posts[i] = g.posts[i]
      /\ h.posts[Len(g.posts) + 1] = po
      /\ DOMAIN g.posts = 1 .. Len(g.posts)
  BY <1>1, <1>2, <1>3
<1>7. h.next_billet = Len(h.posts) /\ \A i \in DOMAIN h.posts : h.posts[i].numb = i - 1
  BY <1>3, <1>4, <1>6 DEF Numbered
<1>8. \A k \in DOMAIN g.feed :
        /\ g.feed[k].numb < Len(h.posts)
        /\ g.feed[k].numr =< h.posts[g.feed[k].numb + 1].next_reply
        /\ g.feed[k].numr = 0 => g.feed[k].author = h.posts[g.feed[k].numb + 1].author
  <2>. TAKE k \in DOMAIN g.feed
  <2>1. g.feed[k].numb < Len(g.posts) /\ g.feed[k].numb + 1 \in DOMAIN g.posts
    BY <1>5, <1>6 DEF Numbered
  <2>2. h.posts[g.feed[k].numb + 1] = g.posts[g.feed[k].numb + 1]
    BY <1>6, <2>1
  <2>. QED  BY <1>1, <1>5, <1>6, <2>1, <2>2 DEF Numbered
<1>9. CASE h.feed = g.feed
  BY <1>7, <1>8, <1>9 DEF Numbered
<1>10. CASE h.feed = Append(g.feed, BilletItem(uid, g))
  <2>. DEFINE n == Len(g.feed) + 1
  <2>1. /\ DOMAIN h.feed = DOMAIN g.feed \cup {n} /\ DOMAIN g.feed = 1 .. Len(g.feed)
        /\ \A k \in DOMAIN g.feed : h.feed[k] = g.feed[k]
        /\ h.feed[n] = BilletItem(uid, g) /\ Len(g.feed) \in Nat
    BY <1>1, <1>2, <1>10, AppendFacts
  <2>2. h.feed[n].numb = Len(g.posts) /\ h.feed[n].numr = 0 /\ h.feed[n].author = uid
    BY <1>4, <2>1 DEF BilletItem
  <2>3. /\ h.feed[n].numb < Len(h.posts)
        /\ h.feed[n].numr =< h.posts[h.feed[n].numb + 1].next_reply
        /\ h.feed[n].author = h.posts[h.feed[n].numb + 1].author
    BY <1>1, <1>4, <1>6, <2>2
  <2>4. \A j \in DOMAIN g.feed : g.feed[j].numb < h.feed[n].numb
    BY <2>2 DEF Numbered
  <2>5. \A j, k \in DOMAIN h.feed : j < k =>
          /\ h.feed[j].numb = h.feed[k].numb => h.feed[j].numr < h.feed[k].numr
          /\ h.feed[j].numr = 0 /\ h.feed[k].numr = 0 => h.feed[j].numb < h.feed[k].numb
    <3>. TAKE j, k \in DOMAIN h.feed
    <3>. HAVE j < k
    <3>1. j \in DOMAIN g.feed
      BY <2>1
    <3>2. CASE k = n
      BY <1>5, <2>1, <2>2, <2>4, <3>1, <3>2
    <3>3. CASE k \in DOMAIN g.feed
      BY <2>1, <3>1, <3>3 DEF Numbered
    <3>. QED  BY <2>1, <3>2, <3>3
  <2>. HIDE DEF n
  <2>. QED  BY <1>7, <1>8, <2>1, <2>3, <2>5 DEF Numbered
<1>. QED  BY <1>3, <1>9, <1>10

\* A reply takes the number after the last one of its billet.
LEMMA NumberedReply ==
    ASSUME NEW uid \in Nat, NEW g \in Group, NEW h, Numbered(g), Replies(uid, g, h)
    PROVE  Numbered(h)
<1>1. PICK i \in DOMAIN g.posts :
        \/ h = CountedReply(g, i)
        \/ h = feed_push(CountedReply(g, i), ReplyItem(uid, g, i))
  BY DEF Replies
<1>. DEFINE r == g.posts[i].next_reply + 1
            it == ReplyItem(uid, g, i)
<1>2. g.posts \in Seq(Post) /\ g.feed \in Seq(FeedItem) /\ g.next_billet \in Nat
  BY DEF Group
<1>3. g.posts[i] \in Post /\ it \in FeedItem
  BY <1>2, RepliedTypes
<1>4. /\ h.posts = [g.posts EXCEPT ![i].next_reply = r] /\ h.next_billet = g.next_billet
      /\ h.feed = g.feed \/ h.feed = Append(g.feed, it)
  BY <1>1 DEF CountedReply, feed_push, Group
<1>5. r \in Nat /\ g.posts[i].next_reply \in Nat /\ g.posts[i].next_reply < r
  BY <1>3 DEF Post
<1>6. /\ DOMAIN h.posts = DOMAIN g.posts /\ Len(h.posts) = Len(g.posts)
      /\ \A p \in DOMAIN g.posts :
           /\ h.posts[p].numb = g.posts[p].numb /\ h.posts[p].author = g.posts[p].author
           /\ h.posts[p].next_reply = IF p = i THEN r ELSE g.posts[p].next_reply
  <2>1. /\ DOMAIN h.posts = DOMAIN g.posts /\ Len(h.posts) = Len(g.posts)
        /\ \A p \in DOMAIN g.posts :
             h.posts[p] = IF p = i THEN [g.posts[i] EXCEPT !.next_reply = r] ELSE g.posts[p]
    BY <1>2, <1>4
  <2>2. \A p \in DOMAIN g.posts : g.posts[p] \in Post
    BY <1>2
  <2>. HIDE DEF r
  <2>. QED  BY <2>1, <2>2 DEF Post
<1>7. h.next_billet = Len(h.posts) /\ \A p \in DOMAIN h.posts : h.posts[p].numb = p - 1
  BY <1>4, <1>6 DEF Numbered
<1>8. \A k \in DOMAIN g.feed :
        /\ g.feed[k].numb \in Nat /\ g.feed[k].numr \in Nat
        /\ g.feed[k].numb + 1 \in DOMAIN g.posts
        /\ g.feed[k].numr =< g.posts[g.feed[k].numb + 1].next_reply
  <2>0. \A k \in DOMAIN g.feed : g.feed[k] \in FeedItem
    BY <1>2
  <2>1. \A k \in DOMAIN g.feed : g.feed[k].numb \in Nat /\ g.feed[k].numr \in Nat
    BY <2>0 DEF FeedItem
  <2>2. DOMAIN g.posts = 1 .. Len(g.posts)
    BY <1>2
  <2>. QED  BY <2>1, <2>2 DEF Numbered
<1>9. \A k \in DOMAIN g.feed :
        /\ g.feed[k].numb < Len(h.posts)
        /\ g.feed[k].numr =< h.posts[g.feed[k].numb + 1].next_reply
        /\ g.feed[k].numr = 0 => g.feed[k].author = h.posts[g.feed[k].numb + 1].author
  <2>. TAKE k \in DOMAIN g.feed
  <2>. DEFINE p == g.feed[k].numb + 1
  <2>1. p \in DOMAIN g.posts /\ g.posts[p] \in Post
    BY <1>2, <1>8
  <2>2. g.posts[p].next_reply \in Nat
    BY <2>1 DEF Post
  <2>3. /\ h.posts[p].author = g.posts[p].author
        /\ h.posts[p].next_reply = IF p = i THEN r ELSE g.posts[p].next_reply
    BY <1>6, <2>1
  <2>4. g.feed[k].numr \in Nat /\ g.feed[k].numr =< g.posts[p].next_reply
    BY <1>8
  <2>5. g.feed[k].numb < Len(h.posts)
    BY <1>6 DEF Numbered
  <2>6. g.feed[k].numr = 0 => g.feed[k].author = g.posts[p].author
    BY DEF Numbered
  <2>. HIDE DEF r, p
  <2>7. g.feed[k].numr =< h.posts[p].next_reply
    <3>1. CASE p = i
      BY <1>5, <2>3, <2>4, <3>1
    <3>2. CASE p # i
      BY <2>3, <2>4, <3>2
    <3>. QED  BY <3>1, <3>2
  <2>8. g.feed[k].numr = 0 => g.feed[k].author = h.posts[p].author
    BY <2>3, <2>6
  <2>. QED  BY <2>5, <2>7, <2>8 DEF p
<1>10. CASE h.feed = g.feed
  BY <1>7, <1>9, <1>10 DEF Numbered
<1>11. CASE h.feed = Append(g.feed, it)
  <2>. DEFINE n == Len(g.feed) + 1
  <2>1. /\ DOMAIN h.feed = DOMAIN g.feed \cup {n} /\ DOMAIN g.feed = 1 .. Len(g.feed)
        /\ \A k \in DOMAIN g.feed : h.feed[k] = g.feed[k]
        /\ h.feed[n] = it /\ Len(g.feed) \in Nat
    BY <1>2, <1>3, <1>11, AppendFacts
  <2>2. h.feed[n].numb = i - 1 /\ h.feed[n].numr = r
    BY <2>1 DEF ReplyItem, Numbered
  <2>3. i \in 1 .. Len(g.posts)
    BY <1>2
  <2>4. /\ h.feed[n].numb < Len(h.posts)
        /\ h.feed[n].numr =< h.posts[h.feed[n].numb + 1].next_reply
        /\ h.feed[n].numr # 0
    BY <1>5, <1>6, <2>2, <2>3
  <2>5. \A j \in DOMAIN g.feed : g.feed[j].numb = h.feed[n].numb => g.feed[j].numr < r
    <3>. TAKE j \in DOMAIN g.feed
    <3>. HAVE g.feed[j].numb = h.feed[n].numb
    <3>1. g.feed[j].numb + 1 = i
      BY <1>8, <2>2, <2>3
    <3>2. g.feed[j].numr =< g.posts[i].next_reply
      BY <1>8, <3>1
    <3>. HIDE DEF r
    <3>. QED  BY <1>5, <1>8, <3>2
  <2>6. \A j, k \in DOMAIN h.feed : j < k =>
          /\ h.feed[j].numb = h.feed[k].numb => h.feed[j].numr < h.feed[k].numr
          /\ h.feed[j].numr = 0 /\ h.feed[k].numr = 0 => h.feed[j].numb < h.feed[k].numb
    <3>. TAKE j, k \in DOMAIN h.feed
    <3>. HAVE j < k
    <3>1. j \in DOMAIN g.feed
      BY <2>1
    <3>2. CASE k = n
      BY <2>1, <2>2, <2>4, <2>5, <3>1, <3>2
    <3>3. CASE k \in DOMAIN g.feed
      BY <2>1, <3>1, <3>3 DEF Numbered
    <3>. QED  BY <2>1, <3>2, <3>3
  <2>. HIDE DEF n, r, it
  <2>. QED  BY <1>7, <1>9, <2>1, <2>4, <2>6 DEF Numbered
<1>. QED  BY <1>4, <1>10, <1>11

LEMMA FeedStep ==
    ASSUME IInv, Next
    PROVE  FeedNumbered'
<1>. USE DEF IInv
<1>0. \A s \in DOMAIN groups : Numbered(groups[s])
  BY DEF FeedNumbered
<1>1. CASE TablesUnchanged \/ UserStep
  BY <1>1 DEF TablesUnchanged, UserStep, FeedNumbered
<1>2. ASSUME NEW uid \in Callers, NewGroupStep(uid)
      PROVE  FeedNumbered'
  <2>1. PICK h \in Group : /\ groups' = Append(groups, h)
                           /\ h.posts = << >> /\ h.next_billet = 0 /\ h.feed = << >>
    BY <1>2, NewGroupTypes, CallerNumbers
       DEF NewGroupStep, Complete, NewGroup, TypeOK, group_add_member
  <2>2. Numbered(h)
    BY <2>1 DEF Numbered
  <2>3. groups \in Seq(Group)
    BY DEF TypeOK
  <2>. QED  BY <1>0, <2>1, <2>2, <2>3, AppendFacts DEF FeedNumbered
<1>3. ASSUME NEW uid \in Callers, OpenStep(uid)
      PROVE  FeedNumbered'
  <2>1. PICK s \in DOMAIN groups, h \in Group : Update(s, h) /\ GroupStep(uid, groups[s], h)
    BY <1>3 DEF OpenStep
  <2>2. groups[s] \in Group /\ uid \in Nat
    BY CallerNumbers DEF TypeOK
  <2>3. Numbered(h)
    BY <1>0, <2>1, <2>2, NumberedOthers, NumberedPost, NumberedReply DEF GroupStep
  <2>. QED  BY <1>0, <2>1, <2>3, UpdateTypes DEF FeedNumbered
<1>. QED  BY <1>1, <1>2, <1>3, NextShape

(***************************************************************************)
(* The theorems.                                                           *)
(***************************************************************************)
LEMMA NextIInv == IInv /\ [Next]_vars => IInv'
<1>. SUFFICES ASSUME IInv, [Next]_vars PROVE IInv'
  OBVIOUS
<1>1. CASE UNCHANGED vars
  BY <1>1 DEF IInv, TypeOK, Counters, IdsNameOneEntry, MembersRegistered, FeedNumbered,
              GhostInert, find_user, vars
<1>2. CASE Next
  <2>1. TypeOK'
    BY NextTypes DEF IInv
  <2>. QED  BY <1>2, <2>1, NumbersStep, MembersStep, FeedStep, GhostStep DEF IInv
<1>. QED  BY <1>1, <1>2

LEMMA Inductive == Spec => []IInv
BY InitIInv, NextIInv, PTL DEF Spec

\* Every number names one entry for ever.
THEOREM NumbersUnique == Spec => []IdsNameOneEntry
<1>1. IInv => IdsNameOneEntry
  BY DEF IInv
<1>. QED  BY <1>1, Inductive, PTL

\* Members and invitees are registered; the administrator of a group is a member.
THEOREM MembersAlwaysRegistered == Spec => []MembersRegistered
<1>1. IInv => MembersRegistered
  BY DEF IInv
<1>. QED  BY <1>1, Inductive, PTL

\* Every feed is numbered consistently, so that a cursor names one position.
THEOREM FeedAlwaysNumbered == Spec => []FeedNumbered
<1>1. IInv => FeedNumbered
  BY DEF IInv
<1>. QED  BY <1>1, Inductive, PTL

\* The entry of a failed creation stays empty.
THEOREM GhostsStayInert == Spec => []GhostInert
<1>1. IInv => GhostInert
  BY DEF IInv
<1>. QED  BY <1>1, Inductive, PTL

(***************************************************************************)
(* Ports.                                                                  *)
(***************************************************************************)
\* Numbers from 1 to n differ modulo n.
LEMMA Remainders ==
    ASSUME NEW n \in Nat \ {0}, NEW a \in 1 .. n, NEW b \in 1 .. n, a % n = b % n
    PROVE  a = b
<1>1. \A x \in 1 .. n : x % n = IF x = n THEN 0 ELSE x
  OBVIOUS
<1>. QED  BY <1>1

\* The digits of a number below 10000 determine it, and so does the number that has
\* them as hexadecimal digits.
LEMMA Digits ==
    ASSUME NEW a \in Nat, a < 10000, NEW b \in Nat, b < 10000, mcast_ip(a) = mcast_ip(b)
    PROVE  a = b
<1>1. \A x \in Nat : x % 10 \in 0 .. 9 /\ x \div 10 \in Nat /\ x = 10 * (x \div 10) + (x % 10)
  OBVIOUS
<1>2. \A x \in Nat : /\ x \div 100 = (x \div 10) \div 10
                    /\ x \div 1000 = ((x \div 10) \div 10) \div 10
  OBVIOUS
<1>3. ASSUME NEW x \in Nat, x < 10000
      PROVE  /\ x % 10 \in 0 .. 9 /\ (x \div 10) % 10 \in 0 .. 9
             /\ (x \div 100) % 10 \in 0 .. 9 /\ (x \div 1000) % 10 \in 0 .. 9
             /\ x = (x % 10) + 10 * ((x \div 10) % 10) + 100 * ((x \div 100) % 10)
                      + 1000 * ((x \div 1000) % 10)
  <2>. DEFINE d1 == x \div 10
              d2 == d1 \div 10
              d3 == d2 \div 10
  <2>1. d1 \in Nat /\ x % 10 \in 0 .. 9 /\ x = 10 * d1 + (x % 10)
    BY <1>1
  <2>2. d2 \in Nat /\ d1 % 10 \in 0 .. 9 /\ d1 = 10 * d2 + (d1 % 10)
    BY <1>1, <2>1
  <2>3. d3 \in Nat /\ d2 % 10 \in 0 .. 9 /\ d2 = 10 * d3 + (d2 % 10)
    BY <1>1, <2>2
  <2>4. d3 < 10 /\ d3 % 10 = d3
    <3>. HIDE DEF d1, d2, d3
    <3>1. d3 < 10
      BY <1>3, <2>1, <2>2, <2>3
    <3>. QED  BY <2>3, <3>1
  <2>5. d2 = x \div 100 /\ d3 = x \div 1000
    BY <1>2
  <2>6. x = (x % 10) + 10 * (d1 % 10) + 100 * (d2 % 10) + 1000 * (d3 % 10)
    <3>. HIDE DEF d1, d2, d3
    <3>. QED  BY <2>1, <2>2, <2>3, <2>4
  <2>7. d3 % 10 \in 0 .. 9
    BY <1>1, <2>3
  <2>. QED  BY <2>1, <2>2, <2>3, <2>5, <2>6, <2>7
<1>. DEFINE a0 == a % 10          b0 == b % 10
            a1 == (a \div 10) % 10     b1 == (b \div 10) % 10
            a2 == (a \div 100) % 10    b2 == (b \div 100) % 10
            a3 == (a \div 1000) % 10   b3 == (b \div 1000) % 10
<1>4. /\ a0 \in 0 .. 9 /\ a1 \in 0 .. 9 /\ a2 \in 0 .. 9 /\ a3 \in 0 .. 9
      /\ a = a0 + 10 * a1 + 100 * a2 + 1000 * a3
  BY <1>3
<1>5. /\ b0 \in 0 .. 9 /\ b1 \in 0 .. 9 /\ b2 \in 0 .. 9 /\ b3 \in 0 .. 9
      /\ b = b0 + 10 * b1 + 100 * b2 + 1000 * b3
  BY <1>3
<1>6. a0 + 16 * a1 + 256 * a2 + 4096 * a3 = b0 + 16 * b1 + 256 * b2 + 4096 * b3
  BY DEF mcast_ip
<1>. HIDE DEF a0, a1, a2, a3, b0, b1, b2, b3
<1>7. a0 = b0 /\ a1 = b1 /\ a2 = b2 /\ a3 = b3
  BY <1>4, <1>5, <1>6
<1>. QED  BY <1>4, <1>5, <1>7

\* No two users share a notification port, no two groups a multicast port or address.
THEOREM PortsAlwaysDistinct == Spec => []PortsDistinct
<1>1. IInv => PortsDistinct
  <2>. SUFFICES ASSUME IInv PROVE PortsDistinct
    OBVIOUS
  <2>0. /\ users \in Seq(Nat) /\ Len(users) =< MAX_USERS /\ next_uid = Len(users) + 1
        /\ groups \in Seq(Group) /\ Len(groups) =< MAX_GROUPS /\ next_gid = Len(groups) + 1
    BY DEF IInv, TypeOK, Counters
  <2>1. ASSUME NEW i \in DOMAIN users, NEW j \in DOMAIN users,
               udp_port(users[i]) = udp_port(users[j])
        PROVE  i = j
    <3>1. users[i] \in 1 .. UDP_PORTS /\ users[j] \in 1 .. UDP_PORTS
      BY <2>0, TableSizes, PortRanges DEF IInv, IdsNameOneEntry
    <3>2. users[i] % UDP_PORTS = users[j] % UDP_PORTS
      <4>1. \A x \in Nat : x % UDP_PORTS \in Int
        BY PortRanges
      <4>. QED  BY <2>1, <3>1, <4>1 DEF udp_port
    <3>3. users[i] = users[j]
      BY <3>1, <3>2, Remainders, PortRanges
    <3>. QED  BY <3>3 DEF IInv, IdsNameOneEntry
  <2>2. ASSUME NEW s \in DOMAIN groups, NEW t \in DOMAIN groups,
               \/ mcast_port(groups[s].idg) = mcast_port(groups[t].idg)
               \/ mcast_ip(groups[s].idg) = mcast_ip(groups[t].idg)
        PROVE  s = t
    <3>0. groups[s].idg \in 1 .. MAX_GROUPS /\ groups[t].idg \in 1 .. MAX_GROUPS
      BY <2>0, TableSizes DEF IInv, IdsNameOneEntry
    <3>1. groups[s].idg \in 1 .. MCAST_PORTS /\ groups[t].idg \in 1 .. MCAST_PORTS
      BY <3>0, TableSizes, PortRanges
    <3>2. CASE mcast_port(groups[s].idg) = mcast_port(groups[t].idg)
      <4>1. \A x \in Nat : x % MCAST_PORTS \in Int
        BY PortRanges
      <4>2. groups[s].idg % MCAST_PORTS = groups[t].idg % MCAST_PORTS
        BY <3>1, <3>2, <4>1 DEF mcast_port
      <4>3. groups[s].idg = groups[t].idg
        BY <3>1, <4>2, Remainders, PortRanges
      <4>. QED  BY <4>3 DEF IInv, IdsNameOneEntry
    <3>3. CASE mcast_ip(groups[s].idg) = mcast_ip(groups[t].idg)
      <4>0. /\ groups[s].idg \in Nat /\ groups[s].idg < 10000
            /\ groups[t].idg \in Nat /\ groups[t].idg < 10000
        BY <3>0, TableSizes, PortRanges
      <4>1. groups[s].idg = groups[t].idg
        BY <4>0, <3>3, Digits
      <4>. QED  BY <4>1 DEF IInv, IdsNameOneEntry
    <3>. QED  BY <2>2, <3>2, <3>3
  <2>. QED  BY <2>1, <2>2 DEF PortsDistinct
<1>. QED  BY <1>1, Inductive, PTL

(***************************************************************************)
(* Every step.                                                             *)
(***************************************************************************)
\* A step of an open group is by the caller's own decision, and only adds to what
\* was written.
LEMMA GroupStepDecided ==
    ASSUME NEW uid \in Nat, NEW g \in Group, NEW h \in Group, GroupStep(uid, g, h),
           reply'.to = uid
    PROVE  ByOwnDecision(g, h)
<1>1. CASE Invites(uid, g, h)
  BY <1>1 DEF Invites, group_add_pending, Group, ByOwnDecision
<1>2. CASE Declines(uid, g, h)
  BY <1>2 DEF Declines, group_remove_pending, Group, ByOwnDecision
<1>3. CASE Joins(uid, g, h)
  BY <1>3 DEF Joins, group_remove_pending, group_add_member, Group, ByOwnDecision
<1>4. CASE Closes(uid, g, h)
  BY <1>4 DEF Closes, close_group, Group, ByOwnDecision
<1>5. CASE Leaves(uid, g, h)
  BY <1>5 DEF Leaves, group_remove_member, Group, ByOwnDecision
<1>6. CASE Posts(uid, g, h) \/ Replies(uid, g, h)
  <2>1. PICK item \in FeedItem :
          /\ uid \in g.mem /\ item.author = uid
          /\ h.mem = g.mem /\ h.pend = g.pend /\ h.closed = g.closed
          /\ h.feed = g.feed \/ h.feed = Append(g.feed, item)
    <3>1. CASE Posts(uid, g, h)
      <4>1. BilletItem(uid, g) \in FeedItem /\ BilletItem(uid, g).author = uid
        BY PostedTypes DEF BilletItem
      <4>2. /\ h.mem = g.mem /\ h.pend = g.pend /\ h.closed = g.closed
            /\ h.feed = g.feed \/ h.feed = Append(g.feed, BilletItem(uid, g))
        BY <3>1 DEF Posts, PostedBillet, feed_push, Group
      <4>. QED  BY <3>1, <4>1, <4>2 DEF Posts
    <3>2. CASE Replies(uid, g, h)
      <4>1. PICK i \in DOMAIN g.posts :
              \/ h = CountedReply(g, i)
              \/ h = feed_push(CountedReply(g, i), ReplyItem(uid, g, i))
        BY <3>2 DEF Replies
      <4>2. ReplyItem(uid, g, i) \in FeedItem /\ ReplyItem(uid, g, i).author = uid
        BY RepliedTypes DEF ReplyItem
      <4>3. /\ h.mem = g.mem /\ h.pend = g.pend /\ h.closed = g.closed
            /\ h.feed = g.feed \/ h.feed = Append(g.feed, ReplyItem(uid, g, i))
        BY <4>1 DEF CountedReply, feed_push, Group
      <4>. QED  BY <3>2, <4>2, <4>3 DEF Replies
    <3>. QED  BY <1>6, <3>1, <3>2
  <2>2. g.feed \in Seq(FeedItem)
    BY DEF Group
  <2>3. \A k \in Len(g.feed) + 1 .. Len(h.feed) : h.feed[k].author = uid
    BY <2>1, <2>2
  <2>. QED  BY <2>1, <2>3 DEF ByOwnDecision
<1>. QED  BY <1>1, <1>2, <1>3, <1>4, <1>5, <1>6 DEF GroupStep

\* A step that leaves a group alone decides nothing.
LEMMA NothingDecided == ASSUME NEW g PROVE ByOwnDecision(g, g)
BY DEF ByOwnDecision

\* Nobody enters, leaves, invites, closes or speaks but by a request of his own.
THEOREM DecisionsAlwaysOwn == Spec => OwnDecisions
<1>1. ASSUME IInv, [Next]_vars
      PROVE  [\A s \in DOMAIN groups : ByOwnDecision(groups[s], groups'[s])]_vars
  <2>. SUFFICES ASSUME Next, NEW s \in DOMAIN groups
                PROVE  ByOwnDecision(groups[s], groups'[s])
    BY <1>1
  <2>0. groups \in Seq(Group) /\ groups[s] \in Group
    BY <1>1 DEF IInv, TypeOK
  <2>1. CASE groups'[s] = groups[s]
    BY <2>1, NothingDecided
  <2>2. ASSUME NEW uid \in Callers, reply'.to = uid, NewGroupStep(uid)
        PROVE  groups'[s] = groups[s]
    <3>1. PICK h \in Group : groups' = Append(groups, h)
      BY <1>1, <2>2, NewGroupTypes, CallerNumbers DEF NewGroupStep, Complete, IInv, TypeOK
    <3>. QED  BY <2>0, <3>1, AppendFacts
  <2>3. ASSUME NEW uid \in Callers, reply'.to = uid, OpenStep(uid)
        PROVE  ByOwnDecision(groups[s], groups'[s])
    <3>1. PICK t \in DOMAIN groups, h \in Group : Update(t, h) /\ GroupStep(uid, groups[t], h)
      BY <2>3 DEF OpenStep
    <3>2. groups'[s] = IF s = t THEN h ELSE groups[s]
      BY <1>1, <3>1, UpdateTypes DEF IInv
    <3>. QED  BY <2>0, <2>1, <2>3, <3>1, <3>2, GroupStepDecided, CallerNumbers
  <2>. QED  BY <1>1, <2>1, <2>2, <2>3, NextShape DEF IInv, TablesUnchanged, UserStep
<1>. QED  BY <1>1, Inductive, PTL DEF Spec, OwnDecisions

\* What a group keeps: its number and administrator, its billets, its feed, and
\* everything once it is closed.
Retained(g, h) ==
    /\ h.idg = g.idg /\ h.admin_id = g.admin_id
    /\ Prolongs(g.feed, h.feed)
    /\ Len(g.posts) =< Len(h.posts)
    /\ \A i \in DOMAIN g.posts :
         /\ h.posts[i].numb = g.posts[i].numb
         /\ h.posts[i].author = g.posts[i].author
         /\ g.posts[i].next_reply =< h.posts[i].next_reply
    /\ g.closed => h = g

LEMMA SameKept == ASSUME NEW g \in Group PROVE Retained(g, g)
<1>1. g.posts \in Seq(Post) /\ g.feed \in Seq(FeedItem)
  BY DEF Group
<1>2. \A i \in DOMAIN g.posts : g.posts[i] \in Post
  BY <1>1
<1>3. \A i \in DOMAIN g.posts : g.posts[i].next_reply =< g.posts[i].next_reply
  BY <1>2 DEF Post
<1>. QED  BY <1>1, <1>3 DEF Retained, Prolongs

LEMMA GroupStepHistory ==
    ASSUME NEW uid \in Nat, NEW g \in Group, NEW h \in Group, GroupStep(uid, g, h), ~g.closed
    PROVE  Retained(g, h)
<1>0. /\ g.posts \in Seq(Post) /\ g.feed \in Seq(FeedItem) /\ Retained(g, g)
      /\ h.idg = g.idg /\ h.admin_id = g.admin_id
  BY SameKept, GroupStepKeeps DEF Group
<1>1. CASE h.posts = g.posts /\ h.feed = g.feed
  BY <1>0, <1>1 DEF Retained
<1>2. CASE Invites(uid, g, h) \/ Declines(uid, g, h) \/ Joins(uid, g, h)
           \/ Closes(uid, g, h) \/ Leaves(uid, g, h)
  <2>1. h.posts = g.posts /\ h.feed = g.feed
    BY <1>2 DEF Invites, Declines, Joins, Closes, Leaves, Group, group_add_pending,
                group_remove_pending, group_add_member, close_group, group_remove_member
  <2>. QED  BY <1>1, <2>1
<1>3. \A item \in FeedItem : h.feed \in {g.feed, Append(g.feed, item)} => Prolongs(g.feed, h.feed)
  BY <1>0, AppendFacts DEF Prolongs
<1>4. CASE Posts(uid, g, h)
  <2>. DEFINE po == [numb |-> g.next_billet, author |-> uid, next_reply |-> 0]
  <2>1. /\ h.posts = Append(g.posts, po)
        /\ h.feed \in {g.feed, Append(g.feed, BilletItem(uid, g))}
    BY <1>4 DEF Posts, PostedBillet, feed_push, Group
  <2>2. po \in Post /\ BilletItem(uid, g) \in FeedItem
    BY PostedTypes DEF Post, Group
  <2>. HIDE DEF po
  <2>3. Len(h.posts) = Len(g.posts) + 1 /\ Len(g.posts) \in Nat
        /\ \A i \in DOMAIN g.posts : h.posts[i] = g.posts[i]
    BY <1>0, <2>1, <2>2, AppendFacts
  <2>. QED  BY <1>0, <1>3, <2>1, <2>2, <2>3 DEF Retained
<1>5. CASE Replies(uid, g, h)
  <2>1. PICK i \in DOMAIN g.posts :
          \/ h = CountedReply(g, i)
          \/ h = feed_push(CountedReply(g, i), ReplyItem(uid, g, i))
    BY <1>5 DEF Replies
  <2>. DEFINE r == g.posts[i].next_reply + 1
  <2>2. /\ h.posts = [g.posts EXCEPT ![i].next_reply = r]
        /\ h.feed \in {g.feed, Append(g.feed, ReplyItem(uid, g, i))}
    BY <2>1 DEF CountedReply, feed_push, Group
  <2>3. \A p \in DOMAIN g.posts : g.posts[p] \in Post /\ g.posts[p].next_reply \in Nat
    <3>1. \A p \in DOMAIN g.posts : g.posts[p] \in Post
      BY <1>0
    <3>. QED  BY <3>1 DEF Post
  <2>4. r \in Nat /\ g.posts[i].next_reply =< r
    BY <2>3
  <2>5. /\ Len(h.posts) = Len(g.posts) /\ Len(g.posts) \in Nat
        /\ \A p \in DOMAIN g.posts :
             h.posts[p] = IF p = i THEN [g.posts[i] EXCEPT !.next_reply = r] ELSE g.posts[p]
    BY <1>0, <2>2
  <2>. HIDE DEF r
  <2>6. \A p \in DOMAIN g.posts :
          /\ h.posts[p].numb = g.posts[p].numb /\ h.posts[p].author = g.posts[p].author
          /\ g.posts[p].next_reply =< h.posts[p].next_reply
    <3>. TAKE p \in DOMAIN g.posts
    <3>1. CASE p = i
      <4>1. g.posts[i] \in Post /\ h.posts[i] = [g.posts[i] EXCEPT !.next_reply = r]
        BY <2>3, <2>5
      <4>2. h.posts[i].next_reply = r /\ h.posts[i].numb = g.posts[i].numb
            /\ h.posts[i].author = g.posts[i].author
        BY <4>1 DEF Post
      <4>. QED  BY <2>4, <3>1, <4>2
    <3>2. CASE p # i
      BY <2>3, <2>5, <3>2
    <3>. QED  BY <3>1, <3>2
  <2>. QED  BY <1>0, <1>3, <2>2, <2>5, <2>6, RepliedTypes DEF Retained
<1>. QED  BY <1>2, <1>4, <1>5 DEF GroupStep

\* What was written stays, whatever is asked.
THEOREM HistoryAlwaysKept == Spec => HistoryKept
<1>. DEFINE keeps == /\ Prolongs(users, users') /\ Len(groups) =< Len(groups')
                     /\ \A s \in DOMAIN groups : Retained(groups[s], groups'[s])
<1>1. ASSUME IInv, Next PROVE keeps
  <2>0. /\ users \in Seq(Nat) /\ next_uid \in Nat /\ groups \in Seq(Group)
        /\ \A s \in DOMAIN groups : groups[s] \in Group
        /\ \A s \in DOMAIN groups : Retained(groups[s], groups[s])
    BY <1>1, SameKept DEF IInv, TypeOK
  <2>1. Prolongs(users, users)
    BY <2>0 DEF Prolongs
  <2>2. CASE TablesUnchanged
    BY <2>0, <2>1, <2>2 DEF TablesUnchanged
  <2>3. CASE UserStep
    <3>1. Prolongs(users, users')
      BY <2>0, <2>3, AppendFacts DEF UserStep, Prolongs
    <3>. QED  BY <2>0, <2>3, <3>1 DEF UserStep
  <2>4. ASSUME NEW uid \in Callers, NewGroupStep(uid) PROVE keeps
    <3>1. PICK h \in Group : groups' = Append(groups, h) /\ users' = users
      BY <1>1, <2>4, NewGroupTypes, CallerNumbers DEF NewGroupStep, Complete, IInv, TypeOK
    <3>2. Len(groups) =< Len(groups') /\ \A s \in DOMAIN groups : groups'[s] = groups[s]
      BY <2>0, <3>1, AppendFacts
    <3>. QED  BY <2>0, <2>1, <3>1, <3>2
  <2>5. ASSUME NEW uid \in Callers, OpenStep(uid) PROVE keeps
    <3>1. PICK t \in DOMAIN groups, h \in Group :
            ~groups[t].closed /\ Update(t, h) /\ GroupStep(uid, groups[t], h)
      BY <2>5 DEF OpenStep
    <3>2. /\ users' = users /\ Len(groups') = Len(groups)
          /\ \A s \in DOMAIN groups : groups'[s] = IF s = t THEN h ELSE groups[s]
      BY <1>1, <3>1, UpdateTypes DEF IInv
    <3>3. Retained(groups[t], h)
      BY <2>0, <3>1, GroupStepHistory, CallerNumbers
    <3>. QED  BY <2>0, <2>1, <3>2, <3>3
  <2>. QED  BY <1>1, <2>2, <2>3, <2>4, <2>5, NextShape DEF IInv
<1>2. ASSUME IInv, [Next]_vars PROVE [keeps]_vars
  BY <1>1, <1>2
<1>3. keeps => /\ Prolongs(users, users')
               /\ Len(groups) =< Len(groups')
               /\ \A s \in DOMAIN groups :
                    LET g == groups[s]  h == groups'[s]
                    IN  /\ h.idg = g.idg /\ h.admin_id = g.admin_id
                        /\ Prolongs(g.feed, h.feed)
                        /\ Len(g.posts) =< Len(h.posts)
                        /\ \A i \in DOMAIN g.posts :
                             /\ h.posts[i].numb = g.posts[i].numb
                             /\ h.posts[i].author = g.posts[i].author
                             /\ g.posts[i].next_reply =< h.posts[i].next_reply
                        /\ g.closed => h = g
  BY DEF Retained
<1>. HIDE DEF keeps
<1>. QED  BY <1>2, <1>3, Inductive, PTL DEF Spec, HistoryKept

(***************************************************************************)
(* Answers and datagrams: whom a datagram reaches, what a multicast        *)
(* announces, what an ERR leaves alone, and that a feed misses nothing.    *)
(* The shapes of a step are completed by what it answers and sends.        *)
(***************************************************************************)

(***************************************************************************)
(* The steps of one open group, with what uid is answered and what is sent.*)
(***************************************************************************)
ToldInvite(uid, g, h) ==
    \E new \in SUBSET Nat :
        /\ \A m \in new : find_user(m)
        /\ h = group_add_pending(g, new)
        /\ sent' = {[code |-> "INV_UDP", idg |-> g.idg, to |-> m] : m \in new}
ToldDecline(uid, g, h) ==
    Declines(uid, g, h) /\ reply' = send_ack(uid) /\ sent' = {}
ToldAccept(uid, g, h) ==
    /\ Joins(uid, g, h)
    /\ reply' = Answer(uid, "JOIN_OK", g.idg, 0, 0) /\ sent' = notif_mcast(g, "JOIN")
ToldLeave(uid, g, h) ==
    /\ reply' = send_ack(uid)
    /\ \/ Closes(uid, g, h) /\ sent' = notif_mcast(g, "CLOSE")
       \/ Leaves(uid, g, h) /\ sent' = notif_mcast(g, "LEAVE")

\* A malloc failed after the billet, or the reply, was numbered.
Lost(uid) == AllocMayFail /\ reply' = send_err(uid) /\ sent' = {}

ToldPost(uid, g, h) ==
    \/ h = PostedBillet(uid, g) /\ Lost(uid)
    \/ /\ h = feed_push(PostedBillet(uid, g), BilletItem(uid, g))
       /\ reply' = Answer(uid, "POST_OK", g.idg, g.next_billet, 0)
       /\ sent' = notif_mcast(g, "NEW_MSG")

Fetched(uid, g, author) ==
    IF find_user(author) /\ author # uid THEN notif_udp_user(author, "FETCH", g.idg) ELSE {}
ToldReply(uid, g, h) ==
    \E i \in DOMAIN g.posts :
        \/ h = CountedReply(g, i) /\ Lost(uid)
        \/ /\ h = feed_push(CountedReply(g, i), ReplyItem(uid, g, i))
           /\ reply' = Answer(uid, "REPLY_OK", g.idg, g.posts[i].numb, g.posts[i].next_reply + 1)
           /\ sent' = notif_mcast(g, "NEW_MSG") \cup Fetched(uid, g, g.posts[i].author)

ToldStep(uid, g, h) ==
    \/ ToldInvite(uid, g, h) \/ ToldDecline(uid, g, h) \/ ToldAccept(uid, g, h)
    \/ ToldLeave(uid, g, h) \/ ToldPost(uid, g, h) \/ ToldReply(uid, g, h)

\* The shapes of a whole step.
Quiet == TablesUnchanged /\ sent' = {}
ToldUser == UserStep /\ reply'.code = "REG_OK" /\ sent' = {}
ToldGroup == /\ \E h \in Group : groups' = Append(groups, h) /\ h.posts = << >>
             /\ users' = users /\ sent' = {}
             /\ reply'.code = "ERR" => AllocMayFail
ToldRead(uid) ==
    /\ TablesUnchanged /\ reply'.to = uid
    /\ \E s \in DOMAIN groups : \E items \in Seq(FeedItem) : sent' = Fetches(groups[s], uid, items)
ToldOpen(uid) ==
    /\ reply'.to = uid
    /\ \E s \in DOMAIN groups : \E h \in Group : Update(s, h) /\ ToldStep(uid, groups[s], h)

LEMMA InviteTold ==
    ASSUME TypeOK, NEW uid \in Nat, NEW idg \in Nat, NEW inv \in Invitations,
           handle_invite(uid, idg, inv)
    PROVE  Quiet \/ ToldOpen(uid)
<1>1. CASE Refused(uid)
  BY <1>1 DEF Refused, Quiet
<1>2. CASE ~Refused(uid)
  <2>. DEFINE done == Invited(inv)
              new == {inv[k] : k \in done}
  <2>1. PICK n \in 0 .. MaxInvitees : inv \in [1 .. n -> Callers]
    BY DEF Invitations
  <2>2. n \in Nat /\ done \subseteq 1 .. n
    BY <2>1, Bounds DEF Invited
  <2>3. \A k \in done : inv[k] \in Nat /\ find_user(inv[k])
    <3>. SUFFICES ASSUME NEW k \in done PROVE inv[k] \in Nat /\ find_user(inv[k])
      OBVIOUS
    <3>1. k \in 1 .. n /\ k \in 1 .. k
      BY <2>2
    <3>. QED  BY <2>1, <3>1, CallerNumbers DEF Invited
  <2>4. PICK s \in AdminOf(uid, idg) :
          /\ Update(s, group_add_pending(groups[s], new))
          /\ reply' \in {send_ack(uid), send_err(uid)}
          /\ sent' = UNION {notif_udp_user(inv[k], "INV_UDP", idg) : k \in done}
    BY <1>2 DEF handle_invite
  <2>5. s \in DOMAIN groups /\ groups[s] \in Group /\ groups[s].idg = idg
    BY <2>4 DEF AdminOf, find_group, TypeOK
  <2>6. new \in SUBSET Nat /\ \A m \in new : find_user(m)
    BY <2>3
  <2>7. sent' = {[code |-> "INV_UDP", idg |-> idg, to |-> m] : m \in new}
    BY <2>4 DEF notif_udp_user
  <2>8. group_add_pending(groups[s], new) \in Group
    BY <2>5, <2>6 DEF group_add_pending, Group
  <2>9. reply'.to = uid
    BY <2>4 DEF send_ack, send_err, Answer
  <2>. HIDE DEF new
  <2>. QED  BY <2>4, <2>5, <2>6, <2>7, <2>8, <2>9 DEF ToldOpen, ToldStep, ToldInvite
<1>. QED  BY <1>1, <1>2

LEMMA AnswerTold ==
    ASSUME TypeOK, MembersRegistered, NEW uid \in Nat, NEW idg \in Nat,
           decline(uid, idg) \/ accept(uid, idg) \/ leave(uid, idg)
    PROVE  Quiet \/ ToldOpen(uid)
<1>0. send_ack(uid).to = uid /\ Answer(uid, "JOIN_OK", idg, 0, 0).to = uid
  BY DEF send_ack, Answer
<1>1. CASE Refused(uid)
  BY <1>1 DEF Refused, Quiet
<1>2. CASE decline(uid, idg) /\ ~Refused(uid)
  <2>1. PICK s \in PendingOf(uid, idg) :
          /\ Update(s, group_remove_pending(groups[s], uid))
          /\ reply' = send_ack(uid) /\ sent' = {}
    BY <1>2 DEF decline
  <2>2. s \in DOMAIN groups /\ groups[s] \in Group /\ uid \in groups[s].pend
    BY <2>1 DEF PendingOf, find_group, TypeOK
  <2>3. group_remove_pending(groups[s], uid) \in Group
    BY <2>2 DEF group_remove_pending, Group
  <2>. QED  BY <1>0, <2>1, <2>2, <2>3 DEF ToldOpen, ToldStep, ToldDecline, Declines
<1>3. CASE accept(uid, idg) /\ ~Refused(uid)
  <2>. DEFINE h(s) == group_add_member(group_remove_pending(groups[s], uid), uid)
              listed(s) == \A m \in h(s).mem : find_user(m)
  <2>1. PICK s \in PendingOf(uid, idg) :
          /\ Update(s, h(s))
          /\ reply' = IF listed(s) THEN Answer(uid, "JOIN_OK", idg, 0, 0) ELSE send_err(uid)
          /\ sent' = IF listed(s) THEN notif_mcast(h(s), "JOIN") ELSE {}
    BY <1>3 DEF accept
  <2>2. /\ s \in DOMAIN groups /\ groups[s] \in Group
        /\ uid \in groups[s].pend /\ groups[s].idg = idg
    BY <2>1 DEF PendingOf, find_group, TypeOK
  <2>3. /\ h(s) \in Group /\ h(s).idg = idg /\ h(s).named = groups[s].named
        /\ h(s).mem = groups[s].mem \cup {uid}
    BY <2>2 DEF group_remove_pending, group_add_member, Group
  <2>4. listed(s)
    BY <2>2, <2>3 DEF MembersRegistered
  <2>5. notif_mcast(h(s), "JOIN") = notif_mcast(groups[s], "JOIN")
    BY <2>2, <2>3 DEF notif_mcast
  <2>6. Joins(uid, groups[s], h(s))
    BY <2>2 DEF Joins
  <2>. HIDE DEF h, listed
  <2>7. ToldAccept(uid, groups[s], h(s))
    BY <2>1, <2>2, <2>4, <2>5, <2>6 DEF ToldAccept
  <2>. QED  BY <1>0, <2>1, <2>2, <2>3, <2>4, <2>7 DEF ToldOpen, ToldStep
<1>4. CASE leave(uid, idg) /\ ~Refused(uid)
  <2>1. PICK s \in MemberOf(uid, idg) :
          /\ reply' = send_ack(uid)
          /\ \/ /\ groups[s].admin_id = uid /\ Update(s, close_group(groups[s]))
                /\ sent' = notif_mcast(groups[s], "CLOSE")
             \/ /\ groups[s].admin_id # uid /\ Update(s, group_remove_member(groups[s], uid))
                /\ sent' = notif_mcast(groups[s], "LEAVE")
    BY <1>4 DEF leave
  <2>2. s \in DOMAIN groups /\ groups[s] \in Group /\ uid \in groups[s].mem
    BY <2>1 DEF MemberOf, find_group, TypeOK
  <2>3. close_group(groups[s]) \in Group /\ group_remove_member(groups[s], uid) \in Group
    BY <2>2 DEF close_group, group_remove_member, Group
  <2>. QED  BY <1>0, <2>1, <2>2, <2>3 DEF ToldOpen, ToldStep, ToldLeave, Closes, Leaves
<1>. QED  BY <1>1, <1>2, <1>3, <1>4

LEMMA PostTold ==
    ASSUME TypeOK, NEW uid \in Nat, NEW idg \in Nat, NEW alloc \in Alloc,
           handle_post(uid, idg, alloc)
    PROVE  Quiet \/ ToldOpen(uid)
<1>1. CASE Refused(uid)
  BY <1>1 DEF Refused, Quiet
<1>2. CASE ~Refused(uid)
  <2>1. PICK s, h :
          /\ s \in MemberOf(uid, idg)
          /\ Update(s, h)
          /\ \/ ~alloc /\ h = PostedBillet(uid, groups[s]) /\ reply' = send_err(uid) /\ sent' = {}
             \/ /\ h = feed_push(PostedBillet(uid, groups[s]), BilletItem(uid, groups[s]))
                /\ reply' = Answer(uid, "POST_OK", idg, groups[s].next_billet, 0)
                /\ sent' = notif_mcast(groups[s], "NEW_MSG")
    BY <1>2 DEF handle_post, PostedBillet, BilletItem
  <2>. DEFINE g == groups[s]
  <2>2. s \in DOMAIN groups /\ g \in Group /\ g.idg = idg
    BY <2>1 DEF MemberOf, find_group, TypeOK
  <2>3. h \in Group
    BY <2>1, <2>2, PostedTypes
  <2>4. alloc \/ AllocMayFail
    BY DEF Alloc
  <2>5. reply'.to = uid
    BY <2>1 DEF send_err, Answer
  <2>6. ToldPost(uid, g, h)
    BY <2>1, <2>2, <2>4 DEF ToldPost, Lost
  <2>. QED  BY <2>1, <2>2, <2>3, <2>5, <2>6 DEF ToldOpen, ToldStep
<1>. QED  BY <1>1, <1>2

LEMMA ReplyTold ==
    ASSUME TypeOK, NEW uid \in Nat, NEW idg \in Nat, NEW numb \in Nat,
           NEW alloc \in Alloc, handle_reply(uid, idg, numb, alloc)
    PROVE  Quiet \/ ToldOpen(uid)
<1>1. CASE Refused(uid)
  BY <1>1 DEF Refused, Quiet
<1>2. CASE ~Refused(uid)
  <2>1. PICK s, i, h :
          /\ s \in MemberOf(uid, idg) /\ i \in find_post(groups[s], numb)
          /\ Update(s, h)
          /\ \/ ~alloc /\ h = CountedReply(groups[s], i) /\ reply' = send_err(uid) /\ sent' = {}
             \/ /\ h = feed_push(CountedReply(groups[s], i), ReplyItem(uid, groups[s], i))
                /\ reply' = Answer(uid, "REPLY_OK", idg, numb, groups[s].posts[i].next_reply + 1)
                /\ sent' = notif_mcast(groups[s], "NEW_MSG") \cup
                           IF find_user(groups[s].posts[i].author) /\ groups[s].posts[i].author # uid
                           THEN notif_udp_user(groups[s].posts[i].author, "FETCH", idg) ELSE {}
    BY <1>2 DEF handle_reply, CountedReply, ReplyItem, find_post
  <2>. DEFINE g == groups[s]
  <2>2. /\ s \in DOMAIN groups /\ g \in Group /\ g.idg = idg
        /\ i \in DOMAIN g.posts /\ g.posts[i].numb = numb
    BY <2>1 DEF MemberOf, find_group, find_post, TypeOK
  <2>3. h \in Group
    BY <2>1, <2>2, RepliedTypes
  <2>4. alloc \/ AllocMayFail
    BY DEF Alloc
  <2>5. reply'.to = uid
    BY <2>1 DEF send_err, Answer
  <2>6. ToldReply(uid, g, h)
    BY <2>1, <2>2, <2>4 DEF ToldReply, Lost, Fetched
  <2>. QED  BY <2>1, <2>2, <2>3, <2>5, <2>6 DEF ToldOpen, ToldStep
<1>. QED  BY <1>1, <1>2

LEMMA FeedTold ==
    ASSUME TypeOK, NEW uid \in Nat, NEW idg \in Nat, NEW numb \in Nat, NEW numr \in Nat,
           NEW alloc \in BOOLEAN, handle_feed(uid, idg, numb, numr, alloc)
    PROVE  Quiet \/ ToldRead(uid)
<1>1. CASE Refused(uid)
  BY <1>1 DEF Refused, Quiet
<1>2. CASE ~Refused(uid)
  <2>1. PICK s, i :
          /\ s \in MemberOf(uid, idg) /\ i \in feed_index_after(groups[s], numb, numr)
          /\ TablesUnchanged
          /\ reply' = [Answer(uid, "FEED_OK", idg, 0, 0) EXCEPT !.items = After(groups[s], i)]
          /\ sent' = Fetches(groups[s], uid, After(groups[s], i))
    BY <1>2 DEF handle_feed
  <2>. DEFINE g == groups[s]
  <2>2. s \in DOMAIN groups /\ g \in Group /\ i \in DOMAIN g.feed
    BY <2>1 DEF MemberOf, find_group, feed_index_after, TypeOK
  <2>3. g.feed \in Seq(FeedItem)
    BY <2>2 DEF Group
  <2>4. After(g, i) \in Seq(FeedItem)
    <3>1. i \in 1 .. Len(g.feed)
      BY <2>2, <2>3
    <3>2. SubSeq(g.feed, i + 1, Len(g.feed)) \in Seq(FeedItem)
      BY <2>3, <3>1
    <3>. QED  BY <3>2 DEF After
  <2>5. reply'.to = uid
    BY <2>1 DEF Answer
  <2>. QED  BY <2>1, <2>2, <2>4, <2>5 DEF ToldRead
<1>. QED  BY <1>1, <1>2

\* Every step, with its answer and its datagrams.
LEMMA NextTold ==
    ASSUME IInv, Next
    PROVE  \/ Quiet \/ ToldUser \/ ToldGroup
           \/ \E uid \in Callers : ToldRead(uid) \/ ToldOpen(uid)
<1>. USE DEF IInv
<1>1. CASE handle_reg
  BY <1>1 DEF handle_reg, Refused, Quiet, ToldUser, UserStep, Answer
<1>2. ASSUME NEW uid \in Callers, NEW idg \in Nat, NEW alloc \in Alloc,
             \/ handle_list_inv(uid) \/ handle_list_mem(uid, idg) \/ Refused(uid)
             \/ handle_new_group(uid, alloc)
             \/ \E inv \in Invitations : handle_invite(uid, idg, inv)
             \/ decline(uid, idg) \/ accept(uid, idg) \/ leave(uid, idg)
             \/ handle_post(uid, idg, alloc)
             \/ \E numb \in Nat : handle_reply(uid, idg, numb, alloc)
             \/ \E numb, numr \in Nat : handle_feed(uid, idg, numb, numr, alloc)
      PROVE  Quiet \/ ToldGroup \/ ToldRead(uid) \/ ToldOpen(uid)
  <2>1. uid \in Nat /\ alloc \in BOOLEAN /\ (alloc \/ AllocMayFail)
    BY CallerNumbers DEF Alloc
  <2>2. CASE Refused(uid) \/ handle_list_inv(uid) \/ handle_list_mem(uid, idg)
    BY <2>2 DEF Refused, handle_list_inv, handle_list_mem, Quiet
  <2>3. CASE handle_new_group(uid, alloc)
    <3>1. CASE Refused(uid)
      BY <3>1 DEF Refused, Quiet
    <3>2. CASE ~Refused(uid)
      <4>1. PICK h \in {NewGroup(next_gid), Complete(uid)} :
              /\ groups' = Append(groups, h) /\ users' = users /\ sent' = {}
              /\ \/ alloc /\ reply' = Answer(uid, "NEW_GROUP_OK", next_gid, 0, 0)
                 \/ ~alloc
        BY <2>3, <3>2 DEF handle_new_group, Complete, NewGroup
      <4>2. h \in Group /\ h.posts = << >>
        <5>1. h \in Group
          BY <2>1, <4>1, NewGroupTypes DEF TypeOK, Complete
        <5>2. NewGroup(next_gid).posts = << >> /\ Complete(uid).posts = << >>
          BY DEF Complete, NewGroup, group_add_member
        <5>. QED  BY <4>1, <5>1, <5>2
      <4>3. reply'.code = "ERR" => AllocMayFail
        BY <2>1, <4>1 DEF Answer
      <4>. QED  BY <4>1, <4>2, <4>3 DEF ToldGroup
    <3>. QED  BY <3>1, <3>2
  <2>. QED  BY <1>2, <2>1, <2>2, <2>3, InviteTold, AnswerTold, PostTold, ReplyTold, FeedTold
<1>. QED  BY <1>1, <1>2, NextCases

(***************************************************************************)
(* Errors.                                                                 *)
(***************************************************************************)
\* What an ERR keeps of a group.
Harmless(g, h) ==
    reply'.code = "ERR" =>
        /\ h.mem = g.mem /\ h.feed = g.feed /\ h.closed = g.closed
        /\ g.pend \subseteq h.pend
        /\ AllocMayFail \/ h.posts = g.posts

LEMMA ToldHarmless ==
    ASSUME NEW uid \in Nat, NEW g \in Group, NEW h, ToldStep(uid, g, h)
    PROVE  Harmless(g, h)
<1>1. CASE ToldInvite(uid, g, h)
  BY <1>1 DEF ToldInvite, group_add_pending, Group, Harmless
<1>2. CASE ToldDecline(uid, g, h) \/ ToldAccept(uid, g, h) \/ ToldLeave(uid, g, h)
  <2>1. reply'.code # "ERR"
    BY <1>2 DEF ToldDecline, ToldAccept, ToldLeave, Answer, send_ack
  <2>. QED  BY <2>1 DEF Harmless
<1>3. CASE ToldPost(uid, g, h)
  <2>1. CASE h = PostedBillet(uid, g) /\ AllocMayFail
    BY <2>1 DEF PostedBillet, Harmless, Group
  <2>2. CASE reply'.code # "ERR"
    BY <2>2 DEF Harmless
  <2>. QED  BY <1>3, <2>1, <2>2 DEF ToldPost, Lost, Answer
<1>4. CASE ToldReply(uid, g, h)
  <2>1. PICK i \in DOMAIN g.posts : (h = CountedReply(g, i) /\ AllocMayFail) \/ reply'.code # "ERR"
    BY <1>4 DEF ToldReply, Lost, Answer
  <2>. QED  BY <2>1 DEF CountedReply, Harmless, Group
<1>. QED  BY <1>1, <1>2, <1>3, <1>4 DEF ToldStep

\* An ERR changes no list, no feed and no group, save the invitations of a request that
\* failed later on; without allocation failures it numbers nothing.
THEOREM ErrorsAlwaysHarmless == Spec => ErrorsHarmless
<1>. DEFINE harmless ==
        reply'.code = "ERR" =>
        /\ users' = users
        /\ \A s \in DOMAIN groups :
            LET g == groups[s]  h == groups'[s]
            IN  /\ h.mem = g.mem /\ h.feed = g.feed /\ h.closed = g.closed
                /\ g.pend \subseteq h.pend
                /\ AllocMayFail \/ (h.posts = g.posts /\ Len(groups') = Len(groups))
<1>1. ASSUME IInv, Next PROVE harmless
  <2>0. groups \in Seq(Group) /\ \A s \in DOMAIN groups : groups[s] \in Group
    BY <1>1 DEF IInv, TypeOK
  <2>1. CASE TablesUnchanged
    BY <2>1 DEF TablesUnchanged
  <2>2. CASE ToldUser
    BY <2>2 DEF ToldUser
  <2>3. CASE ToldGroup
    <3>1. PICK h \in Group : groups' = Append(groups, h)
      BY <2>3 DEF ToldGroup
    <3>2. \A s \in DOMAIN groups : groups'[s] = groups[s]
      BY <2>0, <3>1, AppendFacts
    <3>. QED  BY <2>3, <3>2 DEF ToldGroup
  <2>4. ASSUME NEW uid \in Callers, ToldOpen(uid) PROVE harmless
    <3>1. PICK t \in DOMAIN groups, h \in Group : Update(t, h) /\ ToldStep(uid, groups[t], h)
      BY <2>4 DEF ToldOpen
    <3>2. Harmless(groups[t], h)
      BY <2>0, <3>1, ToldHarmless, CallerNumbers
    <3>3. /\ users' = users /\ Len(groups') = Len(groups)
          /\ \A s \in DOMAIN groups : groups'[s] = IF s = t THEN h ELSE groups[s]
      BY <1>1, <3>1, UpdateTypes DEF IInv
    <3>. QED  BY <3>2, <3>3 DEF Harmless
  <2>. QED  BY <1>1, <2>1, <2>2, <2>3, <2>4, NextTold DEF Quiet, ToldRead
<1>2. ASSUME IInv, [Next]_vars PROVE [harmless]_vars
  BY <1>1, <1>2
<1>. QED  BY <1>2, Inductive, PTL DEF Spec, ErrorsHarmless

(***************************************************************************)
(* Announcements.                                                          *)
(***************************************************************************)
StepAnnounced(g, h) ==
    /\ h.mem \ g.mem # {} => Multicast("JOIN", g)
    /\ g.mem \ h.mem # {} => Multicast("LEAVE", g)
    /\ h.feed # g.feed => Multicast("NEW_MSG", g)
    /\ h.closed # g.closed => Multicast("CLOSE", g)

LEMMA ToldAnnounced ==
    ASSUME NEW uid \in Nat, NEW g \in Group, NEW h, ToldStep(uid, g, h), g.named
    PROVE  StepAnnounced(g, h)
<1>1. CASE ToldInvite(uid, g, h)
  BY <1>1 DEF ToldInvite, group_add_pending, Group, StepAnnounced
<1>2. CASE ToldDecline(uid, g, h)
  BY <1>2 DEF ToldDecline, Declines, group_remove_pending, Group, StepAnnounced
<1>3. CASE ToldAccept(uid, g, h)
  <2>1. h.mem = g.mem \cup {uid} /\ h.feed = g.feed /\ h.closed = g.closed
    BY <1>3 DEF ToldAccept, Joins, group_remove_pending, group_add_member, Group
  <2>2. Multicast("JOIN", g)
    BY <1>3 DEF ToldAccept, Multicast, notif_mcast
  <2>. QED  BY <2>1, <2>2 DEF StepAnnounced
<1>4. CASE ToldLeave(uid, g, h)
  <2>1. CASE Closes(uid, g, h) /\ sent' = notif_mcast(g, "CLOSE")
    BY <2>1 DEF Closes, close_group, Group, StepAnnounced, Multicast, notif_mcast
  <2>2. CASE Leaves(uid, g, h) /\ sent' = notif_mcast(g, "LEAVE")
    BY <2>2 DEF Leaves, group_remove_member, Group, StepAnnounced, Multicast, notif_mcast
  <2>. QED  BY <1>4, <2>1, <2>2 DEF ToldLeave
<1>5. CASE ToldPost(uid, g, h)
  <2>1. CASE h = PostedBillet(uid, g)
    BY <2>1 DEF PostedBillet, StepAnnounced, Group
  <2>2. CASE /\ h = feed_push(PostedBillet(uid, g), BilletItem(uid, g))
             /\ sent' = notif_mcast(g, "NEW_MSG")
    BY <2>2 DEF PostedBillet, feed_push, StepAnnounced, Group, Multicast, notif_mcast
  <2>. QED  BY <1>5, <2>1, <2>2 DEF ToldPost
<1>6. CASE ToldReply(uid, g, h)
  <2>1. PICK i \in DOMAIN g.posts :
          \/ h = CountedReply(g, i)
          \/ /\ h = feed_push(CountedReply(g, i), ReplyItem(uid, g, i))
             /\ notif_mcast(g, "NEW_MSG") \subseteq sent'
    BY <1>6 DEF ToldReply
  <2>. QED  BY <2>1 DEF CountedReply, feed_push, StepAnnounced, Group, Multicast, notif_mcast
<1>. QED  BY <1>1, <1>2, <1>3, <1>4, <1>5, <1>6 DEF ToldStep

\* Each arrival, departure, item and closing is announced on the group's address, if it
\* has one, by the step that makes it.
THEOREM ChangesAlwaysAnnounced == Spec => ChangesAnnounced
<1>. DEFINE announced ==
       \A s \in DOMAIN groups : groups[s].named =>
        LET g == groups[s]  h == groups'[s]
        IN  /\ h.mem \ g.mem # {} => Multicast("JOIN", g)
            /\ g.mem \ h.mem # {} => Multicast("LEAVE", g)
            /\ h.feed # g.feed => Multicast("NEW_MSG", g)
            /\ h.closed # g.closed => Multicast("CLOSE", g)
<1>1. ASSUME IInv, Next PROVE announced
  <2>0. groups \in Seq(Group) /\ \A s \in DOMAIN groups : groups[s] \in Group
    BY <1>1 DEF IInv, TypeOK
  <2>1. CASE \A s \in DOMAIN groups : groups'[s] = groups[s]
    BY <2>1
  <2>2. CASE ToldGroup
    <3>1. PICK h \in Group : groups' = Append(groups, h)
      BY <2>2 DEF ToldGroup
    <3>2. \A s \in DOMAIN groups : groups'[s] = groups[s]
      BY <2>0, <3>1, AppendFacts
    <3>. QED  BY <2>1, <3>2
  <2>3. ASSUME NEW uid \in Callers, ToldOpen(uid) PROVE announced
    <3>1. PICK t \in DOMAIN groups, h \in Group : Update(t, h) /\ ToldStep(uid, groups[t], h)
      BY <2>3 DEF ToldOpen
    <3>2. groups[t].named => StepAnnounced(groups[t], h)
      BY <2>0, <3>1, ToldAnnounced, CallerNumbers
    <3>3. \A s \in DOMAIN groups : groups'[s] = IF s = t THEN h ELSE groups[s]
      BY <1>1, <3>1, UpdateTypes DEF IInv
    <3>. QED  BY <3>2, <3>3 DEF StepAnnounced
  <2>4. TablesUnchanged \/ UserStep => \A s \in DOMAIN groups : groups'[s] = groups[s]
    BY DEF TablesUnchanged, UserStep
  <2>. HIDE DEF announced
  <2>. QED  BY <1>1, <2>1, <2>2, <2>3, <2>4, NextTold DEF Quiet, ToldRead, ToldUser
<1>2. ASSUME IInv, [Next]_vars PROVE [announced]_vars
  BY <1>1, <1>2
<1>. QED  BY <1>2, Inductive, PTL DEF Spec, ChangesAnnounced

(***************************************************************************)
(* Datagrams.                                                              *)
(***************************************************************************)
\* A datagram about the group that is now h, sent to one whom it concerns.
Addressed(d, h) ==
    /\ h.idg = d.idg
    /\ d.code = "INV_UDP" => d.to \in h.pend
    /\ d.code = "FETCH" =>
         /\ d.to # reply'.to
         /\ \E i \in DOMAIN h.posts : h.posts[i].author = d.to
    /\ (d.to = ALL <=> d.code \notin {"INV_UDP", "FETCH"})

\* No user has the number that stands for a multicast.
LEMMA UsersNotALL ==
    ASSUME IInv
    PROVE  \A u : find_user(u) => u # ALL
<1>1. users \in Seq(Nat) /\ next_uid \in Nat /\ \A i \in DOMAIN users : users[i] \in 1 .. next_uid - 1
  BY DEF IInv, TypeOK, IdsNameOneEntry
<1>. QED  BY <1>1 DEF find_user, ALL

LEMMA MulticastAddressed ==
    ASSUME NEW g, NEW h, h.idg = g.idg, NEW code \in {"JOIN", "LEAVE", "CLOSE", "NEW_MSG"}
    PROVE  \A d \in notif_mcast(g, code) : Addressed(d, h)
BY DEF notif_mcast, Addressed

\* A FETCH to the author of a billet of the group.
LEMMA FetchAddressed ==
    ASSUME IInv, NEW uid, reply'.to = uid, NEW g, NEW h, h.idg = g.idg, NEW a,
           find_user(a), a # uid, \E i \in DOMAIN h.posts : h.posts[i].author = a
    PROVE  \A d \in notif_udp_user(a, "FETCH", g.idg) : Addressed(d, h)
BY UsersNotALL DEF notif_udp_user, Addressed

\* The authors of the billets stay where they are when a reply is counted.
LEMMA AuthorsStay ==
    ASSUME NEW g \in Group, NEW i \in DOMAIN g.posts
    PROVE  /\ DOMAIN CountedReply(g, i).posts = DOMAIN g.posts
           /\ CountedReply(g, i).posts[i].author = g.posts[i].author
<1>. DEFINE po == [g.posts[i] EXCEPT !.next_reply = g.posts[i].next_reply + 1]
<1>1. g.posts \in Seq(Post) /\ g.posts[i] \in Post
  BY RepliedTypes DEF Group
<1>2. po.author = g.posts[i].author
  BY <1>1 DEF Post
<1>3. CountedReply(g, i).posts = [g.posts EXCEPT ![i] = po]
  BY DEF CountedReply, Group
<1>. HIDE DEF po
<1>. QED  BY <1>1, <1>2, <1>3

LEMMA ToldAddressed ==
    ASSUME IInv, NEW uid \in Nat, reply'.to = uid, NEW g \in Group, NEW h \in Group,
           ToldStep(uid, g, h)
    PROVE  \A d \in sent' : Addressed(d, h)
<1>1. CASE ToldInvite(uid, g, h)
  <2>1. PICK new \in SUBSET Nat :
          /\ \A m \in new : find_user(m)
          /\ h = group_add_pending(g, new)
          /\ sent' = {[code |-> "INV_UDP", idg |-> g.idg, to |-> m] : m \in new}
    BY <1>1 DEF ToldInvite
  <2>2. h.idg = g.idg /\ new \subseteq h.pend
    BY <2>1 DEF group_add_pending, Group
  <2>. QED  BY <2>1, <2>2, UsersNotALL DEF Addressed
<1>2. CASE ToldDecline(uid, g, h)
  BY <1>2 DEF ToldDecline
<1>3. CASE ToldAccept(uid, g, h)
  <2>1. h.idg = g.idg
    BY <1>3 DEF ToldAccept, Joins, group_remove_pending, group_add_member, Group
  <2>. QED  BY <1>3, <2>1, MulticastAddressed DEF ToldAccept
<1>4. CASE ToldLeave(uid, g, h)
  <2>1. h.idg = g.idg
    BY <1>4 DEF ToldLeave, Closes, Leaves, close_group, group_remove_member, Group
  <2>. QED  BY <1>4, <2>1, MulticastAddressed DEF ToldLeave
<1>5. CASE ToldPost(uid, g, h)
  <2>1. h.idg = g.idg
    BY <1>5 DEF ToldPost, PostedBillet, feed_push, Group
  <2>. QED  BY <1>5, <2>1, MulticastAddressed DEF ToldPost, Lost
<1>6. CASE ToldReply(uid, g, h)
  <2>1. CASE sent' = {}
    BY <2>1
  <2>2. CASE sent' # {}
    <3>1. PICK i \in DOMAIN g.posts :
            /\ h = feed_push(CountedReply(g, i), ReplyItem(uid, g, i))
            /\ sent' = notif_mcast(g, "NEW_MSG") \cup Fetched(uid, g, g.posts[i].author)
      BY <1>6, <2>2 DEF ToldReply, Lost
    <3>2. h.idg = g.idg /\ h.posts = CountedReply(g, i).posts
      BY <3>1, RepliedTypes DEF feed_push, CountedReply, Group
    <3>3. \E p \in DOMAIN h.posts : h.posts[p].author = g.posts[i].author
      BY <3>2, AuthorsStay
    <3>4. \A d \in Fetched(uid, g, g.posts[i].author) : Addressed(d, h)
      BY <3>2, <3>3, FetchAddressed DEF Fetched
    <3>. QED  BY <3>1, <3>2, <3>4, MulticastAddressed
  <2>. QED  BY <2>1, <2>2
<1>. QED  BY <1>1, <1>2, <1>3, <1>4, <1>5, <1>6 DEF ToldStep

LEMMA ReadAddressed ==
    ASSUME IInv, NEW uid \in Nat, ToldRead(uid)
    PROVE  \A d \in sent' : \E s \in DOMAIN groups : Addressed(d, groups'[s])
<1>1. PICK s \in DOMAIN groups : \E items \in Seq(FeedItem) :
        /\ groups' = groups /\ reply'.to = uid
        /\ sent' = Fetches(groups[s], uid, items)
  BY DEF ToldRead, TablesUnchanged
<1>2. PICK items \in Seq(FeedItem) : sent' = Fetches(groups[s], uid, items)
  BY <1>1
<1>. DEFINE g == groups[s]
<1>3. SUFFICES ASSUME NEW d \in sent' PROVE Addressed(d, g)
  BY <1>1
<1>4. PICK a : /\ d \in notif_udp_user(a, "FETCH", g.idg) /\ a # uid /\ find_user(a)
               /\ a \in {g.posts[p].author :
                           p \in UNION {find_post(g, items[k].numb) : k \in DOMAIN items}}
  BY <1>2 DEF Fetches
<1>5. \E p \in DOMAIN g.posts : g.posts[p].author = a
  BY <1>4 DEF find_post
<1>. QED  BY <1>1, <1>4, <1>5, FetchAddressed

\* Every datagram is about a group that exists and reaches only those it concerns.
THEOREM DatagramsAlwaysAddressed == Spec => DatagramsAddressed
<1>. DEFINE addressed ==
       \A d \in sent' : \E s \in DOMAIN groups :
        LET h == groups'[s]
        IN  /\ h.idg = d.idg
            /\ d.code = "INV_UDP" => d.to \in h.pend
            /\ d.code = "FETCH" =>
                 /\ d.to # reply'.to
                 /\ \E i \in DOMAIN h.posts : h.posts[i].author = d.to
            /\ d.to = ALL <=> d.code \notin {"INV_UDP", "FETCH"}
<1>1. ASSUME IInv, Next PROVE addressed
  <2>1. CASE sent' = {}
    BY <2>1
  <2>2. ASSUME NEW uid \in Callers, ToldRead(uid) PROVE addressed
    <3>1. \A d \in sent' : \E s \in DOMAIN groups : Addressed(d, groups'[s])
      BY <1>1, <2>2, ReadAddressed, CallerNumbers
    <3>. QED  BY <3>1 DEF Addressed
  <2>3. ASSUME NEW uid \in Callers, ToldOpen(uid) PROVE addressed
    <3>1. PICK t \in DOMAIN groups, h \in Group :
            Update(t, h) /\ ToldStep(uid, groups[t], h) /\ reply'.to = uid
      BY <2>3 DEF ToldOpen
    <3>2. groups'[t] = h /\ groups[t] \in Group
      BY <1>1, <3>1, UpdateTypes DEF IInv, TypeOK
    <3>3. \A d \in sent' : Addressed(d, groups'[t])
      BY <1>1, <3>1, <3>2, ToldAddressed, CallerNumbers
    <3>. QED  BY <3>3 DEF Addressed
  <2>. HIDE DEF addressed
  <2>. QED  BY <1>1, <2>1, <2>2, <2>3, NextTold DEF Quiet, ToldUser, ToldGroup
<1>2. ASSUME IInv, [Next]_vars PROVE [addressed]_vars
  BY <1>1, <1>2
<1>. QED  BY <1>2, Inductive, PTL DEF Spec, DatagramsAddressed

(***************************************************************************)
(* The feed misses nothing.                                                *)
(***************************************************************************)
\* Every billet, and every reply counted by its billet, has its item in the feed.
Unbroken(g) ==
    \A i \in DOMAIN g.posts : \A r \in 0 .. g.posts[i].next_reply :
        feed_index_after(g, i - 1, r) # {}

LEMMA PostUnbroken ==
    ASSUME NEW uid \in Nat, NEW g \in Group, Numbered(g), Unbroken(g)
    PROVE  Unbroken(feed_push(PostedBillet(uid, g), BilletItem(uid, g)))
<1>. DEFINE po == [numb |-> g.next_billet, author |-> uid, next_reply |-> 0]
            item == BilletItem(uid, g)
            h == feed_push(PostedBillet(uid, g), item)
<1>1. h.posts = Append(g.posts, po) /\ h.feed = Append(g.feed, item)
  BY DEF PostedBillet, feed_push, Group
<1>2. /\ g.posts \in Seq(Post) /\ g.feed \in Seq(FeedItem) /\ item \in FeedItem
      /\ g.next_billet = Len(g.posts) /\ g.next_billet \in Nat
  BY PostedTypes DEF Group, Numbered
<1>3. po \in Post /\ po.next_reply = 0 /\ item.numb = Len(g.posts) /\ item.numr = 0
  BY <1>2 DEF Post, BilletItem
<1>. HIDE DEF po, item, h
<1>4. ASSUME NEW i \in DOMAIN h.posts, NEW r \in 0 .. h.posts[i].next_reply
      PROVE  \E k \in DOMAIN h.feed : h.feed[k].numb = i - 1 /\ h.feed[k].numr = r
  <2>1. CASE i \in DOMAIN g.posts
    <3>1. h.posts[i] = g.posts[i]
      BY <1>1, <1>2, <1>3, <2>1, AppendFacts
    <3>2. PICK k \in DOMAIN g.feed : g.feed[k].numb = i - 1 /\ g.feed[k].numr = r
      BY <1>4, <2>1, <3>1 DEF Unbroken, feed_index_after
    <3>. QED  BY <1>1, <1>2, <3>2, AppendFacts
  <2>2. CASE i \notin DOMAIN g.posts
    <3>1. i = Len(g.posts) + 1 /\ h.posts[i] = po
      BY <1>1, <1>2, <1>3, <2>2, AppendFacts
    <3>2. r = 0
      BY <1>3, <1>4, <3>1
    <3>3. Len(g.feed) + 1 \in DOMAIN h.feed /\ h.feed[Len(g.feed) + 1] = item
      BY <1>1, <1>2, AppendFacts
    <3>4. Len(g.posts) = i - 1
      BY <1>2, <3>1
    <3>. QED  BY <1>3, <3>2, <3>3, <3>4
  <2>. QED  BY <2>1, <2>2
<1>5. Unbroken(h)
  BY <1>4 DEF Unbroken, feed_index_after
<1>. QED  BY <1>5 DEF h, item

LEMMA ReplyUnbroken ==
    ASSUME NEW uid \in Nat, NEW g \in Group, NEW j \in DOMAIN g.posts, Numbered(g), Unbroken(g)
    PROVE  Unbroken(feed_push(CountedReply(g, j), ReplyItem(uid, g, j)))
<1>. DEFINE n == g.posts[j].next_reply + 1
            po == [g.posts[j] EXCEPT !.next_reply = n]
            item == ReplyItem(uid, g, j)
            h == feed_push(CountedReply(g, j), item)
<1>1. h.posts = [g.posts EXCEPT ![j] = po] /\ h.feed = Append(g.feed, item)
  BY DEF CountedReply, feed_push, Group
<1>2. /\ g.posts \in Seq(Post) /\ g.feed \in Seq(FeedItem) /\ item \in FeedItem
      /\ g.posts[j] \in Post /\ g.posts[j].numb = j - 1
  BY RepliedTypes DEF Group, Numbered
<1>3. /\ po.next_reply = n /\ item.numb = j - 1 /\ item.numr = n
      /\ g.posts[j].next_reply \in Nat
  BY <1>2 DEF Post, ReplyItem
<1>4. n = g.posts[j].next_reply + 1
  OBVIOUS
<1>. HIDE DEF po, item, h, n
<1>5. ASSUME NEW i \in DOMAIN h.posts, NEW r \in 0 .. h.posts[i].next_reply
      PROVE  \E k \in DOMAIN h.feed : h.feed[k].numb = i - 1 /\ h.feed[k].numr = r
  <2>1. i \in DOMAIN g.posts /\ h.posts[i] = IF i = j THEN po ELSE g.posts[i]
    BY <1>1, <1>2
  <2>2. CASE i = j /\ r = n
    <3>1. Len(g.feed) + 1 \in DOMAIN h.feed /\ h.feed[Len(g.feed) + 1] = item
      BY <1>1, <1>2, AppendFacts
    <3>. QED  BY <1>3, <2>2, <3>1
  <2>3. CASE ~(i = j /\ r = n)
    <3>1. r \in 0 .. g.posts[i].next_reply
      BY <1>3, <1>4, <1>5, <2>1, <2>3
    <3>2. PICK k \in DOMAIN g.feed : g.feed[k].numb = i - 1 /\ g.feed[k].numr = r
      BY <2>1, <3>1 DEF Unbroken, feed_index_after
    <3>3. h.feed = Append(g.feed, item) /\ g.feed \in Seq(FeedItem) /\ item \in FeedItem
      BY <1>1, <1>2
    <3>4. k \in DOMAIN h.feed /\ h.feed[k] = g.feed[k]
      BY <3>2, <3>3, AppendFacts
    <3>. QED  BY <3>2, <3>4
  <2>. QED  BY <2>2, <2>3
<1>6. Unbroken(h)
  BY <1>5 DEF Unbroken, feed_index_after
<1>. QED  BY <1>6 DEF h, item

LEMMA ToldUnbroken ==
    ASSUME ~AllocMayFail, NEW uid \in Nat, NEW g \in Group, NEW h, ToldStep(uid, g, h),
           Numbered(g), Unbroken(g)
    PROVE  Unbroken(h)
<1>1. CASE h.posts = g.posts /\ h.feed = g.feed
  BY <1>1 DEF Unbroken, feed_index_after
<1>2. CASE ToldInvite(uid, g, h) \/ ToldDecline(uid, g, h) \/ ToldAccept(uid, g, h)
           \/ ToldLeave(uid, g, h)
  <2>1. h.posts = g.posts /\ h.feed = g.feed
    BY <1>2 DEF ToldInvite, ToldDecline, ToldAccept, ToldLeave, Declines, Joins, Closes,
                Leaves, Group, group_add_pending, group_remove_pending, group_add_member,
                close_group, group_remove_member
  <2>. QED  BY <1>1, <2>1
<1>3. CASE ToldPost(uid, g, h)
  BY <1>3, PostUnbroken DEF ToldPost, Lost
<1>4. CASE ToldReply(uid, g, h)
  BY <1>4, ReplyUnbroken DEF ToldReply, Lost
<1>. QED  BY <1>2, <1>3, <1>4 DEF ToldStep

\* Unless an allocation fails, every billet and every reply that got a number is in the
\* feed.
THEOREM FeedAlwaysComplete == Spec => []FeedComplete
<1>1. FeedComplete <=> AllocMayFail \/ \A s \in DOMAIN groups : Unbroken(groups[s])
  BY DEF FeedComplete, Unbroken
<1>2. Init => FeedComplete
  BY <1>1 DEF Init
<1>3. ASSUME IInv, FeedComplete, [Next]_vars PROVE FeedComplete'
  <2>. SUFFICES ASSUME ~AllocMayFail PROVE \A s \in DOMAIN groups' : Unbroken(groups'[s])
    BY DEF FeedComplete, Unbroken, feed_index_after
  <2>0. /\ groups \in Seq(Group)
        /\ \A s \in DOMAIN groups : /\ groups[s] \in Group
                                    /\ Numbered(groups[s]) /\ Unbroken(groups[s])
    BY <1>1, <1>3 DEF IInv, TypeOK, FeedNumbered
  <2>1. CASE groups' = groups
    BY <2>0, <2>1
  <2>2. CASE ToldGroup
    <3>1. PICK h \in Group : groups' = Append(groups, h) /\ h.posts = << >>
      BY <2>2 DEF ToldGroup
    <3>2. Unbroken(h)
      BY <3>1 DEF Unbroken
    <3>. QED  BY <2>0, <3>1, <3>2, AppendFacts
  <2>3. ASSUME NEW uid \in Callers, ToldOpen(uid)
        PROVE  \A s \in DOMAIN groups' : Unbroken(groups'[s])
    <3>1. PICK t \in DOMAIN groups, h \in Group : Update(t, h) /\ ToldStep(uid, groups[t], h)
      BY <2>3 DEF ToldOpen
    <3>2. Unbroken(h)
      BY <2>0, <3>1, ToldUnbroken, CallerNumbers
    <3>3. /\ DOMAIN groups' = DOMAIN groups
          /\ \A s \in DOMAIN groups : groups'[s] = IF s = t THEN h ELSE groups[s]
      BY <1>3, <3>1, UpdateTypes DEF IInv
    <3>. QED  BY <2>0, <3>2, <3>3
  <2>4. UNCHANGED vars \/ Quiet \/ ToldUser \/ (\E uid \in Callers : ToldRead(uid)) => groups' = groups
    BY DEF vars, Quiet, ToldUser, UserStep, ToldRead, TablesUnchanged
  <2>. QED  BY <1>3, <2>1, <2>2, <2>3, <2>4, NextTold
<1>. QED  BY <1>2, <1>3, Inductive, PTL DEF Spec

================================================================================
