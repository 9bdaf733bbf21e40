------------------------ MODULE ParolesCommandsProofs ------------------------
(***************************************************************************)
(* The safety properties of ParolesCommands, for every number of people,   *)
(* base of the bytes, length of the queue and of the texts: what is sent   *)
(* is understood, what is acknowledged is in the feed, the last answer     *)
(* about membership stays true, what is printed and heard is true.         *)
(***************************************************************************)
EXTENDS ParolesCommands, ParolesServerProofs, ParolesWireProofs, FiniteSetTheorems

(***************************************************************************)
(* What a request does to the group they talk about, of which g is the     *)
(* entry before and h the entry after, with its answer and its datagrams.  *)
(***************************************************************************)
Wrote == reply'.code \in {"POST_OK", "REPLY_OK"}

News == [code |-> "NEW_MSG", idg |-> IDG, to |-> ALL]

FeedEffect(c, g, h) ==
    \/ h.feed = g.feed /\ ~Wrote /\ \A d \in sent' : d.code # "NEW_MSG"
    \/ /\ Wrote /\ c.code \in {"POST", "REPLY"}
       /\ h.feed = Append(g.feed, [author |-> c.uid, numb |-> reply'.numb, numr |-> reply'.numr])
       /\ reply'.idg = IDG /\ reply'.numb \in 0 .. MaxBillets - 1 /\ reply'.numr \in 0 .. MaxReplies
       /\ reply'.code = "POST_OK" => reply'.numr = 0
       /\ \A d \in sent' : d.code = "NEW_MSG" => d = News

PostsEffect(g, h) ==
    /\ Len(g.posts) =< MaxBillets => Len(h.posts) =< MaxBillets
    /\ \A i \in DOMAIN g.posts : i \in DOMAIN h.posts /\ h.posts[i].author = g.posts[i].author

FetchEffect(g) ==
    \A d \in sent' : d.code = "FETCH" =>
        find_user(d.to) /\ \E i \in DOMAIN g.posts : g.posts[i].author = d.to
CloseEffect(h) == \A d \in sent' : d.code = "CLOSE" => h.closed

SameMembers(g, h) == h.mem = g.mem /\ h.closed = g.closed
MemberEffect(c, g, h) ==
    /\ g.closed => h.closed
    /\ \A p : p # c.uid \/ c.code # "INV_ANS" => h.closed \/ (p \in h.mem <=> p \in g.mem)
    /\ c.code = "INV_ANS" /\ c.an = 2 => h.closed \/ c.uid \notin h.mem
    /\ reply'.code = "JOIN_OK" => c.uid \in h.mem

ReadEffect(c, g) ==
    reply'.code = "FEED_OK" =>
        /\ c.code = "FEED" /\ reply'.idg = IDG
        /\ \E i \in feed_index_after(g, c.numb, c.numr) : reply'.items = After(g, i)

Effect(c, g, h) ==
    /\ FeedEffect(c, g, h) /\ PostsEffect(g, h) /\ FetchEffect(g) /\ CloseEffect(h)
    /\ MemberEffect(c, g, h) /\ ReadEffect(c, g)

\* Their group is the first entry of the table.
OneGroup == 1 \in DOMAIN groups /\ groups[1].idg = IDG

LEMMA OneSlot ==
    ASSUME IInv, OneGroup
    PROVE  /\ find_group(IDG) \subseteq {1} /\ groups[1] \in Group
           /\ \A p : /\ MemberOf(p, IDG) \subseteq {1} /\ PendingOf(p, IDG) \subseteq {1}
                     /\ AdminOf(p, IDG) \subseteq {1}
<1>1. find_group(IDG) \subseteq {1}
  BY DEF find_group, IInv, IdsNameOneEntry, OneGroup
<1>2. groups[1] \in Group
  BY DEF IInv, TypeOK, OneGroup
<1>. QED  BY <1>1, <1>2 DEF MemberOf, PendingOf, AdminOf

LEMMA SlotUpdated ==
    ASSUME OneGroup, NEW h, Update(1, h)
    PROVE  groups'[1] = h
BY DEF OneGroup, Update

\* A request that changes neither billets nor feed.
LEMMA QuietEffect ==
    ASSUME NEW c, NEW g \in Group, NEW h, h.posts = g.posts, h.feed = g.feed,
           reply'.code \notin {"POST_OK", "REPLY_OK", "FEED_OK"},
           \A d \in sent' : d.code \notin {"NEW_MSG", "FETCH"}, MemberEffect(c, g, h),
           CloseEffect(h)
    PROVE  Effect(c, g, h)
BY DEF Effect, FeedEffect, Wrote, PostsEffect, FetchEffect, ReadEffect

LEMMA RefusedEffect ==
    ASSUME NEW c, NEW uid, OneGroup, groups[1] \in Group, Refused(uid),
           c.code = "INV_ANS" /\ c.an = 2 => groups[1].closed \/ c.uid \notin groups[1].mem
    PROVE  Effect(c, groups[1], groups'[1])
<1>1. groups'[1] = groups[1] /\ sent' = {} /\ reply'.code = "ERR"
  BY DEF Refused, TablesUnchanged, send_err, Answer
<1>2. MemberEffect(c, groups[1], groups'[1])
  BY <1>1 DEF MemberEffect
<1>. QED  BY <1>1, <1>2, QuietEffect DEF CloseEffect

LEMMA NewGroupEffect ==
    ASSUME IInv, OneGroup, NEW c, NEW alloc, c.code = "NEW_GROUP", handle_new_group(c.uid, alloc)
    PROVE  Effect(c, groups[1], groups'[1])
<1>0. groups[1] \in Group
  BY OneSlot
<1>1. CASE Refused(c.uid)
  BY <1>0, <1>1, RefusedEffect
<1>2. CASE ~Refused(c.uid)
  <2>1. PICK h : /\ groups' = Append(groups, h) /\ sent' = {}
                 /\ reply'.code \in {"NEW_GROUP_OK", "ERR"}
    BY <1>2 DEF handle_new_group, send_err, Answer
  <2>2. groups'[1] = groups[1]
    BY <2>1 DEF OneGroup, IInv, TypeOK
  <2>3. MemberEffect(c, groups[1], groups'[1])
    BY <2>1, <2>2 DEF MemberEffect
  <2>. QED  BY <1>0, <2>1, <2>2, <2>3, QuietEffect DEF CloseEffect
<1>. QED  BY <1>1, <1>2

LEMMA InviteEffect ==
    ASSUME IInv, OneGroup, NEW c, c.code = "INVITE", handle_invite(c.uid, IDG, c.ids)
    PROVE  Effect(c, groups[1], groups'[1])
<1>0. groups[1] \in Group
  BY OneSlot
<1>1. CASE Refused(c.uid)
  BY <1>0, <1>1, RefusedEffect
<1>2. CASE ~Refused(c.uid)
  <2>. DEFINE new == {c.ids[k] : k \in Invited(c.ids)}
  <2>1. PICK s \in AdminOf(c.uid, IDG) :
          /\ Update(s, group_add_pending(groups[s], new))
          /\ reply' \in {send_ack(c.uid), send_err(c.uid)}
          /\ sent' = UNION {notif_udp_user(c.ids[k], "INV_UDP", IDG) : k \in Invited(c.ids)}
    BY <1>2 DEF handle_invite
  <2>2. s = 1
    BY <2>1, OneSlot
  <2>3. groups'[1] = group_add_pending(groups[1], new)
    BY <2>1, <2>2, SlotUpdated
  <2>4. /\ groups'[1].mem = groups[1].mem /\ groups'[1].closed = groups[1].closed
        /\ groups'[1].posts = groups[1].posts /\ groups'[1].feed = groups[1].feed
    BY <1>0, <2>3 DEF group_add_pending, Group
  <2>5. reply'.code \in {"ACK", "ERR"}
    BY <2>1 DEF send_ack, send_err, Answer
  <2>6. \A d \in sent' : d.code = "INV_UDP"
    BY <2>1 DEF notif_udp_user
  <2>7. MemberEffect(c, groups[1], groups'[1])
    BY <2>4, <2>5 DEF MemberEffect
  <2>. QED  BY <1>0, <2>4, <2>5, <2>6, <2>7, QuietEffect DEF CloseEffect
<1>. QED  BY <1>1, <1>2

LEMMA ListEffect ==
    ASSUME IInv, OneGroup, NEW c, c.code \in {"LIST_INV", "LIST_MEM"},
           handle_list_inv(c.uid) \/ handle_list_mem(c.uid, c.idg)
    PROVE  Effect(c, groups[1], groups'[1])
<1>0. groups[1] \in Group
  BY OneSlot
<1>1. CASE Refused(c.uid)
  BY <1>0, <1>1, RefusedEffect
<1>2. CASE ~Refused(c.uid)
  <2>1. TablesUnchanged /\ sent' = {} /\ reply'.code \in {"LIST_INV_OK", "LIST_MEM_OK"}
    BY <1>2 DEF handle_list_inv, handle_list_mem, Answer
  <2>2. groups'[1] = groups[1]
    BY <2>1 DEF TablesUnchanged
  <2>3. MemberEffect(c, groups[1], groups'[1])
    BY <2>1, <2>2 DEF MemberEffect
  <2>. QED  BY <1>0, <2>1, <2>2, <2>3, QuietEffect DEF CloseEffect
<1>. QED  BY <1>1, <1>2

LEMMA DeclineEffect ==
    ASSUME IInv, OneGroup, NEW c, c.code = "INV_ANS", c.an = 0, decline(c.uid, IDG)
    PROVE  Effect(c, groups[1], groups'[1])
<1>0. groups[1] \in Group
  BY OneSlot
<1>1. CASE Refused(c.uid)
  BY <1>0, <1>1, RefusedEffect
<1>2. CASE ~Refused(c.uid)
  <2>1. PICK s \in PendingOf(c.uid, IDG) :
          /\ Update(s, group_remove_pending(groups[s], c.uid))
          /\ reply' = send_ack(c.uid) /\ sent' = {}
    BY <1>2 DEF decline
  <2>2. s = 1
    BY <2>1, OneSlot
  <2>3. groups'[1] = group_remove_pending(groups[1], c.uid)
    BY <2>1, <2>2, SlotUpdated
  <2>4. /\ groups'[1].mem = groups[1].mem /\ groups'[1].closed = groups[1].closed
        /\ groups'[1].posts = groups[1].posts /\ groups'[1].feed = groups[1].feed
    BY <1>0, <2>3 DEF group_remove_pending, Group
  <2>5. reply'.code = "ACK"
    BY <2>1 DEF send_ack, Answer
  <2>6. MemberEffect(c, groups[1], groups'[1])
    BY <2>4, <2>5 DEF MemberEffect
  <2>. QED  BY <1>0, <2>1, <2>4, <2>5, <2>6, QuietEffect DEF CloseEffect
<1>. QED  BY <1>1, <1>2

LEMMA AcceptEffect ==
    ASSUME IInv, OneGroup, NEW c, c.code = "INV_ANS", c.an = 1, accept(c.uid, IDG)
    PROVE  Effect(c, groups[1], groups'[1])
<1>0. groups[1] \in Group
  BY OneSlot
<1>1. CASE Refused(c.uid)
  BY <1>0, <1>1, RefusedEffect
<1>2. CASE ~Refused(c.uid)
  <2>. DEFINE h(s) == group_add_member(group_remove_pending(groups[s], c.uid), c.uid)
  <2>1. PICK s \in PendingOf(c.uid, IDG) :
          /\ Update(s, h(s))
          /\ reply' \in {Answer(c.uid, "JOIN_OK", IDG, 0, 0), send_err(c.uid)}
          /\ sent' \in {notif_mcast(h(s), "JOIN"), {}}
    BY <1>2 DEF accept
  <2>2. s = 1
    BY <2>1, OneSlot
  <2>3. groups'[1] = h(1)
    BY <2>1, <2>2, SlotUpdated
  <2>4. /\ groups'[1].mem = groups[1].mem \cup {c.uid} /\ groups'[1].closed = groups[1].closed
        /\ groups'[1].posts = groups[1].posts /\ groups'[1].feed = groups[1].feed
    BY <1>0, <2>3 DEF group_remove_pending, group_add_member, Group
  <2>5. reply'.code \in {"JOIN_OK", "ERR"}
    BY <2>1 DEF send_err, Answer
  <2>6. \A d \in sent' : d.code = "JOIN"
    BY <2>1 DEF notif_mcast
  <2>7. MemberEffect(c, groups[1], groups'[1])
    BY <2>4, <2>5 DEF MemberEffect
  <2>. QED  BY <1>0, <2>4, <2>5, <2>6, <2>7, QuietEffect DEF CloseEffect
<1>. QED  BY <1>1, <1>2

LEMMA LeaveEffect ==
    ASSUME IInv, OneGroup, NEW c, c.code = "INV_ANS", c.an = 2, leave(c.uid, IDG)
    PROVE  Effect(c, groups[1], groups'[1])
<1>0. groups[1] \in Group
  BY OneSlot
<1>1. CASE MemberOf(c.uid, IDG) = {}
  <2>1. Refused(c.uid)
    BY <1>1 DEF leave
  <2>2. groups[1].closed \/ c.uid \notin groups[1].mem
    BY <1>1 DEF MemberOf, find_group, OneGroup
  <2>. QED  BY <1>0, <2>1, <2>2, RefusedEffect
<1>2. CASE MemberOf(c.uid, IDG) # {}
  <2>1. PICK s \in MemberOf(c.uid, IDG) :
          /\ reply' = send_ack(c.uid)
          /\ \/ Update(s, close_group(groups[s])) /\ sent' = notif_mcast(groups[s], "CLOSE")
             \/ Update(s, group_remove_member(groups[s], c.uid))
                /\ sent' = notif_mcast(groups[s], "LEAVE")
    BY <1>2 DEF leave
  <2>2. s = 1
    BY <2>1, OneSlot
  <2>3. groups'[1] = close_group(groups[1]) \/ groups'[1] = group_remove_member(groups[1], c.uid)
    BY <2>1, <2>2, SlotUpdated
  <2>4. /\ \/ groups'[1].closed
           \/ groups'[1].mem = groups[1].mem \ {c.uid} /\ groups'[1].closed = groups[1].closed
        /\ groups'[1].posts = groups[1].posts /\ groups'[1].feed = groups[1].feed
    BY <1>0, <2>3 DEF close_group, group_remove_member, Group
  <2>5. reply'.code = "ACK"
    BY <2>1 DEF send_ack, Answer
  <2>6. \A d \in sent' : d.code \in {"CLOSE", "LEAVE"}
    BY <2>1 DEF notif_mcast
  <2>7. MemberEffect(c, groups[1], groups'[1])
    BY <2>4, <2>5 DEF MemberEffect
  <2>8. CloseEffect(groups'[1])
    <3>1. CASE groups'[1] = close_group(groups[1])
      <4>1. groups'[1].closed
        BY <1>0, <3>1 DEF close_group, Group
      <4>. QED  BY <4>1 DEF CloseEffect
    <3>2. CASE sent' = notif_mcast(groups[s], "LEAVE")
      BY <3>2 DEF CloseEffect, notif_mcast
    <3>3. groups'[1] = close_group(groups[1]) \/ sent' = notif_mcast(groups[s], "LEAVE")
      BY <2>1, <2>2, SlotUpdated
    <3>. QED  BY <3>1, <3>2, <3>3
  <2>. QED  BY <1>0, <2>4, <2>5, <2>6, <2>7, <2>8, QuietEffect
<1>. QED  BY <1>1, <1>2

LEMMA PostEffect ==
    ASSUME IInv, OneGroup, NEW c, NEW alloc, c.code = "POST", c.uid \in Nat,
           handle_post(c.uid, IDG, alloc)
    PROVE  Effect(c, groups[1], groups'[1])
<1>. DEFINE g == groups[1]
            k == groups'[1]
<1>0. g \in Group /\ Numbered(g) /\ g.idg = IDG
  BY OneSlot DEF IInv, FeedNumbered, OneGroup
<1>1. CASE Refused(c.uid)
  BY <1>0, <1>1, RefusedEffect
<1>2. CASE ~Refused(c.uid)
  <2>1. PICK s, h :
          /\ s \in MemberOf(c.uid, IDG) /\ Update(s, h) /\ Len(groups[s].posts) < MaxBillets
          /\ \/ h = PostedBillet(c.uid, groups[s]) /\ reply' = send_err(c.uid) /\ sent' = {}
             \/ /\ h = feed_push(PostedBillet(c.uid, groups[s]), BilletItem(c.uid, groups[s]))
                /\ reply' = Answer(c.uid, "POST_OK", IDG, groups[s].next_billet, 0)
                /\ sent' = notif_mcast(groups[s], "NEW_MSG")
    BY <1>2 DEF handle_post, PostedBillet, BilletItem
  <2>2. s = 1
    BY <2>1, OneSlot
  <2>3. k = h
    BY <2>1, <2>2, SlotUpdated
  <2>. HIDE DEF g, k
  <2>4. Len(g.posts) < MaxBillets
    BY <2>1, <2>2 DEF g
  <2>5. \/ k = PostedBillet(c.uid, g) /\ reply' = send_err(c.uid) /\ sent' = {}
        \/ /\ k = feed_push(PostedBillet(c.uid, g), BilletItem(c.uid, g))
           /\ reply' = Answer(c.uid, "POST_OK", IDG, g.next_billet, 0)
           /\ sent' = notif_mcast(g, "NEW_MSG")
    BY <2>1, <2>2, <2>3 DEF g
  <2>6. k.mem = g.mem /\ k.closed = g.closed /\ k.posts = PostedBillet(c.uid, g).posts
    BY <1>0, <2>5 DEF PostedBillet, feed_push, Group
  <2>7. PostsEffect(g, k)
    <3>. DEFINE po == [numb |-> g.next_billet, author |-> c.uid, next_reply |-> 0]
    <3>1. g.posts \in Seq(Post) /\ po \in Post
      BY <1>0 DEF Group, Post
    <3>2. k.posts = Append(g.posts, po)
      BY <1>0, <2>6 DEF PostedBillet, Group
    <3>. HIDE DEF po
    <3>3. /\ Len(k.posts) = Len(g.posts) + 1 /\ DOMAIN k.posts = DOMAIN g.posts \cup {Len(g.posts) + 1}
          /\ \A i \in DOMAIN g.posts : k.posts[i] = g.posts[i]
      BY <3>1, <3>2, AppendFacts
    <3>4. Len(g.posts) + 1 =< MaxBillets
      BY <2>4, <3>1, Bounds
    <3>. QED  BY <3>3, <3>4 DEF PostsEffect
  <2>8. MemberEffect(c, g, k)
    <3>1. reply'.code \in {"ERR", "POST_OK"}
      BY <2>5 DEF send_err, Answer
    <3>. QED  BY <2>6, <3>1 DEF MemberEffect
  <2>9. FeedEffect(c, g, k) /\ FetchEffect(g) /\ CloseEffect(k) /\ ReadEffect(c, g)
    <3>1. CASE k = PostedBillet(c.uid, g) /\ reply' = send_err(c.uid) /\ sent' = {}
      <4>1. k.feed = g.feed
        BY <1>0, <3>1 DEF PostedBillet, Group
      <4>2. reply'.code = "ERR"
        BY <3>1 DEF send_err, Answer
      <4>. QED  BY <3>1, <4>1, <4>2 DEF FeedEffect, FetchEffect, CloseEffect, ReadEffect, Wrote
    <3>2. CASE /\ k = feed_push(PostedBillet(c.uid, g), BilletItem(c.uid, g))
               /\ reply' = Answer(c.uid, "POST_OK", IDG, g.next_billet, 0)
               /\ sent' = notif_mcast(g, "NEW_MSG")
      <4>1. k.feed = Append(g.feed, BilletItem(c.uid, g))
        BY <1>0, <3>2 DEF PostedBillet, feed_push, Group
      <4>2. /\ reply'.code = "POST_OK" /\ reply'.idg = IDG /\ reply'.numb = g.next_billet
            /\ reply'.numr = 0
        BY <3>2 DEF Answer
      <4>3. g.next_billet \in 0 .. MaxBillets - 1 /\ 0 \in 0 .. MaxReplies
        BY <1>0, <2>4, Bounds DEF Group, Numbered
      <4>4. \A d \in sent' : d = News /\ d.code = "NEW_MSG"
        BY <1>0, <3>2 DEF notif_mcast, News
      <4>5. FetchEffect(g) /\ CloseEffect(k)
        BY <4>4 DEF FetchEffect, CloseEffect
      <4>. QED  BY <4>1, <4>2, <4>3, <4>4, <4>5 DEF FeedEffect, ReadEffect, Wrote, BilletItem
    <3>. QED  BY <2>5, <3>1, <3>2
  <2>10. Effect(c, g, k)
    BY <2>7, <2>8, <2>9 DEF Effect
  <2>. QED  BY <2>10 DEF g, k
<1>. QED  BY <1>1, <1>2

LEMMA ReplyEffect ==
    ASSUME IInv, OneGroup, Len(groups[1].posts) =< MaxBillets, NEW c, NEW alloc,
           c.code = "REPLY", c.uid \in Nat, handle_reply(c.uid, IDG, c.numb, alloc)
    PROVE  Effect(c, groups[1], groups'[1])
<1>. DEFINE g == groups[1]
            k == groups'[1]
<1>0. g \in Group /\ Numbered(g) /\ g.idg = IDG
  BY OneSlot DEF IInv, FeedNumbered, OneGroup
<1>1. CASE Refused(c.uid)
  BY <1>0, <1>1, RefusedEffect
<1>2. CASE ~Refused(c.uid)
  <2>1. PICK s, i, h :
          /\ s \in MemberOf(c.uid, IDG) /\ i \in find_post(groups[s], c.numb)
          /\ Update(s, h) /\ groups[s].posts[i].next_reply + 1 =< MaxReplies
          /\ \/ h = CountedReply(groups[s], i) /\ reply' = send_err(c.uid) /\ sent' = {}
             \/ /\ h = feed_push(CountedReply(groups[s], i), ReplyItem(c.uid, groups[s], i))
                /\ reply' = Answer(c.uid, "REPLY_OK", IDG, c.numb, groups[s].posts[i].next_reply + 1)
                /\ sent' = notif_mcast(groups[s], "NEW_MSG") \cup
                           IF find_user(groups[s].posts[i].author) /\ groups[s].posts[i].author # c.uid
                           THEN notif_udp_user(groups[s].posts[i].author, "FETCH", IDG) ELSE {}
    BY <1>2 DEF handle_reply, CountedReply, ReplyItem, find_post
  <2>2. s = 1
    BY <2>1, OneSlot
  <2>3. k = h
    BY <2>1, <2>2, SlotUpdated
  <2>. DEFINE n == g.posts[i].next_reply + 1
  <2>4. /\ i \in DOMAIN g.posts /\ g.posts[i].numb = c.numb /\ n =< MaxReplies
        /\ Len(g.posts) =< MaxBillets
    BY <2>1, <2>2 DEF find_post
  <2>5. \/ k = CountedReply(g, i) /\ reply' = send_err(c.uid) /\ sent' = {}
        \/ /\ k = feed_push(CountedReply(g, i), ReplyItem(c.uid, g, i))
           /\ reply' = Answer(c.uid, "REPLY_OK", IDG, c.numb, n)
           /\ sent' = notif_mcast(g, "NEW_MSG") \cup
                      IF find_user(g.posts[i].author) /\ g.posts[i].author # c.uid
                      THEN notif_udp_user(g.posts[i].author, "FETCH", IDG) ELSE {}
    BY <2>1, <2>2, <2>3
  <2>. HIDE DEF g, k
  <2>6. k.mem = g.mem /\ k.closed = g.closed /\ k.posts = CountedReply(g, i).posts
    BY <1>0, <2>5 DEF CountedReply, feed_push, Group
  <2>7. n \in Nat /\ g.posts[i].numb = i - 1 /\ i \in 1 .. Len(g.posts)
    <3>1. g.posts[i] \in Post /\ g.posts \in Seq(Post)
      BY <1>0, <2>4, RepliedTypes DEF Group
    <3>2. n \in Nat
      BY <3>1 DEF Post
    <3>3. g.posts[i].numb = i - 1
      BY <1>0, <2>4 DEF Numbered
    <3>. QED  BY <2>4, <3>1, <3>2, <3>3
  <2>8. PostsEffect(g, k)
    <3>. DEFINE po == [g.posts[i] EXCEPT !.next_reply = n]
    <3>1. g.posts \in Seq(Post) /\ g.posts[i] \in Post
      BY <1>0, <2>4, RepliedTypes DEF Group
    <3>2. k.posts = [g.posts EXCEPT ![i] = po] /\ po.author = g.posts[i].author
      BY <1>0, <2>6, <3>1 DEF CountedReply, Group, Post
    <3>. HIDE DEF po
    <3>. QED  BY <2>4, <3>1, <3>2 DEF PostsEffect
  <2>9. MemberEffect(c, g, k)
    <3>1. reply'.code \in {"ERR", "REPLY_OK"}
      BY <2>5 DEF send_err, Answer
    <3>. QED  BY <2>6, <3>1 DEF MemberEffect
  <2>. HIDE DEF n
  <2>10. FeedEffect(c, g, k) /\ FetchEffect(g) /\ CloseEffect(k) /\ ReadEffect(c, g)
    <3>1. CASE k = CountedReply(g, i) /\ reply' = send_err(c.uid) /\ sent' = {}
      <4>1. k.feed = g.feed
        BY <1>0, <3>1 DEF CountedReply, Group
      <4>2. reply'.code = "ERR"
        BY <3>1 DEF send_err, Answer
      <4>. QED  BY <3>1, <4>1, <4>2 DEF FeedEffect, FetchEffect, CloseEffect, ReadEffect, Wrote
    <3>2. CASE /\ k = feed_push(CountedReply(g, i), ReplyItem(c.uid, g, i))
               /\ reply' = Answer(c.uid, "REPLY_OK", IDG, c.numb, n)
               /\ sent' = notif_mcast(g, "NEW_MSG") \cup
                          IF find_user(g.posts[i].author) /\ g.posts[i].author # c.uid
                          THEN notif_udp_user(g.posts[i].author, "FETCH", IDG) ELSE {}
      <4>1. k.feed = Append(g.feed, ReplyItem(c.uid, g, i))
        BY <1>0, <3>2 DEF CountedReply, feed_push, Group
      <4>2. /\ reply'.code = "REPLY_OK" /\ reply'.idg = IDG /\ reply'.numb = c.numb
            /\ reply'.numr = n
        BY <3>2 DEF Answer
      <4>3. c.numb \in 0 .. MaxBillets - 1 /\ n \in 0 .. MaxReplies
        <5>1. g.posts \in Seq(Post)
          BY <1>0 DEF Group
        <5>2. Len(g.posts) \in Nat
          BY <5>1
        <5>. QED  BY <2>4, <2>7, <5>2, Bounds
      <4>4. \A d \in sent' :
               \/ d = News /\ d.code = "NEW_MSG"
               \/ d.code = "FETCH" /\ d.to = g.posts[i].author /\ find_user(d.to)
        BY <1>0, <3>2 DEF notif_mcast, notif_udp_user, News
      <4>5. ReplyItem(c.uid, g, i) = [author |-> c.uid, numb |-> c.numb, numr |-> n]
        BY <2>4 DEF ReplyItem, n
      <4>6. FetchEffect(g) /\ CloseEffect(k) /\ \A d \in sent' : d.code = "NEW_MSG" => d = News
        BY <2>4, <4>4 DEF FetchEffect, CloseEffect
      <4>. QED  BY <4>1, <4>2, <4>3, <4>5, <4>6 DEF FeedEffect, ReadEffect, Wrote
    <3>. QED  BY <2>5, <3>1, <3>2
  <2>11. Effect(c, g, k)
    BY <2>8, <2>9, <2>10 DEF Effect
  <2>. QED  BY <2>11 DEF g, k
<1>. QED  BY <1>1, <1>2

LEMMA FeedRequestEffect ==
    ASSUME IInv, OneGroup, NEW c, NEW alloc,
           c.code = "FEED", handle_feed(c.uid, IDG, c.numb, c.numr, alloc)
    PROVE  Effect(c, groups[1], groups'[1])
<1>0. groups[1] \in Group
  BY OneSlot
<1>1. CASE Refused(c.uid)
  BY <1>0, <1>1, RefusedEffect
<1>2. CASE ~Refused(c.uid)
  <2>1. PICK s, i :
          /\ s \in MemberOf(c.uid, IDG) /\ i \in feed_index_after(groups[s], c.numb, c.numr)
          /\ TablesUnchanged
          /\ reply' = [Answer(c.uid, "FEED_OK", IDG, 0, 0) EXCEPT !.items = After(groups[s], i)]
          /\ sent' = Fetches(groups[s], c.uid, After(groups[s], i))
    BY <1>2 DEF handle_feed
  <2>2. s = 1
    BY <2>1, OneSlot
  <2>3. groups'[1] = groups[1]
    BY <2>1 DEF TablesUnchanged
  <2>4. reply'.code = "FEED_OK" /\ reply'.idg = IDG /\ reply'.items = After(groups[1], i)
    BY <2>1, <2>2 DEF Answer
  <2>5. \A d \in sent' : /\ d.code = "FETCH" /\ find_user(d.to)
                         /\ \E x \in DOMAIN groups[1].posts : groups[1].posts[x].author = d.to
    BY <2>1, <2>2 DEF Fetches, notif_udp_user, find_post
  <2>6. /\ FeedEffect(c, groups[1], groups'[1]) /\ FetchEffect(groups[1])
        /\ CloseEffect(groups'[1])
    BY <2>3, <2>4, <2>5 DEF FeedEffect, FetchEffect, CloseEffect, Wrote
  <2>7. MemberEffect(c, groups[1], groups'[1]) /\ PostsEffect(groups[1], groups'[1])
    BY <2>3, <2>4 DEF MemberEffect, PostsEffect
  <2>8. ReadEffect(c, groups[1])
    BY <2>1, <2>2, <2>4 DEF ReadEffect
  <2>. QED  BY <2>6, <2>7, <2>8 DEF Effect
<1>. QED  BY <1>1, <1>2

(***************************************************************************)
(* The requests people send.                                               *)
(***************************************************************************)
\* The same invitee once or several times.
Repeats(ids, q) == \E n \in Nat \ {0} : ids \in [1 .. n -> {q}]

\* What the server reads of a command of p, whose text comes in one of his words.
Requests(p) ==
    {c \in CommandType :
        /\ c.uid = p /\ c.code # "BAD"
        /\ c.code \notin {"NEW_GROUP", "LIST_INV"} => c.idg = IDG
        /\ c.code = "INVITE" => \E q \in People : Repeats(c.ids, q)
        /\ c.code = "INV_ANS" => c.an \in 0 .. 2
        /\ c.code \in {"REPLY", "FEED"} => c.numb = 0 /\ c.numr \in {0, 1}}

LEMMA DispatchEffect ==
    ASSUME IInv, OneGroup, Len(groups[1].posts) =< MaxBillets,
           NEW p \in People, NEW c, c \in Requests(p) \/ c = Bad, NEW alloc, dispatch(c, alloc)
    PROVE  Effect(c, groups[1], groups'[1])
<1>1. CASE c = Bad
  <2>1. c.code = "BAD"
    BY <1>1 DEF Bad, Command
  <2>2. Refused(c.uid)
    BY <2>1 DEF dispatch, BadRequest
  <2>. QED  BY <2>1, <2>2, OneSlot, RefusedEffect
<1>2. CASE c \in Requests(p)
  <2>1. /\ c.uid \in Nat /\ c.code # "BAD" /\ (c.code \notin {"NEW_GROUP", "LIST_INV"} => c.idg = IDG)
    BY <1>2 DEF Requests, CommandType
  <2>2. CASE c.code = "NEW_GROUP"
    BY <2>2, NewGroupEffect DEF dispatch
  <2>3. CASE c.code = "INVITE"
    BY <2>1, <2>3, InviteEffect DEF dispatch
  <2>4. CASE c.code \in {"LIST_INV", "LIST_MEM"}
    BY <2>4, ListEffect DEF dispatch
  <2>5. CASE c.code = "INV_ANS"
    <3>1. \/ c.an = 0 /\ decline(c.uid, IDG)
          \/ c.an = 1 /\ accept(c.uid, IDG)
          \/ c.an = 2 /\ leave(c.uid, IDG)
      BY <2>1, <2>5 DEF dispatch
    <3>. QED  BY <2>5, <3>1, DeclineEffect, AcceptEffect, LeaveEffect
  <2>6. CASE c.code = "POST"
    <3>1. handle_post(c.uid, IDG, alloc)
      BY <2>1, <2>6 DEF dispatch
    <3>. QED  BY <2>1, <2>6, <3>1, PostEffect
  <2>7. CASE c.code = "REPLY"
    <3>1. handle_reply(c.uid, IDG, c.numb, alloc)
      BY <2>1, <2>7 DEF dispatch
    <3>. QED  BY <2>1, <2>7, <3>1, ReplyEffect
  <2>8. CASE c.code = "FEED"
    <3>1. handle_feed(c.uid, IDG, c.numb, c.numr, alloc)
      BY <2>1, <2>8 DEF dispatch
    <3>. QED  BY <2>8, <3>1, FeedRequestEffect
  <2>. QED  BY <2>1, <2>2, <2>3, <2>4, <2>5, <2>6, <2>7, <2>8 DEF dispatch
<1>. QED  BY <1>1, <1>2

LEMMA PeopleNumbers ==
    ASSUME NEW p \in People
    PROVE  p \in U32 /\ p \in Nat /\ p \in Callers /\ p # None /\ p # 0
<1>1. PICK n \in 1 .. MAX_USERS : People = 1 .. n
  BY PeopleFit
<1>2. MAX_USERS \in Nat /\ MAX_USERS \in U32 /\ BYTE \in Nat
  BY TableSizes, NumbersFit, ByteBase
<1>3. p \in Nat /\ p =< MAX_USERS /\ p # 0
  BY <1>1, <1>2
<1>4. p \in U32
  <2>. DEFINE m == BYTE * BYTE * BYTE * BYTE
  <2>1. m \in Nat
    BY <1>2
  <2>2. MAX_USERS =< m - 1
    BY <1>2 DEF U32
  <2>. HIDE DEF m
  <2>3. p \in 0 .. m - 1
    BY <1>2, <1>3, <2>1, <2>2
  <2>. QED  BY <2>3 DEF U32, m
<1>. QED  BY <1>3, <1>4, PeopleCall

LEMMA SmallNumbers == 0 \in U32 /\ 1 \in U32 /\ IDG \in U32 /\ U32 \subseteq Nat
<1>1. BYTE \in Nat /\ BYTE > 2
  BY ByteBase
<1>2. BYTE * BYTE \in Nat /\ BYTE * BYTE > 1
  <2>1. BYTE * 1 + BYTE =< BYTE * BYTE
    BY <1>1, TimesMore
  <2>. QED  BY <1>1, <2>1
<1>3. (BYTE * BYTE) * BYTE \in Nat /\ (BYTE * BYTE) * BYTE > 1
  <2>. DEFINE d == BYTE * BYTE
  <2>1. d \in Nat /\ d > 1
    BY <1>2
  <2>. HIDE DEF d
  <2>2. d * 1 + d =< d * BYTE /\ d * BYTE \in Nat
    BY <1>1, <2>1, TimesMore
  <2>3. d * BYTE > 1
    BY <2>1, <2>2
  <2>. QED  BY <2>2, <2>3 DEF d
<1>4. ((BYTE * BYTE) * BYTE) * BYTE \in Nat /\ ((BYTE * BYTE) * BYTE) * BYTE > 1
  <2>. DEFINE d == (BYTE * BYTE) * BYTE
  <2>1. d \in Nat /\ d > 1
    BY <1>3
  <2>. HIDE DEF d
  <2>2. d * 1 + d =< d * BYTE /\ d * BYTE \in Nat
    BY <1>1, <2>1, TimesMore
  <2>3. d * BYTE > 1
    BY <2>1, <2>2
  <2>. QED  BY <2>2, <2>3 DEF d
<1>5. 0 \in U32 /\ 1 \in U32 /\ U32 \subseteq Nat
  <2>. DEFINE d == BYTE * BYTE * BYTE * BYTE
  <2>1. d \in Nat /\ d > 1
    BY <1>4
  <2>. HIDE DEF d
  <2>2. 0 \in 0 .. d - 1 /\ 1 \in 0 .. d - 1 /\ 0 .. d - 1 \subseteq Nat
    BY <2>1
  <2>. QED  BY <2>2 DEF U32, d
<1>. QED  BY <1>5 DEF IDG

LEMMA SeqWider == ASSUME NEW S, NEW T, S \subseteq T, NEW f \in Seq(S) PROVE f \in Seq(T)
OBVIOUS

LEMMA BytesNat == ASSUME NEW t \in Bytes PROVE t \in Seq(Nat)
<1>. DEFINE S == 0 .. BYTE - 1
<1>1. S \subseteq Nat
  BY ByteBase
<1>2. t \in Seq(S)
  BY DEF Bytes
<1>. HIDE DEF S
<1>. QED  BY <1>1, <1>2, SeqWider

LEMMA WordsBytes == ASSUME NEW p \in Nat PROVE Words(p) \subseteq Bytes
<1>. SUFFICES ASSUME NEW n \in Lengths PROVE [i \in 1 .. n |-> p % BYTE] \in Bytes
  BY DEF Words
<1>1. p % BYTE \in 0 .. BYTE - 1 /\ n \in Nat
  BY ByteBase, CommandBounds
<1>2. [i \in 1 .. n |-> p % BYTE] \in [1 .. n -> 0 .. BYTE - 1]
  BY <1>1
<1>. QED  BY <1>1, <1>2, SeqOf DEF Bytes

LEMMA NamesBytes == ASSUME NEW p \in Nat PROVE Names(p) \subseteq Bytes
<1>1. p % BYTE \in 0 .. BYTE - 1 /\ NEWGROUP_MSG - 6 \in Nat
  BY ByteBase, Buffers
<1>2. LongName(p) \in [1 .. NEWGROUP_MSG - 6 -> 0 .. BYTE - 1]
  BY <1>1 DEF LongName
<1>3. LongName(p) \in Bytes
  BY <1>1, <1>2, SeqOf DEF Bytes
<1>. QED  BY <1>3, WordsBytes DEF Names

\* One invitee, or just too many of them for the buffer, are fewer than the server takes.
LEMMA InviteesFew ==
    ASSUME NEW p, NEW ids \in Called(p)
    PROVE  ids \in InviteeLists /\ ids \in Seq(Nat) /\ \E q \in People : Repeats(ids, q)
<1>. DEFINE n == (INVITE_MSG - 13) \div 8 + 1
            top == BYTE * BYTE * BYTE * BYTE - 1
<1>0. PICK q \in People : ids \in {<<q>>, Crowd(q)}
  BY DEF Called
<1>1. q \in U32 /\ q \in Nat
  BY PeopleNumbers
<1>2. MAX_NB \in 1 .. top /\ top \in Int /\ U32 = 0 .. top
  <2>1. top \in Int
    BY ByteBase
  <2>. QED  BY <2>1, WireLimits DEF U32
<1>. HIDE DEF top
<1>3. n \in Nat \ {0} /\ n =< MAX_NB
  BY <1>2, Buffers
<1>4. Crowd(q) \in [1 .. n -> {q}]
  BY DEF Crowd
<1>. HIDE DEF n
<1>5. ASSUME NEW m \in Nat \ {0}, m =< MAX_NB, ids \in [1 .. m -> {q}]
      PROVE  ids \in InviteeLists /\ ids \in Seq(Nat) /\ Repeats(ids, q)
  <2>1. ids \in [1 .. m -> U32] /\ ids \in [1 .. m -> Nat]
    BY <1>1, <1>5
  <2>2. ids \in Seq(U32) /\ ids \in Seq(Nat) /\ Len(ids) = m
    BY <2>1, SeqOf
  <2>3. m \in U32
    BY <1>2, <1>5
  <2>. QED  BY <1>5, <2>2, <2>3 DEF InviteeLists, Repeats
<1>6. <<q>> \in [1 .. 1 -> {q}] /\ 1 =< MAX_NB /\ 1 \in Nat \ {0}
  BY <1>2
<1>. QED  BY <1>0, <1>3, <1>4, <1>5, <1>6

\* The commands of p, one by one.
LEMMA CommandCases ==
    ASSUME NEW p \in People, NEW c \in Commands(p)
    PROVE  \/ \E t \in Words(p) : c = WithText(Command("POST", p, IDG), t)
           \/ \E t \in Words(p) : c = WithText(Command("REPLY", p, IDG), t)
           \/ \E t \in Names(p) : c = WithText(Command("NEW_GROUP", p, 0), t)
           \/ \E an \in 0 .. 2 : c = [Command("INV_ANS", p, IDG) EXCEPT !.an = an]
           \/ \E ids \in Called(p) : c = [Command("INVITE", p, IDG) EXCEPT !.ids = ids]
           \/ \E n \in {0, 1} : c = [Command("FEED", p, IDG) EXCEPT !.numr = n]
           \/ c = Command("LIST_MEM", p, IDG) \/ c = Command("LIST_INV", p, 0)
BY Zenon DEF Commands, WithText

LEMMA WithNothing ==
    ASSUME NEW code, NEW u, NEW g
    PROVE  WithNumb(Command(code, u, g), 0) = Command(code, u, g)
BY DEF WithNumb, Command

LEMMA CommandsSendable ==
    ASSUME NEW p \in People, NEW c \in Commands(p)
    PROVE  Sendable(c)
<1>1. p \in U32 /\ 0 \in U32 /\ 1 \in U32 /\ IDG \in U32 /\ Words(p) \subseteq Bytes
      /\ Names(p) \subseteq Bytes
  BY PeopleNumbers, SmallNumbers, WordsBytes, NamesBytes
<1>2. ASSUME NEW t \in Words(p), c = WithText(Command("POST", p, IDG), t) PROVE Sendable(c)
  BY <1>1, <1>2, Zenon DEF Sendable
<1>3. ASSUME NEW t \in Words(p), c = WithText(Command("REPLY", p, IDG), t) PROVE Sendable(c)
  <2>1. c = WithText(WithNumb(Command("REPLY", p, IDG), 0), t) /\ t \in Bytes
    BY <1>1, <1>3, WithNothing
  <2>. QED  BY <1>1, <2>1, Zenon DEF Sendable
<1>4. ASSUME NEW t \in Names(p), c = WithText(Command("NEW_GROUP", p, 0), t)
      PROVE  Sendable(c)
  <2>1. t \in Bytes
    BY <1>1
  <2>. QED  BY <1>1, <1>4, <2>1, Zenon DEF Sendable
<1>5. ASSUME NEW an \in 0 .. 2, c = [Command("INV_ANS", p, IDG) EXCEPT !.an = an] PROVE Sendable(c)
  BY <1>1, <1>5, Zenon DEF Sendable
<1>6. ASSUME NEW ids \in Called(p), c = [Command("INVITE", p, IDG) EXCEPT !.ids = ids]
      PROVE  Sendable(c)
  <2>1. ids \in InviteeLists
    BY InviteesFew
  <2>. QED  BY <1>1, <1>6, <2>1, Zenon DEF Sendable
<1>7. ASSUME NEW n \in {0, 1}, c = [Command("FEED", p, IDG) EXCEPT !.numr = n] PROVE Sendable(c)
  <2>1. c = [WithNumb(Command("FEED", p, IDG), 0) EXCEPT !.numr = n] /\ n \in U32
    BY <1>1, <1>7, WithNothing
  <2>. QED  BY <1>1, <2>1, Zenon DEF Sendable
<1>8. CASE c = Command("LIST_MEM", p, IDG) \/ c = Command("LIST_INV", p, 0)
  BY <1>1, <1>8, Zenon DEF Sendable
<1>. QED  BY <1>2, <1>3, <1>4, <1>5, <1>6, <1>7, <1>8, CommandCases, Zenon

LEMMA CommandFields ==
    ASSUME NEW p \in People, NEW c \in Commands(p)
    PROVE  /\ c \in CommandType /\ c \in Requests(p) /\ c # Bad
           /\ c.code \in {"POST", "REPLY"} => c.text \in Words(p)
           /\ c.text \in Bytes
<1>. DEFINE ok == /\ c \in CommandType /\ c \in Requests(p) /\ c # Bad
                  /\ c.code \in {"POST", "REPLY"} => c.text \in Words(p)
                  /\ c.text \in Bytes
<1>1. p \in Nat /\ IDG \in Nat /\ Words(p) \subseteq Bytes /\ << >> \in Bytes
      /\ Names(p) \subseteq Bytes
  BY PeopleNumbers, WordsBytes, NamesBytes DEF IDG, Bytes
<1>0. \A t \in Bytes : t \in Seq(Nat)
  BY BytesNat
<1>2. ASSUME NEW t \in Words(p), NEW code \in {"POST", "REPLY"}, c = WithText(Command(code, p, IDG), t)
      PROVE  ok
  <2>1. t \in Bytes /\ t \in Seq(Nat)
    BY <1>0, <1>1
  <2>2. c = [code |-> code, uid |-> p, idg |-> IDG, numb |-> 0, numr |-> 0, an |-> 0,
             ids |-> << >>, text |-> t]
    BY <1>2 DEF WithText, Command
  <2>3. c \in CommandType
    BY <1>1, <2>1, <2>2 DEF CommandType
  <2>. QED  BY <2>1, <2>2, <2>3 DEF Requests, Bad, Command
<1>4. ASSUME NEW t \in Names(p), c = WithText(Command("NEW_GROUP", p, 0), t)
      PROVE  ok
  <2>1. t \in Bytes /\ t \in Seq(Nat)
    BY <1>0, <1>1
  <2>2. c = [code |-> "NEW_GROUP", uid |-> p, idg |-> 0, numb |-> 0, numr |-> 0, an |-> 0,
             ids |-> << >>, text |-> t]
    BY <1>4 DEF WithText, Command
  <2>3. c \in CommandType
    BY <1>1, <2>1, <2>2 DEF CommandType
  <2>. QED  BY <2>1, <2>2, <2>3 DEF Requests, Bad, Command
<1>5. ASSUME NEW an \in 0 .. 2, c = [Command("INV_ANS", p, IDG) EXCEPT !.an = an] PROVE ok
  <2>2. c = [code |-> "INV_ANS", uid |-> p, idg |-> IDG, numb |-> 0, numr |-> 0, an |-> an,
             ids |-> << >>, text |-> << >>]
    BY <1>5 DEF Command
  <2>3. c \in CommandType
    BY <1>1, <2>2 DEF CommandType
  <2>. QED  BY <1>1, <2>2, <2>3 DEF Requests, Bad, Command
<1>6. ASSUME NEW ids \in Called(p), c = [Command("INVITE", p, IDG) EXCEPT !.ids = ids]
      PROVE  ok
  <2>2. c = [code |-> "INVITE", uid |-> p, idg |-> IDG, numb |-> 0, numr |-> 0, an |-> 0,
             ids |-> ids, text |-> << >>]
    BY <1>6 DEF Command
  <2>3. ids \in Seq(Nat) /\ \E q \in People : Repeats(ids, q)
    BY InviteesFew
  <2>4. c \in CommandType
    BY <1>1, <2>2, <2>3 DEF CommandType
  <2>. QED  BY <1>1, <2>2, <2>3, <2>4 DEF Requests, Bad, Command
<1>7. ASSUME NEW n \in {0, 1}, c = [Command("FEED", p, IDG) EXCEPT !.numr = n] PROVE ok
  <2>2. c = [code |-> "FEED", uid |-> p, idg |-> IDG, numb |-> 0, numr |-> n, an |-> 0,
             ids |-> << >>, text |-> << >>]
    BY <1>7 DEF Command
  <2>3. c \in CommandType
    BY <1>1, <2>2 DEF CommandType
  <2>. QED  BY <1>1, <2>2, <2>3 DEF Requests, Bad, Command
<1>8. ASSUME NEW code \in {"LIST_MEM", "LIST_INV"}, NEW g \in {0, IDG}, c = Command(code, p, g),
             code = "LIST_MEM" => g = IDG
      PROVE  ok
  <2>3. c \in CommandType
    BY <1>1, <1>8 DEF CommandType, Command
  <2>. QED  BY <1>1, <1>8, <2>3 DEF Requests, Bad, Command
<1>. HIDE DEF ok
<1>9. ok
  BY <1>2, <1>4, <1>5, <1>6, <1>7, <1>8, CommandCases
<1>. QED  BY <1>9 DEF ok

\* What the server reads is the command, or nothing it knows.
LEMMA UnderstoodFields ==
    ASSUME NEW p \in People, NEW c \in Commands(p), NEW d, d = Understood(c)
    PROVE  /\ d \in Requests(p) \/ d = Bad
           /\ d.code # "BAD" => /\ d.code = c.code /\ d.an = c.an /\ d.numb = c.numb
                                /\ d.numr = c.numr /\ d.text = Kept(c.text)
           /\ c.code # "NEW_GROUP" => d.code = c.code
<1>1. /\ c \in CommandType /\ c \in Requests(p) /\ c.text \in Bytes
  BY CommandFields
<1>2. Kept(c.text) \in Bytes
  BY <1>1, KeptBytes
<1>3. Kept(c.text) \in Seq(Nat)
  BY <1>2, BytesNat
<1>4. WithText(c, Kept(c.text)) \in Requests(p)
  BY <1>1, <1>3 DEF WithText, Requests, CommandType
<1>5. Bad.code = "BAD"
  BY DEF Bad, Command
<1>6. CASE d = Bad
  <2>1. c.code = "NEW_GROUP" \/ WithText(c, Kept(c.text)) = Bad
    BY <1>6 DEF Understood
  <2>2. WithText(c, Kept(c.text)) # Bad
    BY <1>4, <1>5 DEF Requests
  <2>. QED  BY <1>5, <1>6, <2>1, <2>2
<1>7. CASE d = WithText(c, Kept(c.text))
  BY <1>1, <1>4, <1>7 DEF WithText, CommandType
<1>. QED  BY <1>6, <1>7 DEF Understood

(***************************************************************************)
(* The tables, whatever is asked.                                          *)
(***************************************************************************)
LEMMA RefusedIInv ==
    ASSUME IInv, NEW uid \in Nat, Refused(uid)
    PROVE  IInv'
<1>1. TypeOK'
  BY RefusedTypes DEF IInv
<1>2. users' = users /\ groups' = groups /\ next_uid' = next_uid /\ next_gid' = next_gid
  BY DEF Refused, TablesUnchanged
<1>. QED  BY <1>1, <1>2 DEF IInv, Counters, IdsNameOneEntry, MembersRegistered, FeedNumbered,
                            GhostInert, find_user

\* Inviting somebody several times in one request is inviting him once.
LEMMA InviteOnce ==
    ASSUME NEW uid, NEW idg, NEW q, NEW ids, Repeats(ids, q), handle_invite(uid, idg, ids)
    PROVE  handle_invite(uid, idg, <<q>>)
<1>1. PICK n \in Nat \ {0} : ids \in [1 .. n -> {q}]
  BY DEF Repeats
<1>2. DOMAIN ids = 1 .. n /\ 1 \in 1 .. n /\ \A k \in 1 .. n : ids[k] = q
  BY <1>1
<1>3. DOMAIN <<q>> = {1} /\ <<q>>[1] = q /\ \A k \in 1 .. n : 1 \in 1 .. k
  OBVIOUS
<1>4. Invited(ids) = (IF find_user(q) THEN 1 .. n ELSE {})
  BY <1>2, <1>3 DEF Invited
<1>5. Invited(<<q>>) = IF find_user(q) THEN {1} ELSE {}
  BY <1>3 DEF Invited
<1>6. (Invited(ids) = DOMAIN ids) <=> (Invited(<<q>>) = DOMAIN <<q>>)
  BY <1>2, <1>3, <1>4, <1>5
<1>7. {ids[k] : k \in Invited(ids)} = {<<q>>[k] : k \in Invited(<<q>>)}
  BY <1>2, <1>3, <1>4, <1>5
<1>8. UNION {notif_udp_user(ids[k], "INV_UDP", idg) : k \in Invited(ids)}
        = UNION {notif_udp_user(<<q>>[k], "INV_UDP", idg) : k \in Invited(<<q>>)}
  <2>1. {notif_udp_user(ids[k], "INV_UDP", idg) : k \in Invited(ids)}
          = {notif_udp_user(<<q>>[k], "INV_UDP", idg) : k \in Invited(<<q>>)}
    BY <1>2, <1>3, <1>4, <1>5
  <2>. QED  BY <2>1
<1>. QED  BY <1>6, <1>7, <1>8, Zenon DEF handle_invite

LEMMA RequestIsNext ==
    ASSUME NEW p \in People, NEW c \in Requests(p), NEW alloc \in Alloc, dispatch(c, alloc)
    PROVE  Next
<1>1. p \in Callers /\ c.uid = p
  BY PeopleNumbers DEF Requests
<1>2. c.code \notin {"NEW_GROUP", "LIST_INV"} => c.idg = IDG /\ IDG \in Gids
  BY CommandBounds, TableSizes DEF Requests, IDG, Gids
<1>. SUFFICES Request(p)
  BY <1>1 DEF Next
<1>3. c.code # "BAD"
  BY DEF Requests
<1>4. CASE c.code = "NEW_GROUP"
  BY <1>1, <1>4 DEF dispatch, Request
<1>5. CASE c.code = "INVITE"
  <2>1. PICK q \in People : Repeats(c.ids, q)
    BY <1>5 DEF Requests
  <2>2. q \in Callers /\ 1 \in 0 .. MaxInvitees
    BY PeopleNumbers, RequestsInBounds, Bounds
  <2>3. <<q>> \in [1 .. 1 -> Callers]
    BY <2>2
  <2>4. <<q>> \in Invitations
    BY <2>2, <2>3 DEF Invitations
  <2>5. handle_invite(p, IDG, c.ids)
    BY <1>1, <1>2, <1>5 DEF dispatch
  <2>6. handle_invite(p, IDG, <<q>>)
    BY <2>1, <2>5, InviteOnce
  <2>. QED  BY <1>1, <1>2, <1>5, <2>4, <2>6 DEF Request
<1>6. CASE c.code = "LIST_INV"
  BY <1>1, <1>6 DEF dispatch, Request
<1>7. CASE c.code = "INV_ANS"
  BY <1>1, <1>2, <1>7 DEF dispatch, Request
<1>8. CASE c.code = "LIST_MEM"
  BY <1>1, <1>2, <1>8 DEF dispatch, Request
<1>9. CASE c.code = "POST"
  BY <1>1, <1>2, <1>9 DEF dispatch, Request
<1>10. CASE c.code = "REPLY"
  <2>1. c.numb \in Billets
    BY <1>10, Bounds DEF Requests, Billets
  <2>. QED  BY <1>1, <1>2, <1>10, <2>1 DEF dispatch, Request
<1>11. CASE c.code = "FEED"
  <2>1. c.numb \in Billets /\ c.numr \in 0 .. MaxReplies
    BY <1>11, Bounds, RequestsInBounds DEF Requests, Billets
  <2>. QED  BY <1>1, <1>2, <1>11, <2>1 DEF dispatch, Request
<1>. QED  BY <1>3, <1>4, <1>5, <1>6, <1>7, <1>8, <1>9, <1>10, <1>11 DEF dispatch

LEMMA DispatchIInv ==
    ASSUME IInv, OneGroup, NEW p \in People, NEW c, c \in Requests(p) \/ c = Bad,
           NEW alloc \in Alloc, dispatch(c, alloc)
    PROVE  IInv' /\ OneGroup'
<1>1. CASE c = Bad
  <2>1. c.code = "BAD" /\ c.uid = 0
    BY <1>1 DEF Bad, Command
  <2>2. Refused(0)
    BY <2>1 DEF dispatch, BadRequest
  <2>3. groups' = groups
    BY <2>2 DEF Refused, TablesUnchanged
  <2>. QED  BY <2>2, <2>3, RefusedIInv DEF OneGroup
<1>2. CASE c \in Requests(p)
  <2>1. Next
    BY <1>2, RequestIsNext
  <2>2. TypeOK
    BY DEF IInv
  <2>3. CASE TablesUnchanged \/ UserStep
    BY <2>1, <2>3, NextIInv DEF OneGroup, TablesUnchanged, UserStep
  <2>4. ASSUME NEW uid \in Callers, NewGroupStep(uid) PROVE OneGroup'
    <3>1. PICK h : groups' = Append(groups, h)
      BY <2>4 DEF NewGroupStep
    <3>2. groups \in Seq(Group)
      BY <2>2 DEF TypeOK
    <3>. QED  BY <3>1, <3>2 DEF OneGroup
  <2>5. ASSUME NEW uid \in Callers, OpenStep(uid) PROVE OneGroup'
    <3>1. PICK s \in DOMAIN groups, h \in Group : Update(s, h) /\ GroupStep(uid, groups[s], h)
      BY <2>5 DEF OpenStep
    <3>2. h.idg = groups[s].idg
      BY <2>2, <3>1, GroupStepKeeps DEF TypeOK
    <3>. QED  BY <3>1, <3>2 DEF OneGroup, Update
  <2>. QED  BY <2>1, <2>2, <2>3, <2>4, <2>5, NextShape, NextIInv
<1>. QED  BY <1>1, <1>2

(***************************************************************************)
(* The invariant, part by part.  g stands for the entry of their group.    *)
(***************************************************************************)
ItemOK(it) == it.author \in People /\ it.numb \in 0 .. MaxBillets - 1 /\ it.numr \in 0 .. MaxReplies

\* The tables, and what people can have written.
Talk == /\ IInv /\ OneGroup /\ Len(groups[1].posts) =< MaxBillets
        /\ \A k \in DOMAIN groups[1].feed : ItemOK(groups[1].feed[k])

\* The connections are those of commands that were typed, their client there or gone.
Conn(c, x) == [client |-> x, typed |-> c, body |-> Sent(c)]
Connections == {e \in [client : People \cup {None}, typed : CommandType, body : Bytes] :
                  \E p \in People : \E c \in Commands(p), x \in {p, None} : e = Conn(c, x)}
Connected == queue \in Seq(Connections) /\ Len(queue) =< BACKLOG

Peopled == /\ person \in [People -> Person]
           /\ \A p \in People : person[p].cmd \in Commands(p) \cup {Bad}

(***************************************************************************)
(* One connection served: that of a command c of p, whose client is x.     *)
(***************************************************************************)
Mail == <<[code |-> reply'.code, body |-> Answered(reply')]>>
Shifted == /\ Len(queue') = Len(queue) - 1 /\ queue' \in Seq(Connections)
           /\ \A i \in 1 .. Len(queue) - 1 : queue'[i] = queue[i + 1]
Delivered(p, x) == person' = IF x = None THEN person ELSE [person EXCEPT ![p].mail = Mail]
Serves(p, c, x) ==
    /\ queue # << >> /\ queue[1] = Conn(c, x) /\ Shifted
    /\ IInv' /\ OneGroup' /\ Effect(Understood(c), groups[1], groups'[1])
    /\ Keeps(Understood(c)) /\ Delivered(p, x) /\ Sends /\ ear' = ear

LEMMA ConnFields ==
    ASSUME NEW e \in Connections
    PROVE  \E p \in People : \E c \in Commands(p), x \in {p, None} :
              e = Conn(c, x) /\ e.client = x /\ e.typed = c /\ e.body = Sent(c) /\ c.uid = p
<1>0. PICK p \in People : \E c \in Commands(p), x \in {p, None} : e = Conn(c, x)
  BY DEF Connections
<1>1. PICK c \in Commands(p), x \in {p, None} : e = Conn(c, x)
  BY <1>0
<1>2. c.uid = p
  BY CommandFields DEF Requests
<1>. QED  BY <1>1, <1>2 DEF Conn

LEMMA OneOn ==
    ASSUME NEW q, NEW r, NEW n \in Nat, n > 0, NEW l, l = IF 2 =< n THEN n - 2 + 1 ELSE 0,
           \A i \in 1 .. n - 2 + 1 : r[i] = q[2 + i - 1]
    PROVE  l = n - 1 /\ \A i \in 1 .. n - 1 : r[i] = q[i + 1]
<1>1. l = n - 1
  OBVIOUS
<1>2. ASSUME NEW i \in 1 .. n - 1 PROVE r[i] = q[i + 1]
  <2>1. i \in 1 .. n - 2 + 1 /\ 2 + i - 1 = i + 1
    OBVIOUS
  <2>2. r[i] = q[2 + i - 1]
    BY <2>1
  <2>. QED  BY <2>1, <2>2, Zenon
<1>. QED  BY <1>1, <1>2

Without(q) == SubSeq(q, 1, 1 - 1) \o SubSeq(q, 1 + 1, Len(q))

LEMMA Without1 ==
    ASSUME NEW S, NEW q \in Seq(S), q # << >>, NEW r, r = Without(q)
    PROVE  /\ q[1] \in S /\ Len(q) \in Nat /\ r \in Seq(S) /\ Len(r) = Len(q) - 1
           /\ \A i \in 1 .. Len(q) - 1 : r[i] = q[i + 1]
<1>1. Len(q) \in Nat /\ Len(q) > 0 /\ q[1] \in S
  OBVIOUS
<1>2. /\ SubSeq(q, 2, Len(q)) \in Seq(S)
      /\ Len(SubSeq(q, 2, Len(q))) = IF 2 =< Len(q) THEN Len(q) - 2 + 1 ELSE 0
      /\ \A i \in 1 .. Len(q) - 2 + 1 : SubSeq(q, 2, Len(q))[i] = q[2 + i - 1]
  <2>1. 2 \in Int /\ Len(q) \in Int /\ \A i \in 2 .. Len(q) : q[i] \in S
    BY <1>1
  <2>. QED  BY <2>1, SubSeqProperties
<1>3. SubSeq(q, 1, 1 - 1) = << >> /\ 1 + 1 = 2
  BY <1>1
<1>4. r = << >> \o Part(q, 2, Len(q))
  BY <1>3, Zenon DEF Part, Without
<1>5. Part(q, 2, Len(q)) \in Seq(S)
  BY <1>2, Zenon DEF Part
<1>6. r = SubSeq(q, 2, Len(q))
  BY <1>4, <1>5, ConcatEmptySeq, Zenon DEF Part
<1>7. /\ r \in Seq(S) /\ Len(r) = IF 2 =< Len(q) THEN Len(q) - 2 + 1 ELSE 0
      /\ \A i \in 1 .. Len(q) - 2 + 1 : r[i] = q[2 + i - 1]
  BY <1>2, <1>6, Zenon
<1>8. Len(r) = Len(q) - 1 /\ \A i \in 1 .. Len(q) - 1 : r[i] = q[i + 1]
  <2>. DEFINE n == Len(q)
  <2>1. n \in Nat /\ n > 0 /\ Len(r) = (IF 2 =< n THEN n - 2 + 1 ELSE 0)
    BY <1>1, <1>7
  <2>2. \A i \in 1 .. n - 2 + 1 : r[i] = q[2 + i - 1]
    BY <1>7, Zenon
  <2>. HIDE DEF n
  <2>3. Len(r) = n - 1 /\ \A i \in 1 .. n - 1 : r[i] = q[i + 1]
    BY <2>1, <2>2, OneOn
  <2>. QED  BY <2>3 DEF n
<1>. QED  BY <1>1, <1>7, <1>8

LEMMA ServeShape ==
    ASSUME Talk, Connected, serve_client
    PROVE  \E p \in People : \E c \in Commands(p), x \in {p, None} : Serves(p, c, x)
<1>. DEFINE e == queue[1]
<1>1. /\ queue # << >> /\ \E alloc \in Alloc : dispatch(Read(e.typed.code, e.body), alloc)
      /\ Keeps(Read(e.typed.code, e.body))
      /\ queue' = Without(queue)
      /\ person' = IF e.client = None THEN person
                   ELSE [person EXCEPT ![e.client].mail = Mail]
      /\ Sends /\ ear' = ear
  BY Zenon DEF serve_client, Accepted, Mail, Without
<1>2. e \in Connections /\ Shifted
  BY <1>1, Without1 DEF Connected, Shifted
<1>3. PICK p \in People : \E c \in Commands(p), x \in {p, None} :
              e = Conn(c, x) /\ e.client = x /\ e.typed = c /\ e.body = Sent(c)
  BY <1>2, ConnFields
<1>4. PICK c \in Commands(p), x \in {p, None} :
              e = Conn(c, x) /\ e.client = x /\ e.typed = c /\ e.body = Sent(c)
  BY <1>3
<1>5. Read(c.code, Sent(c)) = Understood(c)
  BY CommandsSendable, RequestRead
<1>6. PICK alloc \in Alloc : dispatch(Understood(c), alloc)
  BY <1>1, <1>4, <1>5, Zenon
<1>7. Keeps(Understood(c))
  BY <1>1, <1>4, <1>5, Zenon
<1>8. Understood(c) \in Requests(p) \/ Understood(c) = Bad
  BY UnderstoodFields
<1>9. IInv' /\ OneGroup'
  BY <1>6, <1>8, DispatchIInv DEF Talk
<1>10. Effect(Understood(c), groups[1], groups'[1])
  BY <1>6, <1>8, DispatchEffect DEF Talk
<1>11. Delivered(p, x)
  BY <1>1, <1>4 DEF Delivered
<1>12. Serves(p, c, x)
  BY <1>1, <1>2, <1>4, <1>7, <1>9, <1>10, <1>11 DEF Serves
<1>. QED  BY <1>12

LEMMA ServedPeople ==
    ASSUME Peopled, NEW p \in People, NEW x \in {p, None}, Delivered(p, x)
    PROVE  /\ DOMAIN person' = People
           /\ \A q \in People :
                /\ person'[q].cmd = person[q].cmd /\ person'[q].runs = person[q].runs
                /\ person'[q].ok = person[q].ok /\ person'[q].lost = person[q].lost
                /\ person'[q].word = person[q].word /\ person'[q].knew = person[q].knew
                /\ q # p \/ x = None => person'[q] = person[q]
           /\ x = p => person'[p].mail = Mail
<1>. HIDE DEF Mail
<1>1. person \in [People -> Person] /\ DOMAIN person = People /\ p # None
  BY PeopleNumbers DEF Peopled
<1>2. CASE x = None
  BY <1>1, <1>2 DEF Delivered
<1>3. CASE x = p
  <2>1. person' = [person EXCEPT ![p].mail = Mail]
    BY <1>1, <1>3 DEF Delivered
  <2>2. person' = [person EXCEPT ![p] = [person[p] EXCEPT !.mail = Mail]]
    BY <2>1
  <2>3. person[p] \in Person
    BY <1>1
  <2>. QED  BY <1>1, <1>3, <2>2, <2>3 DEF Person
<1>. QED  BY <1>2, <1>3

(***************************************************************************)
(* The feed and its texts.                                                 *)
(***************************************************************************)
Feed == groups[1].feed
ItemKey(it) == <<IDG, it.numb, it.numr>>
TextsKept ==
    /\ \A k \in DOMAIN texts : texts[k] \in Bytes
    /\ \A k \in DOMAIN Feed : /\ ItemKey(Feed[k]) \in DOMAIN texts
                              /\ TextOf(Feed[k]) \in {Kept(t) : t \in Words(Feed[k].author)}

NewItem(p) == [author |-> p, numb |-> reply'.numb, numr |-> reply'.numr]
Unwritten == Feed' = Feed /\ ~Wrote /\ texts' = texts
Written(p, c) ==
    /\ Wrote /\ c.code \in {"POST", "REPLY"} /\ c.text \in Words(p)
    /\ Feed' = Append(Feed, NewItem(p)) /\ ItemOK(NewItem(p)) /\ reply'.idg = IDG
    /\ reply'.code = "POST_OK" => reply'.numr = 0
    /\ texts' = [k \in DOMAIN texts \cup {ItemKey(NewItem(p))} |->
                   IF k = ItemKey(NewItem(p)) THEN Kept(c.text) ELSE texts[k]]

LEMMA ServedFeed ==
    ASSUME Talk, NEW p \in People, NEW c \in Commands(p), NEW x, Serves(p, c, x)
    PROVE  Unwritten \/ Written(p, c)
<1>1. FeedEffect(Understood(c), groups[1], groups'[1]) /\ Keeps(Understood(c))
  BY DEF Serves, Effect
<1>2. CASE Feed' = Feed /\ ~Wrote
  BY <1>1, <1>2 DEF Keeps, Wrote, Unwritten
<1>3. CASE ~(Feed' = Feed /\ ~Wrote)
  <2>. DEFINE d == Understood(c)
  <2>1. /\ Wrote /\ d.code \in {"POST", "REPLY"}
        /\ Feed' = Append(Feed, [author |-> d.uid, numb |-> reply'.numb, numr |-> reply'.numr])
        /\ reply'.idg = IDG /\ reply'.numb \in 0 .. MaxBillets - 1 /\ reply'.numr \in 0 .. MaxReplies
        /\ reply'.code = "POST_OK" => reply'.numr = 0
    BY <1>1, <1>3 DEF FeedEffect, Feed
  <2>2. d.code = c.code /\ d.text = Kept(c.text) /\ (d \in Requests(p) \/ d = Bad)
    <3>. HIDE DEF d
    <3>1. d = Understood(c)
      BY DEF d
    <3>. QED  BY <2>1, <3>1, UnderstoodFields
  <2>. HIDE DEF d
  <2>3. d.uid = p
    BY <2>1, <2>2 DEF Requests, Bad, Command
  <2>4. Keeps(d)
    BY <1>1 DEF d
  <2>5. Key(reply') = ItemKey(NewItem(p))
    BY <2>1 DEF Key, ItemKey, NewItem
  <2>6. texts' = [k \in DOMAIN texts \cup {ItemKey(NewItem(p))} |->
                   IF k = ItemKey(NewItem(p)) THEN Kept(c.text) ELSE texts[k]]
    BY <2>1, <2>2, <2>4, <2>5, Zenon DEF Keeps, Wrote
  <2>7. ItemOK(NewItem(p)) /\ Feed' = Append(Feed, NewItem(p))
    BY <2>1, <2>3 DEF ItemOK, NewItem
  <2>8. c.text \in Words(p)
    BY <2>1, <2>2, CommandFields
  <2>. QED  BY <2>1, <2>2, <2>6, <2>7, <2>8 DEF Written
<1>. QED  BY <1>2, <1>3

LEMMA FeedTyped ==
    ASSUME Talk
    PROVE  /\ Feed \in Seq(FeedItem) /\ Len(Feed) \in Nat /\ DOMAIN Feed = 1 .. Len(Feed)
           /\ Numbered(groups[1]) /\ \A k \in DOMAIN Feed : ItemOK(Feed[k]) /\ Feed[k] \in FeedItem
<1>1. groups[1] \in Group
  BY OneSlot DEF Talk
<1>. QED  BY <1>1 DEF Talk, Feed, Group, IInv, FeedNumbered, OneGroup

LEMMA WrittenFeed ==
    ASSUME Talk, NEW p \in People, NEW c, Written(p, c)
    PROVE  /\ Len(Feed') = Len(Feed) + 1 /\ DOMAIN Feed' = DOMAIN Feed \cup {Len(Feed) + 1}
           /\ \A k \in DOMAIN Feed : Feed'[k] = Feed[k]
           /\ Feed'[Len(Feed) + 1] = NewItem(p)
           /\ Len(Feed) + 1 \notin DOMAIN Feed
<1>1. Feed \in Seq(FeedItem) /\ NewItem(p) \in FeedItem
  BY FeedTyped, PeopleNumbers, Bounds DEF Written, ItemOK, NewItem, FeedItem
<1>. QED  BY <1>1, AppendFacts DEF Written

LEMMA TalkServed ==
    ASSUME Talk, NEW p \in People, NEW c \in Commands(p), NEW x, Serves(p, c, x)
    PROVE  Talk'
<1>1. IInv' /\ OneGroup' /\ PostsEffect(groups[1], groups'[1])
  BY DEF Serves, Effect
<1>2. Len(groups'[1].posts) =< MaxBillets
  BY <1>1 DEF Talk, PostsEffect
<1>3. \A k \in DOMAIN Feed : ItemOK(Feed[k])
  BY DEF Talk, Feed
<1>4. CASE Unwritten
  BY <1>1, <1>2, <1>3, <1>4 DEF Talk, Unwritten, Feed, ItemOK
<1>5. CASE Written(p, c)
  <2>1. ItemOK(NewItem(p))
    BY <1>5 DEF Written
  <2>2. \A k \in DOMAIN Feed' : ItemOK(Feed'[k])
    BY <1>3, <1>5, <2>1, WrittenFeed
  <2>3. \A k \in DOMAIN groups'[1].feed : ItemOK(groups'[1].feed[k])
    BY <2>2 DEF Feed
  <2>. QED  BY <1>1, <1>2, <2>3 DEF Talk, ItemOK
<1>. QED  BY <1>4, <1>5, ServedFeed

\* What has been read of the feed and of its texts stays true.
Stable ==
    /\ Len(Feed) =< Len(Feed')
    /\ \A k \in DOMAIN Feed : /\ k \in DOMAIN Feed' /\ Feed'[k] = Feed[k]
                              /\ ItemKey(Feed[k]) \in DOMAIN texts'
                              /\ texts'[ItemKey(Feed[k])] = texts[ItemKey(Feed[k])]

LEMMA ServedStable ==
    ASSUME Talk, TextsKept, NEW p \in People, NEW c \in Commands(p), NEW x, Serves(p, c, x)
    PROVE  Stable
<1>1. Len(Feed) \in Nat
  BY FeedTyped
<1>2. CASE Unwritten
  BY <1>1, <1>2 DEF Unwritten, Stable, TextsKept
<1>3. CASE Written(p, c)
  <2>1. /\ Len(Feed') = Len(Feed) + 1 /\ DOMAIN Feed' = DOMAIN Feed \cup {Len(Feed) + 1}
        /\ \A k \in DOMAIN Feed : Feed'[k] = Feed[k]
        /\ Feed'[Len(Feed) + 1] = NewItem(p)
    BY <1>3, WrittenFeed
  <2>2. Talk'
    BY TalkServed
  <2>3. PICK h : h = groups'[1]
    OBVIOUS
  <2>4. Numbered(h) /\ h.feed = Feed'
    BY <2>2, <2>3 DEF Talk, IInv, FeedNumbered, OneGroup, Feed
  <2>5. ASSUME NEW k \in DOMAIN Feed PROVE ItemKey(Feed[k]) # ItemKey(NewItem(p))
    <3>1. k \in DOMAIN h.feed /\ Len(Feed) + 1 \in DOMAIN h.feed /\ k < Len(Feed) + 1
      BY <2>1, <2>4, FeedTyped
    <3>2. h.feed[k].numb = h.feed[Len(Feed) + 1].numb => h.feed[k].numr < h.feed[Len(Feed) + 1].numr
      BY <2>4, <3>1 DEF Numbered
    <3>3. Feed[k].numb = NewItem(p).numb => Feed[k].numr < NewItem(p).numr
      BY <2>1, <2>4, <3>2
    <3>4. Feed[k].numr \in Nat
      BY FeedTyped DEF FeedItem
    <3>. QED  BY <3>3, <3>4 DEF ItemKey
  <2>6. \A k \in DOMAIN Feed : ItemKey(Feed[k]) \in DOMAIN texts
    BY DEF TextsKept
  <2>. DEFINE new == ItemKey(NewItem(p))
  <2>7. texts' = [k \in DOMAIN texts \cup {new} |-> IF k = new THEN Kept(c.text) ELSE texts[k]]
    BY <1>3 DEF Written
  <2>. HIDE DEF new
  <2>8. \A k \in DOMAIN Feed : ItemKey(Feed[k]) # new
    BY <2>5 DEF new
  <2>9. \A k \in DOMAIN Feed : /\ ItemKey(Feed[k]) \in DOMAIN texts'
                               /\ texts'[ItemKey(Feed[k])] = texts[ItemKey(Feed[k])]
    BY <2>6, <2>7, <2>8
  <2>. QED  BY <1>1, <2>1, <2>9 DEF Stable
<1>. QED  BY <1>2, <1>3, ServedFeed

LEMMA TextsServed ==
    ASSUME Talk, TextsKept, NEW p \in People, NEW c \in Commands(p), NEW x, Serves(p, c, x)
    PROVE  TextsKept'
<1>1. CASE Unwritten
  BY <1>1 DEF Unwritten, TextsKept, TextOf, ItemKey
<1>2. CASE Written(p, c)
  <2>. DEFINE new == ItemKey(NewItem(p))
              n == Len(Feed) + 1
  <2>1. /\ DOMAIN Feed' = DOMAIN Feed \cup {n} /\ Feed'[n] = NewItem(p)
        /\ \A k \in DOMAIN Feed : Feed'[k] = Feed[k]
    BY <1>2, WrittenFeed
  <2>2. /\ texts' = [k \in DOMAIN texts \cup {new} |-> IF k = new THEN Kept(c.text) ELSE texts[k]]
        /\ c.text \in Words(p)
    BY <1>2 DEF Written
  <2>3. Kept(c.text) \in Bytes
    BY CommandFields, KeptBytes
  <2>4. Stable
    BY ServedStable
  <2>. HIDE DEF new, n
  <2>5. \A k \in DOMAIN texts' : texts'[k] \in Bytes
    BY <2>2, <2>3 DEF TextsKept
  <2>6. new \in DOMAIN texts' /\ texts'[new] = Kept(c.text)
    BY <2>2
  <2>7. NewItem(p).author = p
    BY DEF NewItem
  <2>8. texts'[new] \in {Kept(t) : t \in Words(NewItem(p).author)}
    BY <2>2, <2>6, <2>7
  <2>9. \A k \in DOMAIN Feed : /\ ItemKey(Feed[k]) \in DOMAIN texts'
                               /\ texts'[ItemKey(Feed[k])] \in {Kept(t) : t \in Words(Feed[k].author)}
    BY <2>4 DEF Stable, TextsKept, TextOf, ItemKey
  <2>10. \A k \in DOMAIN Feed' :
            /\ ItemKey(Feed'[k]) \in DOMAIN texts'
            /\ texts'[ItemKey(Feed'[k])] \in {Kept(t) : t \in Words(Feed'[k].author)}
    BY <2>1, <2>6, <2>8, <2>9 DEF new
  <2>. QED  BY <2>5, <2>10, Zenon DEF TextsKept, TextOf, ItemKey
<1>. QED  BY <1>1, <1>2, ServedFeed

\* The answer to POST that p has not read names his billet.
Posted(p) ==
    person[p].mail # << >> /\ person[p].mail[1].code = "POST_OK" =>
        \E k \in DOMAIN Feed : /\ Feed[k].author = p /\ Feed[k].numr = 0
                               /\ NumberPrinted(person[p].mail[1].body) = Feed[k].numb
                               /\ texts[ItemKey(Feed[k])] = Kept(person[p].cmd.text)

LEMMA PostedStays ==
    ASSUME Stable, NEW p, Posted(p), person'[p].mail = person[p].mail,
           person'[p].cmd = person[p].cmd
    PROVE  Posted(p)'
<1>. SUFFICES ASSUME person[p].mail # << >>, person[p].mail[1].code = "POST_OK"
              PROVE  \E k \in DOMAIN Feed' :
                        /\ Feed'[k].author = p /\ Feed'[k].numr = 0
                        /\ NumberPrinted(person[p].mail[1].body) = Feed'[k].numb
                        /\ texts'[ItemKey(Feed'[k])] = Kept(person[p].cmd.text)
  BY Zenon DEF Posted, ItemKey
<1>1. PICK k \in DOMAIN Feed : /\ Feed[k].author = p /\ Feed[k].numr = 0
                               /\ NumberPrinted(person[p].mail[1].body) = Feed[k].numb
                               /\ texts[ItemKey(Feed[k])] = Kept(person[p].cmd.text)
  BY DEF Posted
<1>2. /\ k \in DOMAIN Feed' /\ Feed'[k] = Feed[k]
      /\ texts'[ItemKey(Feed[k])] = texts[ItemKey(Feed[k])]
  BY DEF Stable
<1>. QED  BY <1>1, <1>2

LEMMA PostedBody ==
    ASSUME NEW r, r.code = "POST_OK", r.idg = IDG, r.numb \in U32
    PROVE  Answered(r) \in Bytes /\ NumberPrinted(Answered(r)) = r.numb
<1>1. wire_put_u32_be(r.numb) \in Bytes /\ Len(wire_put_u32_be(r.numb)) = 4
      /\ wire_get_u32_be(wire_put_u32_be(r.numb), 1) = r.numb
  BY Put32
<1>2. wire_put_u32_be(IDG) \in Bytes
  BY Put32, SmallNumbers
<1>. DEFINE f == wire_put_u32_be(r.numb)
            b == wire_put_u32_be(IDG) \o f
<1>3. Answered(r) = wire_put_u32_be(r.idg) \o wire_put_u32_be(r.numb) \o << >>
  BY DEF Answered
<1>. HIDE DEF f
<1>4. f \in Bytes /\ Len(f) = 4 /\ wire_get_u32_be(f, 1) = r.numb
  BY <1>1 DEF f
<1>5. Led(b, IDG, f)
  BY <1>4, Field, SmallNumbers, Zenon
<1>. HIDE DEF b
<1>8. b \in Bytes
  BY <1>5 DEF Led
<1>6. wire_get_u32_be(b, 5) = r.numb
  <2>1. 5 \in Nat /\ 4 < 5 /\ 5 =< 1 + Len(f) /\ 5 - 4 = 1
    BY <1>4
  <2>. QED  BY <1>4, <1>5, <2>1 DEF Led
<1>7. Answered(r) = b
  <2>1. Answered(r) = b \o << >>
    BY <1>3, Zenon DEF b, f
  <2>. QED  BY <1>8, <2>1, ConcatEmptySeq, Zenon DEF Bytes
<1>. QED  BY <1>6, <1>7, <1>8 DEF NumberPrinted

LEMMA BelowU32 == ASSUME NEW n \in U32, NEW m \in Nat, m =< n PROVE m \in U32
<1>. DEFINE d == BYTE * BYTE * BYTE * BYTE
<1>1. d \in Nat
  BY ByteBase
<1>2. n \in 0 .. d - 1
  BY DEF U32
<1>. HIDE DEF d
<1>3. m \in 0 .. d - 1
  BY <1>1, <1>2
<1>. QED  BY <1>3 DEF U32, d

LEMMA ItemNumbers ==
    ASSUME NEW it, ItemOK(it)
    PROVE  it.author \in U32 /\ it.numb \in U32 /\ it.numr \in U32
<1>1. MaxBillets \in Nat /\ MaxReplies \in Nat
  BY Bounds
<1>2. /\ it.numb \in Nat /\ it.numb =< MaxBillets
      /\ it.numr \in Nat /\ it.numr =< MaxReplies
  BY <1>1 DEF ItemOK
<1>3. it.author \in U32
  BY PeopleNumbers DEF ItemOK
<1>4. it.numb \in U32
  BY <1>2, BelowU32, NumbersFit
<1>5. it.numr \in U32
  BY <1>2, BelowU32, NumbersFit
<1>. QED  BY <1>3, <1>4, <1>5

\* The client of the connection served, if it is still there, waits for the answer.
Awaited(p, c, x) == x = p => person[p].cmd = c /\ person[p].mail = << >>

LEMMA PostedServed ==
    ASSUME Talk, TextsKept, Peopled, NEW p \in People, NEW c \in Commands(p), NEW x \in {p, None},
           Serves(p, c, x), Awaited(p, c, x), NEW q \in People, Posted(q)
    PROVE  Posted(q)'
<1>1. Stable
  BY ServedStable
<1>2. Delivered(p, x)
  BY DEF Serves
<1>3. CASE q # p \/ x = None
  BY <1>1, <1>2, <1>3, ServedPeople, PostedStays
<1>4. CASE q = p /\ x = p
  <2>1. person'[p].mail = Mail /\ person'[p].cmd = c
    BY <1>2, <1>4, ServedPeople DEF Awaited
  <2>. SUFFICES ASSUME reply'.code = "POST_OK"
                PROVE  \E k \in DOMAIN Feed' :
                          /\ Feed'[k].author = p /\ Feed'[k].numr = 0
                          /\ NumberPrinted(Answered(reply')) = Feed'[k].numb
                          /\ texts'[ItemKey(Feed'[k])] = Kept(c.text)
    <3>1. person'[p].mail[1].code = reply'.code /\ person'[p].mail[1].body = Answered(reply')
      BY <2>1 DEF Mail
    <3>. QED  BY <1>4, <2>1, <3>1, Zenon DEF Posted, ItemKey
  <2>2. Written(p, c)
    BY ServedFeed DEF Unwritten, Wrote
  <2>3. /\ Len(Feed) + 1 \in DOMAIN Feed' /\ Feed'[Len(Feed) + 1] = NewItem(p)
    BY <2>2, WrittenFeed
  <2>4. reply'.idg = IDG /\ reply'.numr = 0 /\ ItemOK(NewItem(p))
    BY <2>2 DEF Written
  <2>5. reply'.numb \in U32
    BY <2>4, ItemNumbers DEF NewItem
  <2>6. NumberPrinted(Answered(reply')) = reply'.numb
    <3>1. PICK r : r = reply'
      OBVIOUS
    <3>2. NumberPrinted(Answered(r)) = r.numb
      BY <2>4, <2>5, <3>1, PostedBody
    <3>. QED  BY <3>1, <3>2, Zenon
  <2>7. NewItem(p).author = p /\ NewItem(p).numr = 0 /\ NewItem(p).numb = reply'.numb
    BY <2>4 DEF NewItem
  <2>8. texts'[ItemKey(NewItem(p))] = Kept(c.text)
    <3>. DEFINE new == ItemKey(NewItem(p))
    <3>1. texts' = [k \in DOMAIN texts \cup {new} |-> IF k = new THEN Kept(c.text) ELSE texts[k]]
      BY <2>2 DEF Written
    <3>. HIDE DEF new
    <3>2. texts'[new] = Kept(c.text)
      BY <3>1
    <3>. QED  BY <3>2 DEF new
  <2>. QED  BY <2>3, <2>6, <2>7, <2>8
<1>. QED  BY <1>3, <1>4

\* The answer to FEED that p has not read is a page of the feed.
PageLines(s, m) == [k \in 1 .. m |-> Line(Feed[s + k], texts[ItemKey(Feed[s + k])])]
Paged(p) ==
    person[p].mail # << >> /\ person[p].mail[1].code = "FEED_OK" =>
        \E s \in feed_index_after(groups[1], person[p].cmd.numb, person[p].cmd.numr), m \in Nat :
            /\ s + m =< Len(Feed) /\ person[p].mail[1].body = FeedBytes(IDG, PageLines(s, m))
            /\ person[p].knew =< s + m

\* What p had heard when he typed his command is in the feed.
Heeded(p) == person[p].knew \in Nat /\ person[p].knew =< Len(Feed)

LEMMA LinesStay ==
    ASSUME Talk, Stable, NEW s \in DOMAIN Feed, NEW m \in Nat, s + m =< Len(Feed)
    PROVE  PageLines(s, m)' = PageLines(s, m) /\ s + m =< Len(Feed')
<1>1. Len(Feed) \in Nat /\ DOMAIN Feed = 1 .. Len(Feed)
  BY FeedTyped
<1>2. \A k \in 1 .. m : s + k \in DOMAIN Feed
  BY <1>1
<1>3. \A k \in 1 .. m : /\ Feed'[s + k] = Feed[s + k]
                        /\ texts'[ItemKey(Feed'[s + k])] = texts[ItemKey(Feed[s + k])]
  BY <1>2 DEF Stable
<1>4. [k \in 1 .. m |-> Line(Feed'[s + k], texts'[ItemKey(Feed'[s + k])])] = PageLines(s, m)
  BY <1>3 DEF PageLines
<1>5. s + m =< Len(Feed')
  <2>1. Len(Feed) =< Len(Feed') /\ Len(Feed') \in Int
    BY <1>1 DEF Stable
  <2>. QED  BY <1>1, <2>1
<1>. QED  BY <1>4, <1>5, Zenon DEF PageLines, ItemKey

LEMMA PlacesStay ==
    ASSUME Stable, NEW a, NEW b
    PROVE  /\ feed_index_after(groups[1], a, b) \subseteq DOMAIN Feed
           /\ feed_index_after(groups[1], a, b) \subseteq feed_index_after(groups[1], a, b)'
BY DEF feed_index_after, Stable, Feed

LEMMA PagedStays ==
    ASSUME Talk, Stable, NEW p, Paged(p), person'[p].mail = person[p].mail,
           person'[p].cmd = person[p].cmd, person'[p].knew = person[p].knew
    PROVE  Paged(p)'
<1>. SUFFICES ASSUME person[p].mail # << >>, person[p].mail[1].code = "FEED_OK"
              PROVE  \E s \in feed_index_after(groups[1], person[p].cmd.numb, person[p].cmd.numr)',
                        m \in Nat :
                        /\ s + m =< Len(Feed')
                        /\ person[p].mail[1].body = FeedBytes(IDG, PageLines(s, m)')
                        /\ person[p].knew =< s + m
  BY Zenon DEF Paged
<1>. DEFINE a == person[p].cmd.numb
            b == person[p].cmd.numr
<1>1. PICK s \in feed_index_after(groups[1], a, b), m \in Nat :
         /\ s + m =< Len(Feed) /\ person[p].mail[1].body = FeedBytes(IDG, PageLines(s, m))
         /\ person[p].knew =< s + m
  BY DEF Paged
<1>2. /\ feed_index_after(groups[1], a, b)' = feed_index_after(groups'[1], a, b)
      /\ s \in DOMAIN Feed /\ s \in feed_index_after(groups'[1], a, b)
  BY PlacesStay
<1>3. PageLines(s, m)' = PageLines(s, m) /\ s + m =< Len(Feed')
  BY <1>1, <1>2, LinesStay
<1>. QED  BY <1>1, <1>2, <1>3

LEMMA AfterItems ==
    ASSUME NEW g, g.feed \in Seq(FeedItem), NEW i \in DOMAIN g.feed, NEW r, r = After(g, i)
    PROVE  /\ Len(g.feed) - i \in Nat /\ DOMAIN r = 1 .. Len(g.feed) - i
           /\ \A k \in 1 .. Len(g.feed) - i : r[k] = g.feed[i + k]
<1>. DEFINE f == g.feed
            n == Len(f)
<1>0. n \in Nat /\ i \in 1 .. n /\ \A k \in 1 .. n : f[k] \in FeedItem
  OBVIOUS
<1>1. i + 1 \in Int /\ n \in Int /\ \A k \in i + 1 .. n : f[k] \in FeedItem
  BY <1>0
<1>. HIDE DEF f, n
<1>2. /\ SubSeq(f, i + 1, n) \in Seq(FeedItem)
      /\ Len(SubSeq(f, i + 1, n)) = IF i + 1 =< n THEN n - (i + 1) + 1 ELSE 0
      /\ \A k \in 1 .. n - (i + 1) + 1 : SubSeq(f, i + 1, n)[k] = f[i + 1 + k - 1]
  BY <1>1, SubSeqProperties
<1>3. r = SubSeq(f, i + 1, n)
  BY DEF After, f, n
<1>4. /\ r \in Seq(FeedItem) /\ Len(r) = IF i + 1 =< n THEN n - (i + 1) + 1 ELSE 0
      /\ \A k \in 1 .. n - (i + 1) + 1 : r[k] = f[i + 1 + k - 1]
  BY <1>2, <1>3, Zenon
<1>5. n - i \in Nat /\ n - (i + 1) + 1 = n - i /\ Len(r) = n - i
  BY <1>0, <1>4
<1>6. DOMAIN r = 1 .. n - i
  BY <1>4, <1>5
<1>7. ASSUME NEW k \in 1 .. n - i PROVE r[k] = f[i + k]
  <2>1. k \in 1 .. n - (i + 1) + 1 /\ i + 1 + k - 1 = i + k
    BY <1>0, <1>5
  <2>. QED  BY <1>4, <2>1, Zenon
<1>. QED  BY <1>5, <1>6, <1>7 DEF f, n

LEMMA AnsweredPage ==
    ASSUME Talk, NEW i \in DOMAIN Feed, NEW r, r.code = "FEED_OK", r.idg = IDG,
           r.items = After(groups[1], i)
    PROVE  Len(Feed) - i \in Nat /\ Answered(r) = FeedBytes(IDG, PageLines(i, Len(Feed) - i))
<1>. DEFINE m == Len(Feed) - i
            q == r.items
<1>1. /\ m \in Nat /\ DOMAIN q = 1 .. m
      /\ \A k \in 1 .. m : q[k] = Feed[i + k]
  BY FeedTyped, AfterItems DEF Feed
<1>2. Answered(r) = FeedBytes(r.idg, [k \in DOMAIN q |->
               Line(q[k], texts[<<r.idg, q[k].numb, q[k].numr>>])])
  BY DEF Answered
<1>. HIDE DEF m, q
<1>3. [k \in DOMAIN q |-> Line(q[k], texts[<<r.idg, q[k].numb, q[k].numr>>])] = PageLines(i, m)
  <2>1. \A k \in 1 .. m : <<r.idg, q[k].numb, q[k].numr>> = ItemKey(Feed[i + k])
    BY <1>1 DEF ItemKey
  <2>. QED  BY <1>1, <2>1 DEF PageLines
<1>4. Answered(r) = FeedBytes(IDG, PageLines(i, m))
  BY <1>2, <1>3, Zenon
<1>. QED  BY <1>1, <1>4 DEF m

LEMMA FeedGrows ==
    ASSUME Talk, NEW p \in People, NEW c \in Commands(p), NEW x, Serves(p, c, x)
    PROVE  /\ Len(Feed) \in Nat /\ Len(Feed') \in Nat /\ Len(Feed) =< Len(Feed')
           /\ \A d \in sent' : d.code = "NEW_MSG" => d = News /\ Len(Feed) + 1 =< Len(Feed')
<1>1. FeedEffect(Understood(c), groups[1], groups'[1])
  BY DEF Serves, Effect
<1>2. Len(Feed) \in Nat /\ Feed \in Seq(FeedItem)
  BY FeedTyped
<1>3. CASE Feed' = Feed /\ \A d \in sent' : d.code # "NEW_MSG"
  BY <1>2, <1>3
<1>4. CASE \E it : Feed' = Append(Feed, it) /\ \A d \in sent' : d.code = "NEW_MSG" => d = News
  <2>1. PICK it : Feed' = Append(Feed, it) /\ \A d \in sent' : d.code = "NEW_MSG" => d = News
    BY <1>4
  <2>2. Len(Feed') = Len(Feed) + 1
    BY <1>2, <2>1
  <2>. QED  BY <1>2, <2>1, <2>2
<1>. QED  BY <1>1, <1>3, <1>4 DEF FeedEffect, Feed

LEMMA PagedServed ==
    ASSUME Talk, TextsKept, Peopled, NEW p \in People, NEW c \in Commands(p), NEW x \in {p, None},
           Serves(p, c, x), Awaited(p, c, x), NEW q \in People, Paged(q), Heeded(q)
    PROVE  Paged(q)' /\ Heeded(q)'
<1>1. Stable
  BY ServedStable
<1>2. Delivered(p, x)
  BY DEF Serves
<1>0. person'[q].knew = person[q].knew /\ Heeded(q)'
  <2>1. person'[q].knew = person[q].knew
    BY <1>2, ServedPeople
  <2>2. Len(Feed) =< Len(Feed') /\ Len(Feed) \in Nat /\ Len(Feed') \in Nat
    BY FeedGrows
  <2>. QED  BY <2>1, <2>2 DEF Heeded
<1>3. CASE q # p \/ x = None
  BY <1>0, <1>1, <1>2, <1>3, ServedPeople, PagedStays
<1>4. CASE q = p /\ x = p
  <2>1. person'[p].mail = Mail /\ person'[p].cmd = c
    BY <1>2, <1>4, ServedPeople DEF Awaited
  <2>2. person'[p].mail[1].code = reply'.code /\ person'[p].mail[1].body = Answered(reply')
    BY <2>1 DEF Mail
  <2>. SUFFICES ASSUME reply'.code = "FEED_OK"
                PROVE  \E s \in feed_index_after(groups[1], c.numb, c.numr)', m \in Nat :
                          /\ s + m =< Len(Feed') /\ Answered(reply') = FeedBytes(IDG, PageLines(s, m)')
                          /\ person[p].knew =< s + m
    BY <1>0, <1>4, <2>1, <2>2, Zenon DEF Paged
  <2>. DEFINE d == Understood(c)
  <2>3. ReadEffect(d, groups[1])
    BY DEF Serves, Effect
  <2>4. /\ d.code = "FEED" /\ reply'.idg = IDG
        /\ \E i \in feed_index_after(groups[1], d.numb, d.numr) : reply'.items = After(groups[1], i)
    BY <2>3 DEF ReadEffect
  <2>5. d.numb = c.numb /\ d.numr = c.numr
    <3>. HIDE DEF d
    <3>1. d = Understood(c)
      BY DEF d
    <3>. QED  BY <2>4, <3>1, UnderstoodFields
  <2>. HIDE DEF d
  <2>6. PICK i \in feed_index_after(groups[1], c.numb, c.numr) : reply'.items = After(groups[1], i)
    BY <2>4, <2>5
  <2>7. i \in DOMAIN Feed /\ i \in feed_index_after(groups[1], c.numb, c.numr)'
    BY <1>1, PlacesStay
  <2>8. \E n \in Nat : n = Len(Feed) - i /\ Answered(reply') = FeedBytes(IDG, PageLines(i, n))
    <3>1. PICK r : r = reply'
      OBVIOUS
    <3>2. Len(Feed) - i \in Nat /\ Answered(r) = FeedBytes(IDG, PageLines(i, Len(Feed) - i))
      BY <2>4, <2>6, <2>7, <3>1, AnsweredPage
    <3>. QED  BY <3>1, <3>2, Zenon
  <2>9. PICK m \in Nat : m = Len(Feed) - i /\ Answered(reply') = FeedBytes(IDG, PageLines(i, m))
    BY <2>8
  <2>10. i + m =< Len(Feed) /\ person[p].knew =< i + m
    BY <1>4, <2>7, <2>9, FeedTyped DEF Heeded
  <2>11. PageLines(i, m)' = PageLines(i, m) /\ i + m =< Len(Feed')
    BY <1>1, <2>7, <2>10, LinesStay
  <2>. QED  BY <2>7, <2>9, <2>10, <2>11
<1>. QED  BY <1>0, <1>3, <1>4

LEMMA FeedShort == ASSUME Talk PROVE Len(Feed) \in U32
<1>. DEFINE n == Len(Feed)
            A == 0 .. MaxBillets - 1
            B == 0 .. MaxReplies
            f == [k \in 1 .. n |-> <<Feed[k].numb, Feed[k].numr>>]
<1>1. /\ n \in Nat /\ DOMAIN Feed = 1 .. n /\ Numbered(groups[1])
      /\ \A k \in 1 .. n : ItemOK(Feed[k]) /\ Feed[k] \in FeedItem
  BY FeedTyped
<1>2. MaxBillets \in Nat /\ MaxReplies \in Nat
  BY Bounds
<1>3. IsFiniteSet(A) /\ Cardinality(A) = MaxBillets
  <2>1. /\ IsFiniteSet(0 .. MaxBillets - 1)
        /\ Cardinality(0 .. MaxBillets - 1) = IF 0 > MaxBillets - 1 THEN 0 ELSE MaxBillets - 1 - 0 + 1
    BY <1>2, FS_Interval
  <2>. QED  BY <1>2, <2>1
<1>4. IsFiniteSet(B) /\ Cardinality(B) = MaxReplies + 1
  <2>1. /\ IsFiniteSet(0 .. MaxReplies)
        /\ Cardinality(0 .. MaxReplies) = IF 0 > MaxReplies THEN 0 ELSE MaxReplies - 0 + 1
    BY <1>2, FS_Interval
  <2>. QED  BY <1>2, <2>1
<1>5. \A j, k \in 1 .. n : j < k => Feed[j].numb # Feed[k].numb \/ Feed[j].numr # Feed[k].numr
  <2>1. \A j, k \in DOMAIN Feed : j < k =>
           (Feed[j].numb = Feed[k].numb => Feed[j].numr < Feed[k].numr)
    BY <1>1 DEF Numbered, Feed
  <2>2. \A k \in 1 .. n : Feed[k].numr \in Nat
    BY <1>1 DEF FeedItem
  <2>. QED  BY <1>1, <2>1, <2>2
<1>. DEFINE P == A \X B
<1>6. f \in [1 .. n -> P]
  <2>1. \A k \in 1 .. n : <<Feed[k].numb, Feed[k].numr>> \in P
    BY <1>1 DEF ItemOK
  <2>. QED  BY <2>1
<1>7. \A j, k \in 1 .. n : f[j] = f[k] => j = k
  BY <1>1, <1>5
<1>8. IsFiniteSet(P) /\ Cardinality(P) = MaxBillets * (MaxReplies + 1)
  <2>. HIDE DEF A, B
  <2>1. IsFiniteSet(A \X B) /\ Cardinality(A \X B) = Cardinality(A) * Cardinality(B)
    BY <1>3, <1>4, FS_Product
  <2>. QED  BY <1>3, <1>4, <2>1
<1>9. Cardinality(1 .. n) = n
  <2>1. Cardinality(1 .. n) = IF 1 > n THEN 0 ELSE n - 1 + 1
    BY <1>1, FS_Interval
  <2>. QED  BY <1>1, <2>1
<1>. HIDE DEF P, f, n
<1>10. f \in Injection(1 .. n, P)
  BY <1>6, <1>7 DEF Injection, IsInjective
<1>11. Cardinality(1 .. n) =< Cardinality(P)
  BY <1>8, <1>10, FS_Injection
<1>12. n =< MaxBillets * (MaxReplies + 1)
  BY <1>8, <1>9, <1>11
<1>13. n \in U32
  BY <1>1, <1>12, BelowU32, NumbersFit
<1>. QED  BY <1>13 DEF n

LEMMA PageTyped ==
    ASSUME Talk, TextsKept, NEW s \in DOMAIN Feed, NEW m \in Nat, s + m =< Len(Feed)
    PROVE  /\ PageLines(s, m) \in Seq(LineType) /\ Len(PageLines(s, m)) = m /\ m \in U32
           /\ \A k \in 1 .. m : s + k \in DOMAIN Feed
           /\ FeedBytes(IDG, PageLines(s, m)) \in Bytes
<1>1. Len(Feed) \in Nat /\ DOMAIN Feed = 1 .. Len(Feed) /\ \A k \in DOMAIN Feed : ItemOK(Feed[k])
  BY FeedTyped
<1>2. \A k \in 1 .. m : s + k \in DOMAIN Feed
  BY <1>1
<1>3. m \in U32
  <2>1. m =< Len(Feed)
    BY <1>1
  <2>. QED  BY <2>1, FeedShort, BelowU32
<1>4. ASSUME NEW j \in DOMAIN Feed PROVE Line(Feed[j], texts[ItemKey(Feed[j])]) \in LineType
  <2>1. Feed[j].author \in U32 /\ Feed[j].numb \in U32 /\ Feed[j].numr \in U32
    BY <1>1, ItemNumbers
  <2>2. PICK t \in Words(Feed[j].author) : texts[ItemKey(Feed[j])] = Kept(t)
    BY DEF TextsKept, TextOf, ItemKey
  <2>3. t \in Bytes
    BY <1>1, PeopleNumbers, WordsBytes DEF ItemOK
  <2>4. Kept(t) \in ShortText
    <3>1. Kept(t) \in Bytes /\ Len(Kept(t)) = Len(t) % (BYTE * BYTE) /\ Len(t) \in Nat
      BY <2>3, KeptBytes
    <3>2. BYTE * BYTE \in Nat \ {0}
      <4>1. BYTE \in Nat /\ BYTE > 2
        BY ByteBase
      <4>2. BYTE * 1 + BYTE =< BYTE * BYTE /\ BYTE * BYTE \in Nat
        BY <4>1, TimesMore
      <4>. QED  BY <4>1, <4>2
    <3>3. Len(t) % (BYTE * BYTE) < BYTE * BYTE
      <4>. DEFINE d == BYTE * BYTE
                  l == Len(t)
      <4>1. d \in Nat \ {0} /\ l \in Nat
        BY <3>1, <3>2
      <4>. HIDE DEF d, l
      <4>2. l % d < d
        BY <4>1
      <4>. QED  BY <4>2 DEF d, l
    <3>. QED  BY <3>1, <3>3 DEF ShortText
  <2>. QED  BY <2>1, <2>2, <2>4 DEF Line, LineType
<1>5. PageLines(s, m) \in [1 .. m -> LineType]
  BY <1>2, <1>4 DEF PageLines
<1>6. PageLines(s, m) \in Seq(LineType) /\ Len(PageLines(s, m)) = m
  BY <1>5, SeqOf, Zenon
<1>7. FeedBytes(IDG, PageLines(s, m)) \in Bytes
  <2>. DEFINE L == PageLines(s, m)
  <2>1. L \in Seq(LineType) /\ Len(L) \in U32 /\ Len(L) \in 0 .. Len(L)
    BY <1>3, <1>6
  <2>. HIDE DEF L
  <2>2. Upto(IDG, L)[Len(L)] \in Bytes
    BY <2>1, UptoBytes, SmallNumbers
  <2>3. FeedBytes(IDG, L) \in Bytes
    BY <2>2, FeedUpto
  <2>. QED  BY <2>3 DEF L
<1>. QED  BY <1>2, <1>3, <1>6, <1>7

LEMMA NoLines ==
    ASSUME NEW L, L \in Seq(LineType), Len(L) = 0
    PROVE  Len(FeedBytes(IDG, L)) = 8
<1>1. L \in Seq(LineType) /\ Len(L) \in U32 /\ 0 \in 0 .. Len(L)
  BY SmallNumbers
<1>2. FeedBytes(IDG, L) = Upto(IDG, L)[0]
  BY FeedUpto
<1>3. Upto(IDG, L)[0] = wire_put_u32_be(IDG) \o wire_put_u32_be(Len(L))
  <2>1. Len(L) \in Nat
    BY <1>1
  <2>. QED  BY <2>1, UptoIs, Zenon
<1>. DEFINE h == wire_put_u32_be(Len(L))
<1>4. h \in Bytes /\ Len(h) = 4
  BY <1>1, Put32
<1>. HIDE DEF h
<1>5. Led(wire_put_u32_be(IDG) \o h, IDG, h)
  BY <1>4, Field, SmallNumbers, Zenon
<1>6. Led(FeedBytes(IDG, L), IDG, h)
  BY <1>2, <1>3, <1>5, Zenon DEF h
<1>. QED  BY <1>4, <1>6 DEF Led

\* The page read by p, of which n bytes have come: s is the place he asked for.
LEMMA PagePrinted ==
    ASSUME Talk, TextsKept, NEW s \in DOMAIN Feed, NEW m \in Nat, s + m =< Len(Feed),
           NEW b, b = FeedBytes(IDG, PageLines(s, m)), NEW n \in 0 .. Len(b),
           NEW l, l = Printed(Part(b, 1, n))
    PROVE  /\ s + Len(l) =< Len(Feed)
           /\ \A k \in DOMAIN l : TrueLine(l[k], Feed[s + k])
           /\ s < Len(Feed) /\ n >= 8 + 14 + Len(TextOf(Feed[s + 1])) => l # << >>
<1>. DEFINE L == PageLines(s, m)
<1>1. /\ L \in Seq(LineType) /\ Len(L) = m /\ m \in U32
      /\ \A k \in 1 .. m : s + k \in DOMAIN Feed
      /\ b \in Bytes
  BY PageTyped
<1>2. /\ Len(Feed) \in Nat /\ DOMAIN Feed = 1 .. Len(Feed) /\ Len(b) \in Nat
      /\ \A k \in DOMAIN Feed : ItemOK(Feed[k])
  BY <1>1, FeedTyped DEF Bytes
<1>3. \A k \in 1 .. m : L[k] = Line(Feed[s + k], texts[ItemKey(Feed[s + k])])
  BY DEF PageLines
<1>4. \A k \in 1 .. m : TrueLine(L[k], Feed[s + k])
  <2>. SUFFICES ASSUME NEW k \in 1 .. m PROVE TrueLine(L[k], Feed[s + k])
    OBVIOUS
  <2>1. texts[ItemKey(Feed[s + k])] \in {Kept(t) : t \in Words(Feed[s + k].author)}
    BY <1>1 DEF TextsKept, TextOf, ItemKey
  <2>2. L[k] = Line(Feed[s + k], texts[ItemKey(Feed[s + k])])
    BY <1>3
  <2>. HIDE DEF L
  <2>. QED  BY <2>1, <2>2 DEF TrueLine, Line
<1>5. s < Len(Feed) => Len(TextOf(Feed[s + 1])) \in Nat
  <2>. SUFFICES ASSUME s < Len(Feed) PROVE Len(TextOf(Feed[s + 1])) \in Nat
    OBVIOUS
  <2>1. s + 1 \in DOMAIN Feed
    BY <1>2
  <2>2. PICK t \in Words(Feed[s + 1].author) : TextOf(Feed[s + 1]) = Kept(t)
    BY <2>1 DEF TextsKept
  <2>3. t \in Bytes
    BY <1>2, <2>1, PeopleNumbers, WordsBytes DEF ItemOK
  <2>. QED  BY <2>2, <2>3, KeptBytes
<1>6. m > 0 => L[1].text = TextOf(Feed[s + 1])
  <2>. SUFFICES ASSUME m > 0 PROVE L[1].text = TextOf(Feed[s + 1])
    OBVIOUS
  <2>1. 1 \in 1 .. m
    OBVIOUS
  <2>2. L[1] = Line(Feed[s + 1], texts[ItemKey(Feed[s + 1])])
    BY <1>3, <2>1
  <2>. HIDE DEF L
  <2>. QED  BY <2>2 DEF Line, TextOf, ItemKey
<1>. HIDE DEF L
<1>7. \E i \in 0 .. Len(L) :
              /\ Printed(SubSeq(FeedBytes(IDG, L), 1, n)) = SubSeq(L, 1, i)
              /\ Len(L) > 0 /\ n >= 8 + 14 + Len(L[1].text) => i > 0
  <2>1. n \in 0 .. Len(FeedBytes(IDG, L)) /\ Len(L) \in U32 /\ IDG \in U32
    BY <1>1, SmallNumbers DEF L
  <2>. QED  BY <1>1, <2>1, PagesArePrefixes
<1>8. PICK i \in 0 .. Len(L) : /\ l = Part(L, 1, i)
                               /\ Len(L) > 0 /\ n >= 8 + 14 + Len(L[1].text) => i > 0
  <2>1. b = FeedBytes(IDG, L)
    BY DEF L
  <2>2. l = Printed(SubSeq(FeedBytes(IDG, L), 1, n))
    BY <2>1, Zenon DEF Part
  <2>. QED  BY <1>7, <2>2, Zenon DEF Part
<1>9. Len(l) = i /\ DOMAIN l = 1 .. i /\ \A k \in 1 .. i : l[k] = L[k]
  <2>. HIDE DEF L
  <2>1. PICK q : q = SubSeq(L, 1, i)
    OBVIOUS
  <2>2. Len(q) = i /\ DOMAIN q = 1 .. i /\ \A k \in 1 .. i : q[k] = L[k]
    BY <1>1, <2>1
  <2>3. l = q
    BY <1>8, <2>1, Zenon DEF Part
  <2>. QED  BY <2>2, <2>3, Zenon
<1>10. i \in 0 .. m
  BY <1>1
<1>11. s + Len(l) =< Len(Feed)
  BY <1>2, <1>9, <1>10
<1>12. \A k \in DOMAIN l : TrueLine(l[k], Feed[s + k])
  <2>. SUFFICES ASSUME NEW k \in 1 .. i PROVE TrueLine(l[k], Feed[s + k])
    BY <1>9
  <2>1. k \in 1 .. m
    BY <1>10
  <2>. QED  BY <1>4, <1>9, <2>1
<1>13. ASSUME s < Len(Feed), n >= 8 + 14 + Len(TextOf(Feed[s + 1])) PROVE l # << >>
  <2>1. m # 0
    <3>. SUFFICES ASSUME m = 0 PROVE FALSE
      OBVIOUS
    <3>1. Len(FeedBytes(IDG, L)) = 8
      BY <1>1, NoLines
    <3>2. Len(b) = 8
      BY <3>1, Zenon DEF L
    <3>3. n \in 0 .. 8
      BY <3>2
    <3>. DEFINE z == Len(TextOf(Feed[s + 1]))
    <3>4. z \in Nat /\ n >= 8 + 14 + z
      BY <1>5, <1>13
    <3>. HIDE DEF z
    <3>. QED  BY <3>3, <3>4
  <2>2. i > 0
    BY <1>1, <1>6, <1>8, <1>13, <2>1
  <2>. QED  BY <1>9, <2>2
<1>. QED  BY <1>11, <1>12, <1>13

LEMMA OnePlace ==
    ASSUME Talk, NEW a, NEW c, NEW s \in feed_index_after(groups[1], a, c),
           NEW t \in feed_index_after(groups[1], a, c)
    PROVE  s = t /\ s \in DOMAIN Feed
<1>1. /\ Len(Feed) \in Nat /\ DOMAIN Feed = 1 .. Len(Feed) /\ Numbered(groups[1])
      /\ \A k \in DOMAIN Feed : Feed[k] \in FeedItem
  BY FeedTyped
<1>2. /\ s \in DOMAIN Feed /\ t \in DOMAIN Feed /\ Feed[s].numb = Feed[t].numb
      /\ Feed[s].numr = Feed[t].numr
  BY DEF feed_index_after, Feed
<1>3. \A j, k \in DOMAIN Feed : j < k => (Feed[j].numb = Feed[k].numb => Feed[j].numr < Feed[k].numr)
  BY <1>1 DEF Numbered, Feed
<1>4. Feed[s].numr \in Nat /\ Feed[t].numr \in Nat
  BY <1>1, <1>2 DEF FeedItem
<1>5. ~(s < t) /\ ~(t < s)
  BY <1>2, <1>3, <1>4
<1>. QED  BY <1>1, <1>2, <1>5

LEMMA PagesFollow ==
    ASSUME Talk, TextsKept, \A p \in People : Paged(p)
    PROVE  PagesTrue
<1>. SUFFICES ASSUME NEW p \in People, person[p].mail # << >>, person[p].mail[1].code = "FEED_OK",
                     NEW b, b = person[p].mail[1].body, NEW n \in 0 .. Len(b), n =< RESP,
                     NEW s \in feed_index_after(groups[1], person[p].cmd.numb, person[p].cmd.numr),
                     NEW l, l = Printed(Part(b, 1, n))
              PROVE  /\ s + Len(l) =< Len(Feed)
                     /\ \A k \in DOMAIN l : TrueLine(l[k], Feed[s + k])
                     /\ s < Len(Feed) /\ n >= 8 + 14 + Len(TextOf(Feed[s + 1])) => l # << >>
  BY Zenon DEF PagesTrue, Part, Feed, IDG
<1>1. PICK t \in feed_index_after(groups[1], person[p].cmd.numb, person[p].cmd.numr), m \in Nat :
            t + m =< Len(Feed) /\ b = FeedBytes(IDG, PageLines(t, m))
  BY DEF Paged
<1>2. s = t /\ s \in DOMAIN Feed
  BY OnePlace
<1>3. s + m =< Len(Feed) /\ b = FeedBytes(IDG, PageLines(s, m))
  BY <1>1, <1>2
<1>. QED  BY <1>2, <1>3, PagePrinted

(***************************************************************************)
(* What the listeners print.                                               *)
(***************************************************************************)
HeardOK(e, q) ==
    /\ e.news =< Len(Feed)
    /\ e.fetched => \E i \in DOMAIN groups[1].posts : groups[1].posts[i].author = q
    /\ e.closed => groups[1].closed
EarOK == ear \in [Listeners -> Ear] /\ \A q \in Listeners : HeardOK(ear[q], q)

\* What the datagrams sent so far say, of which any may still come.
SoundPacket(d) ==
    /\ d.item =< Len(Feed)
    /\ d.code = "FETCH" =>
          d.to # ALL /\ \E i \in DOMAIN groups[1].posts : groups[1].posts[i].author = d.to
    /\ d.code = "CLOSE" => groups[1].closed
NetOK == /\ net \subseteq Packet /\ \A d \in net : SoundPacket(d)
         /\ IsFiniteSet(Announcements) /\ Cardinality(Announcements) =< Len(Feed)

\* What was sound stays sound: feed and billets only grow, and a group stays closed.
LEMMA SoundServed ==
    ASSUME Talk, NEW p \in People, NEW c \in Commands(p), NEW x, Serves(p, c, x), NEW d, NEW n
    PROVE  /\ n \in Nat /\ n =< Len(Feed) => n =< Len(Feed')
           /\ (\E i \in DOMAIN groups[1].posts : groups[1].posts[i].author = d)
                 => \E i \in DOMAIN groups'[1].posts : groups'[1].posts[i].author = d
           /\ groups[1].closed => groups'[1].closed
<1>1. PostsEffect(groups[1], groups'[1]) /\ MemberEffect(Understood(c), groups[1], groups'[1])
  BY DEF Serves, Effect
<1>2. Len(Feed) \in Nat /\ Len(Feed') \in Nat /\ Len(Feed) =< Len(Feed')
  BY FeedGrows
<1>3. n \in Nat /\ n =< Len(Feed) => n =< Len(Feed')
  BY <1>2
<1>. QED  BY <1>1, <1>3 DEF PostsEffect, MemberEffect

LEMMA StampSound ==
    ASSUME Talk, NetOK, NEW p \in People, NEW c \in Commands(p), NEW x, Serves(p, c, x),
           NEW d \in sent', NEW e, e = Stamped(d)
    PROVE  /\ e \in Packet /\ SoundPacket(e)' /\ e.code = d.code /\ e.idg = d.idg
<1>1. Cardinality(Announcements) \in Nat /\ Cardinality(Announcements) =< Len(Feed)
  BY FS_CardinalityType DEF NetOK
<1>2. d \in Datagram
  BY DEF Serves, IInv, TypeOK
<1>3. /\ Len(Feed) \in Nat /\ Len(Feed') \in Nat
      /\ d.code = "NEW_MSG" => Len(Feed) + 1 =< Len(Feed')
  BY FeedGrows
<1>. DEFINE n == IF d.code = "NEW_MSG" /\ d.idg = IDG THEN Cardinality(Announcements) + 1 ELSE 0
<1>4. n \in Nat /\ n =< Len(Feed')
  BY <1>1, <1>3
<1>5. e = [code |-> d.code, idg |-> d.idg, to |-> d.to, item |-> n]
  BY DEF Stamped
<1>. HIDE DEF n
<1>6. e \in Packet
  BY <1>2, <1>4, <1>5 DEF Packet, Datagram
<1>7. FetchEffect(groups[1]) /\ CloseEffect(groups'[1])
  BY DEF Serves, Effect
<1>8. d.code = "FETCH" => d.to # ALL /\ \E i \in DOMAIN groups[1].posts : groups[1].posts[i].author = d.to
  <2>1. \A i \in DOMAIN users : users[i] # ALL
    <3>1. \A i \in DOMAIN users : users[i] \in 1 .. next_uid - 1
      BY DEF Talk, IInv, IdsNameOneEntry
    <3>2. next_uid \in Nat
      BY DEF Talk, IInv, TypeOK
    <3>. QED  BY <3>1, <3>2 DEF ALL
  <2>. QED  BY <1>7, <2>1 DEF FetchEffect, find_user
<1>9. d.code = "FETCH" => d.to # ALL /\ \E i \in DOMAIN groups'[1].posts : groups'[1].posts[i].author = d.to
  BY <1>8, SoundServed
<1>10. d.code = "CLOSE" => groups'[1].closed
  BY <1>7 DEF CloseEffect
<1>11. SoundPacket(e)'
  BY <1>4, <1>5, <1>9, <1>10 DEF SoundPacket
<1>. QED  BY <1>5, <1>6, <1>11

LEMMA NetServed ==
    ASSUME Talk, NetOK, NEW p \in People, NEW c \in Commands(p), NEW x, Serves(p, c, x)
    PROVE  NetOK'
<1>1. net' = net \cup {Stamped(d) : d \in sent'}
  BY DEF Serves, Sends
<1>2. ASSUME NEW e \in net' PROVE e \in Packet /\ SoundPacket(e)'
  <2>1. CASE e \in net
    <3>1. e \in Packet /\ SoundPacket(e)
      BY <2>1 DEF NetOK
    <3>2. e.item \in Nat
      BY <3>1 DEF Packet
    <3>3. e.item =< Len(Feed')
      BY <3>1, <3>2, SoundServed DEF SoundPacket
    <3>4. e.code = "FETCH" =>
             e.to # ALL /\ \E i \in DOMAIN groups'[1].posts : groups'[1].posts[i].author = e.to
      BY <3>1, SoundServed DEF SoundPacket
    <3>5. e.code = "CLOSE" => groups'[1].closed
      BY <3>1, SoundServed DEF SoundPacket
    <3>. QED  BY <3>1, <3>3, <3>4, <3>5 DEF SoundPacket
  <2>2. CASE e \notin net
    <3>1. PICK d \in sent' : e = Stamped(d)
      BY <1>1, <2>2
    <3>. QED  BY <3>1, StampSound
  <2>. QED  BY <2>1, <2>2
<1>3. /\ IsFiniteSet(Announcements) /\ Cardinality(Announcements) \in Nat
      /\ Cardinality(Announcements) =< Len(Feed)
  BY FS_CardinalityType DEF NetOK
<1>4. /\ Len(Feed) \in Nat /\ Len(Feed') \in Nat /\ Len(Feed) =< Len(Feed')
      /\ \A d \in sent' : d.code = "NEW_MSG" => d = News /\ Len(Feed) + 1 =< Len(Feed')
  BY FeedGrows
<1>5. PICK A : A = Announcements'
  OBVIOUS
<1>6. \A e : e \in A <=> e \in net' /\ e.code = "NEW_MSG" /\ e.idg = IDG
  BY <1>5 DEF Announcements
<1>7. \A d \in sent' : Stamped(d).code = d.code
  BY DEF Stamped
<1>8. CASE \A d \in sent' : d.code # "NEW_MSG"
  <2>1. A = Announcements
    BY <1>1, <1>6, <1>7, <1>8 DEF Announcements
  <2>. QED  BY <1>2, <1>3, <1>4, <1>5, <2>1 DEF NetOK
<1>9. CASE \E d \in sent' : d.code = "NEW_MSG"
  <2>1. News \in sent' /\ Len(Feed) + 1 =< Len(Feed')
    BY <1>4, <1>9
  <2>2. PICK e : e = Stamped(News)
    OBVIOUS
  <2>3. \A k \in A : k \in Announcements \/ k = e
    BY <1>1, <1>4, <1>6, <1>7, <2>2 DEF Announcements
  <2>4. \A k \in Announcements : k \in A
    BY <1>1, <1>6 DEF Announcements
  <2>5. e.code = "NEW_MSG" /\ e.idg = IDG
    BY <2>2 DEF Stamped, News
  <2>6. A = Announcements \cup {e}
    BY <1>1, <1>6, <2>1, <2>2, <2>3, <2>4, <2>5
  <2>7. /\ IsFiniteSet(A)
        /\ Cardinality(A) = IF e \in Announcements THEN Cardinality(Announcements)
                            ELSE Cardinality(Announcements) + 1
    BY <1>3, <2>6, FS_AddElement
  <2>8. Cardinality(A) =< Len(Feed')
    BY <1>3, <1>4, <2>1, <2>7
  <2>. QED  BY <1>2, <1>5, <2>7, <2>8 DEF NetOK
<1>. QED  BY <1>8, <1>9

LEMMA EarServed ==
    ASSUME Talk, EarOK, NEW p \in People, NEW c \in Commands(p), NEW x, Serves(p, c, x)
    PROVE  EarOK'
<1>1. ear' = ear
  BY DEF Serves
<1>2. ASSUME NEW q \in Listeners, NEW e, e = ear[q] PROVE HeardOK(e, q)'
  <2>1. HeardOK(e, q) /\ e \in Ear
    BY <1>2 DEF EarOK
  <2>2. e.news \in Nat
    BY <2>1 DEF Ear
  <2>3. e.news =< Len(Feed')
    BY <2>1, <2>2, SoundServed DEF HeardOK
  <2>4. e.fetched => \E i \in DOMAIN groups'[1].posts : groups'[1].posts[i].author = q
    BY <2>1, SoundServed DEF HeardOK
  <2>5. e.closed => groups'[1].closed
    BY <2>1, SoundServed DEF HeardOK
  <2>. QED  BY <2>3, <2>4, <2>5 DEF HeardOK
<1>. QED  BY <1>1, <1>2 DEF EarOK, HeardOK

\* A listener q told e hears d.
LEMMA HeardIs ==
    ASSUME NEW e \in Ear, NEW d, d.item \in Nat, NEW h, h = Heard(e, d)
    PROVE  /\ h \in Ear /\ h.news = (IF d.item > e.news THEN d.item ELSE e.news)
           /\ h.fetched => e.fetched \/ d.code = "FETCH"
           /\ h.closed => e.closed \/ d.code = "CLOSE"
<1>1. PICK f \in BOOLEAN : f <=> (e.fetched \/ d.code = "FETCH")
  OBVIOUS
<1>2. PICK k \in BOOLEAN : k <=> (e.closed \/ d.code = "CLOSE")
  OBVIOUS
<1>3. PICK n \in Nat : n = IF d.item > e.news THEN d.item ELSE e.news
  BY DEF Ear
<1>4. e.fetched \in BOOLEAN /\ e.closed \in BOOLEAN
  BY DEF Ear
<1>5. (e.fetched \/ d.code = "FETCH") = f
  BY <1>1, <1>4
<1>6. (e.closed \/ d.code = "CLOSE") = k
  BY <1>2, <1>4
<1>7. h = [e EXCEPT !.news = n, !.fetched = f, !.closed = k]
  BY <1>3, <1>5, <1>6, Zenon DEF Heard
<1>8. h = [on |-> e.on, news |-> n, fetched |-> f, closed |-> k] /\ e.on \in BOOLEAN
  BY <1>7 DEF Ear
<1>9. h \in Ear /\ h.news = n /\ h.fetched = f /\ h.closed = k
  BY <1>8 DEF Ear
<1>. QED  BY <1>1, <1>2, <1>3, <1>9

LEMMA EarChanged ==
    ASSUME EarOK, groups' = groups, NEW p \in Listeners, NEW e \in Ear, HeardOK(e, p),
           ear' = [ear EXCEPT ![p] = e]
    PROVE  EarOK'
<1>1. ear \in [Listeners -> Ear] /\ \A q \in Listeners : HeardOK(ear[q], q)
  BY DEF EarOK
<1>2. ear' \in [Listeners -> Ear] /\ ear'[p] = e /\ \A q \in Listeners : q # p => ear'[q] = ear[q]
  BY <1>1
<1>3. \A q \in Listeners : HeardOK(ear'[q], q)
  BY <1>1, <1>2
<1>4. Feed' = Feed
  BY DEF Feed
<1>. QED  BY <1>2, <1>3, <1>4 DEF EarOK, HeardOK

LEMMA EarReceives ==
    ASSUME Talk, NetOK, EarOK, groups' = groups, NEW p \in Listeners, udp6_recv(p)
    PROVE  EarOK'
<1>1. PICK d \in net : d.to \in {ALL, p} /\ ear' = [ear EXCEPT ![p] = Heard(ear[p], d)]
  BY DEF udp6_recv
<1>2. d \in Packet /\ SoundPacket(d) /\ ear[p] \in Ear /\ HeardOK(ear[p], p)
  BY DEF NetOK, EarOK
<1>3. d.item \in Nat
  BY <1>2 DEF Packet
<1>4. PICK h : h = Heard(ear[p], d)
  OBVIOUS
<1>5. /\ h \in Ear /\ h.news = (IF d.item > ear[p].news THEN d.item ELSE ear[p].news)
      /\ h.fetched => ear[p].fetched \/ d.code = "FETCH"
      /\ h.closed => ear[p].closed \/ d.code = "CLOSE"
  BY <1>2, <1>3, <1>4, HeardIs
<1>6. h.news =< Len(Feed)
  BY <1>2, <1>5 DEF HeardOK, SoundPacket
<1>7. h.fetched => \E i \in DOMAIN groups[1].posts : groups[1].posts[i].author = p
  BY <1>1, <1>2, <1>5 DEF HeardOK, SoundPacket
<1>8. h.closed => groups[1].closed
  BY <1>2, <1>5 DEF HeardOK, SoundPacket
<1>9. HeardOK(h, p)
  BY <1>6, <1>7, <1>8 DEF HeardOK
<1>10. ear' = [ear EXCEPT ![p] = h]
  BY <1>1, <1>4
<1>. QED  BY <1>5, <1>9, <1>10, EarChanged

LEMMA DeafOK ==
    ASSUME Talk, NEW p, NEW e, e \in {Deaf, [Deaf EXCEPT !.on = TRUE]}
    PROVE  e \in Ear /\ HeardOK(e, p)
<1>2. Deaf \in Ear /\ Deaf.news = 0 /\ ~Deaf.fetched /\ ~Deaf.closed
  BY DEF Deaf, Ear
<1>1. ASSUME NEW b \in BOOLEAN, e = [Deaf EXCEPT !.on = b]
      PROVE  e \in Ear /\ e.news = 0 /\ e.fetched = Deaf.fetched /\ e.closed = Deaf.closed
  BY <1>1, <1>2 DEF Ear
<1>3. e \in Ear /\ e.news = 0 /\ e.fetched = Deaf.fetched /\ e.closed = Deaf.closed
  BY <1>1, <1>2
<1>4. Len(Feed) \in Nat
  BY FeedTyped
<1>. QED  BY <1>2, <1>3, <1>4 DEF HeardOK

(***************************************************************************)
(* The commands that run and the connections that wait.                    *)
(***************************************************************************)
\* A connection whose client is still there is that of the command its person runs, the
\* last of his that waits, and it has no answer yet.
Live ==
    \A i \in DOMAIN queue : queue[i].client # None =>
        /\ person[queue[i].client].cmd = queue[i].typed
        /\ person[queue[i].client].mail = << >>
        /\ \A j \in DOMAIN queue : i < j => queue[j].typed.uid # queue[i].client

\* An answer is for a command that runs, and then nothing of this person waits.
Mailed(p) ==
    person[p].mail # << >> =>
        /\ Waits(p) /\ Len(person[p].mail) = 1
        /\ person[p].mail[1].code \in {"POST_OK", "REPLY_OK"} => Writes(p)
        /\ \A i \in DOMAIN queue : queue[i].typed.uid # p

LEMMA QueueFacts ==
    ASSUME Connected
    PROVE  /\ Len(queue) \in Nat /\ DOMAIN queue = 1 .. Len(queue)
           /\ \A i \in DOMAIN queue : queue[i] \in Connections
           /\ \A i \in DOMAIN queue : queue[i].client \in {None, queue[i].typed.uid}
           /\ \A i \in DOMAIN queue : queue[i].typed.uid \in People
<1>1. queue \in Seq(Connections)
  BY DEF Connected
<1>2. \A i \in DOMAIN queue : queue[i] \in Connections
  BY <1>1
<1>3. \A i \in DOMAIN queue : queue[i].typed.uid \in People
                              /\ queue[i].client \in {None, queue[i].typed.uid}
  BY <1>2, ConnFields
<1>. QED  BY <1>1, <1>2, <1>3

LEMMA HeadServed ==
    ASSUME Connected, Live, NEW p \in People, NEW c \in Commands(p), NEW x \in {p, None},
           Serves(p, c, x)
    PROVE  /\ Awaited(p, c, x) /\ 1 \in DOMAIN queue /\ queue[1].typed = c /\ queue[1].client = x
           /\ x = p => \A j \in DOMAIN queue : 1 < j => queue[j].typed.uid # p
           /\ DOMAIN queue' = 1 .. Len(queue) - 1
           /\ \A i \in DOMAIN queue' : /\ i + 1 \in DOMAIN queue /\ queue'[i] = queue[i + 1]
           /\ p # None /\ c.uid = p
<1>1. queue # << >> /\ queue[1] = Conn(c, x) /\ Shifted
  BY DEF Serves
<1>2. queue \in Seq(Connections) /\ Len(queue) \in Nat /\ DOMAIN queue = 1 .. Len(queue)
  BY QueueFacts DEF Connected
<1>3. 1 \in DOMAIN queue
  BY <1>1, <1>2
<1>4. queue[1].typed = c /\ queue[1].client = x
  BY <1>1 DEF Conn
<1>5. p # None /\ c.uid = p
  BY PeopleNumbers, CommandFields DEF Requests
<1>6. DOMAIN queue' = 1 .. Len(queue) - 1
  BY <1>1, <1>2 DEF Shifted
<1>7. \A i \in DOMAIN queue' : /\ i + 1 \in DOMAIN queue /\ queue'[i] = queue[i + 1]
  BY <1>1, <1>2, <1>6 DEF Shifted
<1>. QED  BY <1>3, <1>4, <1>5, <1>6, <1>7 DEF Live, Awaited

LEMMA LiveServed ==
    ASSUME Talk, Connected, Peopled, Live, NEW p \in People, NEW c \in Commands(p),
           NEW x \in {p, None}, Serves(p, c, x)
    PROVE  Live' /\ Connected' /\ \A q \in People : Mailed(q) => Mailed(q)'
<1>1. /\ Awaited(p, c, x) /\ 1 \in DOMAIN queue /\ queue[1].typed = c /\ queue[1].client = x
      /\ x = p => \A j \in DOMAIN queue : 1 < j => queue[j].typed.uid # p
      /\ DOMAIN queue' = 1 .. Len(queue) - 1
      /\ \A i \in DOMAIN queue' : /\ i + 1 \in DOMAIN queue /\ queue'[i] = queue[i + 1]
      /\ p # None /\ c.uid = p
  BY HeadServed
<1>2. /\ Len(queue) \in Nat /\ DOMAIN queue = 1 .. Len(queue)
      /\ \A i \in DOMAIN queue : queue[i].client \in {None, queue[i].typed.uid}
      /\ \A i \in DOMAIN queue : queue[i].typed.uid \in People
  BY QueueFacts
<1>3. /\ \A q \in People : /\ person'[q].cmd = person[q].cmd
                           /\ q # p \/ x = None => person'[q] = person[q]
      /\ x = p => person'[p].mail = Mail
  BY ServedPeople DEF Serves
<1>4. Connected'
  <2>1. Len(queue') = Len(queue) - 1 /\ queue' \in Seq(Connections) /\ Len(queue) =< BACKLOG
    BY DEF Serves, Shifted, Connected
  <2>2. Len(queue') =< BACKLOG
    BY <1>2, <2>1, CommandBounds
  <2>. QED  BY <2>1, <2>2 DEF Connected
<1>5. Live'
  <2>. SUFFICES ASSUME NEW i \in DOMAIN queue', queue'[i].client # None
                PROVE  /\ person'[queue'[i].client].cmd = queue'[i].typed
                       /\ person'[queue'[i].client].mail = << >>
                       /\ \A j \in DOMAIN queue' : i < j => queue'[j].typed.uid # queue'[i].client
    BY DEF Live
  <2>1. PICK k \in DOMAIN queue : k = i + 1 /\ k > 1 /\ queue'[i] = queue[k]
    BY <1>1
  <2>2. PICK q \in People : queue[k].client = q /\ queue[k].typed.uid = q
    BY <1>2, <2>1
  <2>3. /\ person[q].cmd = queue[k].typed /\ person[q].mail = << >>
        /\ \A j \in DOMAIN queue : k < j => queue[j].typed.uid # q
    BY <2>1, <2>2 DEF Live
  <2>4. q # p \/ x = None
    BY <1>1, <2>1, <2>2
  <2>5. person'[q] = person[q]
    BY <1>3, <2>4
  <2>6. \A j \in DOMAIN queue' : i < j => queue'[j].typed.uid # q
    BY <1>1, <2>1, <2>3
  <2>. QED  BY <2>1, <2>2, <2>3, <2>5, <2>6
<1>6. ASSUME NEW q \in People, Mailed(q) PROVE Mailed(q)'
  <2>1. CASE q # p \/ x = None
    <3>1. person'[q] = person[q]
      BY <1>3, <2>1
    <3>. QED  BY <1>1, <1>6, <3>1 DEF Mailed, Waits, Writes
  <2>2. CASE q = p /\ x = p
    <3>1. person'[p].cmd = c /\ person'[p].mail = Mail
      BY <1>1, <1>3, <2>2 DEF Awaited
    <3>2. c # Bad
      BY CommandFields
    <3>3. \A i \in DOMAIN queue' : queue'[i].typed.uid # p
      BY <1>1, <1>2, <2>2
    <3>4. Len(Mail) = 1 /\ Mail[1].code = reply'.code
      BY DEF Mail
    <3>5. reply'.code \in {"POST_OK", "REPLY_OK"} => c.code \in {"POST", "REPLY"}
      BY ServedFeed DEF Unwritten, Wrote, Written
    <3>. QED  BY <2>2, <3>1, <3>2, <3>3, <3>4, <3>5 DEF Mailed, Waits, Writes
  <2>. QED  BY <2>1, <2>2
<1>. QED  BY <1>4, <1>5, <1>6

(***************************************************************************)
(* The last word about membership.                                         *)
(***************************************************************************)
Right(p, w) == \/ groups[1].closed
               \/ /\ w = "in" => p \in groups[1].mem
                  /\ w = "out" => p \notin groups[1].mem
NoAnswerWaits(p) ==
    \A i \in DOMAIN queue : queue[i].typed.uid = p => queue[i].typed.code # "INV_ANS"

\* What was settled is true, and so is what the answer on its way settles; once it is
\* settled, no answer to an invitation waits that could change it.
Worded(p) ==
    /\ Right(p, person[p].word)
    /\ person[p].mail # << >> => Right(p, Settles(p))
    /\ person[p].word # "none" => NoAnswerWaits(p)

LEMMA WordServed ==
    ASSUME Talk, Connected, Peopled, Live, NEW p \in People, NEW c \in Commands(p),
           NEW x \in {p, None}, Serves(p, c, x), NEW q \in People, Mailed(q), Worded(q)
    PROVE  Worded(q)'
<1>. DEFINE g == groups[1]
            h == groups'[1]
            Same == h.closed \/ (~g.closed /\ (q \in h.mem <=> q \in g.mem))
<1>1. /\ Awaited(p, c, x) /\ 1 \in DOMAIN queue /\ queue[1].typed = c
      /\ \A i \in DOMAIN queue' : /\ i + 1 \in DOMAIN queue /\ queue'[i] = queue[i + 1]
      /\ p # None /\ c.uid = p
  BY HeadServed
<1>2. /\ \A r \in People : /\ person'[r].cmd = person[r].cmd /\ person'[r].word = person[r].word
                           /\ r # p \/ x = None => person'[r] = person[r]
      /\ x = p => person'[p].mail = Mail
  BY ServedPeople DEF Serves
<1>3. NoAnswerWaits(q) => NoAnswerWaits(q)'
  BY <1>1 DEF NoAnswerWaits
<1>4. MemberEffect(Understood(c), g, h)
  BY DEF Serves, Effect
<1>5. PICK d : /\ MemberEffect(d, g, h)
               /\ d \in Requests(p) \/ d = Bad
               /\ d.code # "BAD" => d.code = c.code /\ d.an = c.an
               /\ c.code # "NEW_GROUP" => d.code = c.code
  BY <1>4, UnderstoodFields
<1>6. /\ d.code # "BAD" => d.uid = p
      /\ d.code = "BAD" \/ d.code = c.code
      /\ q # d.uid \/ q = p
  <2>1. d = Bad => d.uid = 0 /\ d.code = "BAD"
    BY DEF Bad, Command
  <2>2. q # 0
    BY PeopleNumbers
  <2>. QED  BY <1>5, <2>1, <2>2 DEF Requests
<1>7. ASSUME q # p \/ c.code # "INV_ANS" PROVE Same
  <2>1. q # d.uid \/ d.code # "INV_ANS"
    BY <1>6, <1>7
  <2>. QED  BY <1>5, <2>1 DEF MemberEffect
<1>8. \A w : Same /\ Right(q, w) => Right(q, w)'
  BY DEF Right
<1>9. Right(q, "none")'
  BY DEF Right
<1>. HIDE DEF Same, g
<1>10. CASE q # p
  <2>1. person'[q] = person[q] /\ Same
    BY <1>2, <1>7, <1>10
  <2>2. Right(q, person[q].word) /\ (person[q].mail # << >> => Right(q, Settles(q)))
    BY DEF Worded
  <2>3. Settles(q)' = Settles(q)
    BY <2>1 DEF Settles
  <2>4. \A w : Right(q, w) => h.closed \/ ((w = "in" => q \in h.mem) /\ (w = "out" => q \notin h.mem))
    BY <1>8, <2>1 DEF Right
  <2>. QED  BY <1>3, <2>1, <2>2, <2>3, <2>4, Zenon DEF Worded, Right
<1>11. CASE q = p
  <2>1. person[p].mail = << >>
    BY <1>1, <1>11 DEF Mailed
  <2>2. c.code = "INV_ANS" => person[p].word = "none"
    BY <1>1, <1>11 DEF Worded, NoAnswerWaits
  <2>3. Right(p, person[p].word)
    BY <1>11 DEF Worded
  <2>4. person'[p].word = person[p].word /\ person'[p].cmd = person[p].cmd
    BY <1>2
  <2>5. \A w : w = person[p].word =>
             h.closed \/ ((w = "in" => p \in h.mem) /\ (w = "out" => p \notin h.mem))
    <3>1. CASE c.code = "INV_ANS"
      BY <2>2, <3>1
    <3>2. CASE c.code # "INV_ANS"
      BY <1>7, <1>8, <1>11, <2>3, <3>2 DEF Right
    <3>. QED  BY <3>1, <3>2
  <2>6. Right(p, person[p].word)'
    BY <2>4, <2>5 DEF Right
  <2>7. CASE x = None
    <3>1. person'[p].mail = << >>
      BY <1>2, <2>1, <2>7
    <3>. QED  BY <1>3, <1>11, <2>4, <2>6, <3>1 DEF Worded
  <2>8. CASE x = p
    <3>1. person'[p].mail[1].code = reply'.code /\ person'[p].cmd = c
      BY <1>1, <1>2, <2>4, <2>8 DEF Mail, Awaited
    <3>2. Right(p, Settles(p))'
      <4>1. CASE c.code # "INV_ANS"
        <5>1. Settles(p)' = person'[p].word
          BY <3>1, <4>1 DEF Settles
        <5>. QED  BY <2>6, <5>1, Zenon DEF Right
      <4>2. CASE c.code = "INV_ANS"
        <5>1. d.code = "INV_ANS" /\ d.an = c.an /\ d.uid = p
          BY <1>5, <1>6, <4>2
        <5>2. c.an = 2 => h.closed \/ p \notin h.mem
          BY <1>5, <5>1 DEF MemberEffect
        <5>3. reply'.code = "JOIN_OK" => p \in h.mem
          BY <1>5, <5>1 DEF MemberEffect
        <5>4. Settles(p)' = IF c.an = 2 THEN "out" ELSE IF reply'.code = "JOIN_OK" THEN "in" ELSE "none"
          BY <3>1, <4>2 DEF Settles
        <5>. QED  BY <5>2, <5>3, <5>4 DEF Right
      <4>. QED  BY <4>1, <4>2
    <3>. QED  BY <1>3, <1>11, <2>4, <2>6, <3>2 DEF Worded
  <2>. QED  BY <2>7, <2>8
<1>. QED  BY <1>10, <1>11

(***************************************************************************)
(* Counting what a person has written, and what waits.                     *)
(***************************************************************************)
LEMMA ShiftCount ==
    ASSUME NEW n \in Nat, NEW Q \in SUBSET (1 .. n), NEW R \in SUBSET (1 .. n - 1),
           \A i \in 1 .. n - 1 : i \in R <=> i + 1 \in Q
    PROVE  /\ Cardinality(R) \in Nat /\ Cardinality(Q) \in Nat
           /\ Cardinality(R) = IF 1 \in Q THEN Cardinality(Q) - 1 ELSE Cardinality(Q)
<1>. DEFINE S == Q \ {1}
            f == [i \in S |-> i - 1]
<1>1. IsFiniteSet(Q)
  <2>1. IsFiniteSet(1 .. n)
    BY FS_Interval
  <2>. QED  BY <2>1, FS_Subset
<1>2. /\ IsFiniteSet(S) /\ Cardinality(Q) \in Nat
      /\ Cardinality(S) = IF 1 \in Q THEN Cardinality(Q) - 1 ELSE Cardinality(Q)
  BY <1>1, FS_RemoveElement, FS_CardinalityType
<1>3. \A i \in S : i - 1 \in R /\ i \in Int
  <2>. SUFFICES ASSUME NEW i \in S PROVE i - 1 \in R /\ i \in Int
    OBVIOUS
  <2>1. i \in 1 .. n /\ i # 1 /\ i \in Q
    OBVIOUS
  <2>2. PICK j \in 1 .. n - 1 : j = i - 1 /\ j + 1 = i
    BY <2>1
  <2>. QED  BY <2>1, <2>2
<1>4. f \in [S -> R]
  BY <1>3
<1>5. \A i, j \in S : f[i] = f[j] => i = j
  BY <1>3
<1>6. \A r \in R : \E i \in S : f[i] = r
  <2>. SUFFICES ASSUME NEW r \in R PROVE \E i \in S : f[i] = r
    OBVIOUS
  <2>1. r \in 1 .. n - 1 /\ r + 1 \in Q /\ r + 1 # 1 /\ (r + 1) - 1 = r
    OBVIOUS
  <2>. QED  BY <2>1
<1>. HIDE DEF S, f
<1>7. ExistsBijection(S, R)
  <2>1. f \in Bijection(S, R)
    BY <1>4, <1>5, <1>6 DEF Bijection, Injection, Surjection, IsInjective
  <2>. QED  BY <2>1 DEF ExistsBijection
<1>8. IsFiniteSet(R) /\ Cardinality(R) = Cardinality(S)
  BY <1>2, <1>7, FS_Bijection
<1>9. Cardinality(R) \in Nat
  BY <1>8, FS_CardinalityType
<1>. QED  BY <1>2, <1>8, <1>9

LEMMA GrowCount ==
    ASSUME NEW n \in Nat, NEW Q \in SUBSET (1 .. n), NEW R, NEW yes \in BOOLEAN,
           R = IF yes THEN Q \cup {n + 1} ELSE Q
    PROVE  /\ Cardinality(Q) \in Nat
           /\ Cardinality(R) = Cardinality(Q) + IF yes THEN 1 ELSE 0
<1>1. IsFiniteSet(Q)
  <2>1. IsFiniteSet(1 .. n)
    BY FS_Interval
  <2>. QED  BY <2>1, FS_Subset
<1>2. Cardinality(Q) \in Nat
  BY <1>1, FS_CardinalityType
<1>3. CASE yes
  <2>1. n + 1 \notin Q
    OBVIOUS
  <2>2. Cardinality(Q \cup {n + 1}) = Cardinality(Q) + 1
    BY <1>1, <2>1, FS_AddElement
  <2>. QED  BY <1>2, <1>3, <2>2
<1>4. CASE ~yes
  BY <1>2, <1>4
<1>. QED  BY <1>3, <1>4

WritesOf(p) == {i \in DOMAIN queue : queue[i].typed.uid = p /\ queue[i].typed.code \in {"POST", "REPLY"}}
Written1(p) == Cardinality(ItemsOf(p))
Pending(p) == Cardinality(WritesOf(p))
Open(p) == IF Waits(p) /\ Writes(p) /\ person[p].mail = << >> THEN 1 ELSE 0

\* Every item of p is acknowledged, or its acknowledgement is on its way, or it comes of a
\* command given up or still running; a writing that waits counts as one already.
Counted(p) ==
    /\ person[p].ok + Unread(p) =< Written1(p)
    /\ Written1(p) + Pending(p) =< person[p].ok + Unread(p) + person[p].lost + Open(p)

LEMMA SetsTyped ==
    ASSUME Talk, Connected, NEW p
    PROVE  /\ Len(Feed) \in Nat /\ ItemsOf(p) \in SUBSET (1 .. Len(Feed))
           /\ Len(queue) \in Nat /\ WritesOf(p) \in SUBSET (1 .. Len(queue))
           /\ Written1(p) \in Nat /\ Pending(p) \in Nat
<1>1. /\ Len(Feed) \in Nat /\ ItemsOf(p) \in SUBSET (1 .. Len(Feed))
      /\ Len(queue) \in Nat /\ WritesOf(p) \in SUBSET (1 .. Len(queue))
  BY FeedTyped, QueueFacts DEF ItemsOf, WritesOf, Feed, IDG
<1>2. Written1(p) \in Nat /\ Pending(p) \in Nat
  BY <1>1, GrowCount, Zenon DEF Written1, Pending
<1>. QED  BY <1>1, <1>2

LEMMA ItemsServed ==
    ASSUME Talk, Connected, NEW p \in People, NEW c \in Commands(p), NEW x, Serves(p, c, x),
           NEW q
    PROVE  Written1(q)' = Written1(q) + IF Wrote /\ q = p THEN 1 ELSE 0
<1>1. Len(Feed) \in Nat /\ ItemsOf(q) \in SUBSET (1 .. Len(Feed))
  BY SetsTyped
<1>2. ItemsOf(q) = {k \in DOMAIN Feed : Feed[k].author = q}
      /\ ItemsOf(q)' = {k \in DOMAIN Feed' : Feed'[k].author = q}
  BY DEF ItemsOf, Feed, IDG
<1>3. ItemsOf(q)' = IF Wrote /\ q = p THEN ItemsOf(q) \cup {Len(Feed) + 1} ELSE ItemsOf(q)
  <2>1. CASE Unwritten
    BY <1>2, <2>1 DEF Unwritten
  <2>2. CASE Written(p, c)
    <3>1. /\ DOMAIN Feed' = DOMAIN Feed \cup {Len(Feed) + 1}
          /\ \A k \in DOMAIN Feed : Feed'[k] = Feed[k]
          /\ Feed'[Len(Feed) + 1] = NewItem(p)
          /\ Len(Feed) + 1 \notin DOMAIN Feed
      BY <2>2, WrittenFeed
    <3>3. NewItem(p).author = p
      BY DEF NewItem
    <3>2. Wrote
      BY <2>2 DEF Written
    <3>. QED  BY <1>2, <3>1, <3>2, <3>3
  <2>. QED  BY <2>1, <2>2, ServedFeed
<1>4. PICK R : R = ItemsOf(q)'
  OBVIOUS
<1>5. PICK yes \in BOOLEAN : yes <=> (Wrote /\ q = p)
  OBVIOUS
<1>6. Cardinality(R) = Cardinality(ItemsOf(q)) + IF yes THEN 1 ELSE 0
  BY <1>1, <1>3, <1>4, <1>5, GrowCount
<1>. QED  BY <1>4, <1>5, <1>6 DEF Written1

LEMMA PendingServed ==
    ASSUME Connected, Live, NEW p \in People, NEW c \in Commands(p), NEW x \in {p, None},
           Serves(p, c, x), NEW q
    PROVE  /\ Pending(q) \in Nat /\ Pending(q)' \in Nat
           /\ Pending(q)' = Pending(q) - IF q = p /\ c.code \in {"POST", "REPLY"} THEN 1 ELSE 0
<1>1. /\ 1 \in DOMAIN queue /\ queue[1].typed = c /\ c.uid = p
      /\ DOMAIN queue' = 1 .. Len(queue) - 1
      /\ \A i \in DOMAIN queue' : /\ i + 1 \in DOMAIN queue /\ queue'[i] = queue[i + 1]
  BY HeadServed
<1>2. Len(queue) \in Nat /\ DOMAIN queue = 1 .. Len(queue)
  BY QueueFacts
<1>. DEFINE n == Len(queue)
            Q == WritesOf(q)
<1>3. PICK R : R = WritesOf(q)'
  OBVIOUS
<1>4. Q \in SUBSET (1 .. n) /\ R \in SUBSET (1 .. n - 1)
  BY <1>1, <1>2, <1>3 DEF WritesOf
<1>5. \A i \in 1 .. n - 1 : i \in R <=> i + 1 \in Q
  BY <1>1, <1>2, <1>3 DEF WritesOf
<1>6. 1 \in Q <=> q = p /\ c.code \in {"POST", "REPLY"}
  BY <1>1 DEF WritesOf
<1>7. Cardinality(R) \in Nat /\ Cardinality(Q) \in Nat
      /\ Cardinality(R) = IF 1 \in Q THEN Cardinality(Q) - 1 ELSE Cardinality(Q)
  <2>. HIDE DEF Q, n
  <2>1. n \in Nat
    BY <1>2 DEF n
  <2>. QED  BY <1>4, <1>5, <2>1, ShiftCount, Zenon
<1>8. Pending(q) = Cardinality(Q) /\ Pending(q)' = Cardinality(R)
  BY <1>3 DEF Pending
<1>. HIDE DEF Q
<1>. QED  BY <1>6, <1>7, <1>8

LEMMA CountServed ==
    ASSUME Talk, Connected, Peopled, Live, NEW p \in People, NEW c \in Commands(p),
           NEW x \in {p, None}, Serves(p, c, x), NEW q \in People, Mailed(q), Counted(q)
    PROVE  Counted(q)'
<1>1. /\ Awaited(p, c, x) /\ p # None
  BY HeadServed
<1>2. /\ \A r \in People : /\ person'[r].cmd = person[r].cmd /\ person'[r].ok = person[r].ok
                           /\ person'[r].lost = person[r].lost
                           /\ r # p \/ x = None => person'[r] = person[r]
      /\ x = p => person'[p].mail = Mail
  BY ServedPeople DEF Serves
<1>3. /\ Pending(q) \in Nat /\ Pending(q)' \in Nat
      /\ Pending(q)' = Pending(q) - IF q = p /\ c.code \in {"POST", "REPLY"} THEN 1 ELSE 0
  BY PendingServed
<1>4. Written1(q)' = Written1(q) + IF Wrote /\ q = p THEN 1 ELSE 0
  BY ItemsServed
<1>5. Written1(q) \in Nat
  BY SetsTyped
<1>6. person[q].ok \in Nat /\ person[q].lost \in Nat
  BY DEF Peopled, Person
<1>7. Wrote => c.code \in {"POST", "REPLY"}
  BY ServedFeed DEF Unwritten, Written
<1>8. Unread(q) \in 0 .. 1 /\ Open(q) \in 0 .. 1
  BY DEF Unread, Open
<1>9. PICK w \in Nat, n \in Nat, u \in 0 .. 1, o \in 0 .. 1, a \in Nat, l \in Nat :
         /\ w = Written1(q) /\ n = Pending(q) /\ u = Unread(q) /\ o = Open(q)
         /\ a = person[q].ok /\ l = person[q].lost
  BY <1>3, <1>5, <1>6, <1>8
<1>10. a + u =< w /\ w + n =< a + u + l + o
  BY <1>9 DEF Counted
<1>11. SUFFICES /\ a + Unread(q)' =< Written1(q)'
                /\ Written1(q)' + Pending(q)' =< a + Unread(q)' + l + Open(q)'
  BY <1>2, <1>9 DEF Counted
<1>12. CASE q # p
  <2>1. Unread(q)' = u /\ Open(q)' = o
    BY <1>2, <1>9, <1>12 DEF Unread, Open, Waits, Writes
  <2>2. Written1(q)' = w /\ Pending(q)' = n
    BY <1>3, <1>4, <1>9, <1>12
  <2>. QED  BY <1>10, <2>1, <2>2
<1>13. CASE q = p /\ x = None
  <2>1. Unread(q)' = u /\ Open(q)' = o
    BY <1>2, <1>9, <1>13 DEF Unread, Open, Waits, Writes
  <2>2. CASE Wrote
    <3>1. Written1(q)' = w + 1 /\ Pending(q)' = n - 1
      BY <1>3, <1>4, <1>7, <1>9, <1>13, <2>2
    <3>. QED  BY <1>10, <2>1, <3>1
  <2>3. CASE ~Wrote
    <3>1. Written1(q)' = w /\ Pending(q)' \in {n, n - 1}
      BY <1>3, <1>4, <1>9, <1>13, <2>3
    <3>. QED  BY <1>10, <2>1, <3>1
  <2>. QED  BY <2>2, <2>3
<1>14. CASE q = p /\ x = p
  <2>1. person[p].cmd = c /\ person[p].mail = << >>
    BY <1>1, <1>14 DEF Awaited
  <2>2. c # Bad
    BY CommandFields
  <2>3. u = 0 /\ o = IF c.code \in {"POST", "REPLY"} THEN 1 ELSE 0
    BY <1>9, <1>14, <2>1, <2>2 DEF Unread, Open, Waits, Writes
  <2>4. Mail # << >> /\ Mail[1].code = reply'.code
    BY DEF Mail
  <2>5. Unread(q)' = (IF Wrote THEN 1 ELSE 0) /\ Open(q)' = 0
    BY <1>2, <1>14, <2>4 DEF Unread, Open, Wrote
  <2>6. CASE Wrote
    <3>1. Written1(q)' = w + 1 /\ Pending(q)' = n - 1 /\ o = 1 /\ Unread(q)' = 1
      BY <1>3, <1>4, <1>7, <1>9, <1>14, <2>3, <2>5, <2>6
    <3>. QED  BY <1>10, <2>3, <2>5, <3>1
  <2>7. CASE ~Wrote
    <3>1. Written1(q)' = w /\ Pending(q)' = n - o /\ Unread(q)' = 0
      BY <1>3, <1>4, <1>9, <1>14, <2>3, <2>5, <2>7
    <3>. QED  BY <1>10, <2>3, <2>5, <3>1
  <2>. QED  BY <2>6, <2>7
<1>. QED  BY <1>12, <1>13, <1>14

(***************************************************************************)
(* The types of an answer.                                                 *)
(***************************************************************************)
LEMMA PutNat == ASSUME NEW v \in Nat PROVE wire_put_u32_be(v) \in Seq(Nat)
<1>1. BYTE \in Nat \ {0}
  BY ByteBase
<1>2. \A n \in Int : n % BYTE \in Nat
  BY <1>1
<1>3. (BYTE * BYTE) \in Nat \ {0} /\ (BYTE * BYTE * BYTE) \in Nat \ {0}
  <2>1. BYTE * 1 + BYTE =< BYTE * BYTE /\ BYTE * BYTE \in Nat
    BY <1>1, ByteBase, TimesMore
  <2>. DEFINE d == BYTE * BYTE
  <2>2. d \in Nat \ {0}
    BY <1>1, <2>1
  <2>. HIDE DEF d
  <2>3. BYTE > 1
    BY ByteBase
  <2>4. d * 1 + d =< d * BYTE /\ d * BYTE \in Nat
    BY <1>1, <2>2, <2>3, TimesMore
  <2>5. d * BYTE \in Nat \ {0}
    BY <2>2, <2>4
  <2>. QED  BY <2>2, <2>5 DEF d
<1>4. \A d \in Nat \ {0} : v \div d \in Int
  OBVIOUS
<1>5. /\ (v \div (BYTE * BYTE * BYTE)) % BYTE \in Nat /\ (v \div (BYTE * BYTE)) % BYTE \in Nat
      /\ (v \div BYTE) % BYTE \in Nat /\ v % BYTE \in Nat
  <2>1. v \div (BYTE * BYTE * BYTE) \in Int /\ v \div (BYTE * BYTE) \in Int /\ v \div BYTE \in Int
        /\ v \in Int
    BY <1>1, <1>3, <1>4
  <2>. QED  BY <1>2, <2>1, Zenon
<1>6. ASSUME NEW a \in Nat, NEW b \in Nat, NEW c \in Nat, NEW d \in Nat
      PROVE  <<a, b, c, d>> \in Seq(Nat)
  OBVIOUS
<1>. QED  BY <1>5, <1>6, Zenon DEF wire_put_u32_be

LEMMA JoinNat == ASSUME NEW s \in Seq(Nat), NEW t \in Seq(Nat) PROVE s \o t \in Seq(Nat)
OBVIOUS

LEMMA AnsweredTyped ==
    ASSUME NEW r \in Reply, r.code = "FEED_OK" => Answered(r) \in Seq(Nat)
    PROVE  Answered(r) \in Seq(Nat)
<1>1. /\ wire_put_u32_be(r.idg) \in Seq(Nat) /\ wire_put_u32_be(r.numb) \in Seq(Nat)
      /\ wire_put_u32_be(r.numr) \in Seq(Nat) /\ << >> \in Seq(Nat)
  <2>1. r.idg \in Nat /\ r.numb \in Nat /\ r.numr \in Nat
    BY DEF Reply
  <2>2. << >> \in Seq(Nat)
    OBVIOUS
  <2>. QED  BY <2>1, <2>2, PutNat, Zenon
<1>2. CASE r.code = "POST_OK"
  <2>1. Answered(r) = wire_put_u32_be(r.idg) \o wire_put_u32_be(r.numb) \o << >>
    BY <1>2 DEF Answered
  <2>2. wire_put_u32_be(r.idg) \o wire_put_u32_be(r.numb) \in Seq(Nat)
    BY <1>1, JoinNat, Zenon
  <2>3. (wire_put_u32_be(r.idg) \o wire_put_u32_be(r.numb)) \o << >> \in Seq(Nat)
    BY <1>1, <2>2, JoinNat, Zenon
  <2>. QED  BY <2>1, <2>3, Zenon
<1>3. CASE r.code = "REPLY_OK"
  <2>1. Answered(r) = wire_put_u32_be(r.idg) \o wire_put_u32_be(r.numb) \o wire_put_u32_be(r.numr)
    BY <1>3 DEF Answered
  <2>2. wire_put_u32_be(r.idg) \o wire_put_u32_be(r.numb) \in Seq(Nat)
    BY <1>1, JoinNat, Zenon
  <2>3. (wire_put_u32_be(r.idg) \o wire_put_u32_be(r.numb)) \o wire_put_u32_be(r.numr) \in Seq(Nat)
    BY <1>1, <2>2, JoinNat, Zenon
  <2>. QED  BY <2>1, <2>3, Zenon
<1>4. CASE r.code \in {"ERR", "ACK"}
  <2>1. Answered(r) = wire_put_zeros(15)
    BY <1>4 DEF Answered
  <2>2. [i \in 1 .. 15 |-> 0] \in [1 .. 15 -> Nat] /\ 15 \in Nat
    OBVIOUS
  <2>. QED  BY <2>1, <2>2, SeqOf DEF wire_put_zeros
<1>5. CASE r.code \notin {"POST_OK", "REPLY_OK", "FEED_OK", "ERR", "ACK"}
  <2>1. Answered(r) = << >>
    BY <1>5 DEF Answered
  <2>. QED  BY <2>1
<1>. QED  BY <1>2, <1>3, <1>4, <1>5

LEMMA PeopledServed ==
    ASSUME Talk, TextsKept, Peopled, NEW p \in People, NEW c \in Commands(p), NEW x \in {p, None},
           Serves(p, c, x)
    PROVE  Peopled'
<1>1. PICK r : r = reply'
  OBVIOUS
<1>2. r \in Reply
  BY <1>1 DEF Serves, IInv, TypeOK
<1>3. r.code = "FEED_OK" => Answered(r) \in Seq(Nat)
  <2>. SUFFICES ASSUME r.code = "FEED_OK" PROVE Answered(r) \in Seq(Nat)
    OBVIOUS
  <2>1. PICK i : i \in DOMAIN Feed /\ r.idg = IDG /\ r.items = After(groups[1], i)
    BY <1>1 DEF Serves, Effect, ReadEffect, feed_index_after, Feed
  <2>2. Len(Feed) - i \in Nat /\ Answered(r) = FeedBytes(IDG, PageLines(i, Len(Feed) - i))
    BY <2>1, AnsweredPage
  <2>3. i + (Len(Feed) - i) =< Len(Feed)
    BY <2>1, FeedTyped
  <2>4. FeedBytes(IDG, PageLines(i, Len(Feed) - i)) \in Bytes
    BY <2>1, <2>2, <2>3, PageTyped, Zenon
  <2>. QED  BY <2>2, <2>4, BytesNat
<1>4. Answered(r) \in Seq(Nat)
  BY <1>2, <1>3, AnsweredTyped
<1>5. r.code \in Codes
  BY <1>2 DEF Reply
<1>6. Mail \in Seq([code : Codes, body : Seq(Nat)])
  <2>1. [code |-> r.code, body |-> Answered(r)] \in [code : Codes, body : Seq(Nat)]
    BY <1>4, <1>5
  <2>2. Mail = <<[code |-> r.code, body |-> Answered(r)]>>
    BY <1>1, Zenon DEF Mail
  <2>. DEFINE M == [code : Codes, body : Seq(Nat)]
              e == [code |-> r.code, body |-> Answered(r)]
  <2>3. e \in M
    BY <2>1
  <2>. HIDE DEF M, e
  <2>4. <<e>> \in Seq(M)
    BY <2>3
  <2>. QED  BY <2>2, <2>4, Zenon DEF M, e
<1>7. Delivered(p, x)
  BY DEF Serves
<1>8. \A q \in People : person'[q].cmd = person[q].cmd
  BY <1>7, ServedPeople
<1>9. person' \in [People -> Person]
  <2>1. CASE x = None
    BY <1>7, <2>1 DEF Delivered, Peopled
  <2>2. CASE x = p
    <3>1. person' = [person EXCEPT ![p] = [person[p] EXCEPT !.mail = Mail]]
      <4>1. p # None
        BY PeopleNumbers
      <4>2. person' = [person EXCEPT ![p].mail = Mail]
        BY <1>7, <2>2, <4>1 DEF Delivered
      <4>. HIDE DEF Mail
      <4>. QED  BY <4>2
    <3>. DEFINE y == [person[p] EXCEPT !.mail = Mail]
    <3>. HIDE DEF Mail
    <3>2. person[p] \in Person /\ person \in [People -> Person]
      BY DEF Peopled
    <3>3. y \in Person
      BY <1>6, <3>2 DEF Person
    <3>. HIDE DEF y
    <3>4. [person EXCEPT ![p] = y] \in [People -> Person]
      BY <3>2, <3>3
    <3>. QED  BY <3>1, <3>4, Zenon DEF y
  <2>. QED  BY <2>1, <2>2
<1>. QED  BY <1>8, <1>9 DEF Peopled

(***************************************************************************)
(* The inductive invariant.                                                *)
(***************************************************************************)
PersonOK(p) == Mailed(p) /\ Posted(p) /\ Paged(p) /\ Heeded(p) /\ Worded(p) /\ Counted(p)
CmdInv == /\ Talk /\ Connected /\ Peopled /\ TextsKept /\ NetOK /\ EarOK /\ Live
          /\ \A p \in People : PersonOK(p)

LEMMA ServeInv == ASSUME CmdInv, serve_client PROVE CmdInv'
<1>1. /\ Talk /\ Connected /\ Peopled /\ TextsKept /\ NetOK /\ EarOK /\ Live
      /\ \A p \in People : Mailed(p) /\ Posted(p) /\ Paged(p) /\ Heeded(p) /\ Worded(p) /\ Counted(p)
  BY DEF CmdInv, PersonOK
<1>2. PICK p \in People : \E c \in Commands(p), x \in {p, None} : Serves(p, c, x)
  BY <1>1, ServeShape
<1>3. PICK c \in Commands(p), x \in {p, None} : Serves(p, c, x)
  BY <1>2
<1>4. Awaited(p, c, x)
  BY <1>1, <1>3, HeadServed
<1>5. Talk' /\ TextsKept' /\ NetOK' /\ EarOK'
  BY <1>1, <1>3, TalkServed, TextsServed, NetServed, EarServed
<1>6. Peopled'
  BY <1>1, <1>3, PeopledServed
<1>7. Live' /\ Connected' /\ \A q \in People : Mailed(q)'
  BY <1>1, <1>3, LiveServed
<1>8. ASSUME NEW q \in People
      PROVE  Posted(q)' /\ Paged(q)' /\ Heeded(q)' /\ Worded(q)' /\ Counted(q)'
  BY <1>1, <1>3, <1>4, PostedServed, PagedServed, WordServed, CountServed
<1>. QED  BY <1>5, <1>6, <1>7, <1>8 DEF CmdInv, PersonOK

(***************************************************************************)
(* The steps of the client.                                                *)
(***************************************************************************)
LEMMA TalkStays ==
    ASSUME CmdInv, UNCHANGED <<vars, net, texts>>
    PROVE  Talk' /\ TextsKept' /\ NetOK' /\ Stable /\ groups' = groups /\ Feed' = Feed
<1>1. groups' = groups /\ texts' = texts /\ net' = net /\ UNCHANGED vars
  BY DEF vars
<1>2. IInv'
  BY <1>1, NextIInv DEF CmdInv, Talk
<1>3. Talk' /\ Feed' = Feed
  BY <1>1, <1>2 DEF CmdInv, Talk, OneGroup, ItemOK, Feed
<1>4. TextsKept'
  BY <1>1, <1>3 DEF CmdInv, TextsKept, TextOf, ItemKey
<1>5. Stable
  BY <1>1, <1>3, FeedTyped DEF CmdInv, Stable, TextsKept
<1>6. NetOK'
  BY <1>1, <1>3 DEF CmdInv, NetOK, SoundPacket, Announcements
<1>. QED  BY <1>1, <1>3, <1>4, <1>5, <1>6

LEMMA OnePerson ==
    ASSUME Peopled, NEW p \in People, NEW r \in Person, r.cmd \in Commands(p) \cup {Bad},
           person' = [person EXCEPT ![p] = r]
    PROVE  Peopled' /\ person'[p] = r /\ \A q \in People : q # p => person'[q] = person[q]
BY DEF Peopled

\* Whoever does nothing keeps what he had, as long as his connections stay.
SamePerson(q) ==
    /\ person'[q].cmd = person[q].cmd /\ person'[q].mail = person[q].mail
    /\ person'[q].ok = person[q].ok /\ person'[q].lost = person[q].lost
    /\ person'[q].word = person[q].word /\ person'[q].knew = person[q].knew

LEMMA OthersStay ==
    ASSUME Talk, Connected, Stable, groups' = groups, NEW q \in People, SamePerson(q),
           Mailed(q), Posted(q), Paged(q), Heeded(q), Worded(q), Counted(q),
           Mailed(q)', NoAnswerWaits(q) => NoAnswerWaits(q)', Pending(q)' = Pending(q)
    PROVE  Posted(q)' /\ Paged(q)' /\ Heeded(q)' /\ Worded(q)' /\ Counted(q)'
<1>. USE DEF SamePerson
<1>1. Posted(q)' /\ Paged(q)' /\ Heeded(q)'
  BY PostedStays, PagedStays DEF Heeded, Feed
<1>2. Worded(q)'
  BY DEF Worded, Right, Settles
<1>3. Counted(q)'
  <2>1. Written1(q)' = Written1(q) /\ Unread(q)' = Unread(q) /\ Open(q)' = Open(q)
    BY DEF Written1, ItemsOf, Unread, Open, Waits, Writes
  <2>. QED  BY <2>1 DEF Counted
<1>. QED  BY <1>1, <1>2, <1>3

LEMMA RunsPerson ==
    ASSUME Peopled, NEW p \in People, NEW c, one_cmd_plain(p, c)
    PROVE  person' = [person EXCEPT ![p] =
              [cmd |-> c, mail |-> person[p].mail, runs |-> person[p].runs + 1,
               ok |-> person[p].ok, lost |-> person[p].lost,
               word |-> IF c.code = "INV_ANS" THEN "none" ELSE person[p].word,
               knew |-> IF p \in Listeners THEN ear[p].news ELSE 0]]
<1>1. person[p] \in Person /\ person \in [People -> Person]
  BY DEF Peopled
<1>2. person' = [person EXCEPT ![p].cmd = c, ![p].runs = @ + 1,
                                ![p].word = IF c.code = "INV_ANS" THEN "none" ELSE person[p].word,
                                ![p].knew = IF p \in Listeners THEN ear[p].news ELSE 0]
  BY DEF one_cmd_plain
<1>3. person' = [q \in People |-> IF q = p THEN person'[p] ELSE person[q]]
  BY <1>1, <1>2
<1>4. person'[p] = [person[p] EXCEPT !.cmd = c, !.runs = @ + 1,
                      !.word = IF c.code = "INV_ANS" THEN "none" ELSE person[p].word,
                      !.knew = IF p \in Listeners THEN ear[p].news ELSE 0]
  BY <1>1, <1>2, Zenon
<1>5. person'[p] = [cmd |-> c, mail |-> person[p].mail, runs |-> person[p].runs + 1,
               ok |-> person[p].ok, lost |-> person[p].lost,
               word |-> IF c.code = "INV_ANS" THEN "none" ELSE person[p].word,
               knew |-> IF p \in Listeners THEN ear[p].news ELSE 0]
  BY <1>1, <1>4 DEF Person
<1>. QED  BY <1>1, <1>3, <1>5

LEMMA EndsPerson ==
    ASSUME Peopled, NEW p \in People, cmd_ends(p)
    PROVE  person' = [person EXCEPT ![p] =
              [cmd |-> Bad, mail |-> << >>, runs |-> person[p].runs,
               ok |-> person[p].ok + Unread(p), lost |-> person[p].lost, word |-> Settles(p),
               knew |-> person[p].knew]]
<1>1. person[p] \in Person /\ person \in [People -> Person] /\ person[p].mail # << >>
  BY DEF Peopled, cmd_ends
<1>2. PICK w : w = Settles(p)
  OBVIOUS
<1>3. person' = [person EXCEPT
          ![p].cmd = Bad, ![p].mail = << >>, ![p].word = w,
          ![p].ok = IF person[p].mail[1].code \in {"POST_OK", "REPLY_OK"} THEN @ + 1 ELSE @]
  BY <1>2 DEF cmd_ends
<1>4. person[p].ok + Unread(p) =
         IF person[p].mail[1].code \in {"POST_OK", "REPLY_OK"} THEN person[p].ok + 1 ELSE person[p].ok
  BY <1>1 DEF Unread, Person
<1>. QED  BY <1>1, <1>2, <1>3, <1>4 DEF Person

LEMMA GivesPerson ==
    ASSUME Peopled, NEW p \in People, gives_up(p)
    PROVE  person' = [person EXCEPT ![p] =
              [cmd |-> Bad, mail |-> person[p].mail, runs |-> person[p].runs, ok |-> person[p].ok,
               lost |-> person[p].lost + (IF Writes(p) THEN 1 ELSE 0),
               word |-> person[p].word, knew |-> person[p].knew]]
<1>1. person[p] \in Person /\ person \in [People -> Person]
  BY DEF Peopled
<1>2. person' = [person EXCEPT ![p].cmd = Bad, ![p].lost = @ + IF Writes(p) THEN 1 ELSE 0]
  BY DEF gives_up
<1>3. person' = [q \in People |-> IF q = p THEN person'[p] ELSE person[q]]
  BY <1>1, <1>2
<1>4. person'[p] = [person[p] EXCEPT !.cmd = Bad, !.lost = @ + IF Writes(p) THEN 1 ELSE 0]
  BY <1>1, <1>2, Zenon
<1>5. person'[p] = [cmd |-> Bad, mail |-> person[p].mail, runs |-> person[p].runs, ok |-> person[p].ok,
               lost |-> person[p].lost + (IF Writes(p) THEN 1 ELSE 0),
               word |-> person[p].word, knew |-> person[p].knew]
  BY <1>1, <1>4 DEF Person
<1>. QED  BY <1>1, <1>3, <1>5

\* A connection is added after the others.
LEMMA QueueGrown ==
    ASSUME Connected, NEW p \in People, NEW c \in Commands(p), one_cmd_plain(p, c)
    PROVE  /\ Connected' /\ DOMAIN queue' = DOMAIN queue \cup {Len(queue) + 1}
           /\ \A i \in DOMAIN queue : queue'[i] = queue[i]
           /\ queue'[Len(queue) + 1].typed = c /\ queue'[Len(queue) + 1].client = p /\ c.uid = p
           /\ Len(queue) \in Nat /\ DOMAIN queue = 1 .. Len(queue)
<1>. DEFINE e == Conn(c, p)
<1>1. queue' = Append(queue, e) /\ Len(queue) < BACKLOG
  BY DEF one_cmd_plain, Conn, Room
<1>2. c \in CommandType /\ c.uid = p /\ Sent(c) \in Bytes
  BY CommandFields, CommandsSendable, RequestRead DEF Requests
<1>3. e \in Connections /\ e.typed = c /\ e.client = p
  BY <1>2 DEF Connections, Conn
<1>4. queue \in Seq(Connections) /\ BACKLOG \in Nat
  BY CommandBounds DEF Connected
<1>. HIDE DEF e
<1>5. /\ queue' \in Seq(Connections) /\ Len(queue') = Len(queue) + 1
      /\ DOMAIN queue' = DOMAIN queue \cup {Len(queue) + 1}
      /\ \A i \in DOMAIN queue : queue'[i] = queue[i]
      /\ queue'[Len(queue) + 1] = e /\ Len(queue) \in Nat /\ DOMAIN queue = 1 .. Len(queue)
  BY <1>1, <1>3, <1>4
<1>6. Len(queue') =< BACKLOG
  BY <1>1, <1>4, <1>5
<1>. QED  BY <1>2, <1>3, <1>5, <1>6 DEF Connected

LEMMA PendingGrown ==
    ASSUME Connected, NEW p \in People, NEW c \in Commands(p), one_cmd_plain(p, c), NEW q
    PROVE  /\ Pending(q) \in Nat
           /\ Pending(q)' = Pending(q) + IF q = p /\ c.code \in {"POST", "REPLY"} THEN 1 ELSE 0
<1>1. /\ DOMAIN queue' = DOMAIN queue \cup {Len(queue) + 1}
      /\ \A i \in DOMAIN queue : queue'[i] = queue[i]
      /\ queue'[Len(queue) + 1].typed = c /\ c.uid = p
      /\ Len(queue) \in Nat /\ DOMAIN queue = 1 .. Len(queue)
  BY QueueGrown
<1>. DEFINE n == Len(queue)
            Q == WritesOf(q)
<1>2. PICK R : R = WritesOf(q)'
  OBVIOUS
<1>3. PICK yes \in BOOLEAN : yes <=> (q = p /\ c.code \in {"POST", "REPLY"})
  OBVIOUS
<1>4. Q \in SUBSET (1 .. n)
  BY <1>1 DEF WritesOf
<1>5. R = IF yes THEN Q \cup {n + 1} ELSE Q
  BY <1>1, <1>2, <1>3 DEF WritesOf
<1>6. Cardinality(Q) \in Nat /\ Cardinality(R) = Cardinality(Q) + IF yes THEN 1 ELSE 0
  <2>. HIDE DEF Q, n
  <2>1. n \in Nat
    BY <1>1 DEF n
  <2>. QED  BY <1>4, <1>5, <2>1, GrowCount, Zenon
<1>. QED  BY <1>2, <1>3, <1>6 DEF Pending

LEMMA RunInv ==
    ASSUME CmdInv, NEW p \in People, NEW c \in Commands(p), one_cmd_plain(p, c)
    PROVE  CmdInv'
<1>1. /\ Talk /\ Connected /\ Peopled /\ TextsKept /\ EarOK /\ Live
      /\ \A q \in People : Mailed(q) /\ Posted(q) /\ Paged(q) /\ Heeded(q) /\ Worded(q) /\ Counted(q)
  BY DEF CmdInv, PersonOK
<1>2. UNCHANGED <<vars, net, texts, ear>> /\ ~Waits(p)
  BY DEF one_cmd_plain
<1>3. Talk' /\ TextsKept' /\ NetOK' /\ Stable /\ groups' = groups /\ Feed' = Feed
  BY <1>2, TalkStays
<1>4. EarOK'
  BY <1>1, <1>2, <1>3 DEF EarOK, HeardOK
<1>5. /\ Connected' /\ DOMAIN queue' = DOMAIN queue \cup {Len(queue) + 1}
      /\ \A i \in DOMAIN queue : queue'[i] = queue[i]
      /\ queue'[Len(queue) + 1].typed = c /\ queue'[Len(queue) + 1].client = p /\ c.uid = p
      /\ Len(queue) \in Nat /\ DOMAIN queue = 1 .. Len(queue)
  BY <1>1, QueueGrown
<1>. DEFINE r == [cmd |-> c, mail |-> person[p].mail, runs |-> person[p].runs + 1,
                  ok |-> person[p].ok, lost |-> person[p].lost,
                  word |-> IF c.code = "INV_ANS" THEN "none" ELSE person[p].word,
                  knew |-> IF p \in Listeners THEN ear[p].news ELSE 0]
<1>6. r \in Person /\ r.cmd \in Commands(p) \cup {Bad} /\ person' = [person EXCEPT ![p] = r]
  <2>1. person[p] \in Person /\ c \in CommandType
    BY <1>1, CommandFields DEF Peopled
  <2>3. (IF p \in Listeners THEN ear[p].news ELSE 0) \in Nat
    BY <1>1 DEF EarOK, Ear
  <2>2. r \in Person
    BY <2>1, <2>3 DEF Person
  <2>. QED  BY <1>1, <2>2, RunsPerson
<1>7. r.cmd = c /\ r.mail = person[p].mail /\ r.ok = person[p].ok /\ r.lost = person[p].lost
      /\ r.word = (IF c.code = "INV_ANS" THEN "none" ELSE person[p].word)
      /\ r.knew = IF p \in Listeners THEN ear[p].news ELSE 0
  OBVIOUS
<1>8. Peopled' /\ person'[p] = r /\ \A q \in People : q # p => person'[q] = person[q]
  <2>. HIDE DEF r
  <2>. QED  BY <1>1, <1>6, OnePerson
<1>. HIDE DEF r
<1>9. person[p].cmd = Bad /\ person[p].mail = << >> /\ c # Bad
  BY <1>1, <1>2, CommandFields DEF Mailed, Waits
<1>10. \A i \in DOMAIN queue : queue[i].client \in {None, queue[i].typed.uid}
                               /\ queue[i].client # p /\ queue[i].typed.uid \in People
  <2>1. \A i \in DOMAIN queue : queue[i].client = p => person[p].cmd = queue[i].typed
    BY <1>1, PeopleNumbers DEF Live
  <2>2. \A i \in DOMAIN queue : queue[i].typed # Bad
    <3>. TAKE i \in DOMAIN queue
    <3>1. queue[i] \in Connections
      BY <1>1, QueueFacts
    <3>. QED  BY <3>1, ConnFields, CommandFields
  <2>. QED  BY <1>1, <1>9, <2>1, <2>2, QueueFacts
<1>11. Live'
  <2>. SUFFICES ASSUME NEW i \in DOMAIN queue', queue'[i].client # None
                PROVE  /\ person'[queue'[i].client].cmd = queue'[i].typed
                       /\ person'[queue'[i].client].mail = << >>
                       /\ \A j \in DOMAIN queue' : i < j => queue'[j].typed.uid # queue'[i].client
    BY DEF Live
  <2>1. CASE i \in DOMAIN queue
    <3>1. PICK q \in People : queue[i].client = q /\ q # p
      BY <1>5, <1>10, <2>1
    <3>2. /\ person[q].cmd = queue[i].typed /\ person[q].mail = << >>
          /\ \A j \in DOMAIN queue : i < j => queue[j].typed.uid # q
      BY <1>1, <1>5, <2>1, <3>1 DEF Live
    <3>3. \A j \in DOMAIN queue' : i < j => queue'[j].typed.uid # q
      BY <1>5, <3>1, <3>2
    <3>. QED  BY <1>5, <1>8, <2>1, <3>1, <3>2, <3>3
  <2>2. CASE i = Len(queue) + 1
    <3>1. \A j \in DOMAIN queue' : ~(i < j)
      BY <1>5, <2>2
    <3>. QED  BY <1>5, <1>7, <1>8, <1>9, <2>2, <3>1
  <2>. QED  BY <1>5, <2>1, <2>2
<1>12. ASSUME NEW q \in People, q # p
       PROVE  Mailed(q)' /\ Posted(q)' /\ Paged(q)' /\ Heeded(q)' /\ Worded(q)' /\ Counted(q)'
  <2>1. person'[q] = person[q]
    BY <1>8, <1>12
  <2>2. Mailed(q)'
    BY <1>1, <1>5, <1>12, <2>1 DEF Mailed, Waits, Writes
  <2>3. NoAnswerWaits(q) => NoAnswerWaits(q)'
    BY <1>5, <1>12 DEF NoAnswerWaits
  <2>4. Pending(q)' = Pending(q)
    BY <1>1, <1>12, PendingGrown
  <2>. QED  BY <1>1, <1>3, <2>1, <2>2, <2>3, <2>4, OthersStay DEF SamePerson
<1>13. Mailed(p)' /\ Posted(p)' /\ Paged(p)' /\ Heeded(p)'
  <2>1. Mailed(p)' /\ Posted(p)' /\ Paged(p)'
    BY <1>7, <1>8, <1>9 DEF Mailed, Posted, Paged
  <2>2. p \in Listeners => ear[p].news \in Nat /\ ear[p].news =< Len(Feed)
    BY <1>1 DEF EarOK, HeardOK, Ear
  <2>3. Len(Feed) \in Nat
    BY <1>1, FeedTyped
  <2>. QED  BY <1>3, <1>7, <1>8, <2>1, <2>2, <2>3 DEF Heeded
<1>14. Worded(p)'
  <2>1. \/ groups'[1].closed
        \/ /\ person'[p].word = "in" => p \in groups'[1].mem
           /\ person'[p].word = "out" => p \notin groups'[1].mem
    BY <1>1, <1>3, <1>7, <1>8 DEF Worded, Right
  <2>2. person'[p].word # "none" => NoAnswerWaits(p)'
    BY <1>1, <1>5, <1>7, <1>8 DEF Worded, NoAnswerWaits
  <2>3. person'[p].mail = << >>
    BY <1>7, <1>8, <1>9
  <2>. QED  BY <2>1, <2>2, <2>3 DEF Worded, Right
<1>15. Counted(p)'
  <2>1. /\ Pending(p) \in Nat
        /\ Pending(p)' = Pending(p) + IF c.code \in {"POST", "REPLY"} THEN 1 ELSE 0
    BY <1>1, PendingGrown
  <2>2. Unread(p) = 0 /\ Open(p) = 0 /\ Unread(p)' = 0
        /\ Open(p)' = IF c.code \in {"POST", "REPLY"} THEN 1 ELSE 0
    BY <1>7, <1>8, <1>9 DEF Unread, Open, Waits, Writes
  <2>3. Written1(p)' = Written1(p) /\ Written1(p) \in Nat
    BY <1>1, <1>3, SetsTyped DEF Written1, ItemsOf
  <2>4. person[p].ok \in Nat /\ person[p].lost \in Nat
    BY <1>1 DEF Peopled, Person
  <2>5. person'[p].ok = person[p].ok /\ person'[p].lost = person[p].lost
    BY <1>7, <1>8
  <2>6. /\ person[p].ok + 0 =< Written1(p)
        /\ Written1(p) + Pending(p) =< person[p].ok + 0 + person[p].lost + 0
    BY <1>1, <2>2 DEF Counted
  <2>7. \A w, n, a, l \in Nat, o \in 0 .. 1 :
           a + 0 =< w /\ w + n =< a + 0 + l + 0 => a + 0 =< w /\ w + (n + o) =< a + 0 + l + o
    OBVIOUS
  <2>8. PICK o \in 0 .. 1 : o = IF c.code \in {"POST", "REPLY"} THEN 1 ELSE 0
    OBVIOUS
  <2>9. /\ person[p].ok + 0 =< Written1(p)
        /\ Written1(p) + (Pending(p) + o) =< person[p].ok + 0 + person[p].lost + o
    BY <2>1, <2>3, <2>4, <2>6, <2>7, Zenon
  <2>. QED  BY <2>1, <2>2, <2>3, <2>5, <2>8, <2>9 DEF Counted
<1>. QED  BY <1>3, <1>4, <1>5, <1>8, <1>11, <1>12, <1>13, <1>14, <1>15 DEF CmdInv, PersonOK

LEMMA BadTyped == Bad \in CommandType
<1>1. Bad = [code |-> "BAD", uid |-> 0, idg |-> 0, numb |-> 0, numr |-> 0, an |-> 0,
             ids |-> << >>, text |-> << >>]
  BY DEF Bad, Command
<1>. QED  BY <1>1 DEF CommandType

LEMMA EndsInv ==
    ASSUME CmdInv, NEW p \in People, cmd_ends(p)
    PROVE  CmdInv'
<1>1. /\ Talk /\ Connected /\ Peopled /\ TextsKept /\ EarOK /\ Live
      /\ \A q \in People : Mailed(q) /\ Posted(q) /\ Paged(q) /\ Heeded(q) /\ Worded(q) /\ Counted(q)
  BY DEF CmdInv, PersonOK
<1>2. UNCHANGED <<vars, net, texts, ear>> /\ queue' = queue /\ person[p].mail # << >>
  BY DEF cmd_ends
<1>3. Talk' /\ TextsKept' /\ NetOK' /\ Stable /\ groups' = groups /\ Feed' = Feed
  BY <1>2, TalkStays
<1>4. EarOK' /\ Connected'
  BY <1>1, <1>2, <1>3 DEF EarOK, HeardOK, Connected
<1>. DEFINE r == [cmd |-> Bad, mail |-> << >>, runs |-> person[p].runs,
                  ok |-> person[p].ok + Unread(p), lost |-> person[p].lost, word |-> Settles(p),
                  knew |-> person[p].knew]
<1>5. person[p] \in Person
  BY <1>1 DEF Peopled
<1>6. r \in Person
  <2>1. Settles(p) \in {"in", "out", "none"}
    BY <1>5 DEF Settles, Person
  <2>2. person[p].ok + Unread(p) \in Nat
    BY <1>5 DEF Unread, Person
  <2>3. Bad \in CommandType
    BY BadTyped
  <2>. QED  BY <1>5, <2>1, <2>2, <2>3 DEF Person
<1>7. /\ r.cmd = Bad /\ r.mail = << >> /\ r.ok = person[p].ok + Unread(p)
      /\ r.lost = person[p].lost /\ r.word = Settles(p) /\ r.knew = person[p].knew
  OBVIOUS
<1>8. person' = [person EXCEPT ![p] = r]
  BY <1>1, EndsPerson
<1>9. Peopled' /\ person'[p] = r /\ \A q \in People : q # p => person'[q] = person[q]
  <2>. HIDE DEF r
  <2>. QED  BY <1>1, <1>6, <1>7, <1>8, OnePerson
<1>. HIDE DEF r
<1>10. \A i \in DOMAIN queue : queue[i].typed.uid # p
  BY <1>1, <1>2 DEF Mailed
<1>11. Live'
  <2>. SUFFICES ASSUME NEW i \in DOMAIN queue, queue[i].client # None
                PROVE  /\ person'[queue[i].client].cmd = queue[i].typed
                       /\ person'[queue[i].client].mail = << >>
                       /\ \A j \in DOMAIN queue : i < j => queue[j].typed.uid # queue[i].client
    BY <1>2 DEF Live
  <2>1. queue[i].client = queue[i].typed.uid /\ queue[i].typed.uid \in People
    BY <1>1, QueueFacts
  <2>2. person'[queue[i].client] = person[queue[i].client]
    BY <1>9, <1>10, <2>1
  <2>. QED  BY <1>1, <2>2 DEF Live
<1>12. ASSUME NEW q \in People, q # p
       PROVE  Mailed(q)' /\ Posted(q)' /\ Paged(q)' /\ Heeded(q)' /\ Worded(q)' /\ Counted(q)'
  <2>1. person'[q] = person[q]
    BY <1>9, <1>12
  <2>2. Mailed(q)'
    BY <1>1, <1>2, <1>12, <2>1 DEF Mailed, Waits, Writes
  <2>3. NoAnswerWaits(q) => NoAnswerWaits(q)'
    BY <1>2 DEF NoAnswerWaits
  <2>4. Pending(q)' = Pending(q)
    BY <1>2 DEF Pending, WritesOf
  <2>. QED  BY <1>1, <1>3, <2>1, <2>2, <2>3, <2>4, OthersStay DEF SamePerson
<1>13. Mailed(p)' /\ Posted(p)' /\ Paged(p)' /\ Heeded(p)'
  BY <1>1, <1>3, <1>7, <1>9 DEF Mailed, Posted, Paged, Heeded
<1>14. Worded(p)'
  <2>1. \/ groups'[1].closed
        \/ /\ person'[p].word = "in" => p \in groups'[1].mem
           /\ person'[p].word = "out" => p \notin groups'[1].mem
    BY <1>1, <1>2, <1>3, <1>7, <1>9 DEF Worded, Right
  <2>2. NoAnswerWaits(p)'
    BY <1>2, <1>10 DEF NoAnswerWaits
  <2>3. person'[p].mail = << >>
    BY <1>7, <1>9
  <2>. QED  BY <2>1, <2>2, <2>3 DEF Worded, Right
<1>15. Counted(p)'
  <2>1. Written1(p)' = Written1(p) /\ Pending(p)' = Pending(p)
    BY <1>2, <1>3 DEF Written1, ItemsOf, Pending, WritesOf
  <2>2. person'[p].ok = person[p].ok + Unread(p) /\ person'[p].lost = person[p].lost
    BY <1>7, <1>9
  <2>3. Unread(p)' = 0 /\ Open(p)' = 0 /\ Open(p) = 0
    BY <1>2, <1>7, <1>9 DEF Unread, Open, Waits, Writes
  <2>4. person[p].ok \in Nat /\ person[p].lost \in Nat /\ Unread(p) \in Nat
    BY <1>5 DEF Person, Unread
  <2>5. Written1(p) \in Nat /\ Pending(p) \in Nat
    BY <1>1, SetsTyped
  <2>6. /\ person[p].ok + Unread(p) =< Written1(p)
        /\ Written1(p) + Pending(p) =< person[p].ok + Unread(p) + person[p].lost + 0
    BY <1>1, <2>3 DEF Counted
  <2>7. \A w, n, a, l, u \in Nat :
           a + u =< w /\ w + n =< a + u + l + 0 => (a + u) + 0 =< w /\ w + n =< (a + u) + 0 + l + 0
    OBVIOUS
  <2>8. /\ (person[p].ok + Unread(p)) + 0 =< Written1(p)
        /\ Written1(p) + Pending(p) =< (person[p].ok + Unread(p)) + 0 + person[p].lost + 0
    BY <2>4, <2>5, <2>6, <2>7, Zenon
  <2>. QED  BY <2>1, <2>2, <2>3, <2>8 DEF Counted
<1>. QED  BY <1>3, <1>4, <1>9, <1>11, <1>12, <1>13, <1>14, <1>15 DEF CmdInv, PersonOK

LEMMA GivesInv ==
    ASSUME CmdInv, NEW p \in People, gives_up(p)
    PROVE  CmdInv'
<1>1. /\ Talk /\ Connected /\ Peopled /\ TextsKept /\ EarOK /\ Live
      /\ \A q \in People : Mailed(q) /\ Posted(q) /\ Paged(q) /\ Heeded(q) /\ Worded(q) /\ Counted(q)
  BY DEF CmdInv, PersonOK
<1>2. /\ UNCHANGED <<vars, net, texts, ear>> /\ Waits(p) /\ person[p].mail = << >>
      /\ queue' = [i \in DOMAIN queue |->
                     IF queue[i].client = p THEN [queue[i] EXCEPT !.client = None] ELSE queue[i]]
  BY DEF gives_up
<1>3. Talk' /\ TextsKept' /\ NetOK' /\ Stable /\ groups' = groups /\ Feed' = Feed
  BY <1>2, TalkStays
<1>4. EarOK'
  BY <1>1, <1>2, <1>3 DEF EarOK, HeardOK
<1>5. /\ DOMAIN queue' = DOMAIN queue /\ Len(queue) \in Nat /\ DOMAIN queue = 1 .. Len(queue)
      /\ \A i \in DOMAIN queue :
            /\ queue[i] \in Connections /\ queue'[i] \in Connections
            /\ queue'[i].typed = queue[i].typed
            /\ queue'[i].client = IF queue[i].client = p THEN None ELSE queue[i].client
            /\ queue[i].client \in {None, queue[i].typed.uid} /\ queue[i].typed.uid \in People
  <2>1. DOMAIN queue' = DOMAIN queue /\ Len(queue) \in Nat /\ DOMAIN queue = 1 .. Len(queue)
    BY <1>1, <1>2, QueueFacts
  <2>2. ASSUME NEW i \in DOMAIN queue
        PROVE  /\ queue[i] \in Connections /\ queue'[i] \in Connections
               /\ queue'[i].typed = queue[i].typed
               /\ queue'[i].client = IF queue[i].client = p THEN None ELSE queue[i].client
               /\ queue[i].client \in {None, queue[i].typed.uid} /\ queue[i].typed.uid \in People
    <3>. DEFINE e == queue[i]
    <3>1. e \in Connections /\ e.client \in {None, e.typed.uid} /\ e.typed.uid \in People
      BY <1>1, QueueFacts
    <3>2. PICK q \in People : \E c \in Commands(q), x \in {q, None} : e = Conn(c, x)
      BY <3>1, ConnFields
    <3>3. PICK c \in Commands(q), x \in {q, None} : e = Conn(c, x)
      BY <3>2
    <3>4. queue'[i] = IF e.client = p THEN [e EXCEPT !.client = None] ELSE e
      BY <1>2
    <3>5. CASE e.client = p
      <4>1. queue'[i] = Conn(c, None)
        BY <3>3, <3>4, <3>5 DEF Conn
      <4>2. e.typed = c /\ e.body = Sent(c)
        BY <3>3 DEF Conn
      <4>3. c \in CommandType /\ Sent(c) \in Bytes
        BY CommandFields, CommandsSendable, RequestRead
      <4>4. Conn(c, None) \in Connections
        BY <4>3 DEF Connections, Conn
      <4>5. Conn(c, None).typed = c /\ Conn(c, None).client = None
        BY DEF Conn
      <4>. QED  BY <3>1, <3>5, <4>1, <4>2, <4>4, <4>5
    <3>6. CASE e.client # p
      BY <3>1, <3>4, <3>6
    <3>. QED  BY <3>5, <3>6
  <2>. QED  BY <2>1, <2>2
<1>6. Connected'
  <2>1. queue' \in [1 .. Len(queue) -> Connections] /\ Len(queue) \in Nat
    BY <1>2, <1>5
  <2>2. queue' \in Seq(Connections) /\ Len(queue') = Len(queue)
    BY <2>1, SeqOf, Zenon
  <2>. QED  BY <1>1, <2>2 DEF Connected
<1>. DEFINE r == [cmd |-> Bad, mail |-> person[p].mail, runs |-> person[p].runs,
                  ok |-> person[p].ok,
                  lost |-> person[p].lost + (IF Writes(p) THEN 1 ELSE 0),
                  word |-> person[p].word, knew |-> person[p].knew]
<1>7. person[p] \in Person /\ Bad \in CommandType
  BY <1>1, BadTyped DEF Peopled
<1>8. r \in Person
  BY <1>7 DEF Person
<1>9. /\ r.cmd = Bad /\ r.mail = person[p].mail /\ r.ok = person[p].ok
      /\ r.lost = person[p].lost + (IF Writes(p) THEN 1 ELSE 0) /\ r.word = person[p].word
      /\ r.knew = person[p].knew
  OBVIOUS
<1>10. person' = [person EXCEPT ![p] = r]
  BY <1>1, GivesPerson
<1>11. Peopled' /\ person'[p] = r /\ \A q \in People : q # p => person'[q] = person[q]
  <2>. HIDE DEF r
  <2>. QED  BY <1>1, <1>8, <1>9, <1>10, OnePerson
<1>. HIDE DEF r
<1>12. Live'
  <2>. SUFFICES ASSUME NEW i \in DOMAIN queue, queue'[i].client # None
                PROVE  /\ person'[queue'[i].client].cmd = queue'[i].typed
                       /\ person'[queue'[i].client].mail = << >>
                       /\ \A j \in DOMAIN queue : i < j => queue'[j].typed.uid # queue'[i].client
    BY <1>5 DEF Live
  <2>1. queue'[i].client = queue[i].client /\ queue[i].client # p /\ queue[i].client # None
    BY <1>5
  <2>2. queue[i].client \in People
    BY <1>5, <2>1
  <2>3. person'[queue[i].client] = person[queue[i].client]
    BY <1>11, <2>1, <2>2
  <2>4. /\ person[queue[i].client].cmd = queue[i].typed
        /\ person[queue[i].client].mail = << >>
        /\ \A j \in DOMAIN queue : i < j => queue[j].typed.uid # queue[i].client
    BY <1>1, <2>1 DEF Live
  <2>. QED  BY <1>5, <2>1, <2>3, <2>4
<1>13. ASSUME NEW q \in People
       PROVE  (NoAnswerWaits(q) => NoAnswerWaits(q)') /\ Pending(q)' = Pending(q)
  <2>1. NoAnswerWaits(q) => NoAnswerWaits(q)'
    BY <1>5 DEF NoAnswerWaits
  <2>2. WritesOf(q)' = WritesOf(q)
    BY <1>5 DEF WritesOf
  <2>. QED  BY <2>1, <2>2 DEF Pending
<1>14. ASSUME NEW q \in People, q # p
       PROVE  Mailed(q)' /\ Posted(q)' /\ Paged(q)' /\ Heeded(q)' /\ Worded(q)' /\ Counted(q)'
  <2>1. person'[q] = person[q]
    BY <1>11, <1>14
  <2>2. Mailed(q)'
    BY <1>1, <1>5, <1>14, <2>1 DEF Mailed, Waits, Writes
  <2>. QED  BY <1>1, <1>3, <1>13, <2>1, <2>2, OthersStay DEF SamePerson
<1>15. Mailed(p)' /\ Posted(p)' /\ Paged(p)' /\ Heeded(p)'
  BY <1>1, <1>2, <1>3, <1>9, <1>11 DEF Mailed, Posted, Paged, Heeded
<1>16. Worded(p)'
  <2>1. \/ groups'[1].closed
        \/ /\ person'[p].word = "in" => p \in groups'[1].mem
           /\ person'[p].word = "out" => p \notin groups'[1].mem
    BY <1>1, <1>3, <1>9, <1>11 DEF Worded, Right
  <2>2. person'[p].word # "none" => NoAnswerWaits(p)'
    BY <1>1, <1>9, <1>11, <1>13 DEF Worded
  <2>3. person'[p].mail = << >>
    BY <1>2, <1>9, <1>11
  <2>. QED  BY <2>1, <2>2, <2>3 DEF Worded, Right
<1>17. Counted(p)'
  <2>1. Written1(p)' = Written1(p) /\ Pending(p)' = Pending(p)
    BY <1>3, <1>13 DEF Written1, ItemsOf
  <2>2. PICK o \in 0 .. 1 : o = IF Writes(p) THEN 1 ELSE 0
    OBVIOUS
  <2>3. person'[p].ok = person[p].ok /\ person'[p].lost = person[p].lost + o
    BY <1>9, <1>11, <2>2
  <2>4. Unread(p)' = 0 /\ Open(p)' = 0 /\ Open(p) = o /\ Unread(p) = 0
    BY <1>2, <1>9, <1>11, <2>2 DEF Unread, Open, Waits
  <2>5. person[p].ok \in Nat /\ person[p].lost \in Nat
    BY <1>7 DEF Person
  <2>6. Written1(p) \in Nat /\ Pending(p) \in Nat
    BY <1>1, SetsTyped
  <2>7. /\ person[p].ok + 0 =< Written1(p)
        /\ Written1(p) + Pending(p) =< person[p].ok + 0 + person[p].lost + o
    BY <1>1, <2>4 DEF Counted
  <2>8. \A w, n, a, l \in Nat, s \in 0 .. 1 :
           w + n =< a + 0 + l + s => w + n =< a + 0 + (l + s) + 0
    OBVIOUS
  <2>9. Written1(p) + Pending(p) =< person[p].ok + 0 + (person[p].lost + o) + 0
    BY <2>2, <2>5, <2>6, <2>7, <2>8, Zenon
  <2>. QED  BY <2>1, <2>3, <2>4, <2>7, <2>9 DEF Counted
<1>. QED  BY <1>3, <1>4, <1>6, <1>11, <1>12, <1>14, <1>15, <1>16, <1>17 DEF CmdInv, PersonOK

\* Nobody's command begins or ends.
LEMMA QuietInv ==
    ASSUME CmdInv, UNCHANGED <<vars, queue, net, texts>>, EarOK', Peopled',
           \A q \in People : SamePerson(q)
    PROVE  CmdInv'
<1>1. /\ Talk /\ Connected /\ Peopled /\ TextsKept /\ Live
      /\ \A q \in People : Mailed(q) /\ Posted(q) /\ Paged(q) /\ Heeded(q) /\ Worded(q) /\ Counted(q)
  BY DEF CmdInv, PersonOK
<1>2. Talk' /\ TextsKept' /\ NetOK' /\ Stable /\ groups' = groups /\ Feed' = Feed
  BY TalkStays
<1>3. Connected'
  BY <1>1 DEF Connected
<1>4. Live'
  <2>1. \A i \in DOMAIN queue : queue[i].client \in People \cup {None}
    BY <1>1, QueueFacts
  <2>. QED  BY <1>1, <2>1 DEF Live, SamePerson
<1>5. ASSUME NEW q \in People
      PROVE  Mailed(q)' /\ Posted(q)' /\ Paged(q)' /\ Heeded(q)' /\ Worded(q)' /\ Counted(q)'
  <2>1. Mailed(q)'
    BY <1>1 DEF Mailed, Waits, Writes, SamePerson
  <2>2. (NoAnswerWaits(q) => NoAnswerWaits(q)') /\ Pending(q)' = Pending(q)
    BY DEF NoAnswerWaits, Pending, WritesOf
  <2>. QED  BY <1>1, <1>2, <2>1, <2>2, OthersStay
<1>. QED  BY <1>2, <1>3, <1>4, <1>5 DEF CmdInv, PersonOK

LEMMA ListenInv ==
    ASSUME CmdInv, UNCHANGED <<vars, queue, net, texts, person>>, EarOK'
    PROVE  CmdInv'
<1>1. Peopled'
  BY DEF CmdInv, Peopled
<1>2. \A q \in People : SamePerson(q)
  BY DEF SamePerson
<1>. QED  BY <1>1, <1>2, QuietInv

LEMMA OverflowInv ==
    ASSUME CmdInv, NEW p \in People, NEW c, overflows(p, c)
    PROVE  CmdInv'
<1>1. UNCHANGED <<vars, queue, net, texts>> /\ ear' = ear /\ groups' = groups
  BY DEF overflows, vars
<1>2. person' = [person EXCEPT ![p] = [person[p] EXCEPT !.runs = person[p].runs + 1]]
  BY DEF overflows
<1>3. Peopled
  BY DEF CmdInv
<1>. DEFINE r == [person[p] EXCEPT !.runs = person[p].runs + 1]
<1>4. r \in Person /\ r.cmd = person[p].cmd /\ r.mail = person[p].mail /\ r.ok = person[p].ok
      /\ r.lost = person[p].lost /\ r.word = person[p].word /\ r.knew = person[p].knew
  <2>1. PICK q : q = person[p]
    OBVIOUS
  <2>2. q \in Person /\ r = [q EXCEPT !.runs = q.runs + 1] /\ q.runs + 1 \in Nat
    <3>1. q \in Person
      BY <1>3, <2>1 DEF Peopled
    <3>2. q.runs + 1 \in Nat
      BY <3>1 DEF Person
    <3>3. r = [q EXCEPT !.runs = q.runs + 1]
      BY <2>1, Zenon DEF r
    <3>. QED  BY <3>1, <3>2, <3>3
  <2>. HIDE DEF r
  <2>3. r \in Person /\ r.cmd = q.cmd /\ r.mail = q.mail /\ r.ok = q.ok
        /\ r.lost = q.lost /\ r.word = q.word /\ r.knew = q.knew
    BY <2>2 DEF Person
  <2>. QED  BY <2>1, <2>3, Zenon
<1>5. r.cmd \in Commands(p) \cup {Bad}
  BY <1>3, <1>4 DEF Peopled
<1>. HIDE DEF r
<1>6. Peopled' /\ person'[p] = r /\ \A q \in People : q # p => person'[q] = person[q]
  BY <1>2, <1>3, <1>4, <1>5, OnePerson DEF r
<1>7. \A q \in People : SamePerson(q)
  BY <1>4, <1>6 DEF SamePerson
<1>8. EarOK'
  BY <1>1 DEF CmdInv, EarOK, HeardOK, Feed
<1>. QED  BY <1>1, <1>6, <1>7, <1>8, QuietInv

LEMMA NextInv == CmdInv /\ [CommandsNext]_allVars => CmdInv'
<1>. SUFFICES ASSUME CmdInv, [CommandsNext]_allVars PROVE CmdInv'
  OBVIOUS
<1>1. Talk /\ NetOK /\ EarOK
  BY DEF CmdInv
<1>2. CASE serve_client
  BY <1>2, ServeInv
<1>3. ASSUME NEW p \in People, \E c \in Commands(p) : one_cmd_plain(p, c) \/ overflows(p, c)
      PROVE  CmdInv'
  BY <1>3, RunInv, OverflowInv
<1>4. ASSUME NEW p \in People, cmd_ends(p) \/ gives_up(p) PROVE CmdInv'
  BY <1>4, EndsInv, GivesInv
<1>5. ASSUME NEW p \in Listeners, cmd_listen(p) \/ listen_ends(p) PROVE CmdInv'
  <2>1. PICK e : /\ e \in {Deaf, [Deaf EXCEPT !.on = TRUE]} /\ ear' = [ear EXCEPT ![p] = e]
                 /\ UNCHANGED <<vars, queue, net, texts, person>>
    BY <1>5, Zenon DEF cmd_listen, listen_ends
  <2>2. e \in Ear /\ HeardOK(e, p) /\ groups' = groups
    BY <1>1, <2>1, DeafOK DEF vars
  <2>3. EarOK'
    BY <1>1, <2>1, <2>2, EarChanged
  <2>. QED  BY <2>1, <2>3, ListenInv
<1>6. ASSUME NEW p \in Listeners, udp6_recv(p) PROVE CmdInv'
  <2>1. UNCHANGED <<vars, queue, net, texts, person>> /\ groups' = groups
    BY <1>6 DEF udp6_recv, vars
  <2>2. EarOK'
    BY <1>1, <1>6, <2>1, EarReceives
  <2>. QED  BY <2>1, <2>2, ListenInv
<1>7. CASE UNCHANGED allVars
  <2>1. UNCHANGED <<vars, queue, net, texts, person>> /\ ear' = ear /\ groups' = groups
    BY <1>7 DEF allVars, commandVars, vars
  <2>2. EarOK'
    BY <1>1, <2>1 DEF EarOK, HeardOK, Feed
  <2>. QED  BY <2>1, <2>2, ListenInv
<1>. QED  BY <1>2, <1>3, <1>4, <1>5, <1>6, <1>7 DEF CommandsNext

(***************************************************************************)
(* The beginning.                                                          *)
(***************************************************************************)
LEMMA PeopleCounted ==
    /\ Cardinality(People) \in Nat /\ Cardinality(People) =< MAX_USERS
    /\ People = 1 .. Cardinality(People)
<1>1. PICK n \in 1 .. MAX_USERS : People = 1 .. n
  BY PeopleFit
<1>2. n \in Nat /\ n > 0 /\ n =< MAX_USERS
  BY <1>1, TableSizes
<1>3. Cardinality(1 .. n) = n
  <2>1. Cardinality(1 .. n) = IF 1 > n THEN 0 ELSE n - 1 + 1
    BY <1>2, FS_Interval
  <2>. QED  BY <1>2, <2>1
<1>. QED  BY <1>1, <1>2, <1>3

LEMMA InitGroup ==
    ASSUME CommandsInit
    PROVE  /\ Len(groups) = 1 /\ DOMAIN groups = {1} /\ groups \in Seq(Group)
           /\ groups[1] = [idg |-> 1, named |-> TRUE, admin_id |-> 1, closed |-> FALSE,
                           mem |-> {1}, pend |-> People \ {1}, posts |-> << >>,
                           next_billet |-> 0, feed |-> << >>]
<1>. DEFINE g == [idg |-> 1, named |-> TRUE, admin_id |-> 1, closed |-> FALSE,
                  mem |-> {1}, pend |-> People \ {1}, posts |-> << >>,
                  next_billet |-> 0, feed |-> << >>]
<1>1. PICK e : e = NewGroup(IDG)
  OBVIOUS
<1>2. e \in Group /\ e.idg = 1 /\ e.closed = FALSE /\ e.mem = {} /\ e.pend = {}
      /\ e.posts = << >> /\ e.next_billet = 0 /\ e.feed = << >>
  BY <1>1 DEF NewGroup, IDG, Group
<1>3. PICK f : f = [e EXCEPT !.named = TRUE, !.admin_id = 1]
  OBVIOUS
<1>4. f \in Group /\ f.idg = 1 /\ f.named = TRUE /\ f.admin_id = 1 /\ f.closed = FALSE
      /\ f.mem = {} /\ f.pend = {} /\ f.posts = << >> /\ f.next_billet = 0 /\ f.feed = << >>
  BY <1>2, <1>3 DEF Group
<1>5. PICK m : m = [f EXCEPT !.mem = @ \cup {1}]
  OBVIOUS
<1>6. m \in Group /\ m.idg = 1 /\ m.named = TRUE /\ m.admin_id = 1 /\ m.closed = FALSE
      /\ m.mem = {1} /\ m.pend = {} /\ m.posts = << >> /\ m.next_billet = 0 /\ m.feed = << >>
  BY <1>4, <1>5 DEF Group
<1>7. PICK h : h = [m EXCEPT !.pend = @ \cup (People \ {1})]
  OBVIOUS
<1>8. h = g
  BY <1>6, <1>7 DEF Group
<1>9. groups = <<h>>
  BY <1>1, <1>3, <1>5, <1>7, Zenon DEF CommandsInit, group_add_member, group_add_pending
<1>10. g \in Group
  BY PeopleNumbers DEF Group
<1>. HIDE DEF g
<1>11. Len(groups) = 1 /\ DOMAIN groups = {1} /\ groups[1] = g /\ groups \in Seq(Group)
  BY <1>8, <1>9, <1>10
<1>. QED  BY <1>11 DEF g

LEMMA InitTalk == ASSUME CommandsInit PROVE Talk
<1>. DEFINE n == Cardinality(People)
<1>1. n \in Nat /\ n =< MAX_USERS /\ People = 1 .. n
  BY PeopleCounted
<1>2. /\ users = [i \in 1 .. n |-> i] /\ next_uid = n + 1 /\ next_gid = 2
      /\ reply = send_ack(1) /\ sent = {}
  BY DEF CommandsInit, IDG
<1>3. /\ Len(groups) = 1 /\ DOMAIN groups = {1} /\ groups \in Seq(Group)
      /\ groups[1] = [idg |-> 1, named |-> TRUE, admin_id |-> 1, closed |-> FALSE,
                      mem |-> {1}, pend |-> People \ {1}, posts |-> << >>,
                      next_billet |-> 0, feed |-> << >>]
  BY InitGroup
<1>. HIDE DEF n
<1>4. users \in Seq(Nat) /\ Len(users) = n /\ DOMAIN users = 1 .. n
      /\ \A i \in 1 .. n : users[i] = i
  BY <1>1, <1>2
<1>5. \A p \in People : find_user(p)
  BY <1>1, <1>4 DEF find_user
<1>6. TypeOK
  <2>1. reply \in Reply
    BY <1>2 DEF send_ack, Answer, Reply, Codes
  <2>. QED  BY <1>1, <1>2, <1>3, <1>4, <2>1, TableSizes, CommandBounds DEF TypeOK
<1>7. Counters /\ IdsNameOneEntry
  BY <1>1, <1>2, <1>3, <1>4 DEF Counters, IdsNameOneEntry
<1>8. MembersRegistered /\ FeedNumbered /\ GhostInert
  BY <1>3, <1>5, PeopleCall DEF MembersRegistered, FeedNumbered, Numbered, GhostInert
<1>9. OneGroup /\ Len(groups[1].posts) =< MaxBillets /\ DOMAIN groups[1].feed = {}
  BY <1>3, Bounds DEF OneGroup, IDG
<1>. QED  BY <1>6, <1>7, <1>8, <1>9 DEF Talk, IInv

LEMMA InitInv == CommandsInit => CmdInv
<1>. SUFFICES ASSUME CommandsInit PROVE CmdInv
  OBVIOUS
<1>1. Talk
  BY InitTalk
<1>2. DOMAIN groups[1].feed = {} /\ ~groups[1].closed /\ groups[1].mem = {1}
  BY InitGroup
<1>3. queue = << >> /\ net = {} /\ texts = << >> /\ ear = [p \in Listeners |-> Deaf]
  BY DEF CommandsInit
<1>. DEFINE r == [cmd |-> Bad, mail |-> << >>, runs |-> 0, ok |-> 0, lost |-> 0, word |-> "none",
                  knew |-> 0]
<1>4. person = [p \in People |-> r]
  BY DEF CommandsInit
<1>5. r \in Person
  BY BadTyped DEF Person
<1>6. r.cmd = Bad /\ r.mail = << >> /\ r.ok = 0 /\ r.lost = 0 /\ r.word = "none"
      /\ r.knew = 0
  OBVIOUS
<1>. HIDE DEF r
<1>7. Connected
  BY <1>3, CommandBounds DEF Connected
<1>8. Peopled
  BY <1>4, <1>5, <1>6 DEF Peopled
<1>9. TextsKept
  BY <1>2, <1>3 DEF TextsKept, Feed
<1>10. EarOK /\ NetOK
  <2>1. Len(Feed) \in Nat
    BY <1>1, FeedTyped
  <2>2. EarOK
    BY <1>1, <1>3, DeafOK DEF EarOK
  <2>3. Announcements = {} /\ IsFiniteSet({}) /\ Cardinality({}) = 0
    BY <1>3, FS_EmptySet DEF Announcements
  <2>. QED  BY <1>3, <2>1, <2>2, <2>3 DEF NetOK
<1>11. Live
  BY <1>3 DEF Live
<1>12. ASSUME NEW p \in People PROVE Mailed(p) /\ Posted(p) /\ Paged(p) /\ Heeded(p) /\ Worded(p)
  <2>1. Len(Feed) \in Nat
    BY <1>1, FeedTyped
  <2>. QED  BY <1>4, <1>6, <2>1 DEF Mailed, Posted, Paged, Heeded, Worded, Right
<1>13. ASSUME NEW p \in People PROVE Counted(p)
  <2>1. ItemsOf(p) = {} /\ WritesOf(p) = {}
    BY <1>2, <1>3 DEF ItemsOf, WritesOf, IDG
  <2>2. Cardinality({}) = 0
    BY FS_EmptySet
  <2>3. Written1(p) = 0 /\ Pending(p) = 0
    BY <2>1, <2>2 DEF Written1, Pending
  <2>4. Unread(p) = 0 /\ Open(p) = 0 /\ person[p].ok = 0 /\ person[p].lost = 0
    BY <1>4, <1>6 DEF Unread, Open, Waits
  <2>. QED  BY <2>3, <2>4 DEF Counted
<1>. QED  BY <1>1, <1>7, <1>8, <1>9, <1>10, <1>11, <1>12, <1>13 DEF CmdInv, PersonOK

(***************************************************************************)
(* What the invariant says of the commands.                                *)
(***************************************************************************)
LEMMA InvTypes == CmdInv => CommandsTypeOK
<1>. SUFFICES ASSUME CmdInv PROVE CommandsTypeOK
  OBVIOUS
<1>1. queue \in Seq([client : People \cup {None}, typed : CommandType, body : Bytes])
  <2>1. Connections \subseteq [client : People \cup {None}, typed : CommandType, body : Bytes]
    BY DEF Connections
  <2>2. queue \in Seq(Connections)
    BY DEF CmdInv, Connected
  <2>. QED  BY <2>1, <2>2, SeqWider, Zenon
<1>. QED  BY <1>1 DEF CmdInv, Connected, TextsKept, Peopled, NetOK, EarOK, CommandsTypeOK, Bytes

LEMMA InvUnderstood == CmdInv => RequestsUnderstood
<1>. SUFFICES ASSUME CmdInv, NEW i \in DOMAIN queue, NEW c, c = queue[i].typed, Fits(c)
              PROVE  Read(c.code, queue[i].body)
                       = IF c.code = "NEW_GROUP" /\ Kept(c.text) = << >> THEN Bad
                         ELSE [c EXCEPT !.text = Kept(@)]
  BY Zenon DEF RequestsUnderstood
<1>1. PICK p \in People : \E d \in Commands(p), x \in {p, None} :
              queue[i].typed = d /\ queue[i].body = Sent(d)
  <2>1. queue[i] \in Connections
    BY QueueFacts DEF CmdInv
  <2>. QED  BY <2>1, ConnFields
<1>2. c \in Commands(p) /\ queue[i].body = Sent(c)
  BY <1>1
<1>3. Read(c.code, Sent(c)) = Understood(c)
  BY <1>2, CommandsSendable, RequestRead
<1>4. Understood(c) = IF c.code = "NEW_GROUP" /\ Kept(c.text) = << >> THEN Bad
                      ELSE [c EXCEPT !.text = Kept(@)]
  BY Zenon DEF Understood, WithText
<1>. QED  BY <1>2, <1>3, <1>4, Zenon

LEMMA InvAccounted == CmdInv => WritingsAccounted
<1>. SUFFICES ASSUME CmdInv, NEW p \in People
              PROVE  LET n == Cardinality(ItemsOf(p)) - person[p].ok - Unread(p)
                     IN  0 =< n /\ n =< person[p].lost + IF Waits(p) THEN 1 ELSE 0
  BY Zenon DEF WritingsAccounted
<1>1. Written1(p) \in Nat /\ Pending(p) \in Nat
  BY SetsTyped DEF CmdInv
<1>2. person[p].ok \in Nat /\ person[p].lost \in Nat /\ Unread(p) \in Nat
  BY DEF CmdInv, Peopled, Person, Unread
<1>3. /\ person[p].ok + Unread(p) =< Written1(p)
      /\ Written1(p) + Pending(p) =< person[p].ok + Unread(p) + person[p].lost + Open(p)
  BY DEF CmdInv, PersonOK, Counted
<1>4. PICK o \in 0 .. 1, v \in 0 .. 1 :
         o = Open(p) /\ v = (IF Waits(p) THEN 1 ELSE 0) /\ o =< v
  BY DEF Open
<1>5. \A w, n, a, l, u \in Nat, s, t \in 0 .. 1 :
         a + u =< w /\ w + n =< a + u + l + s /\ s =< t => 0 =< w - a - u /\ w - a - u =< l + t
  OBVIOUS
<1>6. 0 =< Written1(p) - person[p].ok - Unread(p)
      /\ Written1(p) - person[p].ok - Unread(p) =< person[p].lost + v
  <2>1. Written1(p) + Pending(p) =< person[p].ok + Unread(p) + person[p].lost + o
    BY <1>3, <1>4
  <2>. QED  BY <1>1, <1>2, <1>3, <1>4, <1>5, <2>1
<1>. QED  BY <1>4, <1>6 DEF Written1

LEMMA InvLastWord == CmdInv => LastWordStands
BY DEF CmdInv, PersonOK, Worded, Right, LastWordStands, IDG

LEMMA InvPages == CmdInv => PagesTrue
BY PagesFollow DEF CmdInv, PersonOK

LEMMA InvNumber == CmdInv => NumberTrue
<1>. SUFFICES ASSUME CmdInv, NEW p \in People, person[p].mail # << >>,
                     person[p].mail[1].code = "POST_OK", NEW numb,
                     numb = NumberPrinted(person[p].mail[1].body)
              PROVE  /\ \E k \in ItemsOf(p) : groups[IDG].feed[k].numb = numb
                                              /\ groups[IDG].feed[k].numr = 0
                     /\ texts[<<IDG, numb, 0>>] = Kept(person[p].cmd.text)
  BY Zenon DEF NumberTrue
<1>1. PICK k \in DOMAIN Feed :
         /\ Feed[k].author = p /\ Feed[k].numr = 0 /\ numb = Feed[k].numb
         /\ texts[ItemKey(Feed[k])] = Kept(person[p].cmd.text)
  BY Zenon DEF CmdInv, PersonOK, Posted
<1>. QED  BY <1>1 DEF ItemsOf, Feed, ItemKey, IDG

LEMMA InvHeard == CmdInv => HeardTrue
BY DEF CmdInv, EarOK, HeardOK, HeardTrue, FeedLength, Feed, IDG

LEMMA InvAnnounced == CmdInv => AnnouncedIsRead
<1>. SUFFICES ASSUME CmdInv, NEW p \in People, person[p].mail # << >>,
                     person[p].mail[1].code = "FEED_OK", NEW b, b = person[p].mail[1].body,
                     NEW s \in feed_index_after(groups[1], person[p].cmd.numb, person[p].cmd.numr)
              PROVE  s + wire_get_u32_be(b, 5) >= person[p].knew
  BY Zenon DEF AnnouncedIsRead, IDG
<1>1. Talk /\ TextsKept /\ Paged(p) /\ Heeded(p)
  BY DEF CmdInv, PersonOK
<1>2. PICK t \in feed_index_after(groups[1], person[p].cmd.numb, person[p].cmd.numr), m \in Nat :
            /\ t + m =< Len(Feed) /\ b = FeedBytes(IDG, PageLines(t, m))
            /\ person[p].knew =< t + m
  BY <1>1 DEF Paged
<1>3. s = t /\ s \in DOMAIN Feed /\ s \in Nat
  BY <1>1, OnePlace, FeedTyped
<1>4. PICK L : L = PageLines(s, m)
  OBVIOUS
<1>5. L \in Seq(LineType) /\ Len(L) = m /\ m \in U32
  BY <1>1, <1>2, <1>3, <1>4, PageTyped
<1>6. wire_get_u32_be(FeedBytes(IDG, L), 5) = m
  BY <1>5, FeedCount, SmallNumbers
<1>7. wire_get_u32_be(b, 5) = m
  BY <1>2, <1>3, <1>4, <1>6
<1>. QED  BY <1>1, <1>2, <1>3, <1>7 DEF Heeded

LEMMA CommandsInductive == CommandsSpec => []CmdInv
BY InitInv, NextInv, PTL DEF CommandsSpec

(***************************************************************************)
(* The theorems.                                                           *)
(***************************************************************************)
\* The queue of the listening socket holds at most BACKLOG connections, each with a request
\* in bytes, and the clients hold typed commands and answers (src/src/client.c).
THEOREM CommandsTypes == CommandsSpec => []CommandsTypeOK
BY InvTypes, CommandsInductive, PTL

\* Whatever waits to be served is read by the server as the command that was typed, its text
\* cut by the two bytes of its length, if the request fitted in the buffer its command writes
\* it to (msg[512] of cmd_newgroup and msg[2048] of cmd_invite, one_cmd_plain of
\* src/src/client.c, and the readers of src/src/server.c).  Of the others nothing is claimed.
THEOREM RequestsAlwaysUnderstood == CommandsSpec => []RequestsUnderstood
BY InvUnderstood, CommandsInductive, PTL

\* What the feed holds of somebody is what was acknowledged to him, once each, and at most
\* one item for every writing he gave up or waits for (cmd_post and cmd_reply against
\* handle_post and handle_reply).
THEOREM WritingsAlwaysAccounted == CommandsSpec => []WritingsAccounted
BY InvAccounted, CommandsInductive, PTL

\* The last answer about membership that somebody read stays true, although commands he gave
\* up are carried out after he left (cmd_ans against the answers to an invitation).
THEOREM LastWordAlwaysStands == CommandsSpec => []LastWordStands
BY InvLastWord, CommandsInductive, PTL

\* Whatever part of the answer to FEED arrives, cmd_feed prints items of the feed that follow
\* one another, whole, and as they were typed (cmd_feed of src/src/client.c against
\* handle_feed of src/src/server.c).
THEOREM PagesAlwaysTrue == CommandsSpec => []PagesTrue
BY InvPages, CommandsInductive, PTL

\* The number cmd_post prints is that of the billet that was posted.
THEOREM NumbersAlwaysTrue == CommandsSpec => []NumberTrue
BY InvNumber, CommandsInductive, PTL

\* However late, however often and in whatever order the datagrams that were sent arrive, a
\* listener is not told of more items than the feed has, nor of a FETCH unless its person
\* opened a billet, nor that an open group is closed (udp6_recv and write_notif_line in
\* cmd_listen_mcast and cmd_listen_udp of src/src/client.c against udp6_send_one of
\* src/src/server.c).
THEOREM HeardAlwaysTrue == CommandsSpec => []HeardTrue
BY InvHeard, CommandsInductive, PTL

\* Whoever had heard of an item when he typed cmd_feed is answered up to that item at least:
\* the datagram leaves after the item is in the feed (notif_mcast after feed_push in
\* handle_post and handle_reply of src/src/server.c).
THEOREM AnnouncedAlwaysRead == CommandsSpec => []AnnouncedIsRead
BY InvAnnounced, CommandsInductive, PTL

================================================================================
