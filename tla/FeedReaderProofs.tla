---------------------------- MODULE FeedReaderProofs ----------------------------
(***************************************************************************)
(* The reader of a feed sees each item once, in order, whatever the        *)
(* others do between two pages and wherever a page is cut: a theorem about *)
(* FeedReader for every value of the constants.                            *)
(*                                                                         *)
(* The inductive invariant is the one of the server, with two additions.   *)
(* Numbered says that a cursor names one position; for the first request,  *)
(* whose cursor (0, 0) was not read from the feed, it does not say that    *)
(* the position is the first: BilletsOpen does.  And as long as no group   *)
(* has the number asked for, nothing has been read under it.               *)
(***************************************************************************)
EXTENDS FeedReader, ParolesServerProofs, SequenceTheorems

\* A billet comes after items of earlier billets only.
BilletsOpen(g) ==
    \A j, k \in DOMAIN g.feed : j < k /\ g.feed[k].numr = 0 => g.feed[j].numb < g.feed[k].numb

FeedsOpen == \A s \in DOMAIN groups : BilletsOpen(groups[s])

GotTypes == got \in [Readers -> Seq(FeedItem)]
GotNothingYet ==
    (\A s \in DOMAIN groups : groups[s].idg # IDG) => \A r \in Readers : got[r] = << >>

ReaderInv == IInv /\ FeedsOpen /\ GotTypes /\ GotNothingYet /\ ReadInOrder

(***************************************************************************)
(* What has been read of a feed.                                           *)
(***************************************************************************)
IsRead(q, feed) == q # << >> => Len(q) < Len(feed) /\ q = SubSeq(feed, 2, Len(q) + 1)

\* Item by item.
LEMMA ReadItems ==
    ASSUME NEW q \in Seq(FeedItem), NEW feed \in Seq(FeedItem)
    PROVE  IsRead(q, feed) <=>
             (q # << >> => Len(q) < Len(feed) /\ \A k \in 1 .. Len(q) : q[k] = feed[k + 1])
<1>1. ASSUME Len(q) < Len(feed)
      PROVE  q = SubSeq(feed, 2, Len(q) + 1) <=> \A k \in 1 .. Len(q) : q[k] = feed[k + 1]
  <2>. DEFINE r == SubSeq(feed, 2, Len(q) + 1)
  <2>1. \A i \in 2 .. Len(q) + 1 : feed[i] \in FeedItem
    BY <1>1
  <2>2. /\ r \in Seq(FeedItem) /\ Len(r) = Len(q)
        /\ \A k \in 1 .. Len(q) : r[k] = feed[k + 1]
    BY <2>1, SubSeqProperties
  <2>. HIDE DEF r
  <2>3. (\A k \in 1 .. Len(q) : q[k] = r[k]) => q = r
    BY <2>2, SeqEqual
  <2>. QED  BY <2>2, <2>3 DEF r
<1>. QED  BY <1>1 DEF IsRead

\* What was read is still what the feed begins with when the feed has grown.
LEMMA ReadStays ==
    ASSUME NEW q \in Seq(FeedItem), NEW feed \in Seq(FeedItem), NEW later \in Seq(FeedItem),
           Prolongs(feed, later), IsRead(q, feed)
    PROVE  IsRead(q, later)
<1>1. q # << >> => Len(q) < Len(feed) /\ \A k \in 1 .. Len(q) : q[k] = feed[k + 1]
  BY ReadItems
<1>2. q # << >> => Len(q) < Len(later) /\ \A k \in 1 .. Len(q) : q[k] = later[k + 1]
  <2>1. \A k \in 1 .. Len(feed) : later[k] = feed[k]
    BY DEF Prolongs
  <2>2. Len(feed) =< Len(later)
    BY DEF Prolongs
  <2>. QED  BY <1>1, <2>1, <2>2
<1>. QED  BY <1>2, ReadItems

\* A page that begins after the last item read, cut anywhere, prolongs what was read.
LEMMA ReadOn ==
    ASSUME NEW q \in Seq(FeedItem), NEW feed \in Seq(FeedItem), IsRead(q, feed),
           NEW i \in DOMAIN feed, i = Len(q) + 1,
           NEW n \in 0 .. Len(SubSeq(feed, i + 1, Len(feed)))
    PROVE  LET page == SubSeq(SubSeq(feed, i + 1, Len(feed)), 1, n)
           IN  q \o page \in Seq(FeedItem) /\ IsRead(q \o page, feed)
<1>. DEFINE items == SubSeq(feed, i + 1, Len(feed))
            page == SubSeq(items, 1, n)
            got2 == q \o page
<1>0. Len(q) \in Nat /\ Len(feed) \in Nat /\ i \in 1 .. Len(feed)
  OBVIOUS
<1>1. /\ items \in Seq(FeedItem) /\ Len(items) = Len(feed) - i
      /\ \A k \in 1 .. Len(items) : items[k] = feed[i + k]
  <2>1. \A k \in i + 1 .. Len(feed) : feed[k] \in FeedItem
    BY <1>0
  <2>2. /\ items \in Seq(FeedItem)
        /\ Len(items) = IF i + 1 =< Len(feed) THEN Len(feed) - (i + 1) + 1 ELSE 0
        /\ \A k \in 1 .. Len(feed) - (i + 1) + 1 : items[k] = feed[i + 1 + k - 1]
    BY <1>0, <2>1, SubSeqProperties
  <2>3. Len(items) = Len(feed) - i
    BY <1>0, <2>2
  <2>4. \A k \in 1 .. Len(items) : k \in 1 .. Len(feed) - (i + 1) + 1 /\ i + 1 + k - 1 = i + k
    BY <1>0, <2>3
  <2>. QED  BY <2>2, <2>3, <2>4
<1>. HIDE DEF items
<1>2. /\ page \in Seq(FeedItem) /\ Len(page) = n
      /\ \A k \in 1 .. n : page[k] = items[k]
  <2>1. n \in 0 .. Len(items)
    BY DEF items
  <2>2. \A k \in 1 .. n : items[k] \in FeedItem
    BY <1>1, <2>1
  <2>. QED  BY <2>1, <2>2, SubSeqProperties
<1>3. n \in Nat /\ n =< Len(feed) - i
  BY <1>0, <1>1 DEF items
<1>. HIDE DEF page
<1>4. /\ got2 \in Seq(FeedItem) /\ Len(got2) = Len(q) + n
      /\ \A k \in 1 .. Len(q) + n : got2[k] = IF k =< Len(q) THEN q[k] ELSE page[k - Len(q)]
  BY <1>0, <1>2, <1>3, ConcatProperties
<1>5. \A k \in 1 .. Len(q) : q[k] = feed[k + 1]
  BY ReadItems
<1>6. \A k \in 1 .. Len(got2) : got2[k] = feed[k + 1]
  <2>. SUFFICES ASSUME NEW k \in 1 .. Len(got2) PROVE got2[k] = feed[k + 1]
    OBVIOUS
  <2>1. CASE k =< Len(q)
    BY <1>0, <1>3, <1>4, <1>5, <2>1
  <2>2. CASE k > Len(q)
    <3>1. k - Len(q) \in 1 .. n /\ k - Len(q) \in 1 .. Len(items) /\ k \in Nat
      BY <1>0, <1>1, <1>3, <1>4, <2>2
    <3>2. got2[k] = page[k - Len(q)]
      BY <1>0, <1>3, <1>4, <2>2
    <3>3. page[k - Len(q)] = feed[i + (k - Len(q))]
      BY <1>1, <1>2, <3>1
    <3>4. i + (k - Len(q)) = k + 1
      BY <1>0, <3>1
    <3>. QED  BY <3>2, <3>3, <3>4
  <2>. QED  BY <1>0, <1>3, <1>4, <2>1, <2>2
<1>7. Len(got2) < Len(feed)
  BY <1>0, <1>3, <1>4
<1>. HIDE DEF got2
<1>8. IsRead(got2, feed)
  BY <1>4, <1>6, <1>7, ReadItems
<1>. QED  BY <1>4, <1>8 DEF got2, page, items

(***************************************************************************)
(* Steps of the server.                                                    *)
(***************************************************************************)
\* A billet is pushed behind items of earlier billets, a reply has a number of its own.
LEMMA BilletsStep ==
    ASSUME NEW uid \in Nat, NEW g \in Group, NEW h, GroupStep(uid, g, h), Numbered(g),
           BilletsOpen(g)
    PROVE  BilletsOpen(h)
<1>0. g.feed \in Seq(FeedItem)
  BY DEF Group
<1>1. ASSUME NEW item \in FeedItem, h.feed = Append(g.feed, item),
             item.numr = 0 => \A j \in DOMAIN g.feed : g.feed[j].numb < item.numb
      PROVE  BilletsOpen(h)
  <2>1. /\ DOMAIN h.feed = DOMAIN g.feed \cup {Len(g.feed) + 1}
        /\ \A j \in DOMAIN g.feed : h.feed[j] = g.feed[j]
        /\ h.feed[Len(g.feed) + 1] = item
        /\ DOMAIN g.feed = 1 .. Len(g.feed) /\ Len(g.feed) \in Nat
    BY <1>0, <1>1, AppendFacts
  <2>2. ASSUME NEW j \in DOMAIN h.feed, NEW k \in DOMAIN h.feed, j < k, h.feed[k].numr = 0
        PROVE  h.feed[j].numb < h.feed[k].numb
    <3>1. j \in DOMAIN g.feed
      BY <2>1, <2>2
    <3>. QED  BY <1>1, <2>1, <2>2, <3>1 DEF BilletsOpen
  <2>. QED  BY <2>2 DEF BilletsOpen
<1>2. CASE h.feed = g.feed
  BY <1>2 DEF BilletsOpen
<1>3. CASE Invites(uid, g, h) \/ Declines(uid, g, h) \/ Joins(uid, g, h)
           \/ Closes(uid, g, h) \/ Leaves(uid, g, h)
  <2>1. h.feed = g.feed
    BY <1>3 DEF Invites, Declines, Joins, Closes, Leaves, Group, group_add_pending,
                group_remove_pending, group_add_member, close_group, group_remove_member
  <2>. QED  BY <1>2, <2>1
<1>4. CASE Posts(uid, g, h)
  <2>1. h.feed = g.feed \/ h.feed = Append(g.feed, BilletItem(uid, g))
    BY <1>4 DEF Posts, PostedBillet, feed_push, Group
  <2>2. BilletItem(uid, g) \in FeedItem /\ BilletItem(uid, g).numb = Len(g.posts)
    BY PostedTypes DEF BilletItem, Numbered
  <2>3. \A j \in DOMAIN g.feed : g.feed[j].numb < Len(g.posts)
    BY DEF Numbered
  <2>. QED  BY <1>1, <1>2, <2>1, <2>2, <2>3
<1>5. CASE Replies(uid, g, h)
  <2>1. PICK i \in DOMAIN g.posts : h.feed = g.feed \/ h.feed = Append(g.feed, ReplyItem(uid, g, i))
    BY <1>5 DEF Replies, CountedReply, feed_push, Group
  <2>2. ReplyItem(uid, g, i) \in FeedItem /\ g.posts[i] \in Post
    BY RepliedTypes
  <2>3. ReplyItem(uid, g, i).numr # 0
    BY <2>2 DEF ReplyItem, Post
  <2>. QED  BY <1>1, <1>2, <2>1, <2>2, <2>3
<1>. QED  BY <1>3, <1>4, <1>5 DEF GroupStep

\* What a step of the server does to the feeds: it adds a group, or prolongs the feed of
\* some of those there are.
Prolonged ==
    /\ DOMAIN groups \subseteq DOMAIN groups'
    /\ \A s \in DOMAIN groups' :
         /\ groups'[s] \in Group
         /\ s \in DOMAIN groups => /\ groups'[s].idg = groups[s].idg
                                   /\ Prolongs(groups[s].feed, groups'[s].feed)
         /\ s \notin DOMAIN groups => groups'[s].idg = next_gid

LEMMA ServerStep ==
    ASSUME IInv, FeedsOpen, [Next]_vars
    PROVE  Prolonged /\ FeedsOpen'
<1>0. /\ groups \in Seq(Group)
      /\ \A s \in DOMAIN groups : /\ groups[s] \in Group /\ Numbered(groups[s])
                                  /\ BilletsOpen(groups[s]) /\ Retained(groups[s], groups[s])
  BY SameKept DEF IInv, TypeOK, FeedNumbered, FeedsOpen
<1>1. CASE groups' = groups
  BY <1>0, <1>1 DEF Prolonged, FeedsOpen, Retained
<1>2. ASSUME NEW uid \in Callers, NewGroupStep(uid)
      PROVE  Prolonged /\ FeedsOpen'
  <2>1. PICK h \in Group : groups' = Append(groups, h) /\ h.feed = << >> /\ h.idg = next_gid
    <3>1. PICK h \in {NewGroup(next_gid), Complete(uid)} : groups' = Append(groups, h)
      BY <1>2 DEF NewGroupStep
    <3>2. h \in Group
      BY <3>1, NewGroupTypes, CallerNumbers DEF IInv, TypeOK, Complete
    <3>3. /\ NewGroup(next_gid).feed = << >> /\ NewGroup(next_gid).idg = next_gid
          /\ Complete(uid).feed = << >> /\ Complete(uid).idg = next_gid
      BY DEF Complete, NewGroup, group_add_member
    <3>. QED  BY <3>1, <3>2, <3>3
  <2>2. BilletsOpen(h)
    BY <2>1 DEF BilletsOpen
  <2>3. /\ DOMAIN groups' = DOMAIN groups \cup {Len(groups) + 1}
        /\ \A s \in DOMAIN groups : groups'[s] = groups[s]
        /\ groups'[Len(groups) + 1] = h
    BY <1>0, <2>1, AppendFacts
  <2>. QED  BY <1>0, <2>1, <2>2, <2>3 DEF Prolonged, FeedsOpen, Retained
<1>3. ASSUME NEW uid \in Callers, OpenStep(uid)
      PROVE  Prolonged /\ FeedsOpen'
  <2>1. PICK t \in DOMAIN groups, h \in Group :
          ~groups[t].closed /\ Update(t, h) /\ GroupStep(uid, groups[t], h)
    BY <1>3 DEF OpenStep
  <2>2. /\ DOMAIN groups' = DOMAIN groups
        /\ \A s \in DOMAIN groups : groups'[s] = IF s = t THEN h ELSE groups[s]
    BY <2>1, UpdateTypes DEF IInv
  <2>3. Retained(groups[t], h) /\ BilletsOpen(h)
    BY <1>0, <2>1, GroupStepHistory, BilletsStep, CallerNumbers
  <2>. QED  BY <1>0, <2>1, <2>2, <2>3 DEF Prolonged, FeedsOpen, Retained
<1>4. UNCHANGED vars \/ TablesUnchanged \/ UserStep => groups' = groups
  BY DEF vars, TablesUnchanged, UserStep
<1>. QED  BY <1>1, <1>2, <1>3, <1>4, NextShape DEF IInv

\* Numbers once given stay unique, so no later group takes the place of the one read.
LEMMA OthersStep ==
    ASSUME ReaderInv, [Next]_vars, UNCHANGED got
    PROVE  ReaderInv'
<1>. USE DEF ReaderInv
<1>0. IInv' /\ FeedsOpen' /\ Prolonged
  BY NextIInv, ServerStep
<1>1. GotTypes' /\ \A r \in Readers : got[r] \in Seq(FeedItem)
  BY DEF GotTypes
<1>2. GotNothingYet'
  BY <1>0 DEF GotNothingYet, Prolonged
<1>3. ASSUME NEW s \in DOMAIN groups', groups'[s].idg = IDG, NEW r \in Readers
      PROVE  IsRead(got[r], groups'[s].feed)
  <2>1. CASE s \in DOMAIN groups
    <3>1. groups[s].idg = IDG /\ Prolongs(groups[s].feed, groups'[s].feed)
      BY <1>0, <1>3, <2>1 DEF Prolonged
    <3>2. IsRead(got[r], groups[s].feed)
      BY <2>1, <3>1 DEF ReadInOrder, IsRead
    <3>3. groups[s].feed \in Seq(FeedItem) /\ groups'[s].feed \in Seq(FeedItem)
      <4>1. groups[s] \in Group /\ groups'[s] \in Group
        BY <1>0, <2>1 DEF IInv, TypeOK, Prolonged
      <4>. QED  BY <4>1 DEF Group
    <3>. QED  BY <1>1, <3>1, <3>2, <3>3, ReadStays
  <2>2. CASE s \notin DOMAIN groups
    <3>1. IDG = next_gid
      BY <1>0, <1>3, <2>2 DEF Prolonged
    <3>2. \A t \in DOMAIN groups : groups[t].idg # IDG
      BY <3>1 DEF IInv, IdsNameOneEntry, TypeOK
    <3>. QED  BY <3>2 DEF GotNothingYet, IsRead
  <2>. QED  BY <2>1, <2>2
<1>4. ReadInOrder'
  BY <1>3 DEF ReadInOrder, IsRead
<1>. QED  BY <1>0, <1>1, <1>2, <1>4

(***************************************************************************)
(* Steps of a reader.                                                      *)
(***************************************************************************)
\* The cursor names the last item read, and before the first page the first item.
LEMMA CursorIsLast ==
    ASSUME ReaderInv, NEW r \in Readers, NEW s \in DOMAIN groups, groups[s].idg = IDG,
           NEW i \in feed_index_after(groups[s], NUMB(r), NUMR(r))
    PROVE  i \in DOMAIN groups[s].feed /\ i = Len(got[r]) + 1
<1>. DEFINE feed == groups[s].feed
            q == got[r]
<1>1. /\ groups[s] \in Group /\ Numbered(groups[s]) /\ BilletsOpen(groups[s])
      /\ IsRead(q, feed) /\ q \in Seq(FeedItem)
  BY DEF ReaderInv, IInv, TypeOK, FeedNumbered, FeedsOpen, GotTypes, ReadInOrder, IsRead
<1>2. feed \in Seq(FeedItem) /\ DOMAIN feed = 1 .. Len(feed)
  BY <1>1 DEF Group
<1>3. i \in DOMAIN feed /\ feed[i].numb = NUMB(r) /\ feed[i].numr = NUMR(r)
  BY DEF feed_index_after
<1>4. \A j \in DOMAIN feed : feed[j].numb \in Nat /\ feed[j].numr \in Nat
  <2>1. \A j \in DOMAIN feed : feed[j] \in FeedItem
    BY <1>2
  <2>. QED  BY <2>1 DEF FeedItem
<1>5. CASE q = << >>
  <2>1. feed[i].numb = 0 /\ feed[i].numr = 0 /\ Len(q) = 0
    BY <1>3, <1>5 DEF NUMB, NUMR
  <2>2. ~ 1 < i
    <3>1. 1 \in DOMAIN feed
      BY <1>2, <1>3
    <3>2. 1 < i => feed[1].numb < feed[i].numb
      BY <1>1, <1>3, <2>1, <3>1 DEF BilletsOpen
    <3>. QED  BY <1>4, <2>1, <3>1, <3>2
  <2>. QED  BY <1>2, <1>3, <2>1, <2>2
<1>6. CASE q # << >>
  <2>1. /\ Len(q) \in Nat /\ Len(q) # 0 /\ Len(q) < Len(feed)
        /\ q[Len(q)] = feed[Len(q) + 1]
    <3>1. Len(q) \in Nat /\ Len(q) # 0
      BY <1>1, <1>6, EmptySeq
    <3>2. Len(q) < Len(feed) /\ \A k \in 1 .. Len(q) : q[k] = feed[k + 1]
      BY <1>1, <1>2, <1>6, ReadItems
    <3>. QED  BY <3>1, <3>2
  <2>. DEFINE l == Len(q) + 1
  <2>2. l \in DOMAIN feed /\ feed[l].numb = feed[i].numb /\ feed[l].numr = feed[i].numr
    BY <1>2, <1>3, <1>6, <2>1 DEF NUMB, NUMR
  <2>3. ~(i < l) /\ ~(l < i)
    BY <1>1, <1>3, <1>4, <2>2 DEF Numbered
  <2>4. l \in Nat /\ i \in Nat
    BY <1>2, <1>3, <2>1
  <2>. QED  BY <1>3, <2>3, <2>4
<1>. QED  BY <1>5, <1>6

\* The cursor is a pair of numbers, which the server can look for.
LEMMA CursorTypes ==
    ASSUME GotTypes, NEW r \in Readers
    PROVE  NUMB(r) \in Nat /\ NUMR(r) \in Nat
<1>1. got[r] \in Seq(FeedItem)
  BY DEF GotTypes
<1>2. CASE got[r] = << >>
  BY <1>2 DEF NUMB, NUMR
<1>3. CASE got[r] # << >>
  <2>1. Len(got[r]) \in DOMAIN got[r]
    BY <1>1, <1>3, EmptySeq
  <2>2. got[r][Len(got[r])] \in FeedItem
    BY <1>1, <2>1
  <2>. QED  BY <1>3, <2>2 DEF NUMB, NUMR, FeedItem
<1>. QED  BY <1>2, <1>3

LEMMA RunStep ==
    ASSUME ReaderInv, NEW r \in Readers, cmd_feed(r)
    PROVE  ReaderInv'
<1>. USE DEF ReaderInv
<1>0. /\ r \in Nat /\ got[r] \in Seq(FeedItem) /\ GotTypes
      /\ DOMAIN got = Readers /\ got \in [Readers -> Seq(FeedItem)]
  BY ReadersCall, CallerNumbers DEF GotTypes
<1>1. handle_feed(r, IDG, NUMB(r), NUMR(r), TRUE) /\ NUMB(r) \in Nat /\ NUMR(r) \in Nat
  BY <1>0, CursorTypes DEF cmd_feed
<1>2. PICK n \in 0 .. Len(reply'.items) :
        got' = [got EXCEPT ![r] = got[r] \o SubSeq(reply'.items, 1, n)]
  BY DEF cmd_feed
<1>3. TablesUnchanged
  BY <1>1 DEF handle_feed, Refused
<1>4. TypeOK'
  <2>1. CASE Refused(r)
    BY <1>0, <2>1, RefusedTypes DEF IInv
  <2>2. CASE ~Refused(r)
    <3>1. PICK s \in MemberOf(r, IDG) : TRUE
      BY <1>1, <2>2 DEF handle_feed
    <3>2. s \in DOMAIN groups /\ groups[s] \in Group /\ groups[s].idg = IDG
      BY <3>1 DEF MemberOf, find_group, IInv, TypeOK
    <3>3. IDG \in Nat
      BY <3>2 DEF Group
    <3>. QED  BY <1>0, <1>1, <3>3, FeedTypes DEF IInv
  <2>. QED  BY <2>1, <2>2
<1>5. IInv' /\ FeedsOpen'
  BY <1>3, <1>4 DEF IInv, TablesUnchanged, Counters, IdsNameOneEntry, MembersRegistered,
                    FeedNumbered, GhostInert, FeedsOpen, find_user
<1>6. CASE Refused(r)
  <2>1. reply'.items = << >>
    BY <1>6 DEF Refused, send_err, Answer
  <2>2. n = 0
    BY <1>2, <2>1
  <2>3. SubSeq(reply'.items, 1, n) = << >>
    BY <2>1, <2>2, SubSeqEmpty
  <2>4. got[r] \o << >> = got[r]
    BY <1>0, ConcatEmptySeq
  <2>5. got' = got
    BY <1>0, <1>2, <2>3, <2>4
  <2>. QED  BY <1>3, <1>5, <2>5 DEF TablesUnchanged, GotTypes, GotNothingYet, ReadInOrder
<1>7. CASE ~Refused(r)
  <2>0. PICK s \in MemberOf(r, IDG) : \E i \in feed_index_after(groups[s], NUMB(r), NUMR(r)) :
          reply' = [Answer(r, "FEED_OK", IDG, 0, 0) EXCEPT !.items = After(groups[s], i)]
    BY <1>1, <1>7 DEF handle_feed
  <2>1. PICK i \in feed_index_after(groups[s], NUMB(r), NUMR(r)) :
          reply'.items = After(groups[s], i)
    BY <2>0 DEF Answer
  <2>. DEFINE feed == groups[s].feed
              page == SubSeq(SubSeq(feed, i + 1, Len(feed)), 1, n)
  <2>2. /\ s \in DOMAIN groups /\ groups[s] \in Group /\ groups[s].idg = IDG
        /\ \A t \in DOMAIN groups : groups[t].idg = IDG => t = s
    BY <2>0 DEF MemberOf, find_group, IInv, TypeOK, IdsNameOneEntry
  <2>3. feed \in Seq(FeedItem) /\ IsRead(got[r], feed)
    BY <2>2 DEF Group, ReadInOrder, IsRead
  <2>4. i \in DOMAIN feed /\ i = Len(got[r]) + 1
    BY <2>1, <2>2, CursorIsLast
  <2>5. n \in 0 .. Len(SubSeq(feed, i + 1, Len(feed))) /\ got' = [got EXCEPT ![r] = got[r] \o page]
    BY <1>2, <2>1 DEF After
  <2>6. got[r] \o page \in Seq(FeedItem) /\ IsRead(got[r] \o page, feed)
    BY <1>0, <2>3, <2>4, <2>5, ReadOn
  <2>. HIDE DEF page, feed
  <2>7. \A q \in Readers : got'[q] = IF q = r THEN got[r] \o page ELSE got[q]
    BY <1>0, <2>5
  <2>8. GotTypes'
    BY <1>0, <2>5, <2>6 DEF GotTypes
  <2>9. ReadInOrder'
    <3>1. ASSUME NEW t \in DOMAIN groups, groups[t].idg = IDG, NEW q \in Readers
          PROVE  IsRead(got'[q], groups[t].feed)
      <4>1. t = s
        BY <2>2, <3>1
      <4>2. IsRead(got[q], groups[t].feed)
        BY <3>1 DEF ReadInOrder, IsRead
      <4>. QED  BY <2>6, <2>7, <4>1, <4>2 DEF feed
    <3>2. groups' = groups
      BY <1>3 DEF TablesUnchanged
    <3>. QED  BY <3>1, <3>2 DEF ReadInOrder, IsRead
  <2>10. GotNothingYet'
    BY <1>3, <2>2 DEF GotNothingYet, TablesUnchanged
  <2>. QED  BY <1>5, <2>8, <2>9, <2>10
<1>. QED  BY <1>6, <1>7

\* A reader sees the items that follow the first billet, in order, each once.
THEOREM ReadersMissNothing == ReaderSpec => []ReadInOrder
<1>1. ReaderInit => ReaderInv
  <2>. SUFFICES ASSUME ReaderInit PROVE ReaderInv
    OBVIOUS
  <2>1. groups = << >> /\ DOMAIN groups = {} /\ got = [r \in Readers |-> << >>]
    BY DEF ReaderInit, Init
  <2>2. IInv
    BY InitIInv DEF ReaderInit
  <2>3. << >> \in Seq(FeedItem)
    OBVIOUS
  <2>. QED  BY <2>1, <2>2, <2>3
            DEF ReaderInv, FeedsOpen, GotTypes, GotNothingYet, ReadInOrder
<1>2. ReaderInv /\ [ReaderNext]_readerVars => ReaderInv'
  <2>1. UNCHANGED readerVars => UNCHANGED vars /\ UNCHANGED got
    BY DEF readerVars
  <2>. QED  BY <2>1, OthersStep, RunStep DEF ReaderNext
<1>3. ReaderInv => ReadInOrder
  BY DEF ReaderInv
<1>. QED  BY <1>1, <1>2, <1>3, PTL DEF ReaderSpec

================================================================================
