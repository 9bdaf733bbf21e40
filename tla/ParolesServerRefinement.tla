------------------------ MODULE ParolesServerRefinement ------------------------
(***************************************************************************)
(* The server implements ParolesService, for every value of the constants: *)
(* each request is a step of the service, or shows nothing of itself.      *)
(***************************************************************************)
EXTENDS ParolesServerService, ParolesServerProofs, FiniteSetTheorems

(***************************************************************************)
(* What the mapping rests on, besides IInv: a number is the slot of its    *)
(* entry.                                                                  *)
(***************************************************************************)
SlotsNumbered == /\ \A i \in DOMAIN users : users[i] = i
                 /\ \A s \in DOMAIN groups : groups[s].idg = s
SInv == IInv /\ SlotsNumbered

LEMMA SlotsStep ==
    ASSUME SInv, Next
    PROVE  SlotsNumbered'
<1>. USE DEF SInv, IInv
<1>1. CASE TablesUnchanged
  BY <1>1 DEF TablesUnchanged, SlotsNumbered
<1>2. CASE UserStep
  <2>1. users \in Seq(Nat) /\ next_uid \in Nat /\ next_uid = Len(users) + 1
    BY DEF TypeOK, Counters
  <2>. QED  BY <1>2, <2>1, AppendFacts DEF UserStep, SlotsNumbered
<1>3. ASSUME NEW uid \in Callers, NewGroupStep(uid)
      PROVE  SlotsNumbered'
  <2>1. PICK h \in Group : h.idg = next_gid /\ groups' = Append(groups, h)
    BY <1>3, NewGroupTypes, CallerNumbers
       DEF NewGroupStep, Complete, NewGroup, TypeOK, group_add_member
  <2>2. groups \in Seq(Group) /\ next_gid = Len(groups) + 1 /\ users' = users
    BY <1>3 DEF TypeOK, Counters, NewGroupStep
  <2>. QED  BY <2>1, <2>2, AppendFacts DEF SlotsNumbered
<1>4. ASSUME NEW uid \in Callers, OpenStep(uid)
      PROVE  SlotsNumbered'
  <2>1. PICK s \in DOMAIN groups, h \in Group : Update(s, h) /\ GroupStep(uid, groups[s], h)
    BY <1>4 DEF OpenStep
  <2>2. h.idg = groups[s].idg
    BY <2>1, GroupStepKeeps DEF TypeOK
  <2>. QED  BY <2>1, <2>2, UpdateTypes DEF SlotsNumbered
<1>. QED  BY <1>1, <1>2, <1>3, <1>4, NextShape

LEMMA InitSInv == Init => SInv
BY InitIInv DEF Init, SInv, SlotsNumbered

LEMMA NextSInv == SInv /\ [Next]_vars => SInv'
<1>1. SInv /\ UNCHANGED vars => SlotsNumbered'
  BY DEF SInv, vars, SlotsNumbered
<1>. QED  BY <1>1, NextIInv, SlotsStep DEF SInv

(***************************************************************************)
(* The tables as people see them.                                          *)
(***************************************************************************)
\* A step that leaves the tables alone leaves what is seen of them alone.
LEMMA SameSeen ==
    ASSUME TablesUnchanged
    PROVE  CirclesSeen' = CirclesSeen /\ UsersSeen' = UsersSeen
  BY DEF TablesUnchanged, CirclesSeen, UsersSeen, Circle

\* The users seen are those the server finds.
LEMMA UsersFound == \A u : u \in UsersSeen <=> find_user(u)
  BY DEF UsersSeen, find_user

\* The service counts people as anybody does.
LEMMA SameCount == \A S : Service!Cardinality(S) = Cardinality(S)
  BY Zenon DEF Service!Cardinality, Cardinality

\* A circle has room for all the users there can be.
LEMMA Room ==
    ASSUME SInv, NEW S, \A u \in S : find_user(u)
    PROVE  Cardinality(S) \in Nat /\ Cardinality(S) =< MAX_USERS
<1>1. Len(users) \in Nat /\ Len(users) =< MAX_USERS /\ MAX_USERS \in Nat
  BY TableSizes DEF SInv, IInv, TypeOK
<1>2. S \in SUBSET (1 .. MAX_USERS)
  BY <1>1 DEF find_user, SInv, SlotsNumbered, IInv, TypeOK
<1>3. IsFiniteSet(1 .. MAX_USERS) /\ Cardinality(1 .. MAX_USERS) = MAX_USERS
  BY <1>1, FS_Interval
<1>4. IsFiniteSet(S) /\ Cardinality(S) =< Cardinality(1 .. MAX_USERS)
  BY <1>2, <1>3, FS_Subset
<1>. QED  BY <1>3, <1>4, FS_CardinalityType

\* Replacing an entry replaces one circle.
LEMMA UpdateSeen ==
    ASSUME TypeOK, NEW s \in DOMAIN groups, NEW h \in Group, Update(s, h)
    PROVE  Service!Becomes(s, Circle(h))
<1>1. /\ users' = users /\ DOMAIN groups' = DOMAIN groups
      /\ \A t \in DOMAIN groups : groups'[t] = IF t = s THEN h ELSE groups[t]
  BY UpdateTypes
<1>2. UsersSeen' = UsersSeen
  BY <1>1 DEF UsersSeen
<1>. HIDE DEF Circle
<1>4. CirclesSeen' = [CirclesSeen EXCEPT ![s] = Circle(h)]
  BY <1>1 DEF CirclesSeen
<1>. QED  BY <1>2, <1>4 DEF Service!Becomes

\* A group found open is a circle, seen under the number asked for.
LEMMA Visible ==
    ASSUME SInv, NEW idg \in Nat, NEW s \in find_group(idg)
    PROVE  /\ s = idg /\ s \in DOMAIN groups /\ groups[s] \in Group /\ groups[s].idg = idg
           /\ ~groups[s].closed
           /\ s \in DOMAIN CirclesSeen /\ CirclesSeen[s] = Circle(groups[s])
<1>1. s \in DOMAIN groups /\ groups[s].idg = idg /\ ~groups[s].closed /\ s = idg
  BY DEF find_group, SInv, SlotsNumbered
<1>2. groups[s] \in Group
  BY <1>1 DEF SInv, IInv, TypeOK
<1>. QED  BY <1>1, <1>2 DEF CirclesSeen

\* What is said to a group, seen on its circle.
LEMMA ToCircleSeen ==
    ASSUME NEW s \in DOMAIN groups, groups[s].idg = s, NEW code
    PROVE  notif_mcast(groups[s], code) = Service!ToCircle(code, s)
<1>1. CirclesSeen[s].address = groups[s].named
  BY DEF CirclesSeen, Circle
<1>. QED  BY <1>1, Zenon DEF notif_mcast, Service!ToCircle, ALL

\* The authors of a group's billets, as the topics of its circle.
LEMMA Topics ==
    ASSUME NEW g \in Group
    PROVE  /\ Circle(g).topics \in Seq(Nat) /\ Len(Circle(g).topics) = Len(g.posts)
           /\ \A i \in DOMAIN g.posts : Circle(g).topics[i] = g.posts[i].author
<1>1. g.posts \in Seq(Post)
  BY DEF Group
<1>2. \A i \in DOMAIN g.posts : g.posts[i].author \in Nat
  <2>1. \A i \in DOMAIN g.posts : g.posts[i] \in Post
    BY <1>1
  <2>. QED  BY <2>1 DEF Post
<1>3. DOMAIN g.posts = 1 .. Len(g.posts) /\ Len(g.posts) \in Nat
  BY <1>1
<1>. QED  BY <1>2, <1>3 DEF Circle

\* A step that does not touch the billets of a group keeps the topics of its circle.
LEMMA SameTopics ==
    ASSUME NEW g, NEW h, h.posts = g.posts
    PROVE  Circle(h) = [admin |-> h.admin_id, address |-> h.named, closed |-> h.closed,
                        members |-> h.mem, invited |-> h.pend, thread |-> h.feed,
                        topics |-> Circle(g).topics]
  BY DEF Circle

\* The updates of the lists of a group, seen on its circle.
LEMMA CircleOps ==
    ASSUME NEW g \in Group, NEW uid \in Nat, NEW new
    PROVE  /\ Circle(group_add_pending(g, new)) = [Circle(g) EXCEPT !.invited = @ \cup new]
           /\ Circle(group_remove_pending(g, uid)) = [Circle(g) EXCEPT !.invited = @ \ {uid}]
           /\ Circle(group_add_member(group_remove_pending(g, uid), uid)) =
                [Circle(g) EXCEPT !.invited = @ \ {uid}, !.members = @ \cup {uid}]
           /\ Circle(group_remove_member(g, uid)) = [Circle(g) EXCEPT !.members = @ \ {uid}]
           /\ Circle(close_group(g)) = [Circle(g) EXCEPT !.closed = TRUE]
<1>. DEFINE t == Circle(g).topics
<1>1. Circle(g) = [admin |-> g.admin_id, address |-> g.named, closed |-> g.closed,
                   members |-> g.mem, invited |-> g.pend, thread |-> g.feed, topics |-> t]
  BY SameTopics
<1>2. ASSUME NEW h, h.posts = g.posts
      PROVE  Circle(h) = [admin |-> h.admin_id, address |-> h.named, closed |-> h.closed,
                          members |-> h.mem, invited |-> h.pend, thread |-> h.feed, topics |-> t]
  BY <1>2, SameTopics
<1>. HIDE DEF t
<1>. DEFINE circle(c, m, i) == [admin |-> g.admin_id, address |-> g.named, closed |-> c,
                                members |-> m, invited |-> i, thread |-> g.feed, topics |-> t]
<1>0. /\ Circle(g).members = g.mem /\ Circle(g).invited = g.pend
      /\ \A i : [Circle(g) EXCEPT !.invited = i] = circle(g.closed, g.mem, i)
      /\ \A m : [Circle(g) EXCEPT !.members = m] = circle(g.closed, m, g.pend)
      /\ \A m, i : [Circle(g) EXCEPT !.invited = i, !.members = m] = circle(g.closed, m, i)
      /\ [Circle(g) EXCEPT !.closed = TRUE] = circle(TRUE, g.mem, g.pend)
  <2>1. Circle(g).members = g.mem /\ Circle(g).invited = g.pend
    BY <1>1
  <2>2. ASSUME NEW i PROVE [Circle(g) EXCEPT !.invited = i] = circle(g.closed, g.mem, i)
    BY <1>1
  <2>3. ASSUME NEW m PROVE [Circle(g) EXCEPT !.members = m] = circle(g.closed, m, g.pend)
    BY <1>1
  <2>4. ASSUME NEW m, NEW i
        PROVE [Circle(g) EXCEPT !.invited = i, !.members = m] = circle(g.closed, m, i)
    <3>. DEFINE c == [Circle(g) EXCEPT !.invited = i]
    <3>1. c = circle(g.closed, g.mem, i)
      BY <1>1
    <3>2. [c EXCEPT !.members = m] = circle(g.closed, m, i)
      <4>. HIDE DEF c
      <4>. QED  BY <3>1
    <3>3. [Circle(g) EXCEPT !.invited = i, !.members = m] = [c EXCEPT !.members = m]
      OBVIOUS
    <3>. QED  BY <3>2, <3>3
  <2>5. [Circle(g) EXCEPT !.closed = TRUE] = circle(TRUE, g.mem, g.pend)
    <3>. DEFINE x == TRUE
    <3>. HIDE DEF x
    <3>1. [Circle(g) EXCEPT !.closed = x] = circle(x, g.mem, g.pend)
      BY <1>1
    <3>. QED  BY <3>1 DEF x
  <2>. HIDE DEF circle
  <2>. QED  BY <2>1, <2>2, <2>3, <2>4, <2>5
<1>3. Circle(group_add_pending(g, new)) =
        [Circle(g) EXCEPT !.invited = @ \cup new]
  <2>. DEFINE h == group_add_pending(g, new)
  <2>1. /\ h.posts = g.posts /\ h.named = g.named /\ h.admin_id = g.admin_id /\ h.closed = g.closed
        /\ h.mem = g.mem /\ h.pend = g.pend \cup new /\ h.feed = g.feed
    BY DEF group_add_pending, Group
  <2>. HIDE DEF h
  <2>2. Circle(h) = circle(g.closed, g.mem, g.pend \cup new)
    BY <1>2, <2>1
  <2>3. [Circle(g) EXCEPT !.invited = @ \cup new] = circle(g.closed, g.mem, g.pend \cup new)
    <3>. HIDE DEF circle
    <3>. QED  BY <1>0
  <2>. QED  BY <2>2, <2>3 DEF h
<1>4. Circle(group_remove_pending(g, uid)) =
        [Circle(g) EXCEPT !.invited = @ \ {uid}]
  <2>. DEFINE h == group_remove_pending(g, uid)
  <2>1. /\ h.posts = g.posts /\ h.named = g.named /\ h.admin_id = g.admin_id /\ h.closed = g.closed
        /\ h.mem = g.mem /\ h.pend = g.pend \ {uid} /\ h.feed = g.feed
    BY DEF group_remove_pending, Group
  <2>. HIDE DEF h
  <2>2. Circle(h) = circle(g.closed, g.mem, g.pend \ {uid})
    BY <1>2, <2>1
  <2>3. [Circle(g) EXCEPT !.invited = @ \ {uid}] = circle(g.closed, g.mem, g.pend \ {uid})
    <3>. HIDE DEF circle
    <3>. QED  BY <1>0
  <2>. QED  BY <2>2, <2>3 DEF h
<1>5. Circle(group_add_member(group_remove_pending(g, uid), uid)) =
        [Circle(g) EXCEPT !.invited = @ \ {uid}, !.members = @ \cup {uid}]
  <2>. DEFINE h == group_add_member(group_remove_pending(g, uid), uid)
  <2>1. /\ h.posts = g.posts /\ h.named = g.named /\ h.admin_id = g.admin_id /\ h.closed = g.closed
        /\ h.mem = g.mem \cup {uid} /\ h.pend = g.pend \ {uid} /\ h.feed = g.feed
    BY DEF group_add_member, group_remove_pending, Group
  <2>. HIDE DEF h
  <2>2. Circle(h) = circle(g.closed, g.mem \cup {uid}, g.pend \ {uid})
    BY <1>2, <2>1
  <2>3. [Circle(g) EXCEPT !.invited = @ \ {uid}, !.members = @ \cup {uid}] =
          circle(g.closed, g.mem \cup {uid}, g.pend \ {uid})
    <3>. HIDE DEF circle
    <3>1. [Circle(g) EXCEPT !.invited = g.pend \ {uid}, !.members = g.mem \cup {uid}] =
            circle(g.closed, g.mem \cup {uid}, g.pend \ {uid})
      BY <1>0
    <3>2. Circle(g).invited \ {uid} = g.pend \ {uid} /\ Circle(g).members \cup {uid} = g.mem \cup {uid}
      BY <1>0
    <3>. QED  BY <3>1, <3>2, Zenon
  <2>. QED  BY <2>2, <2>3 DEF h
<1>6. Circle(group_remove_member(g, uid)) =
        [Circle(g) EXCEPT !.members = @ \ {uid}]
  <2>. DEFINE h == group_remove_member(g, uid)
  <2>1. /\ h.posts = g.posts /\ h.named = g.named /\ h.admin_id = g.admin_id /\ h.closed = g.closed
        /\ h.mem = g.mem \ {uid} /\ h.pend = g.pend /\ h.feed = g.feed
    BY DEF group_remove_member, Group
  <2>. HIDE DEF h
  <2>2. Circle(h) = circle(g.closed, g.mem \ {uid}, g.pend)
    BY <1>2, <2>1
  <2>3. [Circle(g) EXCEPT !.members = @ \ {uid}] = circle(g.closed, g.mem \ {uid}, g.pend)
    <3>. HIDE DEF circle
    <3>. QED  BY <1>0
  <2>. QED  BY <2>2, <2>3 DEF h
<1>7. Circle(close_group(g)) =
        [Circle(g) EXCEPT !.closed = TRUE]
  <2>. DEFINE h == close_group(g)
  <2>1. /\ h.posts = g.posts /\ h.named = g.named /\ h.admin_id = g.admin_id /\ h.closed = TRUE
        /\ h.mem = g.mem /\ h.pend = g.pend /\ h.feed = g.feed
    BY DEF close_group, Group
  <2>. HIDE DEF h
  <2>2. Circle(h) = circle(TRUE, g.mem, g.pend)
    BY <1>2, <2>1
  <2>3. [Circle(g) EXCEPT !.closed = TRUE] = circle(TRUE, g.mem, g.pend)
    <3>. HIDE DEF circle
    <3>. QED  BY <1>0
  <2>. QED  BY <2>2, <2>3 DEF h
<1>. QED  BY <1>3, <1>4, <1>5, <1>6, <1>7

\* The circle a failed creation leaves.
LEMMA AbandonedShape ==
    Service!Abandoned = [admin |-> 0, address |-> FALSE, closed |-> FALSE, members |-> {},
                         invited |-> {}, thread |-> << >>, topics |-> << >>]
<1>. DEFINE circle(p, b, y, v, i, t) == [admin |-> p, address |-> b, closed |-> y, members |-> v,
                                         invited |-> i, topics |-> t, thread |-> t]
            emptied(p, x, y, m, n, i, t) ==
              [circle(p, x, y, m, i, t) EXCEPT !.address = y, !.members = n]
            yes == TRUE
            no == FALSE
<1>1. ASSUME NEW p, NEW x, NEW y, NEW m, NEW n, NEW i, NEW t
      PROVE  emptied(p, x, y, m, n, i, t) = circle(p, y, y, n, i, t)
  <2>. DEFINE d == [circle(p, x, y, m, i, t) EXCEPT !.address = y]
  <2>1. d = circle(p, y, y, m, i, t)
    OBVIOUS
  <2>2. emptied(p, x, y, m, n, i, t) = [d EXCEPT !.members = n]
    OBVIOUS
  <2>. HIDE DEF d, emptied
  <2>3. [d EXCEPT !.members = n] = circle(p, y, y, n, i, t)
    BY <2>1
  <2>. HIDE DEF circle
  <2>. QED  BY <2>2, <2>3
<1>. HIDE DEF circle, emptied, yes, no
<1>2. emptied(0, yes, no, {0}, {}, {}, << >>) = circle(0, no, no, {}, {}, << >>)
  BY <1>1
<1>3. Service!Abandoned = emptied(0, yes, no, {0}, {}, {}, << >>)
  BY Zenon DEF Service!Abandoned, Service!NewCircle, yes, no, emptied, circle
<1>4. circle(0, no, no, {}, {}, << >>) =
         [admin |-> 0, address |-> no, closed |-> no, members |-> {}, invited |-> {},
          thread |-> << >>, topics |-> << >>]
  BY DEF circle
<1>. QED  BY <1>2, <1>3, <1>4, Zenon DEF no

(***************************************************************************)
(* Each request is a step of the service.                                  *)
(***************************************************************************)
\* What a request answers, as people see it.
LEMMA ErrSeen ==
    ASSUME NEW uid, reply' = send_err(uid)
    PROVE  AnswerSeen' = Service!Refusal
<1>1. /\ (reply'.code \notin {"NONE", "ERR"}) = FALSE /\ reply'.idg = 0 /\ reply'.numb = 0
      /\ reply'.numr = 0 /\ reply'.items = << >>
  BY DEF send_err, Answer
<1>. QED  BY <1>1, Zenon DEF AnswerSeen, Service!Refusal

LEMMA AckSeen ==
    ASSUME NEW uid, reply' = send_ack(uid)
    PROVE  AnswerSeen' = Service!Done
<1>1. /\ (reply'.code \notin {"NONE", "ERR"}) = TRUE /\ reply'.idg = 0 /\ reply'.numb = 0
      /\ reply'.numr = 0 /\ reply'.items = << >>
  BY DEF send_ack, Answer
<1>. QED  BY <1>1, Zenon DEF AnswerSeen, Service!Done, Service!Granted

LEMMA GrantSeen ==
    ASSUME NEW uid, NEW code \in Codes \ {"NONE", "ERR"}, NEW idg, NEW numb, NEW numr,
           reply' = Answer(uid, code, idg, numb, numr)
    PROVE  AnswerSeen' = Service!Granted(idg, numb, numr, << >>)
  BY DEF AnswerSeen, Answer, Service!Granted

LEMMA RefusedSeen ==
    ASSUME NEW uid, Refused(uid)
    PROVE  Service!Next
  BY SameSeen, ErrSeen DEF Refused, Service!Next, Service!Refuse, Service!Same

\* What a member does in a group is something he may do in the service.
LEMMA InSeen ==
    ASSUME NEW uid \in Callers, NEW s \in DOMAIN CirclesSeen, Service!In(uid, s)
    PROVE  Service!Next
  BY Zenon DEF Service!Next

LEMMA RegSeen ==
    ASSUME SInv, handle_reg
    PROVE  Service!Next
<1>1. CASE Refused(0)
  BY <1>1, RefusedSeen
<1>2. CASE FreeUser /\ ~Refused(0)
  <2>1. /\ users' = Append(users, next_uid) /\ sent' = {}
        /\ reply' = Answer(next_uid, "REG_OK", 0, 0, 0) /\ groups' = groups
    BY <1>2 DEF handle_reg
  <2>2. users \in Seq(Nat) /\ next_uid = Len(users) + 1 /\ next_uid \in Nat
    BY DEF SInv, IInv, TypeOK, Counters
  <2>3. next_uid \in 1 .. MAX_USERS
    BY <1>2, <2>2, TableSizes DEF FreeUser
  <2>4. next_uid \notin UsersSeen
    BY <2>2 DEF UsersSeen, SInv, SlotsNumbered
  <2>5. UsersSeen' = UsersSeen \cup {next_uid}
    BY <2>1, <2>2, AppendFacts DEF UsersSeen
  <2>6. CirclesSeen' = CirclesSeen
    BY <2>1 DEF CirclesSeen, Circle
  <2>7. AnswerSeen' = Service!Done
    BY <2>1 DEF AnswerSeen, Answer, Service!Done, Service!Granted
  <2>. QED  BY <2>1, <2>3, <2>4, <2>5, <2>6, <2>7 DEF Service!Next, Service!Register
<1>. QED  BY <1>1, <1>2 DEF handle_reg

LEMMA NewGroupSeen ==
    ASSUME SInv, NEW uid \in Callers, NEW alloc \in Alloc, handle_new_group(uid, alloc)
    PROVE  Service!Next
<1>1. CASE Refused(uid)
  BY <1>1, RefusedSeen
<1>2. CASE ~Refused(uid)
  <2>. DEFINE g == NewGroup(next_gid)
              full == Complete(uid)
              h == IF alloc THEN full ELSE g
  <2>1. /\ find_user(uid) /\ FreeGroup /\ groups' = Append(groups, h)
        /\ reply' = IF alloc THEN Answer(uid, "NEW_GROUP_OK", g.idg, 0, 0) ELSE send_err(uid)
        /\ sent' = {} /\ users' = users
    BY <1>2 DEF handle_new_group, Complete
  <2>2. /\ groups \in Seq(Group) /\ next_gid \in Nat /\ next_gid = Len(groups) + 1
        /\ g.idg = next_gid /\ uid \in Nat /\ alloc \in BOOLEAN
    BY CallerNumbers DEF SInv, IInv, TypeOK, Counters, NewGroup, Alloc
  <2>3. next_gid \in 1 .. MAX_GROUPS /\ next_gid \notin DOMAIN CirclesSeen
    BY <2>1, <2>2, TableSizes DEF FreeGroup, CirclesSeen
  <2>4. UsersSeen' = UsersSeen
    BY <2>1 DEF UsersSeen
  <2>5. g \in Group /\ full \in Group /\ h \in Group
    BY <2>2, NewGroupTypes DEF Complete
  <2>6. Circle(full) = Service!NewCircle(uid)
    <3>1. full.posts = << >> /\ Circle(full).topics = << >>
      <4>1. full.posts = << >>
        BY DEF Complete, NewGroup, group_add_member
      <4>2. Len(Circle(full).topics) = 0 /\ Circle(full).topics \in Seq(Nat)
        BY <2>5, <4>1, Topics
      <4>. HIDE DEF Circle
      <4>. QED  BY <4>1, <4>2
    <3>2. Circle(full) = [admin |-> uid, address |-> TRUE, closed |-> FALSE,
                          members |-> {uid}, invited |-> {}, thread |-> << >>,
                          topics |-> Circle(full).topics]
      <4>1. /\ full.admin_id = uid /\ full.named = TRUE /\ full.closed = FALSE /\ full.mem = {uid}
            /\ full.pend = {} /\ full.feed = << >>
        BY DEF Complete, NewGroup, group_add_member
      <4>. HIDE DEF full
      <4>. QED  BY <4>1, SameTopics
    <3>. QED  BY <3>1, <3>2 DEF Service!NewCircle
  <2>8. /\ DOMAIN groups' = DOMAIN groups \cup {next_gid} /\ groups'[next_gid] = h
        /\ \A t \in DOMAIN groups : groups'[t] = groups[t]
        /\ next_gid \notin DOMAIN groups
    <3>. HIDE DEF h
    <3>. QED  BY <2>1, <2>2, <2>5, AppendFacts
  <2>. HIDE DEF g, full
  <2>9. CASE alloc
    <3>. HIDE DEF Circle
    <3>1. DOMAIN CirclesSeen' = DOMAIN CirclesSeen \cup {next_gid}
      BY <2>8 DEF CirclesSeen
    <3>2. CirclesSeen' = [x \in DOMAIN CirclesSeen \cup {next_gid} |->
                           IF x = next_gid THEN Service!NewCircle(uid) ELSE CirclesSeen[x]]
      BY <2>6, <2>8, <2>9, <3>1 DEF CirclesSeen
    <3>3. AnswerSeen' = Service!Granted(next_gid, 0, 0, << >>)
      BY <2>1, <2>2, <2>9, GrantSeen DEF Codes
    <3>. QED  BY <2>1, <2>3, <2>4, <3>2, <3>3, UsersFound
               DEF Service!Next, Service!Create, Service!Appears
  <2>10. CASE ~alloc
    <3>1. Circle(g) = Service!Abandoned
      <4>1. g.posts = << >> /\ Circle(g).topics = << >>
        <5>1. g.posts = << >>
          BY DEF g, NewGroup
        <5>2. Len(Circle(g).topics) = 0 /\ Circle(g).topics \in Seq(Nat)
          BY <2>5, <5>1, Topics
        <5>. HIDE DEF Circle
        <5>. QED  BY <5>1, <5>2
      <4>2. Circle(g) = [admin |-> 0, address |-> FALSE, closed |-> FALSE,
                         members |-> {}, invited |-> {}, thread |-> << >>,
                         topics |-> Circle(g).topics]
        <5>1. /\ g.admin_id = 0 /\ g.named = FALSE /\ g.closed = FALSE /\ g.mem = {}
              /\ g.pend = {} /\ g.feed = << >>
          BY DEF g, NewGroup
        <5>. QED  BY <5>1, SameTopics
      <4>3. Service!Abandoned = [admin |-> 0, address |-> FALSE, closed |-> FALSE,
                                 members |-> {}, invited |-> {}, thread |-> << >>,
                                 topics |-> << >>]
        BY AbandonedShape
      <4>. HIDE DEF Circle
      <4>. QED  BY <4>1, <4>2, <4>3
    <3>. HIDE DEF Circle
    <3>2. DOMAIN CirclesSeen' = DOMAIN CirclesSeen \cup {next_gid}
      BY <2>8 DEF CirclesSeen
    <3>3. CirclesSeen' = [x \in DOMAIN CirclesSeen \cup {next_gid} |->
                           IF x = next_gid THEN Service!Abandoned ELSE CirclesSeen[x]]
      BY <2>8, <2>10, <3>1, <3>2 DEF CirclesSeen
    <3>4. AnswerSeen' = Service!Refusal
      BY <2>1, <2>10, ErrSeen
    <3>5. Service!Abandon(next_gid)
      BY <2>1, <2>3, <2>4, <3>3, <3>4 DEF Service!Abandon, Service!Appears
    <3>. QED  BY <2>3, <3>5 DEF Service!Next
  <2>. QED  BY <2>2, <2>9, <2>10
<1>. QED  BY <1>1, <1>2

LEMMA InviteSeen ==
    ASSUME SInv, NEW uid \in Callers, NEW idg \in Nat, NEW inv \in Invitations,
           handle_invite(uid, idg, inv)
    PROVE  Service!Next
<1>1. CASE Refused(uid)
  BY <1>1, RefusedSeen
<1>2. CASE ~Refused(uid)
  <2>. DEFINE new == {inv[k] : k \in Invited(inv)}
              h(s) == group_add_pending(groups[s], new)
  <2>1. PICK s \in AdminOf(uid, idg) :
          /\ Update(s, h(s)) /\ reply' \in {send_ack(uid), send_err(uid)}
          /\ sent' = UNION {notif_udp_user(inv[k], "INV_UDP", idg) : k \in Invited(inv)}
    BY <1>2 DEF handle_invite
  <2>2. /\ s = idg /\ s \in DOMAIN groups /\ groups[s] \in Group
        /\ ~groups[s].closed /\ groups[s].admin_id = uid
        /\ s \in DOMAIN CirclesSeen /\ CirclesSeen[s] = Circle(groups[s])
    <3>1. s \in find_group(idg) /\ groups[s].admin_id = uid
      BY <2>1 DEF AdminOf
    <3>. QED  BY <3>1, Visible
  <2>3. \A m \in new : m \in Nat /\ find_user(m)
    <3>0. PICK n \in 0 .. MaxInvitees : inv \in [1 .. n -> Callers]
      BY DEF Invitations
    <3>1. \A k \in Invited(inv) : k \in 1 .. n /\ k \in 1 .. k
      BY <3>0, Bounds DEF Invited
    <3>. QED  BY <3>0, <3>1, CallerNumbers DEF Invited
  <2>4. h(s) \in Group
    BY <2>2, <2>3 DEF group_add_pending, Group
  <2>5. Circle(h(s)) = [Circle(groups[s]) EXCEPT !.invited = @ \cup new]
    BY <2>2, CircleOps, CallerNumbers
  <2>6. Service!Becomes(s, Circle(h(s)))
    BY <2>1, <2>2, <2>4, UpdateSeen DEF SInv, IInv
  <2>7. sent' = Service!ToEach("INV_UDP", s, new)
    BY <2>1, <2>2 DEF Service!ToEach, notif_udp_user
  <2>8. AnswerSeen' \in {Service!Done, Service!Refusal}
    <3>1. CASE reply' = send_ack(uid)
      BY <3>1, AckSeen
    <3>2. CASE reply' = send_err(uid)
      BY <3>2, ErrSeen
    <3>. QED  BY <2>1, <3>1, <3>2
  <2>9. new \subseteq UsersSeen
    BY <2>3, UsersFound
  <2>10. Service!RunBy(uid, s)
    <3>1. CirclesSeen[s].admin = uid /\ ~CirclesSeen[s].closed
      BY <2>2 DEF Circle
    <3>. QED  BY <2>2, <3>1 DEF Service!RunBy
  <2>11. Cardinality(CirclesSeen[s].invited \cup new) =< MAX_USERS + 1
    <3>1. \A u \in groups[s].pend \cup new : find_user(u)
      BY <2>2, <2>3 DEF SInv, IInv, MembersRegistered
    <3>2. CirclesSeen[s].invited = groups[s].pend
      BY <2>2 DEF Circle
    <3>. HIDE DEF new
    <3>. QED  BY <3>1, <3>2, Room, TableSizes
  <2>. HIDE DEF new
  <2>12. Service!Invite(s, new)
    BY <2>2, <2>5, <2>6, <2>7, <2>8, <2>9, <2>11, SameCount DEF Service!Invite
  <2>. QED  BY <2>2, <2>9, <2>10, <2>12, InSeen DEF Service!In
<1>. QED  BY <1>1, <1>2

LEMMA DeclineSeen ==
    ASSUME SInv, NEW uid \in Callers, NEW idg \in Nat, decline(uid, idg)
    PROVE  Service!Next
<1>1. CASE Refused(uid)
  BY <1>1, RefusedSeen
<1>2. CASE ~Refused(uid)
  <2>. DEFINE h(s) == group_remove_pending(groups[s], uid)
  <2>1. PICK s \in PendingOf(uid, idg) :
          Update(s, h(s)) /\ reply' = send_ack(uid) /\ sent' = {}
    BY <1>2 DEF decline
  <2>2. /\ s = idg /\ s \in DOMAIN groups /\ groups[s] \in Group /\ uid \in Nat
        /\ ~groups[s].closed /\ uid \in groups[s].pend
        /\ s \in DOMAIN CirclesSeen /\ CirclesSeen[s] = Circle(groups[s])
    <3>1. s \in find_group(idg) /\ uid \in groups[s].pend
      BY <2>1 DEF PendingOf
    <3>. QED  BY <3>1, Visible, CallerNumbers
  <2>3. h(s) \in Group
    BY <2>2 DEF group_remove_pending, Group
  <2>4. Service!Becomes(s, Circle(h(s)))
    BY <2>1, <2>2, <2>3, UpdateSeen DEF SInv, IInv
  <2>5. Circle(h(s)) = [CirclesSeen[s] EXCEPT !.invited = @ \ {uid}]
    <3>1. Circle(h(s)) = [Circle(groups[s]) EXCEPT !.invited = @ \ {uid}]
      BY <2>2, CircleOps
    <3>. QED  BY <2>2, <3>1, Zenon
  <2>6. Service!InvitedTo(uid, s)
    BY <2>2 DEF Service!InvitedTo, Circle
  <2>. HIDE DEF h
  <2>7. Service!Decline(uid, s)
    BY <2>1, <2>4, <2>5, <2>6, AckSeen DEF Service!Decline
  <2>. QED  BY <2>2, <2>7, InSeen DEF Service!In
<1>. QED  BY <1>1, <1>2

LEMMA AcceptSeen ==
    ASSUME SInv, NEW uid \in Callers, NEW idg \in Nat, accept(uid, idg)
    PROVE  Service!Next
<1>1. CASE Refused(uid)
  BY <1>1, RefusedSeen
<1>2. CASE ~Refused(uid)
  <2>. DEFINE h(s) == group_add_member(group_remove_pending(groups[s], uid), uid)
              listed(s) == \A m \in h(s).mem : find_user(m)
  <2>1. PICK s \in PendingOf(uid, idg) :
          /\ Update(s, h(s))
          /\ reply' = IF listed(s) THEN Answer(uid, "JOIN_OK", idg, 0, 0) ELSE send_err(uid)
          /\ sent' = IF listed(s) THEN notif_mcast(h(s), "JOIN") ELSE {}
    BY <1>2 DEF accept
  <2>2. /\ s = idg /\ s \in DOMAIN groups /\ groups[s] \in Group /\ uid \in Nat
        /\ groups[s].idg = s /\ ~groups[s].closed /\ uid \in groups[s].pend
        /\ s \in DOMAIN CirclesSeen /\ CirclesSeen[s] = Circle(groups[s])
    <3>1. s \in find_group(idg) /\ uid \in groups[s].pend
      BY <2>1 DEF PendingOf
    <3>. QED  BY <3>1, Visible, CallerNumbers
  <2>3. /\ h(s) \in Group /\ h(s).named = groups[s].named /\ h(s).mem = groups[s].mem \cup {uid}
        /\ h(s).idg = groups[s].idg
    BY <2>2 DEF group_remove_pending, group_add_member, Group
  <2>4. listed(s)
    BY <2>2, <2>3 DEF SInv, IInv, MembersRegistered
  <2>5. Service!Becomes(s, Circle(h(s)))
    BY <2>1, <2>2, <2>3, UpdateSeen DEF SInv, IInv
  <2>6. Circle(h(s)) = [CirclesSeen[s] EXCEPT !.invited = @ \ {uid}, !.members = @ \cup {uid}]
    <3>1. Circle(h(s)) = [Circle(groups[s]) EXCEPT !.invited = @ \ {uid}, !.members = @ \cup {uid}]
      BY <2>2, CircleOps
    <3>. QED  BY <2>2, <3>1, Zenon
  <2>7. Service!InvitedTo(uid, s)
    BY <2>2 DEF Service!InvitedTo, Circle
  <2>8. sent' = Service!ToCircle("JOIN", s)
    <3>1. sent' = notif_mcast(groups[s], "JOIN")
      BY <2>1, <2>2, <2>3, <2>4 DEF notif_mcast
    <3>. QED  BY <2>2, <3>1, ToCircleSeen
  <2>9. AnswerSeen' = Service!Granted(s, 0, 0, << >>)
    BY <2>1, <2>2, <2>4, GrantSeen DEF Codes
  <2>10. Cardinality(CirclesSeen[s].members) < MAX_USERS + 1
    <3>1. CirclesSeen[s].members = groups[s].mem
      BY <2>2 DEF Circle
    <3>2. \A u \in groups[s].mem : find_user(u)
      BY <2>2 DEF SInv, IInv, MembersRegistered
    <3>. QED  BY <3>1, <3>2, Room, TableSizes
  <2>. HIDE DEF h
  <2>11. Service!Join(uid, s)
    BY <2>5, <2>6, <2>7, <2>8, <2>9, <2>10, SameCount DEF Service!Join
  <2>. QED  BY <2>2, <2>11, InSeen DEF Service!In
<1>. QED  BY <1>1, <1>2

LEMMA LeaveSeen ==
    ASSUME SInv, NEW uid \in Callers, NEW idg \in Nat, leave(uid, idg)
    PROVE  Service!Next
<1>1. CASE Refused(uid)
  BY <1>1, RefusedSeen
<1>2. CASE ~Refused(uid)
  <2>1. PICK s \in MemberOf(uid, idg) :
          LET admin == groups[s].admin_id = uid
          IN  /\ Update(s, IF admin THEN close_group(groups[s])
                                    ELSE group_remove_member(groups[s], uid))
              /\ reply' = send_ack(uid)
              /\ sent' = notif_mcast(groups[s], IF admin THEN "CLOSE" ELSE "LEAVE")
    BY <1>2 DEF leave
  <2>2. /\ s = idg /\ s \in DOMAIN groups /\ groups[s] \in Group /\ uid \in Nat
        /\ ~groups[s].closed /\ uid \in groups[s].mem
        /\ s \in DOMAIN CirclesSeen /\ CirclesSeen[s] = Circle(groups[s])
        /\ groups[s].idg = s
    <3>1. s \in find_group(idg) /\ uid \in groups[s].mem
      BY <2>1 DEF MemberOf
    <3>. QED  BY <3>1, Visible, CallerNumbers
  <2>3. Service!OpenTo(uid, s) /\ (Service!RunBy(uid, s) <=> groups[s].admin_id = uid)
    BY <2>2 DEF Service!OpenTo, Service!RunBy, Circle
  <2>4. CASE groups[s].admin_id = uid
    <3>. DEFINE h == close_group(groups[s])
    <3>1. h \in Group
      BY <2>2 DEF close_group, Group
    <3>2. Service!Becomes(s, Circle(h))
      BY <2>1, <2>2, <2>4, <3>1, UpdateSeen DEF SInv, IInv
    <3>3. Circle(h) = [CirclesSeen[s] EXCEPT !.closed = TRUE]
      <4>1. Circle(h) = [Circle(groups[s]) EXCEPT !.closed = TRUE]
        BY <2>2, CircleOps
      <4>. QED  BY <2>2, <4>1, Zenon
    <3>4. sent' = Service!ToCircle("CLOSE", s)
      BY <2>1, <2>2, <2>4, ToCircleSeen
    <3>. HIDE DEF h
    <3>5. Service!Close(uid, s)
      BY <2>1, <2>3, <2>4, <3>2, <3>3, <3>4, AckSeen DEF Service!Close
    <3>. QED  BY <2>2, <3>5, InSeen DEF Service!In
  <2>5. CASE groups[s].admin_id # uid
    <3>. DEFINE h == group_remove_member(groups[s], uid)
    <3>1. h \in Group
      BY <2>2 DEF group_remove_member, Group
    <3>2. Service!Becomes(s, Circle(h))
      BY <2>1, <2>2, <2>5, <3>1, UpdateSeen DEF SInv, IInv
    <3>3. Circle(h) = [CirclesSeen[s] EXCEPT !.members = @ \ {uid}]
      <4>1. Circle(h) = [Circle(groups[s]) EXCEPT !.members = @ \ {uid}]
        BY <2>2, CircleOps
      <4>. QED  BY <2>2, <4>1, Zenon
    <3>4. sent' = Service!ToCircle("LEAVE", s)
      BY <2>1, <2>2, <2>5, ToCircleSeen
    <3>. HIDE DEF h
    <3>5. Service!Leave(uid, s)
      BY <2>1, <2>3, <2>5, <3>2, <3>3, <3>4, AckSeen DEF Service!Leave
    <3>. QED  BY <2>2, <3>5, InSeen DEF Service!In
  <2>. QED  BY <2>4, <2>5
<1>. QED  BY <1>1, <1>2

LEMMA ListSeen ==
    ASSUME NEW uid, NEW idg \in Nat, handle_list_inv(uid) \/ handle_list_mem(uid, idg)
    PROVE  Service!Next
<1>1. CASE Refused(uid)
  BY <1>1, RefusedSeen
<1>2. CASE ~Refused(uid)
  <2>1. /\ TablesUnchanged /\ sent' = {}
        /\ reply' \in {Answer(uid, "LIST_INV_OK", 0, 0, 0), Answer(uid, "LIST_MEM_OK", idg, 0, 0)}
    BY <1>2 DEF handle_list_inv, handle_list_mem
  <2>2. PICK n : AnswerSeen' = Service!Granted(n, 0, 0, << >>)
    BY <2>1, GrantSeen DEF Codes
  <2>3. AnswerSeen'.idg = n
    BY <2>2 DEF Service!Granted
  <2>. QED  BY <2>1, <2>2, <2>3, SameSeen DEF Service!Next, Service!Consult, Service!Same
<1>. QED  BY <1>1, <1>2

(***************************************************************************)
(* Writing in a thread.                                                    *)
(***************************************************************************)
\* A post appends its author to the topics, and its item to the thread if it is kept.
LEMMA PostedCircle ==
    ASSUME NEW g \in Group, NEW uid \in Nat, NEW item
    PROVE  /\ Circle(PostedBillet(uid, g)) = [Circle(g) EXCEPT !.topics = Append(@, uid)]
           /\ Circle(feed_push(PostedBillet(uid, g), item)) =
                Service!WithTopic(Circle(g), uid, item)
<1>. DEFINE po == [numb |-> g.next_billet, author |-> uid, next_reply |-> 0]
            h == PostedBillet(uid, g)
            k == feed_push(h, item)
            t == Append(Circle(g).topics, uid)
            circle(top, th) == [admin |-> g.admin_id, address |-> g.named, closed |-> g.closed,
                                members |-> g.mem, invited |-> g.pend, thread |-> th, topics |-> top]
<1>0. po.author = uid /\ po \in Post
  BY DEF Post, Group
<1>1. /\ h.posts = Append(g.posts, po) /\ h.named = g.named
      /\ h.admin_id = g.admin_id /\ h.closed = g.closed /\ h.mem = g.mem
      /\ h.pend = g.pend /\ h.feed = g.feed /\ h \in Group
  BY PostedTypes DEF PostedBillet, Group
<1>2. /\ k.posts = h.posts /\ k.named = g.named /\ k.admin_id = g.admin_id /\ k.closed = g.closed
      /\ k.mem = g.mem /\ k.pend = g.pend /\ k.feed = Append(g.feed, item)
  <2>. HIDE DEF h
  <2>. QED  BY <1>1 DEF feed_push, Group
<1>. HIDE DEF po, h, k
<1>3. Circle(h).topics = t
  <2>1. g.posts \in Seq(Post) /\ h.posts \in Seq(Post)
    BY <1>1 DEF Group
  <2>2. /\ Len(h.posts) = Len(g.posts) + 1 /\ h.posts[Len(g.posts) + 1].author = uid
        /\ \A i \in DOMAIN g.posts : h.posts[i] = g.posts[i]
        /\ DOMAIN h.posts = DOMAIN g.posts \cup {Len(g.posts) + 1}
        /\ DOMAIN g.posts = 1 .. Len(g.posts) /\ Len(g.posts) \in Nat
    BY <1>0, <1>1, <2>1, AppendFacts
  <2>3. /\ Circle(h).topics \in Seq(Nat) /\ Len(Circle(h).topics) = Len(g.posts) + 1
        /\ \A i \in DOMAIN h.posts : Circle(h).topics[i] = h.posts[i].author
    BY <1>1, <2>2, Topics
  <2>4. /\ Circle(g).topics \in Seq(Nat) /\ Len(Circle(g).topics) = Len(g.posts)
        /\ \A i \in DOMAIN g.posts : Circle(g).topics[i] = g.posts[i].author
    BY Topics
  <2>5. /\ t \in Seq(Nat) /\ Len(t) = Len(g.posts) + 1 /\ t[Len(g.posts) + 1] = uid
        /\ \A i \in 1 .. Len(g.posts) : t[i] = Circle(g).topics[i]
    <3>. HIDE DEF Circle
    <3>. QED  BY <2>2, <2>4
  <2>. DEFINE n == Len(g.posts)
              a == Circle(h).topics
  <2>. HIDE DEF t, Circle
  <2>6. ASSUME NEW i \in 1 .. n PROVE a[i] = t[i]
    BY <2>2, <2>3, <2>4, <2>5
  <2>7. a[n + 1] = t[n + 1]
    BY <2>2, <2>3, <2>5
  <2>8. a \in Seq(Nat) /\ Len(a) = n + 1 /\ t \in Seq(Nat) /\ Len(t) = n + 1 /\ n \in Nat
    BY <2>2, <2>3, <2>5
  <2>. HIDE DEF n, a
  <2>9. \A i \in 1 .. n + 1 : a[i] = t[i]
    BY <2>6, <2>7, <2>8
  <2>. QED  BY <2>8, <2>9 DEF a
<1>4. Circle(h) = circle(t, g.feed) /\ Circle(k) = circle(t, Append(g.feed, item))
  <2>1. Circle(h) = circle(t, g.feed)
    BY <1>1, <1>3, SameTopics
  <2>2. Circle(k) = circle(t, Append(g.feed, item))
    BY <1>2, <1>3, SameTopics
  <2>. QED  BY <2>1, <2>2
<1>5. Circle(g) = circle(Circle(g).topics, g.feed)
  BY SameTopics
<1>6. /\ \A x : [Circle(g) EXCEPT !.topics = x] = circle(x, g.feed)
      /\ \A x, y : [Circle(g) EXCEPT !.topics = x, !.thread = y] = circle(x, y)
      /\ Circle(g).thread = g.feed
  <2>. DEFINE top == Circle(g).topics
  <2>0. Circle(g) = circle(top, g.feed)
    BY <1>5
  <2>. HIDE DEF top
  <2>1. ASSUME NEW x PROVE [Circle(g) EXCEPT !.topics = x] = circle(x, g.feed)
    BY <2>0
  <2>2. ASSUME NEW x, NEW y
        PROVE  [Circle(g) EXCEPT !.topics = x, !.thread = y] = circle(x, y)
    <3>. DEFINE c == [Circle(g) EXCEPT !.topics = x]
    <3>1. c = circle(x, g.feed)
      BY <2>1
    <3>2. [c EXCEPT !.thread = y] = circle(x, y)
      <4>. HIDE DEF c
      <4>. QED  BY <3>1
    <3>3. [Circle(g) EXCEPT !.topics = x, !.thread = y] = [c EXCEPT !.thread = y]
      OBVIOUS
    <3>. QED  BY <3>2, <3>3
  <2>3. Circle(g).thread = g.feed
    BY <2>0
  <2>. QED  BY <2>1, <2>2, <2>3
<1>. HIDE DEF circle, Circle
<1>7. Circle(h) = [Circle(g) EXCEPT !.topics = t]
  BY <1>4, <1>6
<1>8. Circle(k) = [Circle(g) EXCEPT !.topics = t, !.thread = Append(Circle(g).thread, item)]
  BY <1>4, <1>6
<1>. QED  BY <1>7, <1>8 DEF h, k, t, Service!WithTopic

\* A reply appends its item to the thread if it is kept, and shows nothing if it is not.
LEMMA CountedCircle ==
    ASSUME NEW g \in Group, NEW i \in DOMAIN g.posts, NEW item
    PROVE  /\ Circle(CountedReply(g, i)) = Circle(g)
           /\ Circle(feed_push(CountedReply(g, i), item)) = Service!WithItem(Circle(g), item)
<1>. DEFINE h == CountedReply(g, i)
            k == feed_push(h, item)
            top == Circle(g).topics
            circle(th) == [admin |-> g.admin_id, address |-> g.named, closed |-> g.closed,
                           members |-> g.mem, invited |-> g.pend, thread |-> th, topics |-> top]
<1>1. /\ h.named = g.named /\ h.admin_id = g.admin_id /\ h.closed = g.closed
      /\ h.mem = g.mem /\ h.pend = g.pend
      /\ h.feed = g.feed /\ h \in Group
      /\ h.posts = [g.posts EXCEPT ![i].next_reply = g.posts[i].next_reply + 1]
  BY RepliedTypes DEF CountedReply, Group
<1>2. /\ DOMAIN h.posts = DOMAIN g.posts
      /\ \A p \in DOMAIN g.posts : h.posts[p].author = g.posts[p].author
  <2>1. g.posts \in Seq(Post)
    BY DEF Group
  <2>2. \A p \in DOMAIN g.posts : g.posts[p] \in Post
    BY <2>1
  <2>. HIDE DEF h
  <2>. QED  BY <1>1, <2>1, <2>2 DEF Post
<1>. HIDE DEF h
<1>3. /\ k.posts = h.posts /\ k.named = g.named /\ k.admin_id = g.admin_id /\ k.closed = g.closed
      /\ k.mem = g.mem /\ k.pend = g.pend /\ k.feed = Append(g.feed, item)
  BY <1>1 DEF feed_push, Group
<1>4. Circle(h).topics = top
  BY <1>2 DEF Circle
<1>5. Circle(g) = circle(g.feed)
  BY SameTopics
<1>. HIDE DEF k, top
<1>6. Circle(h) = circle(g.feed)
  BY <1>1, <1>4, SameTopics
<1>7. Circle(k) = circle(Append(g.feed, item))
  BY <1>3, <1>4, SameTopics
<1>8. Circle(g).thread = g.feed
  BY <1>5
<1>9. \A x : [Circle(g) EXCEPT !.thread = x] = circle(x)
  BY <1>5
<1>. HIDE DEF circle, Circle
<1>. QED  BY <1>5, <1>6, <1>7, <1>8, <1>9 DEF h, k, Service!WithItem

LEMMA PostSeen ==
    ASSUME SInv, NEW uid \in Callers, NEW idg \in Nat, NEW alloc \in BOOLEAN,
           handle_post(uid, idg, alloc)
    PROVE  Service!Next
<1>1. CASE Refused(uid)
  BY <1>1, RefusedSeen
<1>2. CASE ~Refused(uid)
  <2>. DEFINE h(s) == PostedBillet(uid, groups[s])
              item(s) == BilletItem(uid, groups[s])
              k(s) == feed_push(h(s), item(s))
  <2>1. PICK s \in MemberOf(uid, idg) :
          /\ Update(s, IF alloc THEN k(s) ELSE h(s))
          /\ reply' = IF alloc THEN Answer(uid, "POST_OK", idg, groups[s].next_billet, 0)
                               ELSE send_err(uid)
          /\ sent' = IF alloc THEN notif_mcast(groups[s], "NEW_MSG") ELSE {}
    BY <1>2 DEF handle_post, PostedBillet, BilletItem
  <2>. DEFINE g == groups[s]
  <2>2. /\ s = idg /\ s \in DOMAIN groups /\ g \in Group /\ uid \in Nat /\ g.idg = s
        /\ ~g.closed /\ uid \in g.mem
        /\ s \in DOMAIN CirclesSeen /\ CirclesSeen[s] = Circle(g)
    <3>1. s \in find_group(idg) /\ uid \in groups[s].mem
      BY <2>1 DEF MemberOf
    <3>. QED  BY <3>1, Visible, CallerNumbers
  <2>3. h(s) \in Group /\ k(s) \in Group
    BY <2>2, PostedTypes
  <2>4. Service!OpenTo(uid, s)
    BY <2>2 DEF Service!OpenTo, Circle
  <2>5. CASE alloc
    <3>1. Service!Becomes(s, Circle(k(s)))
      BY <2>1, <2>2, <2>3, <2>5, UpdateSeen DEF SInv, IInv
    <3>2. g.next_billet = Len(CirclesSeen[s].topics)
      <4>1. g.next_billet = Len(g.posts)
        BY <2>2 DEF SInv, IInv, FeedNumbered, Numbered
      <4>. QED  BY <2>2, <4>1, Topics
    <3>3. item(s) = [author |-> uid, numb |-> Len(CirclesSeen[s].topics), numr |-> 0]
      BY <3>2 DEF BilletItem
    <3>. HIDE DEF h
    <3>4. Circle(k(s)) = Service!WithTopic(CirclesSeen[s], uid, item(s))
      <4>1. Circle(k(s)) = Service!WithTopic(Circle(g), uid, item(s))
        BY <2>2, PostedCircle DEF h
      <4>. QED  BY <2>2, <4>1
    <3>5. AnswerSeen' = Service!Granted(s, Len(CirclesSeen[s].topics), 0, << >>)
      BY <2>1, <2>2, <2>5, <3>2, GrantSeen DEF Codes
    <3>6. sent' = Service!ToCircle("NEW_MSG", s)
      BY <2>1, <2>2, <2>5, ToCircleSeen
    <3>. HIDE DEF k, item
    <3>7. Service!Open(uid, s)
      BY <2>4, <3>1, <3>3, <3>4, <3>5, <3>6, Zenon DEF Service!Open
    <3>. QED  BY <2>2, <3>7, InSeen DEF Service!In
  <2>6. CASE ~alloc
    <3>1. Service!Becomes(s, Circle(h(s)))
      BY <2>1, <2>2, <2>3, <2>6, UpdateSeen DEF SInv, IInv
    <3>2. Circle(h(s)) = [CirclesSeen[s] EXCEPT !.topics = Append(@, uid)]
      <4>1. Circle(h(s)) = [Circle(g) EXCEPT !.topics = Append(@, uid)]
        BY <2>2, PostedCircle
      <4>. HIDE DEF h, Circle
      <4>. QED  BY <2>2, <4>1, Zenon
    <3>. HIDE DEF h
    <3>3. Service!Lose(uid, s)
      BY <2>1, <2>4, <2>6, <3>1, <3>2, ErrSeen DEF Service!Lose
    <3>. QED  BY <2>2, <3>3, InSeen DEF Service!In
  <2>. QED  BY <2>5, <2>6
<1>. QED  BY <1>1, <1>2

\* The billets and items of a group, by number.
LEMMA NumbersOf ==
    ASSUME SInv, NEW s \in DOMAIN groups
    PROVE  LET g == groups[s]
           IN  /\ g.posts \in Seq(Post) /\ g.feed \in Seq(FeedItem)
               /\ DOMAIN g.posts = 1 .. Len(g.posts) /\ Len(g.posts) \in Nat
               /\ \A numb \in Nat : find_post(g, numb) =
                     IF numb < Len(g.posts) THEN {numb + 1} ELSE {}
               /\ \A k \in DOMAIN g.feed :
                     /\ g.feed[k].numb \in Nat /\ g.feed[k].numr \in Nat
                     /\ g.feed[k].numb < Len(g.posts)
                     /\ g.feed[k].numr =< g.posts[g.feed[k].numb + 1].next_reply
<1>. DEFINE g == groups[s]
<1>1. g \in Group /\ Numbered(g)
  BY DEF SInv, IInv, TypeOK, FeedNumbered
<1>. HIDE DEF g
<1>2. g.posts \in Seq(Post) /\ g.feed \in Seq(FeedItem)
  BY <1>1 DEF Group
<1>3. DOMAIN g.posts = 1 .. Len(g.posts) /\ Len(g.posts) \in Nat
  BY <1>2
<1>4. \A numb \in Nat : find_post(g, numb) = IF numb < Len(g.posts) THEN {numb + 1} ELSE {}
  BY <1>1, <1>3 DEF find_post, Numbered
<1>5. \A k \in DOMAIN g.feed : g.feed[k] \in FeedItem
  BY <1>2
<1>. QED  BY <1>1, <1>2, <1>3, <1>4, <1>5 DEF g, Numbered, FeedItem

LEMMA ReplySeen ==
    ASSUME SInv, NEW uid \in Callers, NEW idg \in Nat, NEW numb \in Nat, NEW alloc \in BOOLEAN,
           handle_reply(uid, idg, numb, alloc)
    PROVE  Service!Next
<1>1. CASE Refused(uid)
  BY <1>1, RefusedSeen
<1>2. CASE ~Refused(uid)
  <2>. DEFINE numr(s, i) == groups[s].posts[i].next_reply + 1
              author(s, i) == groups[s].posts[i].author
              h(s, i) == CountedReply(groups[s], i)
              item(s, i) == ReplyItem(uid, groups[s], i)
              k(s, i) == feed_push(h(s, i), item(s, i))
              fetch(s, i) == IF find_user(author(s, i)) /\ author(s, i) # uid
                             THEN notif_udp_user(author(s, i), "FETCH", idg) ELSE {}
  <2>1. PICK s, i :
          /\ s \in MemberOf(uid, idg) /\ i \in find_post(groups[s], numb)
          /\ numr(s, i) =< MaxReplies
          /\ Update(s, IF alloc THEN k(s, i) ELSE h(s, i))
          /\ reply' = IF alloc THEN Answer(uid, "REPLY_OK", idg, numb, numr(s, i))
                               ELSE send_err(uid)
          /\ sent' = IF alloc THEN notif_mcast(groups[s], "NEW_MSG") \cup fetch(s, i) ELSE {}
    BY <1>2 DEF handle_reply, CountedReply, ReplyItem, find_post
  <2>. DEFINE g == groups[s]
  <2>2. /\ s = idg /\ s \in DOMAIN groups /\ g \in Group /\ uid \in Nat /\ g.idg = s
        /\ ~g.closed /\ uid \in g.mem
        /\ s \in DOMAIN CirclesSeen /\ CirclesSeen[s] = Circle(g)
    <3>1. s \in find_group(idg) /\ uid \in groups[s].mem
      BY <2>1 DEF MemberOf
    <3>. QED  BY <3>1, Visible, CallerNumbers
  <2>3. i \in DOMAIN g.posts /\ i = numb + 1 /\ numb < Len(g.posts) /\ g.posts[i].numb = numb
        /\ numr(s, i) \in Nat /\ numr(s, i) > 0 /\ author(s, i) \in Nat
    <3>1. i \in DOMAIN g.posts /\ i = numb + 1 /\ numb < Len(g.posts) /\ g.posts[i].numb = numb
      <4>1. i \in DOMAIN g.posts /\ g.posts[i].numb = numb
        BY <2>1 DEF find_post
      <4>2. find_post(g, numb) = IF numb < Len(g.posts) THEN {numb + 1} ELSE {}
        BY <2>2, NumbersOf
      <4>. QED  BY <2>1, <4>1, <4>2
    <3>2. g.posts[i] \in Post
      BY <2>2, <3>1, NumbersOf
    <3>3. g.posts[i].next_reply \in Nat /\ g.posts[i].author \in Nat
      BY <3>2 DEF Post
    <3>. QED  BY <3>1, <3>3
  <2>4. h(s, i) \in Group /\ k(s, i) \in Group
    BY <2>2, <2>3, RepliedTypes
  <2>5. CASE ~alloc
    <3>1. Service!Becomes(s, Circle(h(s, i)))
      BY <2>1, <2>2, <2>4, <2>5, UpdateSeen DEF SInv, IInv
    <3>2. Circle(h(s, i)) = CirclesSeen[s]
      BY <2>2, <2>3, CountedCircle
    <3>. HIDE DEF h
    <3>3. CirclesSeen' = CirclesSeen /\ UsersSeen' = UsersSeen
      <4>1. CirclesSeen = [x \in DOMAIN CirclesSeen |-> CirclesSeen[x]]
        BY DEF CirclesSeen
      <4>. QED  BY <2>2, <3>1, <3>2, <4>1 DEF Service!Becomes
    <3>. QED  BY <2>1, <2>5, <3>3, ErrSeen DEF Service!Next, Service!Refuse, Service!Same
  <2>6. CASE alloc
    <3>. DEFINE it == item(s, i)
    <3>1. Service!Becomes(s, Circle(k(s, i)))
      BY <2>1, <2>2, <2>4, <2>6, UpdateSeen DEF SInv, IInv
    <3>2. it = [author |-> uid, numb |-> numb, numr |-> numr(s, i)]
      BY <2>3 DEF ReplyItem
    <3>3. Circle(k(s, i)) = Service!WithItem(CirclesSeen[s], it)
      <4>1. Circle(k(s, i)) = Service!WithItem(Circle(g), it)
        BY <2>2, <2>3, CountedCircle
      <4>. QED  BY <2>2, <4>1
    <3>4. AnswerSeen' = Service!Granted(s, numb, numr(s, i), << >>)
      BY <2>1, <2>2, <2>6, GrantSeen DEF Codes
    <3>5. /\ CirclesSeen[s].topics[numb + 1] = author(s, i)
          /\ Len(CirclesSeen[s].topics) = Len(g.posts) /\ CirclesSeen[s].thread = g.feed
      BY <2>2, <2>3, Topics DEF Circle
    <3>6. \A j \in DOMAIN g.feed : g.feed[j].numb = numb => g.feed[j].numr < numr(s, i)
      <4>1. g.posts[i] \in Post
        BY <2>2, <2>3, NumbersOf
      <4>2. g.posts[i].next_reply \in Nat
        BY <4>1 DEF Post
      <4>3. ASSUME NEW j \in DOMAIN g.feed, g.feed[j].numb = numb
            PROVE  g.feed[j].numr =< g.posts[i].next_reply /\ g.feed[j].numr \in Nat
        <5>. HIDE DEF g
        <5>. QED  BY <2>2, <2>3, <4>3, NumbersOf DEF g
      <4>. QED  BY <4>2, <4>3
    <3>. HIDE DEF it
    <3>7. Service!Openers(s, << it >>) = {author(s, i)}
      BY <3>2, <3>5 DEF Service!Openers
    <3>8. sent' = Service!ToCircle("NEW_MSG", s) \cup Service!Told(uid, s, << it >>)
      <4>1. sent' = notif_mcast(g, "NEW_MSG") \cup fetch(s, i)
        BY <2>1, <2>6
      <4>2. notif_mcast(g, "NEW_MSG") = Service!ToCircle("NEW_MSG", s)
        BY <2>2, ToCircleSeen
      <4>3. fetch(s, i) = Service!Told(uid, s, << it >>)
        BY <2>2, <3>7, UsersFound DEF notif_udp_user, Service!Told, Service!ToEach
      <4>. QED  BY <4>1, <4>2, <4>3
    <3>9. Service!OpenTo(uid, s)
      BY <2>2 DEF Service!OpenTo, Circle
    <3>. HIDE DEF k, item, numr, author, Circle
    <3>10. Service!Reply(uid, s, numb, numr(s, i))
      BY <2>3, <3>1, <3>2, <3>3, <3>4, <3>5, <3>6, <3>8, <3>9 DEF Service!Reply
    <3>11. /\ numb \in 0 .. Len(CirclesSeen[s].topics) - 1
           /\ numr(s, i) \in 1 .. MaxReplies
      BY <2>1, <2>2, <2>3, <3>5, Bounds, NumbersOf
    <3>. QED  BY <2>2, <3>10, <3>11, InSeen DEF Service!In
  <2>. QED  BY <2>5, <2>6
<1>. QED  BY <1>1, <1>2

LEMMA FeedSeen ==
    ASSUME SInv, NEW uid \in Callers, NEW idg \in Nat, NEW numb \in Nat, NEW numr \in Nat,
           NEW alloc \in BOOLEAN, handle_feed(uid, idg, numb, numr, alloc)
    PROVE  Service!Next
<1>1. CASE Refused(uid)
  BY <1>1, RefusedSeen
<1>2. CASE ~Refused(uid)
  <2>1. PICK s, i :
          /\ s \in MemberOf(uid, idg) /\ i \in feed_index_after(groups[s], numb, numr)
          /\ TablesUnchanged
          /\ reply' = [Answer(uid, "FEED_OK", idg, 0, 0) EXCEPT !.items = After(groups[s], i)]
          /\ sent' = Fetches(groups[s], uid, After(groups[s], i))
    BY <1>2 DEF handle_feed
  <2>. DEFINE g == groups[s]
              items == After(g, i)
  <2>2. /\ s = idg /\ s \in DOMAIN groups /\ g \in Group /\ uid \in Nat /\ g.idg = s
        /\ ~g.closed /\ uid \in g.mem
        /\ s \in DOMAIN CirclesSeen /\ CirclesSeen[s] = Circle(g)
    <3>1. s \in find_group(idg) /\ uid \in groups[s].mem
      BY <2>1 DEF MemberOf, handle_feed
    <3>. QED  BY <3>1, Visible, CallerNumbers
  <2>3. /\ i \in DOMAIN g.feed /\ CirclesSeen[s].thread = g.feed
        /\ items = SubSeq(CirclesSeen[s].thread, i + 1, Len(CirclesSeen[s].thread))
    <3>1. i \in DOMAIN g.feed
      BY <2>1 DEF feed_index_after
    <3>2. CirclesSeen[s].thread = g.feed
      BY <2>2 DEF Circle
    <3>. QED  BY <3>1, <3>2 DEF After
  <2>4. AnswerSeen' = Service!Granted(s, 0, 0, items)
    <3>. HIDE DEF items
    <3>1. /\ reply'.code = "FEED_OK" /\ reply'.idg = s /\ reply'.numb = 0
          /\ reply'.numr = 0 /\ reply'.items = items
      BY <2>1, <2>2 DEF Answer, items
    <3>2. (reply'.code \notin {"NONE", "ERR"}) = TRUE
      BY <3>1
    <3>. QED  BY <3>1, <3>2, Zenon DEF AnswerSeen, Service!Granted
  <2>5. \A k \in DOMAIN items :
          /\ items[k].numb \in Nat /\ items[k].numb < Len(g.posts)
          /\ find_post(g, items[k].numb) = {items[k].numb + 1}
          /\ CirclesSeen[s].topics[items[k].numb + 1] = g.posts[items[k].numb + 1].author
    <3>. TAKE k \in DOMAIN items
    <3>1. g.feed \in Seq(FeedItem) /\ i \in 1 .. Len(g.feed)
      BY <2>2, <2>3, NumbersOf
    <3>2. i + k \in DOMAIN g.feed /\ items[k] = g.feed[i + k]
      <4>. DEFINE f == g.feed
      <4>1. f \in Seq(FeedItem) /\ i \in 1 .. Len(f) /\ items = SubSeq(f, i + 1, Len(f))
        BY <3>1 DEF After
      <4>. HIDE DEF f, items
      <4>2. k \in 1 .. Len(f) - i
        BY <4>1
      <4>. QED  BY <4>1, <4>2 DEF f
    <3>3. items[k].numb \in Nat /\ items[k].numb < Len(g.posts)
      BY <2>2, <3>2, NumbersOf
    <3>4. items[k].numb + 1 \in DOMAIN g.posts
      BY <2>2, <3>3, NumbersOf
    <3>5. find_post(g, items[k].numb) = {items[k].numb + 1}
      BY <2>2, <3>3, NumbersOf
    <3>. HIDE DEF items
    <3>. QED  BY <2>2, <3>3, <3>4, <3>5, Topics
  <2>6. sent' = Service!Told(uid, s, items)
    <3>. DEFINE authors == {g.posts[p].author :
                              p \in UNION {find_post(g, items[k].numb) : k \in DOMAIN items}}
    <3>1. authors = Service!Openers(s, items)
      <4>. HIDE DEF items, g
      <4>. DEFINE opens(k, a) == \E p \in find_post(g, items[k].numb) : a = g.posts[p].author
      <4>1. \A a : a \in authors <=> \E k \in DOMAIN items : opens(k, a)
        OBVIOUS
      <4>. HIDE DEF authors
      <4>2. ASSUME NEW k \in DOMAIN items, NEW a
            PROVE  opens(k, a) <=> a = CirclesSeen[s].topics[items[k].numb + 1]
        BY <2>5
      <4>. HIDE DEF opens
      <4>3. \A a : a \in authors <=>
                     \E k \in DOMAIN items : a = CirclesSeen[s].topics[items[k].numb + 1]
        BY <4>1, <4>2
      <4>. QED  BY <4>3 DEF Service!Openers
    <3>2. sent' = UNION {notif_udp_user(a, "FETCH", g.idg) :
                           a \in {b \in authors : b # uid /\ find_user(b)}}
      BY <2>1 DEF Fetches
    <3>. HIDE DEF authors
    <3>3. {b \in authors : b # uid /\ find_user(b)} = (authors \cap UsersSeen) \ {uid}
      BY UsersFound
    <3>. HIDE DEF items
    <3>. QED  BY <2>2, <3>1, <3>2, <3>3 DEF notif_udp_user, Service!Told, Service!ToEach
  <2>7. Service!Same
    BY <2>1, SameSeen DEF Service!Same
  <2>8. Service!OpenTo(uid, s)
    BY <2>2 DEF Service!OpenTo, Circle
  <2>. HIDE DEF items
  <2>9. i \in 0 .. Len(CirclesSeen[s].thread)
    <3>1. g.feed \in Seq(FeedItem)
      BY <2>2 DEF Group
    <3>2. CirclesSeen[s].thread = g.feed
      BY <2>2 DEF Circle
    <3>. QED  BY <2>1, <3>1, <3>2 DEF feed_index_after
  <2>10. Service!Read(uid, s, i)
    BY <2>3, <2>4, <2>6, <2>7, <2>8, <2>9 DEF Service!Read
  <2>. QED  BY <2>2, <2>9, <2>10, InSeen DEF Service!In
<1>. QED  BY <1>1, <1>2

(***************************************************************************)
(* The theorem.                                                            *)
(***************************************************************************)
LEMMA StepSeen ==
    ASSUME SInv, Next
    PROVE  Service!Next
<1>1. ASSUME NEW uid \in Callers, NEW idg \in Nat, NEW alloc \in Alloc,
             \/ handle_list_inv(uid) \/ handle_list_mem(uid, idg) \/ Refused(uid)
             \/ handle_new_group(uid, alloc)
             \/ \E inv \in Invitations : handle_invite(uid, idg, inv)
             \/ decline(uid, idg) \/ accept(uid, idg) \/ leave(uid, idg)
             \/ handle_post(uid, idg, alloc)
             \/ \E numb \in Nat : handle_reply(uid, idg, numb, alloc)
             \/ \E numb, numr \in Nat : handle_feed(uid, idg, numb, numr, alloc)
      PROVE  Service!Next
  <2>. alloc \in BOOLEAN
    BY DEF Alloc
  <2>. QED  BY <1>1, RefusedSeen, ListSeen, NewGroupSeen, InviteSeen, DeclineSeen, AcceptSeen,
               LeaveSeen, PostSeen, ReplySeen, FeedSeen
<1>. QED  BY <1>1, RegSeen, NextCases

LEMMA InitSeen == Init => Service!Init
<1>. SUFFICES ASSUME Init PROVE Service!Init
  OBVIOUS
<1>1. DOMAIN users = {} /\ DOMAIN groups = {} /\ sent = {}
  BY DEF Init
<1>2. UsersSeen = {}
  BY <1>1 DEF UsersSeen
<1>3. CirclesSeen = << >>
  BY <1>1 DEF CirclesSeen
<1>4. AnswerSeen = Service!Refusal
  <2>1. /\ (reply.code \notin {"NONE", "ERR"}) = FALSE /\ reply.idg = 0 /\ reply.numb = 0
        /\ reply.numr = 0 /\ reply.items = << >>
    BY DEF Init, Answer
  <2>. QED  BY <2>1, Zenon DEF AnswerSeen, Service!Refusal
<1>. QED  BY <1>1, <1>2, <1>3, <1>4 DEF Service!Init

\* The server implements the service, for every set of callers, the number 0 included, with
\* or without a signing key, and whatever allocations fail.
THEOREM ServerImplementsService == Spec => ImplementsService
<1>1. SInv /\ [Next]_vars => [Service!Next]_Service!vars
  <2>1. SInv /\ UNCHANGED vars => UNCHANGED Service!vars
    BY DEF vars, Service!vars, UsersSeen, CirclesSeen, Circle, AnswerSeen
  <2>. QED  BY <2>1, StepSeen
<1>. QED  BY <1>1, InitSInv, NextSInv, InitSeen, PTL DEF Spec, ImplementsService, Service!Spec
================================================================================
