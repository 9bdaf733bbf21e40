---------------------------- MODULE ParolesCommands ----------------------------
(***************************************************************************)
(* People who run commands of paroles_client against one server over clear *)
(* TCP, and give up, try again or go on to something else when an answer   *)
(* does not come: src/src/client.c (one_cmd_plain, the commands and the     *)
(* listeners) with the tables of ParolesServer and the bytes of ParolesWire.*)
(*                                                                         *)
(* A command is one connection, on which the request is written at once;   *)
(* connections are served one after the other, in the order in which they  *)
(* were made, also those whose client has given up meanwhile: their        *)
(* request is carried out and the answer is lost.  Datagrams may arrive    *)
(* late, in any order, several times or not at all.                        *)
(***************************************************************************)
EXTENDS ParolesServer, ParolesWire

CONSTANTS
    People,      \* the registered users, each with one command at a time
    None,        \* the client of a connection whose client has gone
    Listeners,   \* those who also run listeners
    Hosts,       \* those who also make groups and invite
    Lengths,     \* the lengths of the texts they write
    BACKLOG,     \* connections that wait: listen(s, 8)
    MaxRuns      \* bound: commands run by one person

ASSUME PeopleCall == 1 \in People /\ People \subseteq Callers /\ None \notin People
ASSUME PeopleFit == \E n \in 1 .. MAX_USERS : People = 1 .. n
ASSUME NoSession == ~SigningKey
ASSUME ListenersKnown == Listeners \subseteq People /\ Hosts \subseteq People
ASSUME NumbersFit ==     \* in the fields of a request and of the answer to FEED
    /\ MAX_USERS \in U32 /\ MaxBillets \in U32 /\ MaxReplies \in U32
    /\ MaxBillets * (MaxReplies + 1) \in U32
ASSUME RequestsInBounds == MaxInvitees > 0 /\ MaxReplies > 0
ASSUME CommandBounds == Lengths \subseteq Nat /\ BACKLOG \in Nat \ {0} /\ MaxRuns \in Nat /\ MAX_GROUPS > 0

VARIABLES
    queue,    \* the connections made and not yet served
    net,      \* the datagrams sent so far: any of them may still arrive, or arrive again
    texts,    \* the text of each item of a feed, by <<idg, numb, numr>>
    person,   \* what each person is doing, and has been told
    ear       \* what the listeners that run have printed

IDG == 1     \* the group they talk about

commandVars == <<queue, net, texts, person, ear>>
allVars == <<vars, commandVars>>

Person == [cmd : CommandType,              \* the command that runs, Bad if none
           mail : Seq([code : Codes, body : Seq(Nat)]),   \* the answer, once it has come
           runs : Nat,                     \* commands run so far
           ok : Nat, lost : Nat,           \* writings acknowledged, given up
           word : {"in", "out", "none"},   \* what the last answer about membership settled
           knew : Nat]                     \* the news heard when the command was typed
Ear == [on : BOOLEAN,        \* cmd_listen_mcast and cmd_listen_udp run
        news : Nat,          \* the last item announced by a line NEW_MSG
        fetched : BOOLEAN,   \* a line FETCH printed
        closed : BOOLEAN]    \* a line CLOSE printed
Deaf == [on |-> FALSE, news |-> 0, fetched |-> FALSE, closed |-> FALSE]

\* A datagram on its way.  It does not carry the number of the item it announces: `item'
\* is here so that properties may speak of it.
Packet == [code : Notifs, idg : Nat, to : Nat, item : Nat]

(***************************************************************************)
(* Slips a change of the code could introduce, each in place of the        *)
(* operator named before its underscore.                                   *)
(***************************************************************************)
Accepted_Last(q) == Len(q)
Room_OffByOne == Len(queue) =< BACKLOG
NumberPrinted_First(body) == wire_get_u32_be(body, 1)
Settles_Ack(p) ==
    IF person[p].cmd.code # "INV_ANS" THEN person[p].word
    ELSE IF person[p].mail[1].code = "JOIN_OK" THEN "in" ELSE "out"

(***************************************************************************)
(* The client                                                              *)
(***************************************************************************)

\* The bytes of a text say only who wrote it.
Words(p) == {[i \in 1 .. n |-> p % BYTE] : n \in Lengths}

\* A name and a list of invitees just too long for the buffers.
LongName(p) == [i \in 1 .. NEWGROUP_MSG - 6 |-> p % BYTE]
Crowd(q) == [i \in 1 .. (INVITE_MSG - 13) \div 8 + 1 |-> q]
Names(p) == Words(p) \cup {LongName(p)}
Called(p) == UNION {{<<q>>, Crowd(q)} : q \in People \ {p}}

Commands(p) ==
    LET c(code) == Command(code, p, IDG)
        text(cmd, words) == {[cmd EXCEPT !.text = t] : t \in words}
        hosting == text(Command("NEW_GROUP", p, 0), Names(p))
                     \cup {[c("INVITE") EXCEPT !.ids = ids] : ids \in Called(p)}
    IN  text(c("POST"), Words(p)) \cup text(c("REPLY"), Words(p))
        \cup {h \in hosting : p \in Hosts}
        \cup {[c("INV_ANS") EXCEPT !.an = an] : an \in 0 .. 2}
        \cup {[c("FEED") EXCEPT !.numr = n] : n \in {0, 1}}
        \cup {c("LIST_MEM"), Command("LIST_INV", p, 0)}

Waits(p) == person[p].cmd # Bad
Writes(p) == person[p].cmd.code \in {"POST", "REPLY"}

Room == Len(queue) < BACKLOG

\* tcp6_connect and conn_writen, while the accept queue has room.  Whoever answers an
\* invitation or leaves reopens the question of being in the group.
one_cmd_plain(p, c) ==
    /\ ~Waits(p) /\ person[p].runs < MaxRuns /\ Room
    /\ queue' = Append(queue, [client |-> p, typed |-> c, body |-> Sent(c)])
    /\ person' = [person EXCEPT ![p].cmd = c, ![p].runs = @ + 1,
                                ![p].word = IF c.code = "INV_ANS" THEN "none" ELSE person[p].word,
                                ![p].knew = IF p \in Listeners THEN ear[p].news ELSE 0]
    /\ UNCHANGED <<vars, net, texts, ear>>

\* A request that does not fit is written past the end of the buffer, over whatever the
\* stack of cmd_newgroup or cmd_invite and of their callers holds there.  The process may
\* end before it has sent anything; if it gets to sending (one_cmd_plain), what it sends
\* begins at the buffer, and is the request.
overflows(p, c) ==
    /\ ~Fits(c) /\ ~Waits(p) /\ person[p].runs < MaxRuns
    /\ person' = [person EXCEPT ![p].runs = @ + 1]
    /\ UNCHANGED <<vars, queue, net, texts, ear>>

\* What an answer to cmd_ans settles: JOIN_OK says that p is in; any answer to "2",
\* also ERR, that p is out.
Settles(p) ==
    LET c == person[p].cmd
    IN  IF c.code # "INV_ANS" THEN person[p].word
        ELSE IF c.an = 2 THEN "out"
        ELSE IF person[p].mail[1].code = "JOIN_OK" THEN "in" ELSE "none"

\* The number cmd_post prints.
NumberPrinted(body) == wire_get_u32_be(body, 5)

\* cmd_listinv and cmd_listmem do not look at the code of the answer: they read a
\* count at byte k, and fail if fewer entries follow.  (The entries, which the model
\* leaves out, are all there in a LIST_INV_OK or LIST_MEM_OK.  The one group anybody is
\* invited to here has a name that cmd_listinv has room for, 255 bytes at most.)
Listed(m, k) == m.code \in {"LIST_INV_OK", "LIST_MEM_OK"} \/ wire_get_u32_be(m.body, k) = 0

\* The command c ends with status 0 on answer m, if its request fitted: otherwise it may
\* also end by a signal.
Succeeds(c, m) ==
    CASE c.code = "NEW_GROUP" -> m.code = "NEW_GROUP_OK"
      [] c.code = "INVITE"    -> m.code = "ACK"
      [] c.code = "LIST_INV"  -> Listed(m, 1)
      [] c.code = "INV_ANS"   -> m.code \in {"ACK", "JOIN_OK"}
      [] c.code = "LIST_MEM"  -> Listed(m, 5)
      [] c.code = "POST"      -> m.code = "POST_OK"
      [] c.code = "REPLY"     -> m.code = "REPLY_OK"
      [] c.code = "FEED"      -> m.code = "FEED_OK"

\* The answer is read and printed, unless the process dies of its overflow, and the
\* command ends.
cmd_ends(p) ==
    /\ person[p].mail # << >>
    /\ person' = [person EXCEPT
          ![p].cmd = Bad, ![p].mail = << >>, ![p].word = Settles(p),
          ![p].ok = IF person[p].mail[1].code \in {"POST_OK", "REPLY_OK"} THEN @ + 1 ELSE @]
    /\ UNCHANGED <<vars, queue, net, texts, ear>>

\* Thirty seconds without an answer: the command fails and its connection is closed.
gives_up(p) ==
    /\ Waits(p) /\ person[p].mail = << >>
    /\ person' = [person EXCEPT ![p].cmd = Bad, ![p].lost = @ + IF Writes(p) THEN 1 ELSE 0]
    /\ queue' = [i \in DOMAIN queue |->
                   IF queue[i].client = p THEN [queue[i] EXCEPT !.client = None] ELSE queue[i]]
    /\ UNCHANGED <<vars, net, texts, ear>>

(***************************************************************************)
(* The listeners                                                           *)
(***************************************************************************)
FeedLength == Len(groups[IDG].feed)

cmd_listen(p) ==
    /\ ~ear[p].on
    /\ ear' = [ear EXCEPT ![p] = [Deaf EXCEPT !.on = TRUE]]
    /\ UNCHANGED <<vars, queue, net, texts, person>>

\* The deadline passes.
listen_ends(p) ==
    /\ ear[p].on
    /\ ear' = [ear EXCEPT ![p] = Deaf]
    /\ UNCHANGED <<vars, queue, net, texts, person>>

\* udp6_recv and write_notif_line: a datagram arrives, perhaps long after it was sent, and
\* perhaps for the second time.
Heard(e, d) ==
    [e EXCEPT !.news = IF d.item > @ THEN d.item ELSE @,
              !.fetched = @ \/ d.code = "FETCH",
              !.closed = @ \/ d.code = "CLOSE"]
udp6_recv(p) ==
    /\ ear[p].on
    /\ \E d \in net : /\ d.idg = IDG /\ d.to \in {ALL, p}
                      /\ ear' = [ear EXCEPT ![p] = Heard(ear[p], d)]
    /\ UNCHANGED <<vars, queue, net, texts, person>>

(***************************************************************************)
(* The server                                                              *)
(***************************************************************************)
\* dispatch: the request as it was read, given to its handler.
dispatch(c, alloc) ==
    \/ c.code = "NEW_GROUP" /\ handle_new_group(c.uid, alloc)
    \/ c.code = "INVITE" /\ handle_invite(c.uid, c.idg, c.ids)
    \/ c.code = "LIST_INV" /\ handle_list_inv(c.uid)
    \/ c.code = "INV_ANS" /\ c.an = 0 /\ decline(c.uid, c.idg)
    \/ c.code = "INV_ANS" /\ c.an = 1 /\ accept(c.uid, c.idg)
    \/ c.code = "INV_ANS" /\ c.an = 2 /\ leave(c.uid, c.idg)
    \/ c.code = "LIST_MEM" /\ handle_list_mem(c.uid, c.idg)
    \/ c.code = "POST" /\ handle_post(c.uid, c.idg, alloc)
    \/ c.code = "REPLY" /\ handle_reply(c.uid, c.idg, c.numb, alloc)
    \/ c.code = "FEED" /\ handle_feed(c.uid, c.idg, c.numb, c.numr, alloc)
    \/ c.code = "BAD" /\ BadRequest(c.uid)

Key(r) == <<r.idg, r.numb, r.numr>>

\* feed_push also keeps the text.
Keeps(c) ==
    texts' = IF reply'.code \notin {"POST_OK", "REPLY_OK"} THEN texts
             ELSE [k \in DOMAIN texts \cup {Key(reply')} |->
                     IF k = Key(reply') THEN c.text ELSE texts[k]]

\* udp6_send_one: the datagrams of a request leave.
Announcements == {d \in net : d.code = "NEW_MSG" /\ d.idg = IDG}
Stamped(d) ==
    [code |-> d.code, idg |-> d.idg, to |-> d.to,
     item |-> IF d.code = "NEW_MSG" /\ d.idg = IDG THEN Cardinality(Announcements) + 1 ELSE 0]
Sends == net' = net \cup {Stamped(d) : d \in sent'}

\* The answer in bytes, after its code; the lists of names are left out.
Answered(r) ==
    CASE r.code \in {"POST_OK", "REPLY_OK"} ->
           wire_put_u32_be(r.idg) \o wire_put_u32_be(r.numb) \o
           IF r.code = "POST_OK" THEN << >> ELSE wire_put_u32_be(r.numr)
      [] r.code = "FEED_OK" ->
           FeedBytes(r.idg, [k \in DOMAIN r.items |->
               Line(r.items[k], texts[<<r.idg, r.items[k].numb, r.items[k].numr>>])])
      [] r.code \in {"ERR", "ACK"} -> wire_put_zeros(15)
      [] OTHER -> << >>

\* main() accepts the connections in the order in which they were made.
Accepted(q) == 1
serve_client ==
    LET n == Accepted(queue)
        conn == queue[n]
        c == Read(conn.typed.code, conn.body)
    IN  /\ queue # << >>
        /\ \E alloc \in Alloc : dispatch(c, alloc)
        /\ Keeps(c)
        /\ queue' = SubSeq(queue, 1, n - 1) \o SubSeq(queue, n + 1, Len(queue))
        /\ person' = IF conn.client = None THEN person
                     ELSE [person EXCEPT ![conn.client].mail =
                             <<[code |-> reply'.code, body |-> Answered(reply')]>>]
        /\ Sends
        /\ UNCHANGED ear

(***************************************************************************)
(* Specification                                                           *)
(***************************************************************************)
\* Everybody is registered and invited to the group that 1 has made.
CommandsInit ==
    LET g == group_add_member([NewGroup(IDG) EXCEPT !.named = TRUE, !.admin_id = 1], 1)
    IN  /\ users = [i \in 1 .. Cardinality(People) |-> i]
        /\ next_uid = Cardinality(People) + 1
        /\ groups = <<group_add_pending(g, People \ {1})>> /\ next_gid = IDG + 1
        /\ reply = send_ack(1) /\ sent = {}
        /\ queue = << >> /\ net = {} /\ texts = << >>
        /\ person = [p \in People |-> [cmd |-> Bad, mail |-> << >>, runs |-> 0,
                                       ok |-> 0, lost |-> 0, word |-> "none", knew |-> 0]]
        /\ ear = [p \in Listeners |-> Deaf]

CommandsNext ==
    \/ serve_client
    \/ \E p \in People : \/ \E c \in Commands(p) : one_cmd_plain(p, c) \/ overflows(p, c)
                         \/ cmd_ends(p) \/ gives_up(p)
    \/ \E p \in Listeners : cmd_listen(p) \/ listen_ends(p) \/ udp6_recv(p)

CommandsSpec == CommandsInit /\ [][CommandsNext]_allVars

(***************************************************************************)
(* Properties                                                              *)
(***************************************************************************)
CommandsTypeOK ==
    /\ queue \in Seq([client : People \cup {None}, typed : CommandType, body : Seq(0 .. BYTE - 1)])
    /\ Len(queue) =< BACKLOG
    /\ \A k \in DOMAIN texts : texts[k] \in Seq(0 .. BYTE - 1)
    /\ net \subseteq Packet /\ person \in [People -> Person] /\ ear \in [Listeners -> Ear]

\* The request the server reads in the bytes of a connection is the command that was
\* typed, if it fitted in the buffer of the command, with a text of 65536 bytes or more cut
\* as cmd_post cuts it.
RequestsUnderstood ==
    \A i \in DOMAIN queue : Fits(queue[i].typed) =>
        LET c == queue[i].typed
            bad == c.code = "NEW_GROUP" /\ Kept(c.text) = << >>
        IN  Read(c.code, queue[i].body) = IF bad THEN Bad ELSE [c EXCEPT !.text = Kept(@)]

ItemsOf(p) == {k \in DOMAIN groups[IDG].feed : groups[IDG].feed[k].author = p}
Unread(p) == IF person[p].mail # << >> /\ person[p].mail[1].code \in {"POST_OK", "REPLY_OK"}
             THEN 1 ELSE 0

\* A writing that was acknowledged is in the feed, once; what the feed holds of somebody
\* beyond that are writings whose answer is on its way, or commands that were given up,
\* once each at most: only a person who tries again writes twice.
WritingsAccounted ==
    \A p \in People :
        LET n == Cardinality(ItemsOf(p)) - person[p].ok - Unread(p)
        IN  0 =< n /\ n =< person[p].lost + IF Waits(p) THEN 1 ELSE 0

\* Whoever is answered to "2", be it ERR, is out of the group until the next answer to
\* an invitation, and whoever is answered JOIN_OK is in until the group closes, although
\* earlier commands that were given up may have been served in between.
LastWordStands ==
    \A p \in People : ~groups[IDG].closed =>
        /\ person[p].word = "in" => p \in groups[IDG].mem
        /\ person[p].word = "out" => p \notin groups[IDG].mem

\* A line of the feed as the reader sees it: numbers and author as in the table, and a
\* text that author typed.
TrueLine(l, item) ==
    /\ l.author = item.author /\ l.numb = item.numb /\ l.numr = item.numr
    /\ l.text \in {Kept(t) : t \in Words(l.author)}

TextOf(item) == texts[<<IDG, item.numb, item.numr>>]

\* However much of the answer to FEED arrives, cmd_feed prints consecutive items of the
\* feed, each whole, under its author and numbers, as its author typed it; and at least
\* one as soon as the first one has arrived.
PagesTrue ==
    \A p \in People : person[p].mail # << >> /\ person[p].mail[1].code = "FEED_OK" =>
        LET feed == groups[IDG].feed
            body == person[p].mail[1].body
            start == feed_index_after(groups[IDG], person[p].cmd.numb, person[p].cmd.numr)
        IN  \A n \in {m \in 0 .. Len(body) : m =< RESP}, s \in start :
                LET lines == Printed(SubSeq(body, 1, n))
                IN  /\ s + Len(lines) =< Len(feed)
                    /\ \A k \in DOMAIN lines : TrueLine(lines[k], feed[s + k])
                    /\ s < Len(feed) /\ n >= 8 + 14 + Len(TextOf(feed[s + 1])) => lines # << >>

\* docs/VALIDATION_ET_CAS_LIMITES_PAROLES.md:23: a command ends with status 0 only when
\* the server carried it out, and refusals show in `$?'.
StatusTellsRefusal ==
    \A p \in People : person[p].mail # << >> /\ person[p].mail[1].code = "ERR" =>
        ~Succeeds(person[p].cmd, person[p].mail[1])

\* The number cmd_post prints is the number of a billet of the one who posted, with the
\* text that was posted.
NumberTrue ==
    \A p \in People : person[p].mail # << >> /\ person[p].mail[1].code = "POST_OK" =>
        LET numb == NumberPrinted(person[p].mail[1].body)
        IN  /\ \E k \in ItemsOf(p) : groups[IDG].feed[k].numb = numb /\ groups[IDG].feed[k].numr = 0
            /\ texts[<<IDG, numb, 0>>] = Kept(person[p].cmd.text)

\* However late, how often and in whatever order datagrams arrive, a listener is never told
\* of an item the feed does not have, of a FETCH without having opened a billet, nor of
\* the closing of a group that is open.
HeardTrue ==
    \A p \in Listeners :
        /\ ear[p].news =< FeedLength
        /\ ear[p].fetched => \E i \in DOMAIN groups[IDG].posts : groups[IDG].posts[i].author = p
        /\ ear[p].closed => groups[IDG].closed

\* Whoever was told of an item and then asks for the feed finds it there: the answer goes
\* to the last item announced when the command was typed, if not further.
AnnouncedIsRead ==
    \A p \in People : person[p].mail # << >> /\ person[p].mail[1].code = "FEED_OK" =>
        \A s \in feed_index_after(groups[IDG], person[p].cmd.numb, person[p].cmd.numr) :
            s + wire_get_u32_be(person[p].mail[1].body, 5) >= person[p].knew
================================================================================
