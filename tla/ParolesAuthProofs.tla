--------------------------- MODULE ParolesAuthProofs ---------------------------
(***************************************************************************)
(* Theorems about ParolesAuth, for any number of processes, people and     *)
(* uids: sessions belong to the key registered, the nonce file has one     *)
(* writer at a time and is never ahead of the server, with timeouts,       *)
(* killed processes and restarts; and file and server stay in step when    *)
(* nothing fails.                                                          *)
(***************************************************************************)
EXTENDS ParolesAuth, SequenceTheorems, TLAPS

(***************************************************************************)
(* The inductive invariant                                                 *)
(***************************************************************************)
\* AUTH_OK is what p will read next.
Told(p) == inbox[p] # << >> /\ Head(inbox[p]).code = "AUTH_OK"

\* A process that authenticates has a uid; one that does nothing has been sent nothing,
\* and nobody has AUTH_OK before AUTH.
Processes ==
    \A p \in Procs :
        /\ proc[p].pc \in {"read_nonce", "auth_ok", "write_nonce", "send"} => proc[p].uid # 0
        /\ proc[p].pc = "idle" => inbox[p] = << >>
        /\ proc[p].pc = "read_nonce" => ~Told(p)

\* A connection whose client is there says where that process is.
Linked ==
    \A i \in DOMAIN backlog : LET c == backlog[i] IN c.client # None =>
        /\ proc[c.client].pc # "idle"
        /\ c.first = "none" <=> proc[c.client].pc = "read_nonce"
        /\ proc[c.client].uid = c.uid /\ proc[c.client].num = c.num

Sessions == TypeOK /\ Processes /\ Linked /\ SessionOwned

\* In the first run of the server every uid in use is one it has given.
Registered ==
    /\ \A key \in Keys : known[key] \in DOMAIN users \cup {0}
    /\ \A p \in Procs : /\ proc[p].uid \in DOMAIN users \cup {0}
                        /\ \A i \in DOMAIN inbox[p] : inbox[p][i].uid \in DOMAIN users \cup {0}
    /\ \A i \in DOMAIN backlog : backlog[i].uid \in DOMAIN users \cup {0}
    /\ \A u \in Uids \ DOMAIN users : file[u] = 0

\* n, the number the server expects from u next: the file is at most one behind, or
\* empty; a number waiting to be judged is n only if the file holds n; who may write
\* the file was accepted with n - 1, and the file does not hold n yet.
NumbersOf(u, n) ==
    /\ file[u] \in {0, n - 1, n}
    /\ \A i \in DOMAIN backlog : backlog[i].first = "AUTH" /\ backlog[i].uid = u =>
          backlog[i].num =< n /\ (backlog[i].num = n => file[u] = n)
    /\ \A p \in Procs : MayWrite(p, u) =>
          /\ proc[p].num + 1 = n /\ file[u] < n
          /\ \A q \in Procs : MayWrite(q, u) => p = q

Numbers == \A u \in DOMAIN users : NumbersOf(u, users[u].auth_nonce)

IInv == Sessions /\ (restarts = 0 => Registered /\ Numbers)

\* Nothing fails: the clients of all connections are there, one each, and have been sent
\* nothing yet, but for the one being served; only that one may write a nonce file.
ConnPc(first) ==
    CASE first = "none" -> "read_nonce" [] first = "AUTH" -> "auth_ok" [] OTHER -> "reply"

Attended(c) ==
    /\ \/ proc[c.client].pc = "auth_ok" /\ Len(inbox[c.client]) = 1 /\ Told(c.client)
       \/ proc[c.client].pc \in {"write_nonce", "send", "reply"} /\ inbox[c.client] = << >>
    /\ c.req => proc[c.client].pc = "reply"

Waiting(c) ==
    inbox[c.client] = << >> /\ proc[c.client].pc = ConnPc(c.first) /\ ~c.req

Calm ==
    /\ restarts = 0
    /\ \A i \in DOMAIN backlog : backlog[i].client # None
    /\ \A i, j \in DOMAIN backlog : backlog[i].client = backlog[j].client => i = j
    /\ \A i \in DOMAIN backlog :
          IF i = 1 /\ stage = "request" THEN Attended(backlog[i]) ELSE Waiting(backlog[i])
    /\ \A p \in Procs : Told(p) \/ proc[p].pc = "write_nonce" =>
          stage = "request" /\ backlog[1].client = p

CalmInv == IInv /\ Calm /\ InSync

(***************************************************************************)
(* Sequences: what a process sends on its connection leaves the queue as   *)
(* long as it was.                                                         *)
(***************************************************************************)
LEMMA EndsShape ==
    ASSUME TypeOK, NEW p \in Procs, Ends(p)
    PROVE  /\ proc' = [proc EXCEPT ![p] = Idle] /\ inbox' = [inbox EXCEPT ![p] = << >>]
           /\ backlog' \in Seq(Conn) /\ Len(backlog') = Len(backlog)
           /\ DOMAIN backlog' = DOMAIN backlog
           /\ \A i \in DOMAIN backlog :
                backlog'[i] = IF backlog[i].client = p THEN [backlog[i] EXCEPT !.client = None]
                              ELSE backlog[i]
<1>1. backlog \in Seq(Conn) /\ \A i \in 1 .. Len(backlog) : backlog[i] \in Conn
  BY DEF TypeOK
<1>2. backlog' = [i \in 1 .. Len(backlog) |->
                    IF backlog[i].client = p THEN [backlog[i] EXCEPT !.client = None]
                    ELSE backlog[i]]
  BY <1>1 DEF Ends, OwnConn
<1>3. \A i \in 1 .. Len(backlog) :
         (IF backlog[i].client = p THEN [backlog[i] EXCEPT !.client = None] ELSE backlog[i]) \in Conn
  BY <1>1 DEF Conn
<1>4. backlog' \in Seq(Conn)
  BY <1>1, <1>2, <1>3
<1>. QED  BY <1>1, <1>2, <1>4 DEF Ends

\* The messages the server sends reach the client that is there, after those before.
LEMMA SendsShape ==
    ASSUME TypeOK, NEW c \in Conn, NEW msgs \in Seq(Message), Sends(c, msgs)
    PROVE  /\ inbox' \in [Procs -> Seq(Message)]
           /\ \A p \in Procs : inbox'[p] = IF p = c.client THEN inbox[p] \o msgs ELSE inbox[p]
  BY NoneIsNone DEF Sends, TypeOK, Conn

\* A connection that ends leaves the others in their order.
LEMMA ClosesShape ==
    ASSUME TypeOK, backlog # << >>, Closes
    PROVE  /\ backlog' \in Seq(Conn) /\ Len(backlog') = Len(backlog) - 1
           /\ \A i \in DOMAIN backlog' : i + 1 \in DOMAIN backlog /\ backlog'[i] = backlog[i + 1]
           /\ stage' = "first" /\ restarts' = restarts
  BY DEF TypeOK, Closes, NextStage

LEMMA HeadConn ==
    ASSUME TypeOK, backlog # << >>
    PROVE  Head(backlog) = backlog[1] /\ 1 \in DOMAIN backlog /\ backlog[1] \in Conn
  BY DEF TypeOK

\* What each step of a process does, without its local definitions.
LEMMA ReadNonceShape ==
    ASSUME TypeOK, NEW p \in Procs, proc[p].uid # 0, read_nonce(p)
    PROVE  /\ proc[p].pc = "read_nonce" /\ file[proc[p].uid] \in Nat
           /\ proc' = [proc EXCEPT ![p].pc = "auth_ok", ![p].num = file[proc[p].uid]]
           /\ backlog' \in Seq(Conn) /\ Len(backlog') = Len(backlog)
           /\ DOMAIN backlog' = DOMAIN backlog
           /\ \A i \in DOMAIN backlog :
                backlog'[i] = IF backlog[i].client = p
                              THEN [backlog[i] EXCEPT !.first = "AUTH", !.num = file[proc[p].uid]]
                              ELSE backlog[i]
           /\ UNCHANGED <<serverVars, inbox, file, known>>
<1>. DEFINE num == file[proc[p].uid]
            auth(c) == [c EXCEPT !.first = "AUTH", !.num = num]
            sent(c) == IF c.client = p THEN auth(c) ELSE c
<1>1. backlog \in Seq(Conn) /\ \A i \in 1 .. Len(backlog) : backlog[i] \in Conn
  BY DEF TypeOK
<1>2. proc[p].uid \in Uids /\ num \in Nat
  BY DEF TypeOK, Proc
<1>3. backlog' = [i \in DOMAIN backlog |-> sent(backlog[i])]
  BY DEF read_nonce, OwnConn
<1>4. \A c \in Conn : sent(c) \in Conn
  BY <1>2 DEF Conn
<1>5. /\ backlog' \in Seq(Conn) /\ Len(backlog') = Len(backlog)
      /\ DOMAIN backlog' = DOMAIN backlog
      /\ \A i \in DOMAIN backlog : backlog'[i] = sent(backlog[i])
  <2>. HIDE DEF sent
  <2>. QED  BY <1>1, <1>3, <1>4
<1>. QED  BY <1>2, <1>5 DEF read_nonce

LEMMA SendRequestShape ==
    ASSUME TypeOK, NEW p \in Procs, send_request(p)
    PROVE  /\ proc[p].pc = "send" /\ proc' = [proc EXCEPT ![p].pc = "reply"]
           /\ backlog' \in Seq(Conn) /\ Len(backlog') = Len(backlog)
           /\ DOMAIN backlog' = DOMAIN backlog
           /\ \A i \in DOMAIN backlog :
                backlog'[i] = IF backlog[i].client = p THEN [backlog[i] EXCEPT !.req = TRUE]
                              ELSE backlog[i]
           /\ UNCHANGED <<serverVars, inbox, file, known>>
<1>1. backlog \in Seq(Conn) /\ \A i \in 1 .. Len(backlog) : backlog[i] \in Conn
  BY DEF TypeOK
<1>2. backlog' = [i \in 1 .. Len(backlog) |->
                    IF backlog[i].client = p THEN [backlog[i] EXCEPT !.req = TRUE]
                    ELSE backlog[i]]
  BY <1>1 DEF send_request, OwnConn
<1>3. \A i \in 1 .. Len(backlog) :
         (IF backlog[i].client = p THEN [backlog[i] EXCEPT !.req = TRUE] ELSE backlog[i]) \in Conn
  BY <1>1 DEF Conn
<1>4. backlog' \in Seq(Conn)
  BY <1>1, <1>2, <1>3
<1>. QED  BY <1>1, <1>2, <1>4 DEF send_request

LEMMA ConnectsShape ==
    ASSUME TypeOK, NEW p \in Procs, NEW key \in Keys, NEW uid \in Uids \cup {0},
           NEW first \in {"none", "REG", "OTHER"}, NEW pc \in {"read_nonce", "reply"},
           Connects(p, key, uid, first, pc)
    PROVE  /\ proc[p].pc = "idle"
           /\ proc' = [proc EXCEPT ![p] = [pc |-> pc, key |-> key, uid |-> uid, num |-> 0]]
           /\ proc' \in [Procs -> Proc]
           /\ backlog' \in Seq(Conn) /\ Len(backlog') = Len(backlog) + 1
           /\ \A i \in DOMAIN backlog : i \in DOMAIN backlog' /\ backlog'[i] = backlog[i]
           /\ backlog'[Len(backlog) + 1] = [client |-> p, first |-> first, key |-> key,
                                            uid |-> uid, num |-> 0, req |-> FALSE]
           /\ \A i \in DOMAIN backlog' : i \in DOMAIN backlog \/ i = Len(backlog) + 1
           /\ UNCHANGED <<serverVars, inbox, file, known>>
<1>. DEFINE c == [client |-> p, first |-> first, key |-> key, uid |-> uid, num |-> 0, req |-> FALSE]
<1>1. c \in Conn
  BY DEF Conn
<1>2. [pc |-> pc, key |-> key, uid |-> uid, num |-> 0] \in Proc
  BY DEF Proc
<1>3. backlog \in Seq(Conn) /\ backlog' = Append(backlog, c)
  BY DEF TypeOK, Connects
<1>. HIDE DEF c
<1>4. /\ backlog' \in Seq(Conn) /\ Len(backlog') = Len(backlog) + 1
      /\ \A i \in 1 .. Len(backlog) : backlog'[i] = backlog[i]
      /\ backlog'[Len(backlog) + 1] = c
  BY <1>1, <1>3
<1>. QED  BY <1>2, <1>3, <1>4 DEF TypeOK, Connects, c

\* A step of a command leaves a process of the same key and uid.
LEMMA ProcKept ==
    ASSUME NEW r \in Proc
    PROVE  /\ \A num \in Nat : [r EXCEPT !.pc = "auth_ok", !.num = num] \in Proc
           /\ \A pc \in {"write_nonce", "send", "reply"} : [r EXCEPT !.pc = pc] \in Proc
  BY DEF Proc

\* The types are kept, the uid of a process that authenticates being one of a file.
LEMMA TypeInit == Init => TypeOK
  BY AuthTable DEF Init, TypeOK, Idle, Proc, Uids

LEMMA TypeNext ==
    ASSUME TypeOK, Processes, [Next]_vars
    PROVE  TypeOK'
<1>1. ASSUME NEW p \in Procs, NEW key \in Keys, NEW first \in {"REG", "OTHER"},
             one_cmd_plain(p, key, first)
      PROVE  TypeOK'
  <2>1. Connects(p, key, 0, first, "reply")
    BY <1>1 DEF one_cmd_plain
  <2>2. 0 \in Uids \cup {0} /\ first \in {"none", "REG", "OTHER"}
    OBVIOUS
  <2>3. /\ proc' \in [Procs -> Proc] /\ backlog' \in Seq(Conn)
        /\ UNCHANGED <<serverVars, inbox, file, known>>
    BY <2>1, <2>2, ConnectsShape
  <2>. QED  BY <2>3 DEF TypeOK, serverVars
<1>2. ASSUME NEW p \in Procs, NEW key \in Keys, one_cmd_authed(p, key)
      PROVE  TypeOK'
  <2>1. known[key] \in Uids \cup {0}
    BY DEF TypeOK
  <2>. QED  BY <1>2, <2>1, ConnectsShape DEF one_cmd_authed, TypeOK, serverVars
<1>3. ASSUME NEW p \in Procs, read_nonce(p)
      PROVE  TypeOK'
  <2>1. proc[p].uid # 0
    BY <1>3 DEF read_nonce, Processes
  <2>2. proc' \in [Procs -> Proc]
    <3>1. file[proc[p].uid] \in Nat
          /\ proc' = [proc EXCEPT ![p].pc = "auth_ok", ![p].num = file[proc[p].uid]]
      BY <1>3, <2>1, ReadNonceShape
    <3>2. proc \in [Procs -> Proc] /\ proc[p] \in Proc
      BY DEF TypeOK
    <3>. QED  BY <3>1, <3>2, ProcKept
  <2>. QED  BY <1>3, <2>1, <2>2, ReadNonceShape DEF TypeOK, serverVars
<1>4. ASSUME NEW p \in Procs, read_auth_ok(p)
      PROVE  TypeOK'
  <2>1. proc' \in [Procs -> Proc]
    BY <1>4, ProcKept DEF read_auth_ok, TypeOK
  <2>3. inbox' \in [Procs -> Seq(Message)]
    BY <1>4 DEF read_auth_ok, TypeOK
  <2>2. file' \in [Uids -> Nat]
    BY <1>4 DEF read_auth_ok, TypeOK
  <2>. QED  BY <1>4, <2>1, <2>2, <2>3 DEF read_auth_ok, TypeOK, serverVars
<1>5. ASSUME NEW p \in Procs, write_nonce(p)
      PROVE  TypeOK'
  <2>1. proc' \in [Procs -> Proc]
    BY <1>5, ProcKept DEF write_nonce, TypeOK
  <2>2. NextNum(p) \in Nat
    BY DEF TypeOK, Proc, NextNum
  <2>3. file' \in [Uids -> Nat]
    BY <1>5, <2>2 DEF write_nonce, TypeOK
  <2>. QED  BY <1>5, <2>1, <2>3 DEF write_nonce, TypeOK, serverVars
<1>6. ASSUME NEW p \in Procs, send_request(p)
      PROVE  TypeOK'
  <2>1. proc' \in [Procs -> Proc]
    <3>1. proc' = [proc EXCEPT ![p].pc = "reply"]
      BY <1>6, SendRequestShape
    <3>. QED  BY <3>1, ProcKept DEF TypeOK
  <2>. QED  BY <1>6, <2>1, SendRequestShape DEF TypeOK, serverVars
<1>7. ASSUME NEW p \in Procs, Ends(p)
      PROVE  proc' \in [Procs -> Proc] /\ inbox' \in [Procs -> Seq(Message)] /\ backlog' \in Seq(Conn)
  <2>1. Idle \in Proc
    BY DEF Idle, Proc
  <2>2. /\ proc' = [proc EXCEPT ![p] = Idle] /\ inbox' = [inbox EXCEPT ![p] = << >>]
        /\ backlog' \in Seq(Conn)
    BY <1>7, EndsShape
  <2>. QED  BY <2>1, <2>2 DEF TypeOK
<1>8. ASSUME NEW p \in Procs, read_reply(p)
      PROVE  TypeOK'
  <2>1. known' \in [Keys -> Uids \cup {0}]
    <3>1. Head(inbox[p]) \in Message
      BY <1>8 DEF read_reply, TypeOK
    <3>. QED  BY <1>8, <3>1 DEF read_reply, TypeOK, Message
  <2>. QED  BY <1>7, <1>8, <2>1 DEF read_reply, TypeOK, serverVars
<1>9. ASSUME NEW p \in Procs, timeout(p) \/ kill(p)
      PROVE  TypeOK'
  BY <1>7, <1>9 DEF timeout, kill, TypeOK, serverVars
<1>10. CASE serve_first
  <2>. DEFINE c == Head(backlog)
  <2>1. c \in Conn /\ c = backlog[1]
    BY <1>10, HeadConn DEF serve_first
  <2>2. CASE /\ FreeEntry /\ Closes
             /\ users' = Append(users, [cle |-> c.key, auth_nonce |-> 0])
             /\ Sends(c, <<Msg("REG_OK", Len(users) + 1, 0), Eof>>)
    <3>1. Len(users) + 1 \in Uids
      BY <2>2, AuthTable DEF FreeEntry, TypeOK, Uids
    <3>2. <<Msg("REG_OK", Len(users) + 1, 0), Eof>> \in Seq(Message)
      BY <3>1 DEF Msg, Eof, Message
    <3>3. [cle |-> c.key, auth_nonce |-> 0] \in User
      BY <2>1 DEF User, Conn
    <3>4. users' \in Seq(User) /\ Len(users') =< MAX_USERS
      BY <2>2, <3>1, <3>3 DEF TypeOK, Uids
    <3>. QED  BY <1>10, <2>1, <2>2, <3>2, <3>4, SendsShape, ClosesShape DEF serve_first, TypeOK
  <2>3. CASE /\ Accepts(c) /\ stage' = "request" /\ UNCHANGED <<backlog, restarts>>
             /\ users' = [users EXCEPT ![c.uid].auth_nonce = @ + 1]
             /\ Sends(c, <<Msg("AUTH_OK", c.uid, c.num)>>)
    <3>1. <<Msg("AUTH_OK", c.uid, c.num)>> \in Seq(Message)
      BY <2>1 DEF Msg, Message, Conn
    <3>2. users' \in Seq(User) /\ Len(users') =< MAX_USERS
      <4>1. users \in Seq(User) /\ c.uid \in DOMAIN users
        BY <2>3 DEF TypeOK, Accepts
      <4>2. users[c.uid] \in User
        BY <4>1
      <4>3. [users[c.uid] EXCEPT !.auth_nonce = @ + 1] \in User
        BY <4>2 DEF User
      <4>4. users' = [users EXCEPT ![c.uid] = [users[c.uid] EXCEPT !.auth_nonce = @ + 1]]
        BY <2>3
      <4>. QED  BY <4>1, <4>3, <4>4 DEF TypeOK
    <3>. QED  BY <1>10, <2>1, <2>3, <3>1, <3>2, SendsShape DEF serve_first, TypeOK
  <2>4. CASE Closes /\ Sends(c, <<Eof>>) /\ UNCHANGED users
    <3>1. <<Eof>> \in Seq(Message)
      BY DEF Msg, Message, Eof
    <3>. QED  BY <1>10, <2>1, <2>4, <3>1, SendsShape, ClosesShape DEF serve_first, TypeOK
  <2>. QED  BY <1>10, <2>2, <2>3, <2>4 DEF serve_first
<1>11. CASE serve_request \/ drop
  <2>1. /\ backlog # << >> /\ Closes /\ UNCHANGED <<users, proc, file, known>>
        /\ \E msgs \in {<<Msg("REPLY", 0, 0), Eof>>, <<Eof>>} : Sends(Head(backlog), msgs)
    BY <1>11 DEF serve_request, drop
  <2>2. {<<Msg("REPLY", 0, 0), Eof>>, <<Eof>>} \subseteq Seq(Message)
    BY DEF Msg, Message, Eof
  <2>3. Head(backlog) \in Conn
    BY <2>1, HeadConn
  <2>. QED  BY <2>1, <2>2, <2>3, SendsShape, ClosesShape DEF TypeOK
<1>12. CASE restart
  <2>1. inbox' \in [Procs -> Seq(Message)]
    <3>1. Eof \in Message
      BY DEF Msg, Message, Eof
    <3>2. \A p \in Procs : Append(inbox[p], Eof) \in Seq(Message)
      BY <3>1 DEF TypeOK
    <3>. QED  BY <1>12, <3>2 DEF restart, TypeOK
  <2>2. users' = << >> /\ backlog' = << >> /\ stage' = "first" /\ restarts' \in Nat
    BY <1>12 DEF restart, TypeOK
  <2>3. users' \in Seq(User) /\ Len(users') =< MAX_USERS /\ backlog' \in Seq(Conn)
    BY <2>2, AuthTable
  <2>4. UNCHANGED <<proc, file, known>>
    BY <1>12 DEF restart
  <2>. QED  BY <2>1, <2>2, <2>3, <2>4 DEF TypeOK
<1>13. CASE UNCHANGED vars
  BY <1>13 DEF vars, TypeOK
<1>. QED
  BY <1>1, <1>2, <1>3, <1>4, <1>5, <1>6, <1>8, <1>9, <1>10, <1>11, <1>12, <1>13
  DEF Next, Starts, Client, Server

(***************************************************************************)
(* The steps of the server, told by what they do to the head of the queue. *)
(***************************************************************************)
\* The head is answered and its connection closed.
Answers(msgs) ==
    /\ backlog # << >> /\ Sends(backlog[1], msgs) /\ Closes
    /\ UNCHANGED <<proc, file, known>>

Registers ==
    /\ Answers(<<Msg("REG_OK", Len(users) + 1, 0), Eof>>)
    /\ stage = "first" /\ backlog[1].first = "REG" /\ FreeEntry
    /\ users' = Append(users, [cle |-> backlog[1].key, auth_nonce |-> 0])

Authenticates ==
    /\ backlog # << >> /\ stage = "first" /\ backlog[1].first = "AUTH" /\ Accepts(backlog[1])
    /\ users' = [users EXCEPT ![backlog[1].uid].auth_nonce = @ + 1]
    /\ Sends(backlog[1], <<Msg("AUTH_OK", backlog[1].uid, backlog[1].num)>>)
    /\ stage' = "request" /\ UNCHANGED <<backlog, restarts, proc, file, known>>

\* Any other answer, to a message or a request, and the end of one that says nothing.
Dismisses ==
    /\ UNCHANGED users
    /\ \/ stage = "first" /\ backlog[1].first # "none" /\ Answers(<<Eof>>)
       \/ stage = "request" /\ backlog[1].req /\ Answers(<<Msg("REPLY", 0, 0), Eof>>)
       \/ Dropped(backlog[1]) /\ Answers(<<Eof>>)

LEMMA ServerSteps ==
    ASSUME TypeOK, Server
    PROVE  Registers \/ Authenticates \/ Dismisses
<1>1. backlog # << >> /\ Head(backlog) = backlog[1]
  BY HeadConn DEF Server, serve_first, serve_request, drop
<1>. QED
  BY <1>1
  DEF Server, serve_first, serve_request, drop, Registers, Authenticates, Dismisses, Answers

\* The messages of the server, and what they change of what a client reads next.
LEMMA MessagesOf ==
    ASSUME TypeOK
    PROVE  /\ <<Eof>> \in Seq(Message) /\ <<Msg("REPLY", 0, 0), Eof>> \in Seq(Message)
           /\ FreeEntry => <<Msg("REG_OK", Len(users) + 1, 0), Eof>> \in Seq(Message)
           /\ \A c \in Conn : <<Msg("AUTH_OK", c.uid, c.num)>> \in Seq(Message)
<1>1. FreeEntry => Len(users) + 1 \in Uids
  BY AuthTable DEF FreeEntry, TypeOK, Uids
<1>. QED  BY <1>1 DEF Msg, Eof, Message, Conn

LEMMA SendsTold ==
    ASSUME TypeOK, NEW c \in Conn, NEW msgs \in Seq(Message), msgs # << >>, Sends(c, msgs)
    PROVE  \A p \in Procs :
              /\ p # c.client => inbox'[p] = inbox[p] /\ Told(p)' = Told(p)
              /\ p = c.client =>
                    /\ Len(inbox'[p]) = Len(inbox[p]) + Len(msgs)
                    /\ inbox'[p] # << >>
                    /\ Told(p)' = IF inbox[p] = << >> THEN msgs[1].code = "AUTH_OK" ELSE Told(p)
                    /\ \A i \in DOMAIN inbox'[p] :
                          \/ i \in DOMAIN inbox[p] /\ inbox'[p][i] = inbox[p][i]
                          \/ \E j \in DOMAIN msgs : inbox'[p][i] = msgs[j]
<1>. SUFFICES ASSUME NEW p \in Procs
     PROVE  /\ p # c.client => inbox'[p] = inbox[p] /\ Told(p)' = Told(p)
            /\ p = c.client =>
                  /\ Len(inbox'[p]) = Len(inbox[p]) + Len(msgs)
                  /\ inbox'[p] # << >>
                  /\ Told(p)' = IF inbox[p] = << >> THEN msgs[1].code = "AUTH_OK" ELSE Told(p)
                  /\ \A i \in DOMAIN inbox'[p] :
                        \/ i \in DOMAIN inbox[p] /\ inbox'[p][i] = inbox[p][i]
                        \/ \E j \in DOMAIN msgs : inbox'[p][i] = msgs[j]
  OBVIOUS
<1>1. inbox'[p] = IF p = c.client THEN inbox[p] \o msgs ELSE inbox[p]
  BY SendsShape
<1>2. inbox[p] \in Seq(Message) /\ Len(msgs) > 0
  BY DEF TypeOK
<1>3. p # c.client => inbox'[p] = inbox[p] /\ Told(p)' = Told(p)
  BY <1>1 DEF Told
<1>4. ASSUME p = c.client
      PROVE  /\ Len(inbox'[p]) = Len(inbox[p]) + Len(msgs) /\ inbox'[p] # << >>
             /\ \A i \in DOMAIN inbox'[p] :
                   \/ i \in DOMAIN inbox[p] /\ inbox'[p][i] = inbox[p][i]
                   \/ \E j \in DOMAIN msgs : inbox'[p][i] = msgs[j]
             /\ Head(inbox'[p]) = IF inbox[p] = << >> THEN msgs[1] ELSE Head(inbox[p])
  <2>. DEFINE s == inbox[p] \o msgs
  <2>1. /\ s \in Seq(Message) /\ Len(s) = Len(inbox[p]) + Len(msgs)
        /\ \A i \in 1 .. Len(s) : s[i] = IF i =< Len(inbox[p]) THEN inbox[p][i]
                                         ELSE msgs[i - Len(inbox[p])]
    BY <1>2
  <2>2. inbox'[p] = s
    BY <1>1, <1>4
  <2>. HIDE DEF s
  <2>3. s # << >> /\ Head(s) = s[1] /\ 1 \in 1 .. Len(s)
    BY <1>2, <2>1
  <2>4. Head(s) = IF inbox[p] = << >> THEN msgs[1] ELSE Head(inbox[p])
    BY <1>2, <2>1, <2>3
  <2>5. ASSUME NEW i \in DOMAIN s
        PROVE  \/ i \in DOMAIN inbox[p] /\ s[i] = inbox[p][i]
               \/ \E j \in DOMAIN msgs : s[i] = msgs[j]
    <3>1. i \in 1 .. Len(s) /\ DOMAIN inbox[p] = 1 .. Len(inbox[p]) /\ DOMAIN msgs = 1 .. Len(msgs)
      BY <1>2, <2>1
    <3>2. CASE i =< Len(inbox[p])
      BY <2>1, <3>1, <3>2
    <3>3. CASE i > Len(inbox[p])
      <4>1. i - Len(inbox[p]) \in DOMAIN msgs /\ s[i] = msgs[i - Len(inbox[p])]
        BY <1>2, <2>1, <3>1, <3>3
      <4>. QED  BY <4>1
    <3>. QED  BY <1>2, <3>1, <3>2, <3>3
  <2>. QED  BY <2>1, <2>2, <2>3, <2>4, <2>5
<1>. QED  BY <1>3, <1>4 DEF Told

(***************************************************************************)
(* Sessions, with timeouts, killed processes and restarts                  *)
(***************************************************************************)
\* A process starts a command: it had no connection and nothing to read.
LEMMA ConnectsKeeps ==
    ASSUME Sessions, NEW p \in Procs, NEW key \in Keys, NEW uid \in Uids \cup {0},
           NEW first \in {"none", "REG", "OTHER"}, NEW pc \in {"read_nonce", "reply"},
           Connects(p, key, uid, first, pc), first = "none" <=> pc = "read_nonce",
           pc = "read_nonce" => uid # 0
    PROVE  Processes' /\ Linked' /\ SessionOwned'
<1>. DEFINE new == [client |-> p, first |-> first, key |-> key, uid |-> uid, num |-> 0, req |-> FALSE]
<1>0. TypeOK /\ new \in Conn
  BY DEF Sessions, Conn
<1>1. /\ proc \in [Procs -> Proc] /\ proc[p].pc = "idle" /\ inbox[p] = << >>
      /\ proc' = [proc EXCEPT ![p] = [pc |-> pc, key |-> key, uid |-> uid, num |-> 0]]
      /\ UNCHANGED <<serverVars, inbox, file, known>>
  BY DEF Sessions, TypeOK, Processes, Connects
<1>2. /\ backlog' \in Seq(Conn) /\ Len(backlog') = Len(backlog) + 1
      /\ \A i \in DOMAIN backlog : i \in DOMAIN backlog' /\ backlog'[i] = backlog[i]
      /\ backlog'[Len(backlog) + 1] = new
      /\ \A i \in DOMAIN backlog' : i \in DOMAIN backlog \/ i = Len(backlog) + 1
  <2>1. backlog \in Seq(Conn) /\ backlog' = Append(backlog, new)
    BY <1>0 DEF Connects, TypeOK
  <2>. HIDE DEF new
  <2>. QED  BY <1>0, <2>1
<1>3. Processes'
  BY <1>1 DEF Sessions, Processes, Told
<1>4. Linked'
  <2>. SUFFICES ASSUME NEW i \in DOMAIN backlog', backlog'[i].client # None
       PROVE  LET c == backlog'[i] IN
              /\ proc'[c.client].pc # "idle"
              /\ c.first = "none" <=> proc'[c.client].pc = "read_nonce"
              /\ proc'[c.client].uid = c.uid /\ proc'[c.client].num = c.num
    BY DEF Linked
  <2>1. CASE i \in DOMAIN backlog
    <3>1. backlog'[i] = backlog[i] /\ proc[backlog[i].client].pc # "idle"
      BY <1>2, <2>1 DEF Sessions, Linked
    <3>2. proc'[backlog[i].client] = proc[backlog[i].client]
      BY <1>1, <3>1
    <3>. QED  BY <2>1, <3>1, <3>2 DEF Sessions, Linked
  <2>2. CASE i = Len(backlog) + 1
    BY <1>1, <1>2, <2>2
  <2>. QED  BY <1>2, <2>1, <2>2
<1>5. SessionOwned'
  <2>. SUFFICES ASSUME stage = "request"
       PROVE  SessionOwned'
    BY <1>1 DEF SessionOwned, serverVars
  <2>1. backlog # << >> /\ backlog' # << >> /\ Head(backlog') = Head(backlog)
    BY <1>2 DEF Sessions, SessionOwned, TypeOK
  <2>. QED  BY <1>1, <2>1 DEF Sessions, SessionOwned, serverVars
<1>. QED  BY <1>3, <1>4, <1>5

\* A process changes what its own connection carries: Linked and SessionOwned follow
\* from what the connections of the others keep.
LEMMA HeadKept ==
    ASSUME TypeOK, backlog' \in Seq(Conn), Len(backlog') = Len(backlog), backlog # << >>
    PROVE  backlog' # << >> /\ Head(backlog') = backlog'[1]
  BY DEF TypeOK

LEMMA ReadNonceKeeps ==
    ASSUME Sessions, NEW p \in Procs, read_nonce(p)
    PROVE  Processes' /\ Linked' /\ SessionOwned'
<1>1. /\ proc \in [Procs -> Proc] /\ proc[p].pc = "read_nonce" /\ proc[p].uid # 0
      /\ ~Told(p)
  BY DEF Sessions, TypeOK, Processes, read_nonce
<1>2. /\ file[proc[p].uid] \in Nat
      /\ proc' = [proc EXCEPT ![p].pc = "auth_ok", ![p].num = file[proc[p].uid]]
      /\ UNCHANGED <<serverVars, inbox, file, known>>
  BY <1>1, ReadNonceShape DEF Sessions
<1>3. /\ backlog' \in Seq(Conn) /\ Len(backlog') = Len(backlog)
      /\ DOMAIN backlog' = DOMAIN backlog
      /\ \A i \in DOMAIN backlog :
           backlog'[i] = IF backlog[i].client = p
                         THEN [backlog[i] EXCEPT !.first = "AUTH", !.num = file[proc[p].uid]]
                         ELSE backlog[i]
  BY <1>1, ReadNonceShape DEF Sessions
<1>4. /\ \A q \in Procs : q # p => proc'[q] = proc[q]
      /\ proc'[p].pc = "auth_ok" /\ proc'[p].uid = proc[p].uid
      /\ proc'[p].num = file[proc[p].uid]
  BY <1>1, <1>2 DEF Proc
<1>5. Processes'
  BY <1>1, <1>2, <1>4 DEF Sessions, Processes, Told
<1>6. \A i \in DOMAIN backlog : backlog[i] \in Conn
  BY DEF Sessions, TypeOK
<1>7. Linked'
  <2>. SUFFICES ASSUME NEW i \in DOMAIN backlog, backlog'[i].client # None
       PROVE  LET c == backlog'[i] IN
              /\ proc'[c.client].pc # "idle"
              /\ c.first = "none" <=> proc'[c.client].pc = "read_nonce"
              /\ proc'[c.client].uid = c.uid /\ proc'[c.client].num = c.num
    BY <1>3 DEF Linked
  <2>1. CASE backlog[i].client = p
    <3>1. /\ backlog'[i].client = p /\ backlog'[i].first = "AUTH"
          /\ backlog'[i].uid = backlog[i].uid /\ backlog'[i].num = file[proc[p].uid]
      BY <1>3, <1>6, <2>1 DEF Conn
    <3>2. backlog[i].uid = proc[p].uid
      BY <2>1, NoneIsNone DEF Sessions, Linked
    <3>. QED  BY <1>4, <3>1, <3>2
  <2>2. CASE backlog[i].client # p
    <3>1. backlog'[i] = backlog[i] /\ backlog[i].client \in Procs
      BY <1>3, <1>6, <2>2 DEF Conn
    <3>. QED  BY <1>4, <2>2, <3>1 DEF Sessions, Linked
  <2>. QED  BY <2>1, <2>2
<1>8. SessionOwned'
  <2>. SUFFICES ASSUME stage = "request"
       PROVE  SessionOwned'
    BY <1>2 DEF SessionOwned, serverVars
  <2>1. backlog # << >> /\ Head(backlog).first = "AUTH"
    BY DEF Sessions, SessionOwned
  <2>2. 1 \in DOMAIN backlog /\ Head(backlog) = backlog[1]
    BY <2>1, HeadConn DEF Sessions
  <2>3. backlog[1].client # p
    BY <1>1, <2>1, <2>2, NoneIsNone DEF Sessions, Linked
  <2>4. backlog' # << >> /\ Head(backlog') = Head(backlog)
    BY <1>3, <2>1, <2>2, <2>3, HeadKept DEF Sessions
  <2>. QED  BY <1>2, <2>4 DEF Sessions, SessionOwned, serverVars
<1>. QED  BY <1>5, <1>7, <1>8

\* Steps of a process that say nothing to the server.
LEMMA NonceStepsKeep ==
    ASSUME Sessions, NEW p \in Procs, read_auth_ok(p) \/ write_nonce(p)
    PROVE  Processes' /\ Linked' /\ SessionOwned'
<1>1. /\ proc \in [Procs -> Proc] /\ proc[p].pc \in {"auth_ok", "write_nonce"} /\ proc[p].uid # 0
      /\ backlog \in Seq(Conn) /\ inbox \in [Procs -> Seq(Message)]
  BY DEF Sessions, TypeOK, Processes, read_auth_ok, write_nonce
<1>2. /\ \A q \in Procs : q # p => proc'[q] = proc[q] /\ inbox'[q] = inbox[q]
      /\ proc'[p].pc \in {"write_nonce", "send"} /\ proc'[p].uid = proc[p].uid
      /\ proc'[p].num = proc[p].num
      /\ UNCHANGED <<serverVars, backlog>>
  BY <1>1 DEF read_auth_ok, write_nonce, Proc
<1>3. Processes'
  BY <1>1, <1>2 DEF Sessions, Processes, Told
<1>4. Linked'
  <2>. SUFFICES ASSUME NEW i \in DOMAIN backlog, backlog[i].client # None
       PROVE  LET c == backlog[i] IN
              /\ proc'[c.client].pc # "idle"
              /\ c.first = "none" <=> proc'[c.client].pc = "read_nonce"
              /\ proc'[c.client].uid = c.uid /\ proc'[c.client].num = c.num
    BY <1>2 DEF Linked
  <2>1. backlog[i].client \in Procs
    <3>1. backlog[i] \in Conn
      BY <1>1
    <3>. QED  BY <3>1 DEF Conn
  <2>. QED  BY <1>1, <1>2, <2>1 DEF Sessions, Linked
<1>. QED  BY <1>2, <1>3, <1>4 DEF Sessions, SessionOwned, serverVars

LEMMA SendRequestKeeps ==
    ASSUME Sessions, NEW p \in Procs, send_request(p)
    PROVE  Processes' /\ Linked' /\ SessionOwned'
<1>1. /\ proc \in [Procs -> Proc] /\ proc[p].pc = "send"
      /\ proc' = [proc EXCEPT ![p].pc = "reply"]
      /\ UNCHANGED <<serverVars, inbox, file, known>>
  BY DEF Sessions, TypeOK, send_request
<1>2. /\ backlog' \in Seq(Conn) /\ Len(backlog') = Len(backlog)
      /\ DOMAIN backlog' = DOMAIN backlog
      /\ \A i \in DOMAIN backlog :
           backlog'[i] = IF backlog[i].client = p THEN [backlog[i] EXCEPT !.req = TRUE]
                         ELSE backlog[i]
  BY SendRequestShape DEF Sessions
<1>3. /\ \A q \in Procs : q # p => proc'[q] = proc[q]
      /\ proc'[p].pc = "reply" /\ proc'[p].uid = proc[p].uid /\ proc'[p].num = proc[p].num
  BY <1>1 DEF Proc
<1>4. \A i \in DOMAIN backlog :
         /\ backlog'[i].client = backlog[i].client /\ backlog'[i].first = backlog[i].first
         /\ backlog'[i].uid = backlog[i].uid /\ backlog'[i].num = backlog[i].num
         /\ backlog'[i].key = backlog[i].key
         /\ backlog[i].client \in Procs \cup {None}
  <2>1. \A i \in DOMAIN backlog : backlog[i] \in Conn
    BY DEF Sessions, TypeOK
  <2>. QED  BY <1>2, <2>1 DEF Conn
<1>5. Processes'
  BY <1>1, <1>3 DEF Sessions, Processes, Told
<1>6. Linked'
  <2>. SUFFICES ASSUME NEW i \in DOMAIN backlog, backlog'[i].client # None
       PROVE  LET c == backlog'[i] IN
              /\ proc'[c.client].pc # "idle"
              /\ c.first = "none" <=> proc'[c.client].pc = "read_nonce"
              /\ proc'[c.client].uid = c.uid /\ proc'[c.client].num = c.num
    BY <1>2 DEF Linked
  <2>. QED  BY <1>1, <1>3, <1>4 DEF Sessions, Linked
<1>7. SessionOwned'
  <2>. SUFFICES ASSUME stage = "request"
       PROVE  SessionOwned'
    BY <1>1 DEF SessionOwned, serverVars
  <2>1. backlog # << >>
    BY DEF Sessions, SessionOwned
  <2>2. 1 \in DOMAIN backlog /\ Head(backlog) = backlog[1]
    BY <2>1, HeadConn DEF Sessions
  <2>3. backlog' # << >> /\ Head(backlog') = backlog'[1]
    BY <1>2, <2>1, HeadKept DEF Sessions
  <2>. QED  BY <1>1, <1>4, <2>2, <2>3 DEF Sessions, SessionOwned, serverVars
<1>. QED  BY <1>5, <1>6, <1>7

\* The end of a process: its connections stay, with nobody behind them.
LEMMA EndsKeeps ==
    ASSUME Sessions, NEW p \in Procs, Ends(p), UNCHANGED serverVars
    PROVE  Processes' /\ Linked' /\ SessionOwned'
<1>1. /\ proc \in [Procs -> Proc] /\ inbox \in [Procs -> Seq(Message)]
      /\ \A q \in Procs : q # p => proc'[q] = proc[q] /\ inbox'[q] = inbox[q]
      /\ proc'[p] = Idle /\ inbox'[p] = << >>
  BY EndsShape DEF Sessions, TypeOK
<1>2. /\ backlog' \in Seq(Conn) /\ Len(backlog') = Len(backlog)
      /\ DOMAIN backlog' = DOMAIN backlog
      /\ \A i \in DOMAIN backlog :
           backlog'[i] = IF backlog[i].client = p THEN [backlog[i] EXCEPT !.client = None]
                         ELSE backlog[i]
  BY EndsShape DEF Sessions
<1>3. \A i \in DOMAIN backlog :
         /\ backlog'[i].client = IF backlog[i].client = p THEN None ELSE backlog[i].client
         /\ backlog'[i].first = backlog[i].first
         /\ backlog'[i].uid = backlog[i].uid /\ backlog'[i].num = backlog[i].num
         /\ backlog'[i].key = backlog[i].key
         /\ backlog[i].client \in Procs \cup {None}
  <2>1. \A i \in DOMAIN backlog : backlog[i] \in Conn
    BY DEF Sessions, TypeOK
  <2>. QED  BY <1>2, <2>1 DEF Conn
<1>4. Processes'
  BY <1>1 DEF Sessions, Processes, Told, Idle
<1>5. Linked'
  <2>. SUFFICES ASSUME NEW i \in DOMAIN backlog, backlog'[i].client # None
       PROVE  LET c == backlog'[i] IN
              /\ proc'[c.client].pc # "idle"
              /\ c.first = "none" <=> proc'[c.client].pc = "read_nonce"
              /\ proc'[c.client].uid = c.uid /\ proc'[c.client].num = c.num
    BY <1>2 DEF Linked
  <2>. QED  BY <1>1, <1>3 DEF Sessions, Linked
<1>6. SessionOwned'
  <2>. SUFFICES ASSUME stage = "request"
       PROVE  SessionOwned'
    BY DEF SessionOwned, serverVars
  <2>1. backlog # << >>
    BY DEF Sessions, SessionOwned
  <2>2. 1 \in DOMAIN backlog /\ Head(backlog) = backlog[1]
    BY <2>1, HeadConn DEF Sessions
  <2>3. backlog' # << >> /\ Head(backlog') = backlog'[1]
    BY <1>2, <2>1, HeadKept DEF Sessions
  <2>. QED  BY <1>3, <2>2, <2>3 DEF Sessions, SessionOwned, serverVars
<1>. QED  BY <1>4, <1>5, <1>6

\* The server sends to processes that run, and never AUTH_OK before AUTH.
LEMMA SendsKeeps ==
    ASSUME Sessions, backlog # << >>, NEW msgs \in Seq(Message), msgs # << >>,
           Sends(backlog[1], msgs), UNCHANGED proc,
           msgs[1].code = "AUTH_OK" => backlog[1].first = "AUTH"
    PROVE  Processes'
<1>1. TypeOK /\ 1 \in DOMAIN backlog /\ backlog[1] \in Conn
  BY HeadConn DEF Sessions
<1>2. SUFFICES ASSUME NEW p \in Procs
               PROVE  /\ proc[p].pc \in {"read_nonce", "auth_ok", "write_nonce", "send"} => proc[p].uid # 0
                      /\ proc[p].pc = "idle" => inbox'[p] = << >>
                      /\ proc[p].pc = "read_nonce" => ~Told(p)'
  BY DEF Processes
<1>3. CASE p # backlog[1].client
  <2>1. inbox'[p] = inbox[p]
    BY <1>1, <1>3, SendsTold
  <2>. QED  BY <2>1 DEF Sessions, Processes, Told
<1>4. CASE p = backlog[1].client
  <2>1. proc[p].pc # "idle" /\ (backlog[1].first = "none" <=> proc[p].pc = "read_nonce")
    BY <1>1, <1>4, NoneIsNone DEF Sessions, Linked
  <2>2. Told(p)' = IF inbox[p] = << >> THEN msgs[1].code = "AUTH_OK" ELSE Told(p)
    BY <1>1, <1>4, SendsTold
  <2>3. proc[p].pc = "read_nonce" => ~Told(p)'
    BY <2>1, <2>2 DEF Sessions, Processes
  <2>. QED  BY <2>1, <2>3 DEF Sessions, Processes
<1>. QED  BY <1>3, <1>4

LEMMA AnswersKeeps ==
    ASSUME Sessions, NEW msgs \in Seq(Message), msgs # << >>, Answers(msgs),
           msgs[1].code # "AUTH_OK"
    PROVE  Processes' /\ Linked' /\ SessionOwned'
<1>1. Processes'
  BY SendsKeeps DEF Answers
<1>2. /\ backlog' \in Seq(Conn) /\ stage' = "first" /\ proc' = proc
      /\ \A i \in DOMAIN backlog' : i + 1 \in DOMAIN backlog /\ backlog'[i] = backlog[i + 1]
  BY ClosesShape DEF Answers, Sessions
<1>. QED  BY <1>1, <1>2 DEF Sessions, Linked, SessionOwned

LEMMA AuthenticatesKeeps ==
    ASSUME Sessions, Authenticates
    PROVE  Processes' /\ Linked' /\ SessionOwned'
<1>1. TypeOK /\ backlog # << >> /\ backlog[1] \in Conn /\ Head(backlog) = backlog[1]
  BY HeadConn DEF Sessions, Authenticates
<1>2. Processes'
  <2>1. <<Msg("AUTH_OK", backlog[1].uid, backlog[1].num)>> \in Seq(Message)
    BY <1>1, MessagesOf
  <2>. QED  BY <1>1, <2>1, SendsKeeps DEF Authenticates
<1>3. Linked'
  BY DEF Sessions, Linked, Authenticates
<1>4. SessionOwned'
  <2>1. backlog[1].uid \in DOMAIN users /\ users[backlog[1].uid] \in User
    BY <1>1 DEF TypeOK, Authenticates, Accepts
  <2>2. /\ backlog' = backlog /\ backlog[1].first = "AUTH"
        /\ users[backlog[1].uid].auth_nonce = backlog[1].num
        /\ users[backlog[1].uid].cle = backlog[1].key
        /\ users' = [users EXCEPT ![backlog[1].uid].auth_nonce = @ + 1]
    BY DEF Authenticates, Accepts
  <2>3. /\ backlog[1].uid \in DOMAIN users' /\ users'[backlog[1].uid].cle = backlog[1].key
        /\ users'[backlog[1].uid].auth_nonce = backlog[1].num + 1
    BY <2>1, <2>2 DEF User
  <2>. QED  BY <1>1, <2>2, <2>3 DEF SessionOwned
<1>. QED  BY <1>2, <1>3, <1>4

\* A restart: the clients of all connections are told that they are gone.
LEMMA RestartKeeps ==
    ASSUME Sessions, restart
    PROVE  Processes' /\ Linked' /\ SessionOwned'
<1>1. /\ backlog' = << >> /\ stage' = "first" /\ proc' = proc
      /\ \A p \in Procs : inbox'[p] = IF \E i \in DOMAIN backlog : backlog[i].client = p
                                      THEN Append(inbox[p], Eof) ELSE inbox[p]
  BY DEF restart
<1>2. ASSUME NEW p \in Procs
      PROVE  /\ proc[p].pc = "idle" => inbox'[p] = << >>
             /\ ~Told(p) => ~Told(p)'
  <2>1. CASE \E i \in DOMAIN backlog : backlog[i].client = p
    <3>1. proc[p].pc # "idle"
      BY <2>1, NoneIsNone DEF Sessions, Linked
    <3>2. inbox'[p] = Append(inbox[p], Eof) /\ inbox[p] \in Seq(Message) /\ Eof \in Message
      BY <1>1, <2>1 DEF Sessions, TypeOK, Eof, Msg, Message
    <3>3. Head(inbox'[p]) = IF inbox[p] = << >> THEN Eof ELSE Head(inbox[p])
      BY <3>2
    <3>. QED  BY <3>1, <3>3 DEF Told, Eof, Msg
  <2>2. CASE ~\E i \in DOMAIN backlog : backlog[i].client = p
    BY <1>1, <2>2 DEF Sessions, Processes, Told
  <2>. QED  BY <2>1, <2>2
<1>. QED  BY <1>1, <1>2 DEF Sessions, Processes, Linked, SessionOwned

LEMMA SessionsInit == Init => Sessions
  BY TypeInit DEF Init, Sessions, Processes, Linked, SessionOwned, Idle, Told

LEMMA SessionsNext ==
    ASSUME Sessions, [Next]_vars
    PROVE  Sessions'
<1>1. TypeOK'
  BY TypeNext DEF Sessions
<1>. SUFFICES Processes' /\ Linked' /\ SessionOwned'
  BY <1>1 DEF Sessions
<1>2. ASSUME NEW p \in Procs, NEW key \in Keys, NEW first \in {"REG", "OTHER"},
             one_cmd_plain(p, key, first)
      PROVE  Processes' /\ Linked' /\ SessionOwned'
  <2>1. Connects(p, key, 0, first, "reply") /\ 0 \in Uids \cup {0}
        /\ first \in {"none", "REG", "OTHER"} /\ first # "none"
    BY <1>2 DEF one_cmd_plain
  <2>. QED  BY <2>1, ConnectsKeeps
<1>3. ASSUME NEW p \in Procs, NEW key \in Keys, one_cmd_authed(p, key)
      PROVE  Processes' /\ Linked' /\ SessionOwned'
  <2>1. /\ Connects(p, key, known[key], "none", "read_nonce") /\ known[key] # 0
        /\ known[key] \in Uids \cup {0}
    BY <1>3 DEF one_cmd_authed, Sessions, TypeOK
  <2>. QED  BY <2>1, ConnectsKeeps
<1>4. ASSUME NEW p \in Procs, read_reply(p) \/ timeout(p) \/ kill(p)
      PROVE  Processes' /\ Linked' /\ SessionOwned'
  <2>1. Ends(p) /\ UNCHANGED serverVars
    BY <1>4 DEF read_reply, timeout, kill
  <2>. QED  BY <2>1, EndsKeeps
<1>5. CASE Server
  <2>1. CASE Registers \/ Dismisses
    <3>1. PICK msgs \in Seq(Message) : /\ msgs # << >> /\ Answers(msgs)
                                       /\ msgs[1].code # "AUTH_OK"
      BY <2>1, MessagesOf DEF Registers, Dismisses, Sessions, Msg, Eof
    <3>. QED  BY <3>1, AnswersKeeps
  <2>2. CASE Authenticates
    BY <2>2, AuthenticatesKeeps
  <2>. QED  BY <1>5, <2>1, <2>2, ServerSteps DEF Sessions
<1>6. CASE UNCHANGED vars
  BY <1>6 DEF vars, Sessions, Processes, Linked, SessionOwned, Told
<1>. QED
  BY <1>2, <1>3, <1>4, <1>5, <1>6, ReadNonceKeeps, NonceStepsKeep, SendRequestKeeps, RestartKeeps
  DEF Next, Starts, Client

\* The types.
THEOREM TypeCorrect == Spec => []TypeOK
<1>1. Sessions => TypeOK
  BY DEF Sessions
<1>. QED  BY SessionsInit, SessionsNext, <1>1, PTL DEF Spec

\* A request is carried out for the person whose key is registered under the uid of
\* the session, accepted on the same connection, whatever is killed, times out or
\* restarts.
THEOREM SessionsAreOwned == Spec => []SessionOwned
<1>1. Sessions => SessionOwned
  BY DEF Sessions
<1>. QED  BY SessionsInit, SessionsNext, <1>1, PTL DEF Spec

(***************************************************************************)
(* Numbers, until the first restart                                        *)
(***************************************************************************)
\* What is known of a user's numbers stays true when the file is left alone, nobody more
\* may write it, and no other number waits.
LEMMA NumbersKept ==
    ASSUME NEW u \in Uids, NEW n \in Nat, NumbersOf(u, n), file'[u] = file[u],
           \A p \in Procs : MayWrite(p, u)' => MayWrite(p, u) /\ proc'[p].num = proc[p].num,
           \A i \in DOMAIN backlog' : backlog'[i].first = "AUTH" /\ backlog'[i].uid = u =>
              \E j \in DOMAIN backlog : /\ backlog[j].first = "AUTH" /\ backlog[j].uid = u
                                        /\ backlog[j].num = backlog'[i].num
    PROVE  NumbersOf(u, n)'
  BY DEF NumbersOf

LEMMA NonceOf ==
    ASSUME TypeOK, NEW u \in DOMAIN users
    PROVE  u \in Uids /\ users[u] \in User /\ users[u].auth_nonce \in Nat /\ u # 0
<1>1. u \in Uids /\ users[u] \in User
  BY AuthTable DEF TypeOK, Uids
<1>. QED  BY <1>1 DEF User, Uids

\* The same for all users, when the table is left alone too.
LEMMA AllNumbersKept ==
    ASSUME TypeOK, Numbers, UNCHANGED <<users, file>>,
           \A u \in Uids : \A p \in Procs :
              MayWrite(p, u)' => MayWrite(p, u) /\ proc'[p].num = proc[p].num,
           \A i \in DOMAIN backlog' : backlog'[i].first = "AUTH" =>
              \E j \in DOMAIN backlog :
                 /\ backlog[j].first = "AUTH" /\ backlog[j].uid = backlog'[i].uid
                 /\ backlog[j].num = backlog'[i].num
    PROVE  Numbers'
<1>. SUFFICES ASSUME NEW u \in DOMAIN users
     PROVE  NumbersOf(u, users[u].auth_nonce)'
  BY DEF Numbers
<1>1. u \in Uids /\ users[u].auth_nonce \in Nat
  BY NonceOf
<1>2. PICK n \in Nat : n = users[u].auth_nonce
  BY <1>1
<1>3. NumbersOf(u, n)
  BY <1>2 DEF Numbers
<1>4. NumbersOf(u, n)'
  BY <1>1, <1>3, NumbersKept
<1>. QED  BY <1>2, <1>4 DEF NumbersOf

LEMMA ConnectsNumbers ==
    ASSUME Sessions, Registered, Numbers,
           NEW p \in Procs, NEW key \in Keys, NEW uid \in DOMAIN users \cup {0},
           NEW first \in {"none", "REG", "OTHER"}, NEW pc \in {"read_nonce", "reply"},
           Connects(p, key, uid, first, pc)
    PROVE  Registered' /\ Numbers'
<1>. DEFINE new == [client |-> p, first |-> first, key |-> key, uid |-> uid, num |-> 0, req |-> FALSE]
<1>1. uid \in Uids \cup {0}
  BY NonceOf DEF Sessions
<1>2. TypeOK /\ new \in Conn
  BY <1>1 DEF Sessions, Conn
<1>3. /\ proc \in [Procs -> Proc]
      /\ proc' = [proc EXCEPT ![p] = [pc |-> pc, key |-> key, uid |-> uid, num |-> 0]]
      /\ UNCHANGED <<serverVars, inbox, file, known>>
  BY DEF Sessions, TypeOK, Connects
<1>4. /\ \A i \in DOMAIN backlog : backlog'[i] = backlog[i]
      /\ backlog'[Len(backlog) + 1] = new
      /\ \A i \in DOMAIN backlog' : i \in DOMAIN backlog \/ i = Len(backlog) + 1
  <2>1. backlog \in Seq(Conn) /\ backlog' = Append(backlog, new)
    BY <1>2 DEF Connects, TypeOK
  <2>. HIDE DEF new
  <2>. QED  BY <1>2, <2>1
<1>5. Registered'
  BY <1>3, <1>4 DEF Registered, serverVars
<1>6. \A u \in Uids : \A q \in Procs :
         MayWrite(q, u)' => MayWrite(q, u) /\ proc'[q].num = proc[q].num
  BY <1>3 DEF MayWrite
<1>7. \A i \in DOMAIN backlog' : backlog'[i].first = "AUTH" =>
         i \in DOMAIN backlog /\ backlog[i] = backlog'[i]
  BY <1>4
<1>8. Numbers'
  BY <1>2, <1>3, <1>6, <1>7, AllNumbersKept DEF serverVars
<1>. QED  BY <1>5, <1>8

LEMMA ReadNonceNumbers ==
    ASSUME Sessions, Registered, Numbers, NEW p \in Procs, read_nonce(p)
    PROVE  Registered' /\ Numbers'
<1>1. /\ proc \in [Procs -> Proc] /\ proc[p].pc = "read_nonce" /\ proc[p].uid # 0
      /\ ~Told(p) /\ TypeOK
  BY DEF Sessions, TypeOK, Processes, read_nonce
<1>2. /\ file[proc[p].uid] \in Nat
      /\ proc' = [proc EXCEPT ![p].pc = "auth_ok", ![p].num = file[proc[p].uid]]
      /\ UNCHANGED <<serverVars, inbox, file, known>>
  BY <1>1, ReadNonceShape
<1>3. /\ DOMAIN backlog' = DOMAIN backlog
      /\ \A i \in DOMAIN backlog :
           backlog'[i] = IF backlog[i].client = p
                         THEN [backlog[i] EXCEPT !.first = "AUTH", !.num = file[proc[p].uid]]
                         ELSE backlog[i]
  BY <1>1, ReadNonceShape
<1>4. /\ \A q \in Procs : q # p => proc'[q] = proc[q]
      /\ proc'[p].pc = "auth_ok" /\ proc'[p].uid = proc[p].uid
  BY <1>1, <1>2 DEF Proc
<1>5. \A i \in DOMAIN backlog : backlog[i] \in Conn
  BY <1>1 DEF TypeOK
<1>6. \A i \in DOMAIN backlog :
         /\ backlog'[i].uid = backlog[i].uid
         /\ backlog[i].client # p => backlog'[i] = backlog[i]
         /\ backlog[i].client = p =>
               backlog[i].uid = proc[p].uid /\ backlog'[i].num = file[proc[p].uid]
  <2>1. \A i \in DOMAIN backlog : backlog[i].client = p => backlog[i].uid = proc[p].uid
    BY NoneIsNone DEF Sessions, Linked
  <2>. QED  BY <1>3, <1>5, <2>1 DEF Conn
<1>7. Registered'
  BY <1>2, <1>3, <1>4, <1>6 DEF Registered, serverVars
<1>8. Numbers'
  <2>. SUFFICES ASSUME NEW u \in DOMAIN users
       PROVE  NumbersOf(u, users[u].auth_nonce)'
    BY <1>2 DEF Numbers, serverVars
  <2>1. PICK n \in Nat : n = users[u].auth_nonce
    BY <1>1, NonceOf
  <2>2. NumbersOf(u, n) /\ n = users'[u].auth_nonce
    BY <1>2, <2>1 DEF Numbers, serverVars
  <2>3. file'[u] \in {0, n - 1, n}
    BY <1>2, <2>2 DEF NumbersOf
  <2>4. ASSUME NEW i \in DOMAIN backlog, backlog'[i].first = "AUTH", backlog'[i].uid = u
        PROVE  backlog'[i].num =< n /\ (backlog'[i].num = n => file'[u] = n)
    <3>1. CASE backlog[i].client = p
      <4>1. backlog'[i].num = file[u]
        BY <1>6, <2>4, <3>1
      <4>. QED  BY <1>2, <2>1, <2>3, <4>1
    <3>2. CASE backlog[i].client # p
      BY <1>2, <1>6, <2>2, <2>4, <3>2 DEF NumbersOf
    <3>. QED  BY <3>1, <3>2
  <2>5. \A q \in Procs : MayWrite(q, u)' => MayWrite(q, u) /\ proc'[q] = proc[q]
    BY <1>1, <1>2, <1>4 DEF MayWrite, Told
  <2>6. NumbersOf(u, n)'
    BY <1>2, <1>3, <2>2, <2>3, <2>4, <2>5 DEF NumbersOf
  <2>. QED  BY <2>2, <2>6 DEF NumbersOf
<1>. QED  BY <1>7, <1>8

\* Reading AUTH_OK empties the file, writing it puts there the number the server expects.
LEMMA ReadAuthOkNumbers ==
    ASSUME Sessions, Registered, Numbers, NEW p \in Procs, read_auth_ok(p)
    PROVE  Registered' /\ Numbers'
<1>1. /\ TypeOK /\ proc \in [Procs -> Proc] /\ inbox \in [Procs -> Seq(Message)]
      /\ proc[p].pc = "auth_ok" /\ Told(p) /\ inbox[p] # << >> /\ proc[p].uid # 0
      /\ proc[p].uid \in Uids /\ file \in [Uids -> Nat]
  BY DEF Sessions, TypeOK, Processes, Proc, read_auth_ok, Told, Msg
<1>2. /\ proc' = [proc EXCEPT ![p].pc = "write_nonce"]
      /\ inbox' = [inbox EXCEPT ![p] = Tail(@)]
      /\ file' = [file EXCEPT ![proc[p].uid] = 0]
      /\ UNCHANGED <<serverVars, backlog, known>>
  BY DEF read_auth_ok
<1>3. /\ \A q \in Procs : q # p => proc'[q] = proc[q] /\ inbox'[q] = inbox[q]
      /\ proc'[p].uid = proc[p].uid /\ proc'[p].num = proc[p].num
      /\ inbox'[p] = Tail(inbox[p])
  BY <1>1, <1>2 DEF Proc
<1>4. \A i \in DOMAIN inbox'[p] : i + 1 \in DOMAIN inbox[p] /\ inbox'[p][i] = inbox[p][i + 1]
  BY <1>1, <1>3
<1>5. Registered'
  BY <1>1, <1>2, <1>3, <1>4 DEF Registered, serverVars
<1>6. Numbers'
  <2>. SUFFICES ASSUME NEW u \in DOMAIN users
       PROVE  NumbersOf(u, users[u].auth_nonce)'
    BY <1>2 DEF Numbers, serverVars
  <2>1. PICK n \in Nat : n = users[u].auth_nonce
    BY <1>1, NonceOf
  <2>2. NumbersOf(u, n) /\ n = users'[u].auth_nonce /\ u \in Uids
    BY <1>1, <1>2, <2>1, NonceOf DEF Numbers, serverVars
  <2>3. \A q \in Procs : MayWrite(q, u)' => MayWrite(q, u) /\ proc'[q].num = proc[q].num
    BY <1>1, <1>3 DEF MayWrite, Told
  <2>4. CASE u # proc[p].uid
    <3>1. file'[u] = file[u]
      BY <1>1, <1>2, <2>2, <2>4
    <3>2. NumbersOf(u, n)'
      BY <1>2, <2>2, <2>3, <3>1, NumbersKept
    <3>. QED  BY <2>2, <3>2 DEF NumbersOf
  <2>5. CASE u = proc[p].uid
    <3>1. MayWrite(p, u) /\ proc[p].num \in Nat
      BY <1>1, <2>5 DEF MayWrite, Told, Proc
    <3>2. n > 0 /\ file[u] < n /\ file'[u] = 0
      <4>1. proc[p].num + 1 = n /\ file[u] < n
        BY <2>2, <3>1 DEF NumbersOf
      <4>2. file'[u] = 0
        BY <1>1, <1>2, <2>5
      <4>. QED  BY <3>1, <4>1, <4>2
    <3>3. \A i \in DOMAIN backlog' : backlog'[i].first = "AUTH" /\ backlog'[i].uid = u =>
             backlog'[i].num =< n /\ backlog'[i].num # n
      BY <1>1, <1>2, <2>2, <3>2 DEF NumbersOf
    <3>4. NumbersOf(u, n)'
      BY <2>2, <2>3, <3>2, <3>3 DEF NumbersOf
    <3>. QED  BY <2>2, <3>4 DEF NumbersOf
  <2>. QED  BY <2>4, <2>5
<1>. QED  BY <1>5, <1>6

LEMMA WriteNonceNumbers ==
    ASSUME Sessions, Registered, Numbers, NEW p \in Procs, write_nonce(p)
    PROVE  Registered' /\ Numbers'
<1>1. /\ TypeOK /\ proc \in [Procs -> Proc]
      /\ proc[p].pc = "write_nonce" /\ proc[p].uid # 0 /\ proc[p].num \in Nat
      /\ proc[p].uid \in Uids /\ file \in [Uids -> Nat] /\ proc[p].uid \in DOMAIN users
  BY DEF Sessions, TypeOK, Processes, Proc, write_nonce, Registered
<1>2. /\ proc' = [proc EXCEPT ![p].pc = "send"]
      /\ file' = [file EXCEPT ![proc[p].uid] = proc[p].num + 1]
      /\ UNCHANGED <<serverVars, backlog, inbox, known>>
  BY DEF write_nonce, NextNum
<1>3. /\ \A q \in Procs : q # p => proc'[q] = proc[q]
      /\ proc'[p].uid = proc[p].uid /\ proc'[p].num = proc[p].num /\ proc'[p].pc = "send"
  BY <1>1, <1>2 DEF Proc
<1>4. Registered'
  BY <1>1, <1>2, <1>3 DEF Registered, serverVars
<1>5. Numbers'
  <2>. SUFFICES ASSUME NEW u \in DOMAIN users
       PROVE  NumbersOf(u, users[u].auth_nonce)'
    BY <1>2 DEF Numbers, serverVars
  <2>1. PICK n \in Nat : n = users[u].auth_nonce
    BY <1>1, NonceOf
  <2>2. NumbersOf(u, n) /\ n = users'[u].auth_nonce /\ u \in Uids
    BY <1>1, <1>2, <2>1, NonceOf DEF Numbers, serverVars
  <2>3. \A q \in Procs : MayWrite(q, u)' =>
           q # p /\ MayWrite(q, u) /\ proc'[q].num = proc[q].num
    BY <1>1, <1>2, <1>3 DEF MayWrite
  <2>4. CASE u # proc[p].uid
    <3>1. file'[u] = file[u]
      BY <1>1, <1>2, <2>2, <2>4
    <3>2. NumbersOf(u, n)'
      BY <1>2, <2>2, <2>3, <3>1, NumbersKept
    <3>. QED  BY <2>2, <3>2 DEF NumbersOf
  <2>5. CASE u = proc[p].uid
    <3>1. MayWrite(p, u)
      BY <1>1, <2>5 DEF MayWrite
    <3>2. file'[u] = n
      BY <1>1, <1>2, <2>2, <2>5, <3>1 DEF NumbersOf
    <3>3. \A q \in Procs : ~MayWrite(q, u)'
      BY <2>2, <2>3, <3>1 DEF NumbersOf
    <3>4. NumbersOf(u, n)'
      BY <1>2, <2>2, <3>2, <3>3 DEF NumbersOf
    <3>. QED  BY <2>2, <3>4 DEF NumbersOf
  <2>. QED  BY <2>4, <2>5
<1>. QED  BY <1>4, <1>5

LEMMA SendRequestNumbers ==
    ASSUME Sessions, Registered, Numbers, NEW p \in Procs, send_request(p)
    PROVE  Registered' /\ Numbers'
<1>1. /\ TypeOK /\ proc \in [Procs -> Proc] /\ proc[p].pc = "send"
      /\ proc' = [proc EXCEPT ![p].pc = "reply"]
      /\ UNCHANGED <<serverVars, inbox, file, known>>
  BY DEF Sessions, TypeOK, send_request
<1>2. /\ DOMAIN backlog' = DOMAIN backlog
      /\ \A i \in DOMAIN backlog :
           backlog'[i] = IF backlog[i].client = p THEN [backlog[i] EXCEPT !.req = TRUE]
                         ELSE backlog[i]
  BY <1>1, SendRequestShape
<1>3. /\ \A q \in Procs : q # p => proc'[q] = proc[q]
      /\ proc'[p].pc = "reply" /\ proc'[p].uid = proc[p].uid /\ proc'[p].num = proc[p].num
  BY <1>1 DEF Proc
<1>4. \A i \in DOMAIN backlog :
         /\ backlog'[i].first = backlog[i].first
         /\ backlog'[i].uid = backlog[i].uid /\ backlog'[i].num = backlog[i].num
  <2>1. \A i \in DOMAIN backlog : backlog[i] \in Conn
    BY <1>1 DEF TypeOK
  <2>. QED  BY <1>2, <2>1 DEF Conn
<1>5. Registered'
  BY <1>1, <1>2, <1>3, <1>4 DEF Registered, serverVars
<1>6. \A u \in Uids : \A q \in Procs :
         MayWrite(q, u)' => MayWrite(q, u) /\ proc'[q].num = proc[q].num
  BY <1>1, <1>3 DEF MayWrite
<1>7. Numbers'
  BY <1>1, <1>2, <1>4, <1>6, AllNumbersKept DEF serverVars
<1>. QED  BY <1>5, <1>7

LEMMA EndsNumbers ==
    ASSUME Sessions, Registered, Numbers, NEW p \in Procs, Ends(p),
           UNCHANGED <<serverVars, file>>,
           \A key \in Keys : known'[key] \in DOMAIN users \cup {0}
    PROVE  Registered' /\ Numbers'
<1>1. /\ TypeOK /\ proc \in [Procs -> Proc] /\ inbox \in [Procs -> Seq(Message)]
      /\ \A q \in Procs : q # p => proc'[q] = proc[q] /\ inbox'[q] = inbox[q]
      /\ proc'[p] = Idle /\ inbox'[p] = << >>
  BY EndsShape DEF Sessions, TypeOK
<1>2. /\ DOMAIN backlog' = DOMAIN backlog
      /\ \A i \in DOMAIN backlog :
           backlog'[i] = IF backlog[i].client = p THEN [backlog[i] EXCEPT !.client = None]
                         ELSE backlog[i]
  BY <1>1, EndsShape
<1>3. \A i \in DOMAIN backlog :
         /\ backlog'[i].first = backlog[i].first
         /\ backlog'[i].uid = backlog[i].uid /\ backlog'[i].num = backlog[i].num
  <2>1. \A i \in DOMAIN backlog : backlog[i] \in Conn
    BY <1>1 DEF TypeOK
  <2>. QED  BY <1>2, <2>1 DEF Conn
<1>4. Registered'
  <2>1. ASSUME NEW q \in Procs
        PROVE  /\ proc'[q].uid \in DOMAIN users \cup {0}
               /\ \A i \in DOMAIN inbox'[q] : inbox'[q][i].uid \in DOMAIN users \cup {0}
    <3>1. CASE q = p
      <4>1. proc'[q].uid = 0 /\ inbox'[q] = << >> /\ DOMAIN << >> = {}
        BY <1>1, <3>1 DEF Idle
      <4>. QED  BY <4>1
    <3>2. CASE q # p
      BY <1>1, <3>2 DEF Registered
    <3>. QED  BY <3>1, <3>2
  <2>. QED  BY <1>2, <1>3, <2>1 DEF Registered, serverVars
<1>5. \A u \in Uids : \A q \in Procs :
         MayWrite(q, u)' => MayWrite(q, u) /\ proc'[q].num = proc[q].num
  BY <1>1 DEF MayWrite, Idle
<1>6. Numbers'
  BY <1>1, <1>2, <1>3, <1>5, AllNumbersKept DEF serverVars
<1>. QED  BY <1>4, <1>6

\* What the server sends names uids it has given.
LEMMA SendsRegistered ==
    ASSUME Sessions, Registered, NEW c \in Conn, NEW msgs \in Seq(Message), msgs # << >>,
           Sends(c, msgs), DOMAIN users \subseteq DOMAIN users',
           \A j \in DOMAIN msgs : msgs[j].uid \in DOMAIN users' \cup {0}, NEW p \in Procs
    PROVE  \A i \in DOMAIN inbox'[p] : inbox'[p][i].uid \in DOMAIN users' \cup {0}
<1>. SUFFICES ASSUME NEW i \in DOMAIN inbox'[p]
     PROVE  inbox'[p][i].uid \in DOMAIN users' \cup {0}
  OBVIOUS
<1>1. \/ i \in DOMAIN inbox[p] /\ inbox'[p][i] = inbox[p][i]
      \/ \E j \in DOMAIN msgs : inbox'[p][i] = msgs[j]
  BY SendsTold DEF Sessions
<1>. QED  BY <1>1 DEF Registered

\* A client that has nothing to read but its answer may not write.
LEMMA SendsWriters ==
    ASSUME Sessions, NEW c \in Conn, NEW msgs \in Seq(Message), msgs # << >>,
           Sends(c, msgs), UNCHANGED proc, msgs[1].code # "AUTH_OK" \/ c.client = None
    PROVE  \A u \in Uids : \A p \in Procs :
              MayWrite(p, u)' => MayWrite(p, u) /\ proc'[p].num = proc[p].num
<1>. SUFFICES ASSUME NEW u \in Uids, NEW p \in Procs, MayWrite(p, u)'
     PROVE  MayWrite(p, u)
  OBVIOUS
<1>1. Told(p)' => Told(p)
  <2>1. TypeOK
    BY DEF Sessions
  <2>2. CASE p # c.client
    BY <2>1, <2>2, SendsTold DEF Told
  <2>3. CASE p = c.client
    BY <2>1, <2>3, SendsTold, NoneIsNone DEF Told
  <2>. QED  BY <2>2, <2>3
<1>. QED  BY <1>1 DEF MayWrite, Told

LEMMA AnswersQueue ==
    ASSUME Sessions, NEW msgs \in Seq(Message), Answers(msgs)
    PROVE  /\ backlog # << >> /\ 1 \in DOMAIN backlog /\ backlog[1] \in Conn
           /\ Sends(backlog[1], msgs) /\ UNCHANGED <<proc, file, known, restarts>>
           /\ \A i \in DOMAIN backlog' : i + 1 \in DOMAIN backlog /\ backlog'[i] = backlog[i + 1]
           /\ stage' = "first"
  BY HeadConn, ClosesShape DEF Sessions, Answers

LEMMA DismissesNumbers ==
    ASSUME Sessions, Registered, Numbers, Dismisses
    PROVE  Registered' /\ Numbers'
<1>1. TypeOK
  BY DEF Sessions
<1>2. PICK msgs \in Seq(Message) : /\ msgs # << >> /\ Answers(msgs) /\ msgs[1].code # "AUTH_OK"
                                   /\ \A j \in DOMAIN msgs : msgs[j].uid = 0
  <2>1. CASE Answers(<<Eof>>)
    <3>. DEFINE msgs == <<Eof>>
    <3>1. /\ msgs \in Seq(Message) /\ msgs # << >> /\ msgs[1].code # "AUTH_OK"
          /\ \A j \in DOMAIN msgs : msgs[j].uid = 0
      BY <1>1, MessagesOf DEF Msg, Eof
    <3>. HIDE DEF msgs
    <3>. QED  BY <2>1, <3>1 DEF msgs
  <2>2. CASE Answers(<<Msg("REPLY", 0, 0), Eof>>)
    <3>. DEFINE msgs == <<Msg("REPLY", 0, 0), Eof>>
    <3>1. /\ msgs \in Seq(Message) /\ msgs # << >> /\ msgs[1].code # "AUTH_OK"
          /\ \A j \in DOMAIN msgs : msgs[j].uid = 0
      BY <1>1, MessagesOf DEF Msg, Eof
    <3>. HIDE DEF msgs
    <3>. QED  BY <2>2, <3>1 DEF msgs
  <2>. QED  BY <2>1, <2>2 DEF Dismisses
<1>3. /\ backlog[1] \in Conn /\ Sends(backlog[1], msgs) /\ UNCHANGED <<users, proc, file, known>>
      /\ \A i \in DOMAIN backlog' : i + 1 \in DOMAIN backlog /\ backlog'[i] = backlog[i + 1]
  BY <1>2, AnswersQueue DEF Dismisses
<1>4. \A p \in Procs : \A i \in DOMAIN inbox'[p] : inbox'[p][i].uid \in DOMAIN users' \cup {0}
  BY <1>2, <1>3, SendsRegistered
<1>5. Registered'
  BY <1>3, <1>4 DEF Registered
<1>6. \A u \in Uids : \A p \in Procs :
         MayWrite(p, u)' => MayWrite(p, u) /\ proc'[p].num = proc[p].num
  BY <1>2, <1>3, SendsWriters
<1>7. Numbers'
  BY <1>1, <1>3, <1>6, AllNumbersKept
<1>. QED  BY <1>5, <1>7

\* A new user starts at 0, with an empty file, and nothing waits for it.
LEMMA RegistersNumbers ==
    ASSUME Sessions, Registered, Numbers, Registers
    PROVE  Registered' /\ Numbers'
<1>. DEFINE msgs == <<Msg("REG_OK", Len(users) + 1, 0), Eof>>
            new == Len(users) + 1
<1>1. TypeOK /\ msgs \in Seq(Message) /\ Answers(msgs) /\ msgs # << >>
  BY MessagesOf DEF Sessions, Registers
<1>2. /\ backlog[1] \in Conn /\ Sends(backlog[1], msgs) /\ UNCHANGED <<proc, file, known>>
      /\ \A i \in DOMAIN backlog' : i + 1 \in DOMAIN backlog /\ backlog'[i] = backlog[i + 1]
  BY <1>1, AnswersQueue
<1>3. /\ DOMAIN users = 1 .. Len(users) /\ DOMAIN users' = 1 .. new /\ Len(users) \in Nat
      /\ \A u \in DOMAIN users : users'[u] = users[u]
      /\ users'[new].auth_nonce = 0 /\ new \in Uids
  <2>1. users \in Seq(User) /\ [cle |-> backlog[1].key, auth_nonce |-> 0] \in User
    BY <1>1, <1>2 DEF TypeOK, User, Conn
  <2>2. new \in Uids
    BY <2>1, AuthTable DEF Registers, FreeEntry, Uids
  <2>. QED  BY <2>1, <2>2 DEF Registers
<1>4. \A j \in DOMAIN msgs : msgs[j].uid \in DOMAIN users' \cup {0} /\ msgs[j].code # "AUTH_OK"
  BY <1>3 DEF Msg, Eof
<1>. HIDE DEF msgs
<1>5. DOMAIN users \subseteq DOMAIN users'
  BY <1>3
<1>6. \A p \in Procs : \A i \in DOMAIN inbox'[p] : inbox'[p][i].uid \in DOMAIN users' \cup {0}
  BY <1>1, <1>2, <1>4, <1>5, SendsRegistered
<1>7. Registered'
  BY <1>2, <1>5, <1>6 DEF Registered
<1>8. \A u \in Uids : \A p \in Procs :
         MayWrite(p, u)' => MayWrite(p, u) /\ proc'[p].num = proc[p].num
  <2>1. 1 \in DOMAIN msgs
    BY <1>1
  <2>. QED  BY <1>1, <1>2, <1>4, <2>1, SendsWriters
<1>9. Numbers'
  <2>. SUFFICES ASSUME NEW u \in DOMAIN users'
       PROVE  NumbersOf(u, users[u].auth_nonce)'
    BY DEF Numbers
  <2>1. CASE u \in DOMAIN users
    <3>1. PICK n \in Nat : n = users[u].auth_nonce
      BY <1>1, <2>1, NonceOf
    <3>2. NumbersOf(u, n) /\ n = users'[u].auth_nonce /\ u \in Uids
      BY <1>1, <1>3, <2>1, <3>1, NonceOf DEF Numbers
    <3>3. NumbersOf(u, n)'
      BY <1>2, <1>8, <3>2, NumbersKept
    <3>. QED  BY <3>2, <3>3 DEF NumbersOf
  <2>2. CASE u \notin DOMAIN users
    <3>1. u = new /\ u \in Uids \ DOMAIN users /\ u # 0
      BY <1>3, <2>2
    <3>2. file'[u] = 0 /\ users'[u].auth_nonce = 0
      BY <1>2, <1>3, <3>1 DEF Registered
    <3>3. \A i \in DOMAIN backlog' : backlog'[i].uid # u
      BY <1>2, <3>1 DEF Registered
    <3>4. \A p \in Procs : ~MayWrite(p, u)'
      BY <1>2, <3>1 DEF Registered, MayWrite
    <3>. QED  BY <3>2, <3>3, <3>4 DEF NumbersOf
  <2>. QED  BY <2>1, <2>2
<1>. QED  BY <1>7, <1>9

\* AUTH accepted: the number was the one in the file, so nobody was writing the file; from
\* now on this client may.
LEMMA AuthenticatesNumbers ==
    ASSUME Sessions, Registered, Numbers, Authenticates
    PROVE  Registered' /\ Numbers'
<1>. DEFINE c == backlog[1]
            msgs == <<Msg("AUTH_OK", c.uid, c.num)>>
<1>1. TypeOK /\ backlog # << >> /\ 1 \in DOMAIN backlog /\ c \in Conn
  BY HeadConn DEF Sessions, Authenticates
<1>2. /\ msgs \in Seq(Message) /\ msgs # << >> /\ Sends(c, msgs)
      /\ UNCHANGED <<backlog, proc, file, known>>
  BY <1>1, MessagesOf DEF Authenticates
<1>3. /\ c.first = "AUTH" /\ c.uid \in DOMAIN users /\ c.uid \in Uids /\ c.num \in Nat
      /\ users[c.uid].auth_nonce = c.num /\ users[c.uid] \in User
  BY <1>1, NonceOf DEF Authenticates, Accepts, Conn
<1>4. /\ DOMAIN users' = DOMAIN users /\ users'[c.uid].auth_nonce = c.num + 1
      /\ \A u \in DOMAIN users : u # c.uid => users'[u] = users[u]
  BY <1>1, <1>3 DEF Authenticates, TypeOK, User
<1>5. Registered'
  <2>1. \A j \in DOMAIN msgs : msgs[j].uid \in DOMAIN users' \cup {0}
    BY <1>3, <1>4 DEF Msg
  <2>. HIDE DEF msgs
  <2>2. \A p \in Procs : \A i \in DOMAIN inbox'[p] : inbox'[p][i].uid \in DOMAIN users' \cup {0}
    BY <1>1, <1>2, <1>4, <2>1, SendsRegistered
  <2>. QED  BY <1>2, <1>4, <2>2 DEF Registered
<1>. HIDE DEF msgs
<1>6. \A u \in Uids : \A p \in Procs :
         MayWrite(p, u)' => MayWrite(p, u) \/ (p = c.client /\ u = c.uid /\ proc[p].num = c.num)
  <2>. SUFFICES ASSUME NEW u \in Uids, NEW p \in Procs, MayWrite(p, u)', ~MayWrite(p, u)
       PROVE  p = c.client /\ u = c.uid /\ proc[p].num = c.num
    OBVIOUS
  <2>1. p = c.client
    BY <1>1, <1>2, SendsTold DEF MayWrite
  <2>2. proc[p].uid = c.uid /\ proc[p].num = c.num
    BY <1>1, <2>1, NoneIsNone DEF Sessions, Linked
  <2>. QED  BY <1>2, <2>1, <2>2 DEF MayWrite
<1>7. Numbers'
  <2>. SUFFICES ASSUME NEW u \in DOMAIN users
       PROVE  NumbersOf(u, users[u].auth_nonce)'
    BY <1>4 DEF Numbers
  <2>1. PICK n \in Nat : n = users[u].auth_nonce
    BY <1>1, NonceOf
  <2>2. NumbersOf(u, n) /\ u \in Uids
    BY <1>1, <2>1, NonceOf DEF Numbers
  <2>3. CASE u # c.uid
    <3>1. NumbersOf(u, n)' /\ n = users'[u].auth_nonce
      BY <1>2, <1>4, <1>6, <2>1, <2>2, <2>3, NumbersKept
    <3>. QED  BY <3>1 DEF NumbersOf
  <2>4. CASE u = c.uid
    <3>1. n = c.num /\ file[u] = n /\ users'[u].auth_nonce = n + 1
      BY <1>1, <1>3, <1>4, <2>1, <2>2, <2>4 DEF NumbersOf
    <3>2. \A p \in Procs : ~MayWrite(p, u)
      BY <2>2, <3>1 DEF NumbersOf
    <3>3. \A p \in Procs : MayWrite(p, u)' => p = c.client /\ proc'[p].num = n
      BY <1>2, <1>6, <2>2, <3>1, <3>2
    <3>4. \A i \in DOMAIN backlog : backlog[i].first = "AUTH" /\ backlog[i].uid = u =>
             backlog[i].num =< n + 1 /\ backlog[i].num # n + 1
      <4>1. \A i \in DOMAIN backlog : backlog[i].num \in Nat
        <5>1. \A i \in DOMAIN backlog : backlog[i] \in Conn
          BY <1>1 DEF TypeOK
        <5>. QED  BY <5>1 DEF Conn
      <4>. QED  BY <2>2, <4>1 DEF NumbersOf
    <3>5. NumbersOf(u, n + 1)'
      BY <1>2, <3>1, <3>3, <3>4 DEF NumbersOf
    <3>. QED  BY <3>1, <3>5 DEF NumbersOf
  <2>. QED  BY <2>3, <2>4
<1>. QED  BY <1>5, <1>7

LEMMA IInvInit == Init => IInv
<1>. SUFFICES ASSUME Init
     PROVE  IInv
  OBVIOUS
<1>1. Sessions
  BY SessionsInit
<1>2. DOMAIN users = {} /\ DOMAIN backlog = {} /\ \A p \in Procs : DOMAIN inbox[p] = {}
  BY DEF Init
<1>3. Registered
  BY <1>2 DEF Init, Registered, Idle
<1>. QED  BY <1>1, <1>2, <1>3 DEF IInv, Numbers

LEMMA IInvNext ==
    ASSUME IInv, [Next]_vars
    PROVE  IInv'
<1>1. Sessions /\ Sessions' /\ restarts \in Nat
  BY SessionsNext DEF IInv, Sessions, TypeOK
<1>. SUFFICES ASSUME restarts' = 0
     PROVE  Registered' /\ Numbers'
  BY <1>1 DEF IInv
<1>2. restarts' \in {restarts, restarts + 1}
  <2>1. CASE Server
    BY <2>1, ServerSteps
    DEF IInv, Sessions, Registers, Authenticates, Dismisses, Answers, Closes
  <2>2. CASE \E p \in Procs : Starts(p) \/ Client(p) \/ timeout(p) \/ kill(p)
    BY <2>2
    DEF Starts, Client, one_cmd_plain, one_cmd_authed, Connects, read_nonce, read_auth_ok,
        write_nonce, send_request, read_reply, timeout, kill, serverVars
  <2>3. CASE restart
    BY <2>3 DEF restart
  <2>. QED  BY <2>1, <2>2, <2>3 DEF Next, vars
<1>3. restarts = 0 /\ ~restart /\ Registered /\ Numbers
  BY <1>1, <1>2 DEF IInv, restart
<1>4. ASSUME NEW p \in Procs, NEW key \in Keys, NEW first \in {"REG", "OTHER"},
             one_cmd_plain(p, key, first)
      PROVE  Registered' /\ Numbers'
  <2>1. /\ Connects(p, key, 0, first, "reply") /\ 0 \in DOMAIN users \cup {0}
        /\ first \in {"none", "REG", "OTHER"}
    BY <1>4 DEF one_cmd_plain
  <2>. QED  BY <1>1, <1>3, <2>1, ConnectsNumbers
<1>5. ASSUME NEW p \in Procs, NEW key \in Keys, one_cmd_authed(p, key)
      PROVE  Registered' /\ Numbers'
  <2>1. /\ Connects(p, key, known[key], "none", "read_nonce")
        /\ known[key] \in DOMAIN users \cup {0}
    BY <1>3, <1>5 DEF one_cmd_authed, Registered
  <2>. QED  BY <1>1, <1>3, <2>1, ConnectsNumbers
<1>6. ASSUME NEW p \in Procs, read_reply(p)
      PROVE  Registered' /\ Numbers'
  <2>1. /\ Ends(p) /\ UNCHANGED <<serverVars, file>> /\ inbox[p] # << >>
        /\ inbox[p] \in Seq(Message) /\ known \in [Keys -> Uids \cup {0}]
    BY <1>1, <1>6 DEF read_reply, Sessions, TypeOK
  <2>2. Head(inbox[p]).uid \in DOMAIN users \cup {0}
    BY <1>3, <2>1 DEF Registered
  <2>3. \A key \in Keys : known'[key] \in DOMAIN users \cup {0}
    BY <1>3, <1>6, <2>1, <2>2 DEF read_reply, Registered
  <2>. QED  BY <1>1, <1>3, <2>1, <2>3, EndsNumbers
<1>7. ASSUME NEW p \in Procs, timeout(p) \/ kill(p)
      PROVE  Registered' /\ Numbers'
  <2>1. /\ Ends(p) /\ UNCHANGED <<serverVars, file>>
        /\ \A key \in Keys : known'[key] \in DOMAIN users \cup {0}
    BY <1>3, <1>7 DEF timeout, kill, Registered
  <2>. QED  BY <1>1, <1>3, <2>1, EndsNumbers
<1>8. CASE Server
  BY <1>1, <1>3, <1>8, ServerSteps, RegistersNumbers, AuthenticatesNumbers, DismissesNumbers
  DEF Sessions
<1>9. CASE UNCHANGED vars
  BY <1>3, <1>9 DEF vars, Registered, Numbers, NumbersOf, MayWrite
<1>. QED
  BY <1>1, <1>3, <1>4, <1>5, <1>6, <1>7, <1>8, <1>9, ReadNonceNumbers, ReadAuthOkNumbers,
     WriteNonceNumbers, SendRequestNumbers
  DEF Next, Starts, Client

\* The nonce file of a user has one writer at a time although no process takes a lock,
\* whatever is killed or times out, as long as the server runs.
THEOREM OneWriter == Spec => []SingleWriter
<1>1. IInv => SingleWriter
  <2>. SUFFICES ASSUME IInv, restarts = 0, NEW u \in Uids, NEW p \in Procs, NEW q \in Procs,
                       MayWrite(p, u), MayWrite(q, u)
       PROVE  p = q
    BY DEF SingleWriter
  <2>1. u \in DOMAIN users
    BY DEF IInv, Registered, MayWrite, Uids
  <2>. QED  BY <2>1 DEF IInv, Numbers, NumbersOf
<1>. QED  BY IInvInit, IInvNext, <1>1, PTL DEF Spec

\* The file is never ahead of the server, and at most one number behind unless empty.
THEOREM FileIsBehind == Spec => []FileBehind
<1>1. IInv => FileBehind
  BY DEF IInv, FileBehind, Registered, Numbers, NumbersOf
<1>. QED  BY IInvInit, IInvNext, <1>1, PTL DEF Spec

(***************************************************************************)
(* When nothing fails                                                      *)
(***************************************************************************)
\* File and server agree on n but for the time one process has to write it.
InSyncAt(u, n) ==
    \/ \E p \in Procs : /\ MayWrite(p, u) /\ n = proc[p].num + 1
                         /\ file[u] = IF proc[p].pc = "write_nonce" THEN 0 ELSE proc[p].num
    \/ (\A p \in Procs : ~MayWrite(p, u)) /\ file[u] = n

LEMMA InSyncAtAll == InSync <=> \A u \in DOMAIN users : InSyncAt(u, users[u].auth_nonce)
  BY DEF InSync, InSyncAt

\* They still agree if nothing they agree on has changed.
LEMMA InSyncKept ==
    ASSUME InSync, UNCHANGED <<users, file>>,
           \A p \in Procs : \A u \in DOMAIN users :
              /\ MayWrite(p, u)' <=> MayWrite(p, u)
              /\ MayWrite(p, u) => proc'[p] = proc[p]
    PROVE  InSync'
  BY DEF InSync

\* Only the client being served may write, and it is there.
LEMMA CalmHead ==
    ASSUME CalmInv, NEW p \in Procs, Told(p) \/ proc[p].pc = "write_nonce"
    PROVE  /\ stage = "request" /\ backlog # << >> /\ 1 \in DOMAIN backlog
           /\ backlog[1] \in Conn /\ Head(backlog) = backlog[1]
           /\ backlog[1].client = p /\ ~backlog[1].req
           /\ \/ proc[p].pc = "auth_ok" /\ Len(inbox[p]) = 1
              \/ proc[p].pc = "write_nonce" /\ inbox[p] = << >>
<1>1. stage = "request" /\ backlog[1].client = p /\ TypeOK
  BY DEF CalmInv, Calm, IInv, Sessions
<1>2. backlog # << >>
  BY <1>1 DEF CalmInv, IInv, Sessions, SessionOwned
<1>3. 1 \in DOMAIN backlog /\ backlog[1] \in Conn /\ Head(backlog) = backlog[1]
  BY <1>1, <1>2, HeadConn
<1>. QED  BY <1>1, <1>2, <1>3 DEF CalmInv, Calm, Told, Attended

LEMMA CalmWriter ==
    ASSUME CalmInv, NEW p \in Procs, NEW u \in Uids, MayWrite(p, u)
    PROVE  Told(p) \/ proc[p].pc = "write_nonce"
  BY DEF MayWrite, Told

LEMMA ConnectsCalm ==
    ASSUME CalmInv, NEW p \in Procs, NEW key \in Keys, NEW uid \in Uids \cup {0},
           NEW first \in {"none", "REG", "OTHER"}, NEW pc \in {"read_nonce", "reply"},
           pc = ConnPc(first), Connects(p, key, uid, first, pc)
    PROVE  Calm' /\ InSync'
<1>. DEFINE new == [client |-> p, first |-> first, key |-> key, uid |-> uid, num |-> 0, req |-> FALSE]
<1>1. TypeOK /\ new \in Conn
  BY DEF CalmInv, IInv, Sessions, Conn
<1>2. /\ proc \in [Procs -> Proc] /\ proc[p].pc = "idle" /\ inbox[p] = << >>
      /\ proc' = [proc EXCEPT ![p] = [pc |-> pc, key |-> key, uid |-> uid, num |-> 0]]
      /\ UNCHANGED <<serverVars, inbox, file, known>>
  BY <1>1 DEF CalmInv, IInv, Sessions, Processes, TypeOK, Connects
<1>3. /\ \A i \in DOMAIN backlog : i \in DOMAIN backlog' /\ backlog'[i] = backlog[i]
      /\ backlog'[Len(backlog) + 1] = new
      /\ \A i \in DOMAIN backlog' : i \in DOMAIN backlog \/ i = Len(backlog) + 1
      /\ Len(backlog) + 1 \notin DOMAIN backlog /\ Len(backlog) \in Nat
      /\ backlog # << >> => Len(backlog) + 1 # 1
  <2>1. backlog \in Seq(Conn) /\ backlog' = Append(backlog, new)
    BY <1>1 DEF Connects, TypeOK
  <2>. HIDE DEF new
  <2>. QED  BY <1>1, <2>1
<1>4. \A i \in DOMAIN backlog :
         backlog[i].client \in Procs /\ backlog[i].client # p
  <2>1. \A i \in DOMAIN backlog : backlog[i] \in Conn
    BY <1>1 DEF TypeOK
  <2>. QED  BY <1>2, <2>1 DEF CalmInv, Calm, IInv, Sessions, Linked, Conn
<1>5. /\ \A q \in Procs : q # p => proc'[q] = proc[q]
      /\ proc'[p].pc = pc /\ inbox' = inbox /\ stage' = stage /\ restarts' = restarts
  BY <1>2 DEF serverVars
<1>6. Calm'
  <2>1. /\ \A i \in DOMAIN backlog' : backlog'[i].client # None
        /\ \A i, j \in DOMAIN backlog' : backlog'[i].client = backlog'[j].client => i = j
    BY <1>3, <1>4, NoneIsNone DEF CalmInv, Calm
  <2>2. ASSUME NEW i \in DOMAIN backlog'
        PROVE  IF i = 1 /\ stage' = "request"
               THEN Attended(backlog[i])' ELSE Waiting(backlog[i])'
    <3>1. CASE i \in DOMAIN backlog
      <4>1. /\ backlog'[i] = backlog[i] /\ proc'[backlog[i].client] = proc[backlog[i].client]
            /\ inbox' = inbox /\ stage' = stage
        BY <1>3, <1>4, <1>5, <3>1
      <4>2. IF i = 1 /\ stage = "request" THEN Attended(backlog[i]) ELSE Waiting(backlog[i])
        BY <3>1 DEF CalmInv, Calm
      <4>. QED  BY <4>1, <4>2 DEF Attended, Waiting, Told
    <3>2. CASE i = Len(backlog) + 1
      <4>1. stage = "request" => i # 1
        BY <1>3, <3>2 DEF CalmInv, IInv, Sessions, SessionOwned
      <4>2. Waiting(backlog[i])'
        BY <1>2, <1>3, <1>5, <3>2 DEF Waiting
      <4>. QED  BY <1>5, <4>1, <4>2
    <3>. QED  BY <1>3, <3>1, <3>2
  <2>3. \A q \in Procs : Told(q)' \/ proc'[q].pc = "write_nonce" =>
           stage' = "request" /\ backlog'[1].client = q
    <3>. SUFFICES ASSUME NEW q \in Procs, Told(q)' \/ proc'[q].pc = "write_nonce"
         PROVE  stage' = "request" /\ backlog'[1].client = q
      OBVIOUS
    <3>1. q # p /\ (Told(q) \/ proc[q].pc = "write_nonce")
      BY <1>2, <1>5 DEF Told
    <3>. QED  BY <1>3, <1>5, <3>1, CalmHead
  <2>. QED  BY <1>5, <2>1, <2>2, <2>3 DEF CalmInv, Calm
<1>7. InSync'
  <2>1. \A q \in Procs : \A u \in DOMAIN users :
           /\ MayWrite(q, u)' <=> MayWrite(q, u)
           /\ MayWrite(q, u) => proc'[q] = proc[q]
    BY <1>2, <1>5 DEF MayWrite
  <2>. QED  BY <1>2, <2>1, InSyncKept DEF CalmInv, serverVars
<1>. QED  BY <1>6, <1>7

\* A step of p changes p and its own connection.
LEMMA ProcStepCalm ==
    ASSUME CalmInv, NEW p \in Procs, UNCHANGED serverVars, DOMAIN backlog' = DOMAIN backlog,
           \A i \in DOMAIN backlog : /\ backlog'[i].client = backlog[i].client
                                     /\ backlog[i].client # p => backlog'[i] = backlog[i],
           \A q \in Procs : q # p => proc'[q] = proc[q] /\ inbox'[q] = inbox[q],
           \A i \in DOMAIN backlog : backlog[i].client = p =>
              IF i = 1 /\ stage = "request"
              THEN Attended(backlog[i])' ELSE Waiting(backlog[i])',
           Told(p)' \/ proc'[p].pc = "write_nonce" => Told(p) \/ proc[p].pc = "write_nonce"
    PROVE  Calm'
<1>1. \A i \in DOMAIN backlog : backlog[i].client \in Procs
  <2>1. \A i \in DOMAIN backlog : backlog[i] \in Conn
    BY DEF CalmInv, IInv, Sessions, TypeOK
  <2>. QED  BY <2>1 DEF CalmInv, Calm, Conn
<1>2. /\ \A i \in DOMAIN backlog' : backlog'[i].client # None
      /\ \A i, j \in DOMAIN backlog' : backlog'[i].client = backlog'[j].client => i = j
  BY DEF CalmInv, Calm
<1>3. ASSUME NEW i \in DOMAIN backlog
      PROVE  IF i = 1 /\ stage = "request" THEN Attended(backlog[i])' ELSE Waiting(backlog[i])'
  <2>1. CASE backlog[i].client = p
    BY <2>1
  <2>2. CASE backlog[i].client # p
    <3>1. /\ backlog'[i] = backlog[i] /\ proc'[backlog[i].client] = proc[backlog[i].client]
          /\ inbox'[backlog[i].client] = inbox[backlog[i].client]
      BY <1>1, <2>2
    <3>2. IF i = 1 /\ stage = "request" THEN Attended(backlog[i]) ELSE Waiting(backlog[i])
      BY DEF CalmInv, Calm
    <3>. QED  BY <3>1, <3>2 DEF Attended, Waiting, Told
  <2>. QED  BY <2>1, <2>2
<1>4. ASSUME NEW q \in Procs, Told(q)' \/ proc'[q].pc = "write_nonce"
      PROVE  stage = "request" /\ backlog'[1].client = q
  <2>1. Told(q) \/ proc[q].pc = "write_nonce"
    BY <1>4 DEF Told
  <2>. QED  BY <2>1, CalmHead
<1>. QED  BY <1>2, <1>3, <1>4 DEF CalmInv, Calm, serverVars

LEMMA ReadNonceCalm ==
    ASSUME CalmInv, NEW p \in Procs, read_nonce(p)
    PROVE  Calm' /\ InSync'
<1>1. /\ proc \in [Procs -> Proc] /\ proc[p].pc = "read_nonce" /\ proc[p].uid # 0
      /\ ~Told(p) /\ TypeOK
  BY DEF CalmInv, IInv, Sessions, TypeOK, Processes, read_nonce
<1>2. /\ proc' = [proc EXCEPT ![p].pc = "auth_ok", ![p].num = file[proc[p].uid]]
      /\ UNCHANGED <<serverVars, inbox, file, known>>
  BY <1>1, ReadNonceShape
<1>3. /\ DOMAIN backlog' = DOMAIN backlog
      /\ \A i \in DOMAIN backlog :
           backlog'[i] = IF backlog[i].client = p
                         THEN [backlog[i] EXCEPT !.first = "AUTH", !.num = file[proc[p].uid]]
                         ELSE backlog[i]
  BY <1>1, ReadNonceShape
<1>4. /\ \A q \in Procs : q # p => proc'[q] = proc[q]
      /\ proc'[p].pc = "auth_ok"
  BY <1>1, <1>2 DEF Proc
<1>5. \A i \in DOMAIN backlog :
         /\ backlog'[i].client = backlog[i].client /\ backlog'[i].req = backlog[i].req
         /\ backlog[i].client # p => backlog'[i] = backlog[i]
         /\ backlog[i].client = p => backlog'[i].first = "AUTH"
  <2>1. \A i \in DOMAIN backlog : backlog[i] \in Conn
    BY <1>1 DEF TypeOK
  <2>. QED  BY <1>3, <2>1 DEF Conn
<1>6. ASSUME NEW i \in DOMAIN backlog, backlog[i].client = p
      PROVE  ~(i = 1 /\ stage = "request") /\ Waiting(backlog[i])'
  <2>1. ~(i = 1 /\ stage = "request") /\ Waiting(backlog[i])
    BY <1>1, <1>6 DEF CalmInv, Calm, Attended
  <2>. QED  BY <1>2, <1>4, <1>5, <1>6, <2>1 DEF Waiting, ConnPc
<1>7. Told(p)' \/ proc'[p].pc = "write_nonce" => Told(p) \/ proc[p].pc = "write_nonce"
  BY <1>2, <1>4 DEF Told
<1>8. Calm'
  BY <1>2, <1>3, <1>4, <1>5, <1>6, <1>7, ProcStepCalm
<1>9. \A q \in Procs : \A u \in DOMAIN users :
         /\ MayWrite(q, u)' <=> MayWrite(q, u)
         /\ MayWrite(q, u) => proc'[q] = proc[q]
  BY <1>1, <1>2, <1>4 DEF MayWrite, Told
<1>. QED  BY <1>2, <1>8, <1>9, InSyncKept DEF CalmInv, serverVars

LEMMA SendRequestCalm ==
    ASSUME CalmInv, NEW p \in Procs, send_request(p)
    PROVE  Calm' /\ InSync'
<1>1. /\ proc \in [Procs -> Proc] /\ proc[p].pc = "send" /\ TypeOK
      /\ proc' = [proc EXCEPT ![p].pc = "reply"]
      /\ UNCHANGED <<serverVars, inbox, file, known>>
  BY DEF CalmInv, IInv, Sessions, TypeOK, send_request
<1>2. /\ DOMAIN backlog' = DOMAIN backlog
      /\ \A i \in DOMAIN backlog :
           backlog'[i] = IF backlog[i].client = p THEN [backlog[i] EXCEPT !.req = TRUE]
                         ELSE backlog[i]
  BY <1>1, SendRequestShape
<1>3. (\A q \in Procs : q # p => proc'[q] = proc[q]) /\ proc'[p].pc = "reply"
  BY <1>1 DEF Proc
<1>4. \A i \in DOMAIN backlog :
         /\ backlog'[i].client = backlog[i].client
         /\ backlog[i].client # p => backlog'[i] = backlog[i]
  <2>1. \A i \in DOMAIN backlog : backlog[i] \in Conn
    BY <1>1 DEF TypeOK
  <2>. QED  BY <1>2, <2>1 DEF Conn
<1>5. ASSUME NEW i \in DOMAIN backlog, backlog[i].client = p
      PROVE  i = 1 /\ stage = "request" /\ Attended(backlog[i])'
  <2>1. i = 1 /\ stage = "request" /\ Attended(backlog[i])
    BY <1>1, <1>5 DEF CalmInv, Calm, Waiting, ConnPc
  <2>. QED  BY <1>1, <1>3, <1>4, <1>5, <2>1 DEF Attended
<1>6. Told(p)' \/ proc'[p].pc = "write_nonce" => Told(p) \/ proc[p].pc = "write_nonce"
  BY <1>1, <1>3 DEF Told
<1>7. Calm'
  BY <1>1, <1>2, <1>3, <1>4, <1>5, <1>6, ProcStepCalm
<1>8. \A q \in Procs : \A u \in DOMAIN users :
         /\ MayWrite(q, u)' <=> MayWrite(q, u)
         /\ MayWrite(q, u) => proc'[q] = proc[q]
  BY <1>1, <1>3 DEF MayWrite
<1>. QED  BY <1>1, <1>7, <1>8, InSyncKept DEF CalmInv, serverVars

\* The process whose turn it is takes the number it was accepted with, and puts the next
\* one in the file.
LEMMA ReadAuthOkCalm ==
    ASSUME CalmInv, NEW p \in Procs, read_auth_ok(p)
    PROVE  Calm' /\ InSync'
<1>1. /\ TypeOK /\ proc \in [Procs -> Proc] /\ inbox \in [Procs -> Seq(Message)]
      /\ proc[p].pc = "auth_ok" /\ Told(p) /\ proc[p].uid \in Uids
      /\ file \in [Uids -> Nat]
  BY DEF CalmInv, IInv, Sessions, TypeOK, Processes, Proc, read_auth_ok, Told, Msg
<1>2. /\ proc' = [proc EXCEPT ![p].pc = "write_nonce"]
      /\ inbox' = [inbox EXCEPT ![p] = Tail(@)]
      /\ file' = [file EXCEPT ![proc[p].uid] = 0]
      /\ UNCHANGED <<serverVars, backlog, known>>
  BY DEF read_auth_ok
<1>3. /\ \A q \in Procs : q # p => proc'[q] = proc[q] /\ inbox'[q] = inbox[q]
      /\ proc'[p].uid = proc[p].uid /\ proc'[p].num = proc[p].num
      /\ proc'[p].pc = "write_nonce" /\ inbox'[p] = Tail(inbox[p])
  BY <1>1, <1>2 DEF Proc
<1>4. /\ stage = "request" /\ backlog[1].client = p /\ 1 \in DOMAIN backlog /\ ~backlog[1].req
      /\ Len(inbox[p]) = 1
  BY <1>1, CalmHead
<1>5. inbox'[p] = << >>
  <2>1. inbox[p] \in Seq(Message) /\ Len(inbox[p]) = 1
    BY <1>1, <1>4
  <2>2. Tail(inbox[p]) \in Seq(Message) /\ Len(Tail(inbox[p])) = 0
    BY <2>1
  <2>. QED  BY <1>3, <2>2, EmptySeq
<1>6. ASSUME NEW i \in DOMAIN backlog, backlog[i].client = p
      PROVE  i = 1 /\ Attended(backlog[i])'
  <2>1. i = 1
    BY <1>4, <1>6 DEF CalmInv, Calm
  <2>. QED  BY <1>2, <1>3, <1>4, <1>5, <2>1 DEF Attended
<1>7. Calm'
  BY <1>1, <1>2, <1>3, <1>4, <1>6, ProcStepCalm
<1>8. InSync'
  <2>. SUFFICES ASSUME NEW u \in DOMAIN users
       PROVE  InSyncAt(u, users[u].auth_nonce)'
    BY <1>2 DEF InSync, InSyncAt, serverVars
  <2>1. InSyncAt(u, users[u].auth_nonce) /\ u \in Uids /\ users' = users
    BY <1>1, <1>2, InSyncAtAll, NonceOf DEF CalmInv, serverVars
  <2>2. \A q \in Procs : MayWrite(q, u) => q = p
    BY <1>4, <2>1, CalmWriter, CalmHead
  <2>3. \A q \in Procs : MayWrite(q, u)' => q = p
    BY <1>3, <2>2 DEF MayWrite
  <2>4. CASE u = proc[p].uid
    <3>1. MayWrite(p, u) /\ MayWrite(p, u)'
      BY <1>1, <1>3, <2>4 DEF MayWrite, Told
    <3>2. users[u].auth_nonce = proc[p].num + 1
      BY <2>1, <2>2, <3>1 DEF InSyncAt
    <3>3. file'[u] = 0
      BY <1>1, <1>2, <2>4
    <3>. QED  BY <1>3, <2>1, <3>1, <3>2, <3>3 DEF InSyncAt
  <2>5. CASE u # proc[p].uid
    <3>1. ~MayWrite(p, u) /\ ~MayWrite(p, u)' /\ file'[u] = file[u]
      BY <1>1, <1>2, <1>3, <2>1, <2>5 DEF MayWrite
    <3>. QED  BY <2>1, <2>2, <2>3, <3>1 DEF InSyncAt
  <2>. QED  BY <2>4, <2>5
<1>. QED  BY <1>7, <1>8

LEMMA WriteNonceCalm ==
    ASSUME CalmInv, NEW p \in Procs, write_nonce(p)
    PROVE  Calm' /\ InSync'
<1>1. /\ TypeOK /\ proc \in [Procs -> Proc] /\ file \in [Uids -> Nat]
      /\ proc[p].pc = "write_nonce" /\ proc[p].uid \in Uids
  BY DEF CalmInv, IInv, Sessions, TypeOK, Processes, Proc, write_nonce
<1>2. /\ proc' = [proc EXCEPT ![p].pc = "send"]
      /\ file' = [file EXCEPT ![proc[p].uid] = proc[p].num + 1]
      /\ UNCHANGED <<serverVars, backlog, inbox, known>>
  BY DEF write_nonce, NextNum
<1>3. /\ \A q \in Procs : q # p => proc'[q] = proc[q]
      /\ proc'[p].uid = proc[p].uid /\ proc'[p].pc = "send"
  BY <1>1, <1>2 DEF Proc
<1>4. /\ stage = "request" /\ backlog[1].client = p /\ 1 \in DOMAIN backlog /\ ~backlog[1].req
      /\ inbox[p] = << >>
  BY <1>1, CalmHead
<1>5. ASSUME NEW i \in DOMAIN backlog, backlog[i].client = p
      PROVE  i = 1 /\ Attended(backlog[i])'
  <2>1. i = 1
    BY <1>4, <1>5 DEF CalmInv, Calm
  <2>. QED  BY <1>2, <1>3, <1>4, <2>1 DEF Attended
<1>6. Calm'
  BY <1>1, <1>2, <1>3, <1>4, <1>5, ProcStepCalm
<1>7. InSync'
  <2>. SUFFICES ASSUME NEW u \in DOMAIN users
       PROVE  InSyncAt(u, users[u].auth_nonce)'
    BY <1>2 DEF InSync, InSyncAt, serverVars
  <2>1. InSyncAt(u, users[u].auth_nonce) /\ u \in Uids /\ users' = users
    BY <1>1, <1>2, InSyncAtAll, NonceOf DEF CalmInv, serverVars
  <2>2. \A q \in Procs : MayWrite(q, u) => q = p
    BY <1>4, <2>1, CalmWriter, CalmHead
  <2>3. \A q \in Procs : ~MayWrite(q, u)'
    BY <1>2, <1>3, <2>2 DEF MayWrite
  <2>4. CASE u = proc[p].uid
    <3>1. MayWrite(p, u)
      BY <1>1, <2>4 DEF MayWrite
    <3>2. users[u].auth_nonce = proc[p].num + 1
      BY <2>1, <2>2, <3>1 DEF InSyncAt
    <3>3. file'[u] = proc[p].num + 1
      BY <1>1, <1>2, <2>4
    <3>. QED  BY <2>1, <2>3, <3>2, <3>3 DEF InSyncAt
  <2>5. CASE u # proc[p].uid
    <3>1. ~MayWrite(p, u) /\ file'[u] = file[u]
      BY <1>1, <1>2, <2>1, <2>5 DEF MayWrite
    <3>. QED  BY <2>1, <2>2, <2>3, <3>1 DEF InSyncAt
  <2>. QED  BY <2>4, <2>5
<1>. QED  BY <1>6, <1>7

\* Who has its answer has no connection any more.
LEMMA ReadReplyCalm ==
    ASSUME CalmInv, NEW p \in Procs, read_reply(p)
    PROVE  Calm' /\ InSync'
<1>1. /\ TypeOK /\ Ends(p) /\ UNCHANGED <<serverVars, file>>
      /\ proc[p].pc \in {"auth_ok", "reply"} /\ inbox[p] # << >> /\ ~Told(p)
  BY DEF CalmInv, IInv, Sessions, read_reply, Told
<1>2. \A i \in DOMAIN backlog : backlog[i].client # p
  <2>. SUFFICES ASSUME NEW i \in DOMAIN backlog, backlog[i].client = p
       PROVE  FALSE
    OBVIOUS
  <2>1. IF i = 1 /\ stage = "request" THEN Attended(backlog[i]) ELSE Waiting(backlog[i])
    BY DEF CalmInv, Calm
  <2>. QED  BY <1>1, <2>1 DEF Attended, Waiting
<1>3. /\ DOMAIN backlog' = DOMAIN backlog
      /\ \A i \in DOMAIN backlog : backlog'[i] = backlog[i]
  BY <1>1, <1>2, EndsShape
<1>4. /\ \A q \in Procs : q # p => proc'[q] = proc[q] /\ inbox'[q] = inbox[q]
      /\ proc'[p].pc = "idle" /\ inbox'[p] = << >>
  BY <1>1, EndsShape DEF TypeOK, Idle
<1>5. Calm'
  BY <1>1, <1>2, <1>3, <1>4, ProcStepCalm DEF Told
<1>6. \A q \in Procs : \A u \in DOMAIN users :
         /\ MayWrite(q, u)' <=> MayWrite(q, u)
         /\ MayWrite(q, u) => proc'[q] = proc[q]
  BY <1>1, <1>4 DEF MayWrite, Told
<1>. QED  BY <1>1, <1>5, <1>6, InSyncKept DEF CalmInv, serverVars

\* A connection is closed when its client has nothing to write any more.
LEMMA AnswersCalm ==
    ASSUME CalmInv, NEW msgs \in Seq(Message), msgs # << >>, Answers(msgs),
           msgs[1].code # "AUTH_OK", stage = "request" => backlog[1].req
    PROVE  /\ Calm' /\ UNCHANGED <<proc, file>>
           /\ \A p \in Procs : \A u \in Uids : ~MayWrite(p, u) /\ ~MayWrite(p, u)'
<1>1. TypeOK /\ Sessions /\ restarts = 0
  BY DEF CalmInv, IInv, Sessions, Calm
<1>2. /\ backlog # << >> /\ 1 \in DOMAIN backlog /\ backlog[1] \in Conn
      /\ Sends(backlog[1], msgs) /\ UNCHANGED <<proc, file, known, restarts>>
      /\ \A i \in DOMAIN backlog' : i + 1 \in DOMAIN backlog /\ backlog'[i] = backlog[i + 1]
      /\ stage' = "first"
  BY <1>1, AnswersQueue
<1>3. \A p \in Procs : ~Told(p) /\ proc[p].pc # "write_nonce"
  BY CalmHead
<1>4. backlog[1].client \in Procs /\ inbox[backlog[1].client] = << >>
  <2>1. backlog[1].client \in Procs
    BY <1>2 DEF CalmInv, Calm, Conn
  <2>2. IF stage = "request" THEN Attended(backlog[1]) ELSE Waiting(backlog[1])
    BY <1>2 DEF CalmInv, Calm
  <2>. QED  BY <1>3, <2>1, <2>2 DEF Attended, Waiting
<1>5. \A p \in Procs : /\ ~Told(p)'
                       /\ p # backlog[1].client => inbox'[p] = inbox[p]
  BY <1>1, <1>2, <1>3, <1>4, SendsTold DEF Told
<1>6. \A i \in DOMAIN backlog' : 1 # i + 1 /\ i \in Int
  <2>1. backlog' \in Seq(Conn)
    BY <1>1, <1>2, ClosesShape DEF Answers
  <2>. QED  BY <2>1
<1>7. ASSUME NEW i \in DOMAIN backlog'
      PROVE  /\ backlog'[i].client # None /\ Waiting(backlog[i])'
             /\ \A j \in DOMAIN backlog' : backlog'[i].client = backlog'[j].client => i = j
  <2>1. /\ i + 1 \in DOMAIN backlog /\ backlog'[i] = backlog[i + 1]
        /\ backlog'[i].client # backlog[1].client
        /\ backlog'[i].client # None /\ Waiting(backlog[i + 1])
    BY <1>2, <1>6 DEF CalmInv, Calm
  <2>2. backlog'[i].client \in Procs
    <3>1. backlog[i + 1] \in Conn
      BY <1>1, <2>1 DEF TypeOK
    <3>. QED  BY <2>1, <3>1 DEF Conn
  <2>3. Waiting(backlog[i])'
    BY <1>2, <1>5, <2>1, <2>2 DEF Waiting
  <2>4. ASSUME NEW j \in DOMAIN backlog', backlog'[i].client = backlog'[j].client
        PROVE  i = j
    <3>1. i + 1 = j + 1
      BY <1>2, <2>1, <2>4 DEF CalmInv, Calm
    <3>. QED  BY <1>6, <3>1
  <2>. QED  BY <2>1, <2>3, <2>4
<1>8. Calm'
  BY <1>1, <1>2, <1>3, <1>5, <1>7 DEF Calm
<1>9. \A p \in Procs : \A u \in Uids : ~MayWrite(p, u) /\ ~MayWrite(p, u)'
  BY <1>2, <1>3, <1>5 DEF MayWrite, Told
<1>. QED  BY <1>2, <1>8, <1>9

LEMMA DismissesCalm ==
    ASSUME CalmInv, Dismisses, ~Timeouts
    PROVE  Calm' /\ InSync'
<1>1. TypeOK /\ backlog # << >>
  BY DEF CalmInv, IInv, Sessions, Dismisses, Answers
<1>2. ~Dropped(backlog[1])
  BY <1>1, HeadConn DEF CalmInv, Calm, Dropped
<1>3. PICK msgs \in Seq(Message) : /\ msgs # << >> /\ Answers(msgs) /\ msgs[1].code # "AUTH_OK"
                                   /\ stage = "request" => backlog[1].req
  BY <1>1, <1>2, MessagesOf DEF Dismisses, Msg, Eof
<1>4. /\ Calm' /\ UNCHANGED <<users, proc, file>>
      /\ \A p \in Procs : \A u \in Uids : ~MayWrite(p, u) /\ ~MayWrite(p, u)'
  BY <1>3, AnswersCalm DEF Dismisses
<1>5. DOMAIN users \subseteq Uids
  BY <1>1, NonceOf
<1>. QED  BY <1>4, <1>5, InSyncKept DEF CalmInv

LEMMA RegistersCalm ==
    ASSUME CalmInv, Registers
    PROVE  Calm' /\ InSync'
<1>. DEFINE msgs == <<Msg("REG_OK", Len(users) + 1, 0), Eof>>
            new == Len(users) + 1
<1>1. TypeOK /\ msgs \in Seq(Message) /\ Answers(msgs) /\ msgs # << >>
      /\ msgs[1].code # "AUTH_OK" /\ stage = "first"
  BY MessagesOf DEF CalmInv, IInv, Sessions, Registers, Msg
<1>2. /\ users \in Seq(User) /\ DOMAIN users = 1 .. Len(users) /\ DOMAIN users' = 1 .. new
      /\ \A u \in DOMAIN users : users'[u] = users[u]
      /\ users'[new].auth_nonce = 0 /\ new \in Uids
  <2>1. users \in Seq(User) /\ [cle |-> backlog[1].key, auth_nonce |-> 0] \in User
    BY <1>1, HeadConn DEF TypeOK, User, Conn, Registers, Answers
  <2>2. new \in Uids
    BY <2>1, AuthTable DEF Registers, FreeEntry, Uids
  <2>. QED  BY <2>1, <2>2 DEF Registers
<1>3. /\ Calm' /\ UNCHANGED <<proc, file>>
      /\ \A p \in Procs : \A u \in Uids : ~MayWrite(p, u) /\ ~MayWrite(p, u)'
  <2>. HIDE DEF msgs
  <2>. QED  BY <1>1, AnswersCalm
<1>4. ASSUME NEW u \in DOMAIN users'
      PROVE  file'[u] = users'[u].auth_nonce /\ u \in Uids
  <2>1. CASE u \in DOMAIN users
    <3>1. u \in Uids /\ file[u] = users[u].auth_nonce
      BY <1>1, <1>3, <2>1, NonceOf DEF CalmInv, InSync
    <3>. QED  BY <1>2, <1>3, <2>1, <3>1
  <2>2. CASE u \notin DOMAIN users
    <3>1. u = new /\ u \in Uids \ DOMAIN users
      BY <1>2, <2>2
    <3>2. file[u] = 0
      BY <3>1 DEF CalmInv, Calm, IInv, Registered
    <3>. QED  BY <1>2, <1>3, <3>1, <3>2
  <2>. QED  BY <2>1, <2>2
<1>. QED  BY <1>3, <1>4 DEF InSync

\* AUTH is accepted while nobody writes; its client may now, and nobody else.
LEMMA AuthenticatesCalm ==
    ASSUME CalmInv, Authenticates
    PROVE  Calm' /\ InSync'
<1>. DEFINE c == backlog[1]
            msgs == <<Msg("AUTH_OK", c.uid, c.num)>>
<1>1. TypeOK /\ Sessions /\ backlog # << >> /\ 1 \in DOMAIN backlog /\ c \in Conn
  BY HeadConn DEF CalmInv, IInv, Sessions, Authenticates
<1>2. /\ msgs \in Seq(Message) /\ msgs # << >> /\ Len(msgs) = 1 /\ msgs[1].code = "AUTH_OK"
      /\ Sends(c, msgs) /\ stage = "first" /\ stage' = "request"
      /\ UNCHANGED <<backlog, restarts, proc, file, known>>
  BY <1>1, MessagesOf DEF Authenticates, Msg
<1>. HIDE DEF msgs
<1>3. /\ c.first = "AUTH" /\ c.uid \in DOMAIN users /\ c.uid \in Uids /\ c.num \in Nat
      /\ users[c.uid].auth_nonce = c.num /\ users[c.uid] \in User
  BY <1>1, NonceOf DEF Authenticates, Accepts, Conn
<1>4. /\ DOMAIN users' = DOMAIN users /\ users'[c.uid].auth_nonce = c.num + 1
      /\ \A u \in DOMAIN users : u # c.uid => users'[u] = users[u]
  BY <1>1, <1>3 DEF Authenticates, TypeOK, User
<1>5. /\ c.client \in Procs /\ inbox[c.client] = << >> /\ proc[c.client].pc = "auth_ok"
      /\ ~c.req /\ proc[c.client].uid = c.uid /\ proc[c.client].num = c.num
  <2>1. c.client \in Procs /\ Waiting(c)
    BY <1>1, <1>2 DEF CalmInv, Calm, Conn
  <2>. QED  BY <1>1, <1>3, <2>1, NoneIsNone DEF Waiting, ConnPc, Sessions, Linked
<1>6. \A p \in Procs : ~Told(p) /\ proc[p].pc # "write_nonce"
  BY <1>2, CalmHead
<1>7. /\ Told(c.client)' /\ Len(inbox'[c.client]) = 1
      /\ \A p \in Procs : p # c.client => inbox'[p] = inbox[p]
  <2>1. /\ Told(c.client)' = (msgs[1].code = "AUTH_OK")
        /\ Len(inbox'[c.client]) = 0 + Len(msgs) /\ inbox'[c.client] # << >>
        /\ \A p \in Procs : p # c.client => inbox'[p] = inbox[p]
    <3>1. Len(inbox[c.client]) = 0
      BY <1>5
    <3>. QED  BY <1>1, <1>2, <1>5, <3>1, SendsTold
  <2>. QED  BY <1>2, <2>1 DEF Told
<1>8. Calm'
  <2>1. Attended(c)'
    BY <1>2, <1>5, <1>7 DEF Attended
  <2>2. ASSUME NEW i \in DOMAIN backlog, i # 1
        PROVE  Waiting(backlog[i])'
    <3>1. Waiting(backlog[i]) /\ backlog[i].client # c.client /\ backlog[i].client # None
      BY <1>1, <1>2, <2>2 DEF CalmInv, Calm
    <3>2. backlog[i].client \in Procs
      <4>1. backlog[i] \in Conn
        BY <1>1 DEF TypeOK
      <4>. QED  BY <3>1, <4>1 DEF Conn
    <3>. QED  BY <1>2, <1>7, <3>1, <3>2 DEF Waiting
  <2>3. \A p \in Procs : Told(p)' \/ proc'[p].pc = "write_nonce" => p = c.client
    BY <1>2, <1>6, <1>7 DEF Told
  <2>. QED  BY <1>2, <2>1, <2>2, <2>3 DEF CalmInv, Calm
<1>9. InSync'
  <2>. SUFFICES ASSUME NEW u \in DOMAIN users
       PROVE  InSyncAt(u, users[u].auth_nonce)'
    BY <1>4 DEF InSync, InSyncAt
  <2>1. u \in Uids /\ file[u] = users[u].auth_nonce
    <3>1. u \in Uids
      BY <1>1, NonceOf
    <3>2. \A p \in Procs : ~MayWrite(p, u)
      BY <1>6, <3>1, CalmWriter
    <3>. QED  BY <3>1, <3>2 DEF CalmInv, InSync
  <2>2. \A p \in Procs : MayWrite(p, u)' => p = c.client
    BY <1>2, <1>6, <1>7 DEF MayWrite, Told
  <2>3. CASE u = c.uid
    <3>1. MayWrite(c.client, u)'
      BY <1>2, <1>5, <1>7, <2>3 DEF MayWrite, Told
    <3>. QED  BY <1>2, <1>3, <1>4, <1>5, <2>1, <2>3, <3>1 DEF InSyncAt
  <2>4. CASE u # c.uid
    <3>1. \A p \in Procs : ~MayWrite(p, u)'
      BY <1>2, <1>5, <2>2, <2>4 DEF MayWrite
    <3>. QED  BY <1>2, <1>4, <2>1, <2>4, <3>1 DEF InSyncAt
  <2>. QED  BY <2>3, <2>4
<1>. QED  BY <1>8, <1>9

LEMMA CalmInit == Init => CalmInv
<1>. SUFFICES ASSUME Init
     PROVE  CalmInv
  OBVIOUS
<1>1. IInv /\ DOMAIN users = {} /\ DOMAIN backlog = {}
  BY IInvInit DEF Init
<1>. QED  BY <1>1 DEF Init, CalmInv, Calm, InSync, Idle, Told

LEMMA CalmNext ==
    ASSUME ~Timeouts, ~Kills, MaxRestarts = 0, CalmInv, [Next]_vars
    PROVE  CalmInv'
<1>1. IInv' /\ restarts = 0 /\ TypeOK
  BY IInvNext DEF CalmInv, Calm, IInv, Sessions
<1>. SUFFICES Calm' /\ InSync'
  BY <1>1 DEF CalmInv
<1>2. ASSUME NEW p \in Procs, NEW key \in Keys, NEW first \in {"REG", "OTHER"},
             one_cmd_plain(p, key, first)
      PROVE  Calm' /\ InSync'
  <2>1. /\ Connects(p, key, 0, first, "reply") /\ 0 \in Uids \cup {0}
        /\ first \in {"none", "REG", "OTHER"} /\ "reply" = ConnPc(first)
    BY <1>2 DEF one_cmd_plain, ConnPc
  <2>. QED  BY <2>1, ConnectsCalm
<1>3. ASSUME NEW p \in Procs, NEW key \in Keys, one_cmd_authed(p, key)
      PROVE  Calm' /\ InSync'
  <2>1. /\ Connects(p, key, known[key], "none", "read_nonce")
        /\ known[key] \in Uids \cup {0} /\ "read_nonce" = ConnPc("none")
    BY <1>1, <1>3 DEF one_cmd_authed, TypeOK, ConnPc
  <2>. QED  BY <2>1, ConnectsCalm
<1>4. CASE Server
  BY <1>1, <1>4, ServerSteps, RegistersCalm, AuthenticatesCalm, DismissesCalm
<1>5. ~restart /\ \A p \in Procs : ~timeout(p) /\ ~kill(p)
  BY <1>1 DEF restart, timeout, kill
<1>6. CASE UNCHANGED vars
  BY <1>6 DEF vars, CalmInv, Calm, InSync, Attended, Waiting, Told, MayWrite
<1>. QED
  BY <1>2, <1>3, <1>4, <1>5, <1>6, ReadNonceCalm, ReadAuthOkCalm, WriteNonceCalm,
     SendRequestCalm, ReadReplyCalm
  DEF Next, Starts, Client

\* When nothing times out, is killed or restarts, the file holds the number the server
\* expects next, but for the time one process has to write it: commands that run one
\* after the other are all accepted.
THEOREM StaysInSync ==
    ASSUME ~Timeouts, ~Kills, MaxRestarts = 0
    PROVE  Spec => []InSync
<1>1. CalmInv /\ [Next]_vars => CalmInv'
  BY CalmNext
<1>2. CalmInv => InSync
  BY DEF CalmInv
<1>. QED  BY CalmInit, <1>1, <1>2, PTL DEF Spec

================================================================================
