------------------------------ MODULE ParolesAuth ------------------------------
(***************************************************************************)
(* Authenticated commands: a server run with --signing-key                 *)
(* (serve_client, do_client_auth, send_auth_ok in src/src/server.c) and    *)
(* the paroles_client processes of one machine (one_cmd_authed and         *)
(* one_cmd_plain in src/src/client.c), which share the files               *)
(* /tmp/paroles_nonce_<port>_<uid> and take no lock on them.               *)
(*                                                                         *)
(* One command is one process and one TCP connection.  The server serves   *)
(* the connections one after the other, in the order of their arrival; a   *)
(* connection whose client has gone stays in the queue with what had been  *)
(* sent on it.  TCP keeps what is sent in order; a message is whole.       *)
(*                                                                         *)
(* Abstracted: signatures (a signature verifies if the signer's key is the *)
(* registered one), the requests themselves (ParolesServer), TLS, and time *)
(* (a timeout may expire whenever what is awaited is not there).           *)
(***************************************************************************)
EXTENDS Integers, Sequences

CONSTANTS
    Procs,         \* client processes that can run at the same time
    Keys,          \* key pairs, one per person
    None,          \* the client of a connection whose client has gone, the key of
                   \* a process that runs no command
    MAX_USERS,
    Timeouts,      \* TRUE: the 30 s of PAROLES_TCP_TIMEOUT_MS may run out
    Kills,         \* TRUE: a client process may be killed
    MaxRestarts,   \* bound: restarts of the server
    MaxNum,        \* bound: no command is started for a user accepted that often
    MaxBacklog     \* bound: connections waiting or being served

ASSUME NoneIsNone == None \notin Procs \cup Keys
ASSUME AuthTable == MAX_USERS \in Nat \ {0}
ASSUME AuthSwitches == Timeouts \in BOOLEAN /\ Kills \in BOOLEAN
ASSUME AuthBounds == MaxRestarts \in Nat /\ MaxNum \in Nat /\ MaxBacklog \in Nat

VARIABLES
    users,     \* the server's table: key and auth_nonce of each uid
    backlog,   \* the accept queue; its head is the connection being served
    stage,     \* what the server awaits on the head: "first" message or "request"
    restarts,  \* restarts so far
    proc,      \* the client processes
    inbox,     \* what each process has been sent and has not read
    file,      \* the nonce files, 0 when absent or empty
    known      \* the uid each person was last given, 0 before the first

vars == <<users, backlog, stage, restarts, proc, inbox, file, known>>
serverVars == <<users, stage, restarts>>

(***************************************************************************)
(* Types                                                                   *)
(***************************************************************************)
Uids == 1 .. MAX_USERS
User == [cle : Keys, auth_nonce : Nat]

\* pc: what the process is about to do, or awaits ("auth_ok" and "reply").
Proc == [pc : {"idle", "read_nonce", "auth_ok", "write_nonce", "send", "reply"},
         key : Keys \cup {None}, uid : Uids \cup {0}, num : Nat]

\* first: the first message on the connection; req: whether the request followed.
Conn == [client : Procs \cup {None}, first : {"none", "REG", "AUTH", "OTHER"},
         key : Keys, uid : Uids \cup {0}, num : Nat, req : BOOLEAN]

Message == [code : {"REG_OK", "AUTH_OK", "REPLY", "EOF"}, uid : Uids \cup {0}, num : Nat]
Msg(code, uid, num) == [code |-> code, uid |-> uid, num |-> num]

(***************************************************************************)
(* Slips a change of the code could introduce, each in place of the        *)
(* operator named before its underscore.                                   *)
(***************************************************************************)
FreeEntry_OffByOne == Len(users) =< MAX_USERS
NextNum_Same(p) == proc[p].num
Accepts_AnyKey(c) == c.uid \in DOMAIN users /\ users[c.uid].auth_nonce = c.num
Accepts_Tolerant(c) ==
    /\ c.uid \in DOMAIN users
    /\ c.num \in {users[c.uid].auth_nonce - 1, users[c.uid].auth_nonce}
    /\ users[c.uid].cle = c.key
Accepts_AnyNum(c) == c.uid \in DOMAIN users /\ users[c.uid].cle = c.key
NextStage_Kept == stage

(***************************************************************************)
(* The client                                                              *)
(***************************************************************************)
Idle == [pc |-> "idle", key |-> None, uid |-> 0, num |-> 0]
OwnConn(p, change(_)) ==
    backlog' = [i \in DOMAIN backlog |->
                  IF backlog[i].client = p THEN change(backlog[i]) ELSE backlog[i]]

\* The process ends and its connection, if the server has not closed it, is closed.
Ends(p) ==
    LET gone(c) == [c EXCEPT !.client = None]
    IN  /\ proc' = [proc EXCEPT ![p] = Idle]
        /\ inbox' = [inbox EXCEPT ![p] = << >>]
        /\ OwnConn(p, gone)

Connects(p, key, uid, first, pc) ==
    /\ proc[p].pc = "idle" /\ Len(backlog) < MaxBacklog
    /\ proc' = [proc EXCEPT ![p] = [pc |-> pc, key |-> key, uid |-> uid, num |-> 0]]
    /\ backlog' = Append(backlog, [client |-> p, first |-> first, key |-> key,
                                   uid |-> uid, num |-> 0, req |-> FALSE])
    /\ UNCHANGED <<serverVars, inbox, file, known>>

\* Registration, and a command run without --key: connect and send, without AUTH.
one_cmd_plain(p, key, first) == Connects(p, key, 0, first, "reply")

\* A command with --key: the connection is made first, the file is read next.
one_cmd_authed(p, key) ==
    /\ known[key] # 0
    /\ known[key] \in DOMAIN users => users[known[key]].auth_nonce < MaxNum
    /\ Connects(p, key, known[key], "none", "read_nonce")

read_nonce(p) ==
    LET num == file[proc[p].uid]
        auth(c) == [c EXCEPT !.first = "AUTH", !.num = num]
    IN  /\ proc[p].pc = "read_nonce"
        /\ proc' = [proc EXCEPT ![p].pc = "auth_ok", ![p].num = num]
        /\ OwnConn(p, auth)
        /\ UNCHANGED <<serverVars, inbox, file, known>>

\* AUTH_OK arrives, for this uid and this number; fopen(path, "w") empties the file.
read_auth_ok(p) ==
    /\ proc[p].pc = "auth_ok" /\ inbox[p] # << >>
    /\ Head(inbox[p]) = Msg("AUTH_OK", proc[p].uid, proc[p].num)
    /\ inbox' = [inbox EXCEPT ![p] = Tail(@)]
    /\ file' = [file EXCEPT ![proc[p].uid] = 0]
    /\ proc' = [proc EXCEPT ![p].pc = "write_nonce"]
    /\ UNCHANGED <<serverVars, backlog, known>>

NextNum(p) == proc[p].num + 1
write_nonce(p) ==
    /\ proc[p].pc = "write_nonce"
    /\ file' = [file EXCEPT ![proc[p].uid] = NextNum(p)]
    /\ proc' = [proc EXCEPT ![p].pc = "send"]
    /\ UNCHANGED <<serverVars, backlog, inbox, known>>

\* If the server has closed the connection meanwhile the request is lost.
send_request(p) ==
    LET requested(c) == [c EXCEPT !.req = TRUE]
    IN  /\ proc[p].pc = "send"
        /\ proc' = [proc EXCEPT ![p].pc = "reply"]
        /\ OwnConn(p, requested)
        /\ UNCHANGED <<serverVars, inbox, file, known>>

\* The answer, or the end of the connection instead of it.  A registration prints the
\* uid it was given, which the person uses from then on.
read_reply(p) ==
    /\ proc[p].pc \in {"auth_ok", "reply"} /\ inbox[p] # << >>
    /\ Head(inbox[p]).code # "AUTH_OK"
    /\ known' = IF Head(inbox[p]).code = "REG_OK"
                THEN [known EXCEPT ![proc[p].key] = Head(inbox[p]).uid] ELSE known
    /\ Ends(p)
    /\ UNCHANGED <<serverVars, file>>

Client(p) ==
    \/ read_nonce(p) \/ read_auth_ok(p) \/ write_nonce(p)
    \/ send_request(p) \/ read_reply(p)

\* Thirty seconds without an answer.
timeout(p) ==
    /\ Timeouts
    /\ proc[p].pc \in {"auth_ok", "reply"} /\ inbox[p] = << >>
    /\ Ends(p)
    /\ UNCHANGED <<serverVars, file, known>>

kill(p) ==
    /\ Kills /\ proc[p].pc # "idle"
    /\ Ends(p)
    /\ UNCHANGED <<serverVars, file, known>>

(***************************************************************************)
(* The server                                                              *)
(***************************************************************************)
\* What is sent to a client that has gone is lost.
Sends(c, msgs) ==
    inbox' = IF c.client = None THEN inbox ELSE [inbox EXCEPT ![c.client] = @ \o msgs]

\* serve_client returns: the next connection is served from its first message, with
\* no session.
NextStage == "first"
Closes == backlog' = Tail(backlog) /\ stage' = NextStage /\ UNCHANGED restarts

Eof == Msg("EOF", 0, 0)

FreeEntry == Len(users) < MAX_USERS

\* do_client_auth: the uid is registered, the number is the one expected next, and
\* the signature verifies with the registered key.
Accepts(c) ==
    /\ c.uid \in DOMAIN users
    /\ users[c.uid].auth_nonce = c.num
    /\ users[c.uid].cle = c.key

serve_first ==
    LET c == Head(backlog)
    IN  /\ backlog # << >> /\ stage = "first"
        /\ \/ /\ c.first = "REG" /\ FreeEntry
              /\ users' = Append(users, [cle |-> c.key, auth_nonce |-> 0])
              /\ Sends(c, <<Msg("REG_OK", Len(users) + 1, 0), Eof>>)
              /\ Closes
           \/ /\ c.first = "AUTH" /\ Accepts(c)
              /\ users' = [users EXCEPT ![c.uid].auth_nonce = @ + 1]
              /\ Sends(c, <<Msg("AUTH_OK", c.uid, c.num)>>)
              /\ stage' = "request"
              /\ UNCHANGED <<backlog, restarts>>
           \/ /\ \/ c.first = "REG" /\ ~FreeEntry
                 \/ c.first = "AUTH" /\ ~Accepts(c)
                 \/ c.first = "OTHER"
              /\ Sends(c, <<Eof>>)
              /\ Closes
              /\ UNCHANGED users
        /\ UNCHANGED <<proc, file, known>>

serve_request ==
    LET c == Head(backlog)
    IN  /\ backlog # << >> /\ stage = "request" /\ c.req
        /\ Sends(c, <<Msg("REPLY", 0, 0), Eof>>)
        /\ Closes
        /\ UNCHANGED <<users, proc, file, known>>

\* readn fails: the client has gone, or has been silent for thirty seconds.
Dropped(c) == c.client = None \/ Timeouts
drop ==
    LET c == Head(backlog)
    IN  /\ backlog # << >> /\ Dropped(c)
        /\ stage = "first" => c.first = "none"
        /\ stage = "request" => ~c.req
        /\ Sends(c, <<Eof>>)
        /\ Closes
        /\ UNCHANGED <<users, proc, file, known>>

Server == serve_first \/ serve_request \/ drop

\* The process is stopped and run again: the tables are gone, the files stay.
restart ==
    /\ restarts < MaxRestarts
    /\ restarts' = restarts + 1
    /\ users' = << >> /\ backlog' = << >> /\ stage' = "first"
    /\ inbox' = [p \in Procs |->
                   IF \E i \in DOMAIN backlog : backlog[i].client = p
                   THEN Append(inbox[p], Eof) ELSE inbox[p]]
    /\ UNCHANGED <<proc, file, known>>

(***************************************************************************)
(* Specification                                                           *)
(***************************************************************************)
Init ==
    /\ users = << >> /\ backlog = << >> /\ stage = "first" /\ restarts = 0
    /\ proc = [p \in Procs |-> Idle]
    /\ inbox = [p \in Procs |-> << >>]
    /\ file = [u \in Uids |-> 0]
    /\ known = [k \in Keys |-> 0]

Starts(p) ==
    \E key \in Keys :
        \/ one_cmd_plain(p, key, "REG")
        \/ one_cmd_plain(p, key, "OTHER")
        \/ one_cmd_authed(p, key)

Next ==
    \/ \E p \in Procs : Starts(p) \/ Client(p) \/ timeout(p) \/ kill(p)
    \/ Server
    \/ restart

Spec == Init /\ [][Next]_vars

\* A process that can go on does, and so does the server; nobody has to start a
\* command, no timeout has to expire.
Fairness == WF_vars(Server) /\ \A p \in Procs : WF_vars(Client(p))
FairSpec == Spec /\ Fairness

(***************************************************************************)
(* Properties                                                              *)
(***************************************************************************)
TypeOK ==
    /\ users \in Seq(User) /\ Len(users) =< MAX_USERS
    /\ backlog \in Seq(Conn) /\ stage \in {"first", "request"} /\ restarts \in Nat
    /\ proc \in [Procs -> Proc] /\ inbox \in [Procs -> Seq(Message)]
    /\ file \in [Uids -> Nat] /\ known \in [Keys -> Uids \cup {0}]

\* The session under which a request is carried out is the one the server has just
\* accepted on this very connection: its client signed with the key registered, in this
\* run of the server, for the uid, and the number accepted is the last one counted.
SessionOwned ==
    stage = "request" =>
        LET c == Head(backlog)
        IN  /\ backlog # << >> /\ c.first = "AUTH" /\ c.uid \in DOMAIN users
            /\ users[c.uid].cle = c.key
            /\ users[c.uid].auth_nonce = c.num + 1

\* The process may write the nonce file of u: it has been sent AUTH_OK, and has not
\* written yet.
MayWrite(p, u) ==
    /\ proc[p].uid = u
    /\ \/ proc[p].pc = "auth_ok" /\ inbox[p] # << >> /\ Head(inbox[p]).code = "AUTH_OK"
       \/ proc[p].pc = "write_nonce"

\* The processes take no lock on the nonce file, yet two of them never have the right to
\* write it together: the server accepts each number once, and the next one cannot be
\* known before the file holds it.
SingleWriter ==
    restarts = 0 => \A u \in Uids : \A p, q \in Procs :
        MayWrite(p, u) /\ MayWrite(q, u) => p = q

\* Whatever is killed or times out, the file is never ahead of the server, and unless
\* it was left empty it is at most one behind.
FileBehind ==
    restarts = 0 => \A u \in Uids :
        file[u] \in IF u \in DOMAIN users
                    THEN {0, users[u].auth_nonce - 1, users[u].auth_nonce} ELSE {0}

\* When no timeout expires and nothing is killed, file and server agree on the next
\* number of u but for the time one process has to write it: commands run one after the
\* other are then all accepted, and one that is refused was overtaken by another.
InSync ==
    \A u \in DOMAIN users :
        \/ \E p \in Procs : /\ MayWrite(p, u)
                             /\ users[u].auth_nonce = proc[p].num + 1
                             /\ file[u] = IF proc[p].pc = "write_nonce" THEN 0 ELSE proc[p].num
        \/ (\A p \in Procs : ~MayWrite(p, u)) /\ file[u] = users[u].auth_nonce

\* Every command ends: the queue moves on whatever the clients before it do.
CommandsEnd == \A p \in Procs : proc[p].pc # "idle" ~> proc[p].pc = "idle"
================================================================================
