------------------------------ MODULE ParolesServe ------------------------------
(***************************************************************************)
(* How one thread serves every connection: the accept loop of main() and   *)
(* serve_client() in src/src/server.c, over readn and writen of            *)
(* src/src/net.c and conn_readn and conn_writen of src/src/tls_io.c, with  *)
(* clients that are slow, silent, or gone.                                 *)
(*                                                                         *)
(* What passes on a connection is counted in units: a read takes what has  *)
(* arrived, a write what the socket has room for.  A connection follows a  *)
(* script of whole reads and writes, one entry for each call of conn_readn *)
(* or conn_writen; what a request does is the subject of ParolesServer and *)
(* ParolesAuth.                                                            *)
(*                                                                         *)
(* The kernel's side, external to src/: the accept queue, the two socket   *)
(* buffers, and what a write to a connection that the client has left      *)
(* does.  A client that leaves data unread resets the connection: the next *)
(* write fails with ECONNRESET.  After that, or once a write has gone to a *)
(* client that had closed, a write raises SIGPIPE, which the server        *)
(* neither handles nor ignores: the process ends.                          *)
(***************************************************************************)
EXTENDS Integers, Sequences, FiniteSetsExt

CONSTANTS
    Clients,
    TLS,           \* TRUE: the server runs with --tls
    SigningKey,    \* TRUE: the server runs with --signing-key
    ClientsLeave,  \* TRUE: a client may give up or be killed
    BODY,          \* units of a request after its first byte
    REPLY,         \* units of an answer
    SOCKBUF        \* units the sockets hold between a write and the client's read

ASSUME ServeSwitches == TLS \in BOOLEAN /\ SigningKey \in BOOLEAN /\ ClientsLeave \in BOOLEAN
ASSUME ServeSizes == BODY \in Nat \ {0} /\ REPLY \in Nat \ {0} /\ SOCKBUF \in Nat \ {0}

VARIABLES
    conn,    \* the connection of each client
    queue,   \* connections accepted or waiting; the head is being served
    pc,      \* what the server is doing
    op,      \* the entry of the script the server has reached
    left     \* units it has yet to read or write for that entry

vars == <<conn, queue, pc, op, left>>

(***************************************************************************)
(* Slips a change of the code could introduce, each in place of the        *)
(* operator named before its underscore.                                   *)
(***************************************************************************)
SessionFail_Err == "err"
Taken_All(need, there) == there
NextOp_Short(n) == TRUE
TimedOut_Early(c) == ~TLS
TimedOut_Never(c) == FALSE

(***************************************************************************)
(* Scripts.  fail is where a read that fails leads: "end" to goto end,     *)
(* "err" to goto err, "close" to the early return of a failed SSL_accept.  *)
(***************************************************************************)
Reads(n, fail) == [io |-> "read", size |-> n, fail |-> fail]
Writes(n) == [io |-> "write", size |-> n, fail |-> "err"]

\* The first byte of the request that follows AUTH_OK: if it does not come, nothing
\* more is sent.
SessionFail == "end"

SSL_accept == IF TLS THEN <<Reads(1, "close")>> ELSE << >>
Auth == IF SigningKey THEN <<Reads(1, "end"), Reads(BODY, "err"), Writes(1)>> ELSE << >>
Business == <<Reads(1, IF SigningKey THEN SessionFail ELSE "end"), Reads(BODY, "err"),
              Writes(REPLY)>>
Reg == <<Reads(1, "end"), Reads(BODY, "end"), Writes(1)>>

Script(kind) == SSL_accept \o (IF kind = "REG" THEN Reg ELSE Auth \o Business)

(***************************************************************************)
(* Types                                                                   *)
(***************************************************************************)
\* at, done: the entry the client has reached and the units of it that it has sent or
\* read.  received, sent: units on their way to the server and to the client.
\* taken: units the server has read in all.
Conn == [state : {"none", "open", "left", "closed"}, kind : {"REG", "REQUEST"},
         at : Nat, done : Nat, received : Nat, sent : Nat, taken : Nat,
         fault : {"none", "ECONNRESET", "EPIPE"}, answered : BOOLEAN]

NoConn == [state |-> "none", kind |-> "REG", at |-> 1, done |-> 0, received |-> 0,
           sent |-> 0, taken |-> 0, fault |-> "none", answered |-> FALSE]

cur == Head(queue)
Entry == Script(conn[cur].kind)[op]
Len_(c) == Len(Script(conn[c].kind))

(***************************************************************************)
(* The clients                                                             *)
(***************************************************************************)
connect(c) ==
    \E kind \in {"REG", "REQUEST"} :
        /\ conn[c].state = "none"
        /\ conn' = [conn EXCEPT ![c] = [NoConn EXCEPT !.state = "open", !.kind = kind]]
        /\ queue' = Append(queue, c)
        /\ UNCHANGED <<pc, op, left>>

\* The client sends or reads one unit of the entry it has reached, and goes on to the
\* next one when it has done with this one.
Advances(c, field, n) ==
    LET entry == Script(conn[c].kind)[conn[c].at]
        over == conn[c].done + 1 = entry.size
        moved == [conn[c] EXCEPT ![field] = @ + n]
    IN  conn' = [conn EXCEPT ![c] = [moved EXCEPT
                   !.at = IF over THEN @ + 1 ELSE @, !.done = IF over THEN 0 ELSE @ + 1]]

Reached(c, io) ==
    /\ conn[c].state = "open" /\ conn[c].at =< Len_(c)
    /\ Script(conn[c].kind)[conn[c].at].io = io

send(c) ==
    /\ Reached(c, "read")
    /\ Advances(c, "received", 1)
    /\ UNCHANGED <<queue, pc, op, left>>

receive(c) ==
    /\ Reached(c, "write") /\ conn[c].sent > 0
    /\ Advances(c, "sent", -1)
    /\ UNCHANGED <<queue, pc, op, left>>

\* The client has its answer, gives up after its own timeout, has filled its buffer, or
\* is killed.
leave(c) ==
    /\ ClientsLeave /\ conn[c].state = "open"
    /\ conn' = [conn EXCEPT ![c].state = "left",
                            ![c].fault = IF conn[c].sent > 0 THEN "ECONNRESET" ELSE @]
    /\ UNCHANGED <<queue, pc, op, left>>

Client(c) == connect(c) \/ send(c) \/ receive(c) \/ leave(c)

(***************************************************************************)
(* The server                                                              *)
(***************************************************************************)
accept ==
    /\ pc = "accept" /\ queue # << >>
    /\ op' = 1 /\ left' = Script(conn[cur].kind)[1].size
    /\ pc' = "io"
    /\ UNCHANGED <<conn, queue>>

\* The entry is done with when all its units are: readn and writen loop until then.
NextOp(n) == n = 0

\* n units are left of the entry.  A code may be one the server does not take there, and a
\* whole request, or an AUTH, may be turned down instead of answered; nothing like it
\* happens after the code of a REG, or before the first code.
GoesOn(n) ==
    \/ ~NextOp(n) /\ left' = n /\ UNCHANGED <<pc, op>>
    \/ /\ NextOp(n) /\ op < Len_(cur)
       /\ op' = op + 1 /\ left' = Script(conn[cur].kind)[op + 1].size
       /\ UNCHANGED pc
    \/ /\ NextOp(n) /\ op < Len_(cur)
       /\ Entry.io = "read" /\ Script(conn[cur].kind)[op + 1].fail = "err"
       /\ pc' = "err" /\ left' = 1 /\ UNCHANGED op
    \/ NextOp(n) /\ op = Len_(cur) /\ pc' = "end" /\ left' = 0 /\ UNCHANGED op

\* A read asks for no more than it needs.
Taken(need, there) == Min({need, there})

\* In the clear, poll reports a reset connection before its data.
read_some ==
    /\ pc = "io" /\ Entry.io = "read" /\ conn[cur].received > 0
    /\ conn[cur].fault = "none" \/ TLS
    /\ \E n \in 1 .. Taken(left, conn[cur].received) :
        /\ conn' = [conn EXCEPT ![cur].received = @ - n, ![cur].taken = @ + n]
        /\ GoesOn(left - n)
    /\ UNCHANGED queue

\* Thirty seconds without data: poll tells readn.  SSL_accept and SSL_read are called on
\* a blocking socket, where they do not come back before there is something.
TimedOut(c) == ~TLS /\ conn[c].received = 0

read_fails ==
    LET c == conn[cur]
    IN  /\ pc = "io" /\ Entry.io = "read"
        /\ \/ c.state = "left" /\ c.received = 0
           \/ c.fault # "none" /\ ~TLS
           \/ c.state = "open" /\ TimedOut(cur)
        /\ pc' = Entry.fail /\ left' = IF pc' = "err" THEN 1 ELSE 0
        /\ UNCHANGED <<conn, queue, op>>

\* A write that fails leads to `failed'; on a connection already known to be broken it
\* ends the process.
WriteFails(failed) ==
    \/ /\ conn[cur].fault = "EPIPE"
       /\ pc' = "dead" /\ left' = 0 /\ UNCHANGED <<conn, op>>
    \/ /\ conn[cur].fault = "ECONNRESET"
       /\ conn' = [conn EXCEPT ![cur].fault = "EPIPE"]
       /\ pc' = failed /\ left' = 1 /\ UNCHANGED op

\* A write takes what there is room for, and waits, without a timeout, while there is
\* none.  What goes to a client that has closed is lost, and breaks the connection.
Room == Min({left, SOCKBUF - conn[cur].sent})
WriteTakes(n) ==
    LET c == conn[cur]
        over == pc = "err" \/ (op = Len_(cur) /\ n = left)
    IN  /\ c.fault = "none" /\ n > 0
        /\ conn' = [conn EXCEPT ![cur] =
                      IF c.state = "left" THEN [c EXCEPT !.fault = "EPIPE", !.answered = over]
                                          ELSE [c EXCEPT !.sent = @ + n, !.answered = over]]

\* An answer that cannot be written makes the handler fail, and serve_client send ERR.
write_some ==
    /\ pc = "io" /\ Entry.io = "write"
    /\ \/ WriteFails(Entry.fail)
       \/ WriteTakes(Room) /\ GoesOn(left - Room)
    /\ UNCHANGED queue

send_err ==
    /\ pc = "err"
    /\ \/ WriteFails("end")
       \/ Room > 0 /\ WriteTakes(1) /\ pc' = "end" /\ left' = 0 /\ UNCHANGED op
    /\ UNCHANGED queue

\* SSL_shutdown writes once more; then the connection is closed.
end ==
    /\ pc \in {"end", "close"}
    /\ \/ /\ TLS /\ pc = "end" /\ conn[cur].fault = "EPIPE"
          /\ pc' = "dead" /\ UNCHANGED <<conn, queue>>
       \/ /\ ~(TLS /\ pc = "end" /\ conn[cur].fault = "EPIPE")
          /\ pc' = "accept"
          /\ conn' = [conn EXCEPT ![cur] = [NoConn EXCEPT !.state = "closed",
                                              !.answered = conn[cur].answered]]
          /\ queue' = Tail(queue)
    /\ op' = 0 /\ left' = 0

Server == accept \/ read_some \/ read_fails \/ write_some \/ send_err \/ end

(***************************************************************************)
(* Specification                                                           *)
(***************************************************************************)
Init ==
    /\ conn = [c \in Clients |-> NoConn]
    /\ queue = << >> /\ pc = "accept" /\ op = 0 /\ left = 0

Next == Server \/ \E c \in Clients : Client(c)

\* The server goes on when it can (a poll comes back within thirty seconds); nothing is
\* asked of the clients.
Spec == Init /\ [][Next]_vars /\ WF_vars(Server)

(***************************************************************************)
(* Properties                                                              *)
(***************************************************************************)
TypeOK ==
    /\ conn \in [Clients -> Conn] /\ queue \in Seq(Clients)
    /\ pc \in {"accept", "io", "err", "end", "close", "dead"}
    /\ op \in Nat /\ left \in Nat

\* The units asked for by the reads before entry k, each by its entry and its place there.
UnitsRead(kind, k) ==
    UNION {{i} \X (1 .. Script(kind)[i].size) : i \in {j \in 1 .. k - 1 : Script(kind)[j].io = "read"}}
Upto(kind, k) == Cardinality(UnitsRead(kind, k))

\* However what a client sends is cut up and delayed, each read of the script begins
\* exactly where the one before it ended: no request is carried out on less than its
\* units, and none of them is left over or taken for another field.
WholeReads ==
    pc = "io" =>
        conn[cur].taken = Upto(conn[cur].kind, op) +
                          (IF Entry.io = "read" THEN Entry.size - left ELSE 0)

\* No client that leaves, at whatever moment, takes the server with it.
ServerAlive == pc # "dead"

\* A client that keeps silent, stops reading or leaves never holds up the others for
\* ever: every connection is closed.
ConnectionsClose == \A c \in Clients : conn[c].state = "open" ~> conn[c].state = "closed"

\* All that c has to send is sent, and the server has not given up on it.
Complete(c) ==
    /\ conn[c].state = "open" /\ conn[c].at = Len_(c)
    /\ pc \in {"accept", "io"} \/ cur # c

\* A client that has sent its whole request in time and stays is answered, by a reply or
\* by ERR: a timeout never strikes once the data is there.
Answered ==
    \A c \in Clients : Complete(c) ~> conn[c].answered \/ conn[c].state = "left"
================================================================================
