--------------------------- MODULE ParolesServeProofs ---------------------------
(***************************************************************************)
(* The connection service of ParolesServe, for any number of clients and   *)
(* every size of a request, an answer and the socket buffers: its types;   *)
(* that reads begin and end where the fields of a request do; and that, in *)
(* the clear and with answers that fit in the socket buffers, no client    *)
(* that leaves ends the server.                                            *)
(***************************************************************************)
EXTENDS ParolesServe, FiniteSetTheorems, SequenceTheorems, TLAPS

(***************************************************************************)
(* The inductive invariant of the first two theorems.                      *)
(***************************************************************************)
Queued(c) == \E i \in DOMAIN queue : queue[i] = c
Waits(c) == \E i \in DOMAIN queue : queue[i] = c /\ (i > 1 \/ pc = "accept")

\* A client is in the queue once, from its connection to the end of its service.
QueueOK ==
    /\ \A i, j \in DOMAIN queue : queue[i] = queue[j] => i = j
    /\ \A c \in Clients : Queued(c) <=> conn[c].state \in {"open", "left"}

\* While a connection is served there is one, and the server is inside its script.
AtWork ==
    /\ pc \in {"io", "err", "end", "close"} => queue # << >>
    /\ pc = "io" => op \in 1 .. Len_(cur) /\ left \in 1 .. Entry.size

\* Nothing is read of a connection that waits.
Untouched == \A c \in Clients : Waits(c) => conn[c].taken = 0

ServeInv == TypeOK /\ QueueOK /\ AtWork /\ Untouched /\ WholeReads

(***************************************************************************)
(* What is added for the last theorem: in the clear, and with answers that *)
(* fit in the socket buffers, nothing is on its way to a client, and no    *)
(* write has gone astray, when the server is about to write.               *)
(***************************************************************************)
\* The first byte of the request that follows AUTH_OK: the only entry reached with
\* something on its way to the client.
AfterAuth == 4

\* What the client of connection d has sent while it has not yet read the first answer.
Sending(d) ==
    /\ d.at # 0
    /\ d.at = 1 => d.done = 0 /\ d.taken + d.received = 0
    /\ d.at = 2 => d.done < BODY /\ d.taken + d.received = 1 + d.done
    /\ d.at = 3 => d.taken + d.received = 1 + BODY

\* Nothing is on its way to the client, and the connection is not known to be broken.
Intact(d) == d.sent = 0 /\ d.fault = "none"

\* A connection that waits.
Fresh(d) == Intact(d) /\ d.at =< 3

\* The connection served, while the server is at p and has reached entry o.
Ready(d, p, o) ==
    /\ p = "err" => Intact(d)
    /\ p = "io" /\ o # AfterAuth => Intact(d)
    /\ p = "io" /\ o < AfterAuth => d.at =< 3
    /\ p = "io" /\ o = AfterAuth /\ d.fault = "none" => d.sent =< 1 /\ (d.at > 3 => d.sent = 0)

Clear ==
    /\ \A c \in Clients : Queued(c) => Sending(conn[c])
    /\ \A c \in Clients : Waits(c) => Fresh(conn[c])
    /\ pc \in {"io", "err"} => Ready(conn[cur], pc, op)
    /\ pc = "err" => left = 1
    /\ pc # "dead"

ClearInv == ServeInv /\ Clear

(***************************************************************************)
(* Scripts.                                                                *)
(***************************************************************************)
ScriptEntry == [io : {"read", "write"}, size : Nat \ {0}, fail : {"end", "err", "close"}]

LEMMA EntryTypes ==
    ASSUME NEW n \in Nat \ {0}, NEW fail \in {"end", "err", "close"}
    PROVE  Reads(n, fail) \in ScriptEntry /\ Writes(n) \in ScriptEntry
BY DEF Reads, Writes, ScriptEntry

LEMMA ScriptTypes ==
    ASSUME NEW kind \in {"REG", "REQUEST"}
    PROVE  Script(kind) \in Seq(ScriptEntry) /\ Len(Script(kind)) >= 3
<1>1. SSL_accept \in Seq(ScriptEntry)
  BY EntryTypes DEF SSL_accept
<1>2. Auth \in Seq(ScriptEntry)
  BY EntryTypes, ServeSizes DEF Auth
<1>3. Business \in Seq(ScriptEntry) /\ Len(Business) = 3
  BY EntryTypes, ServeSizes DEF Business, SessionFail
<1>4. Reg \in Seq(ScriptEntry) /\ Len(Reg) = 3
  BY EntryTypes, ServeSizes DEF Reg
<1>5. Auth \o Business \in Seq(ScriptEntry) /\ Len(Auth \o Business) >= 3
  <2>1. /\ Auth \o Business \in Seq(ScriptEntry)
        /\ Len(Auth \o Business) = Len(Auth) + Len(Business)
    BY <1>2, <1>3, ConcatProperties
  <2>2. Len(Auth) \in Nat
    BY <1>2, LenProperties
  <2>. QED  BY <1>3, <2>1, <2>2
<1>. DEFINE rest == IF kind = "REG" THEN Reg ELSE Auth \o Business
<1>6. rest \in Seq(ScriptEntry) /\ Len(rest) >= 3
  <2>1. CASE kind = "REG"
    <3>1. rest = Reg /\ 3 >= 3
      BY <2>1
    <3>. HIDE DEF rest
    <3>. QED  BY <1>4, <3>1
  <2>2. CASE kind # "REG"
    BY <1>5, <2>2
  <2>. QED  BY <2>1, <2>2
<1>7. Script(kind) = SSL_accept \o rest
  BY DEF Script
<1>. HIDE DEF rest
<1>. QED  BY <1>1, <1>6, <1>7, ConcatProperties, LenProperties

LEMMA ConcatThree ==
    ASSUME NEW a, NEW b, NEW c, NEW d, NEW e, NEW f
    PROVE  <<a, b, c>> \o <<d, e, f>> = <<a, b, c, d, e, f>>
<1>. DEFINE S == {a, b, c, d, e, f}
            s == <<a, b, c>> \o <<d, e, f>>
            t == <<a, b, c, d, e, f>>
<1>1. /\ <<a, b, c>> \in Seq(S) /\ Len(<<a, b, c>>) = 3
      /\ <<d, e, f>> \in Seq(S) /\ Len(<<d, e, f>>) = 3
      /\ t \in Seq(S) /\ Len(t) = 6
  OBVIOUS
<1>. HIDE DEF S
<1>2. /\ s \in Seq(S) /\ Len(s) = 6
      /\ \A i \in 1 .. 6 : s[i] = IF i <= 3 THEN <<a, b, c>>[i] ELSE <<d, e, f>>[i - 3]
  BY <1>1, ConcatProperties
<1>3. s[1] = a /\ s[2] = b /\ s[3] = c /\ s[4] = d /\ s[5] = e /\ s[6] = f
  BY <1>2
<1>. HIDE DEF s
<1>4. \A i \in 1 .. 6 : s[i] = t[i]
  BY <1>3
<1>. HIDE DEF t
<1>. QED  BY <1>1, <1>2, <1>4, SeqEqual DEF s, t

\* In the clear, entry by entry.
LEMMA ClearScripts ==
    ASSUME ~TLS
    PROVE  /\ Script("REG") = <<Reads(1, "end"), Reads(BODY, "end"), Writes(1)>>
           /\ ~SigningKey => Script("REQUEST") =
                <<Reads(1, "end"), Reads(BODY, "err"), Writes(REPLY)>>
           /\ SigningKey => Script("REQUEST") =
                <<Reads(1, "end"), Reads(BODY, "err"), Writes(1),
                  Reads(1, "end"), Reads(BODY, "err"), Writes(REPLY)>>
<1>1. SSL_accept = << >>
  BY DEF SSL_accept
<1>2. \A s \in Seq(ScriptEntry) : << >> \o s = s
  BY ConcatEmptySeq
<1>3. Reg \in Seq(ScriptEntry) /\ Business \in Seq(ScriptEntry)
  BY EntryTypes, ServeSizes DEF Reg, Business, SessionFail
<1>4. Script("REG") = Reg
  BY <1>1, <1>2, <1>3 DEF Script
<1>5. CASE ~SigningKey
  <2>1. Script("REQUEST") = Business
    BY <1>1, <1>2, <1>3, <1>5 DEF Script, Auth
  <2>. QED  BY <1>4, <1>5, <2>1 DEF Reg, Business
<1>6. CASE SigningKey
  <2>1. Auth = <<Reads(1, "end"), Reads(BODY, "err"), Writes(1)>>
    BY <1>6 DEF Auth
  <2>2. Business = <<Reads(1, "end"), Reads(BODY, "err"), Writes(REPLY)>>
    BY <1>6 DEF Business, SessionFail
  <2>3. Auth \o Business = <<Reads(1, "end"), Reads(BODY, "err"), Writes(1),
                             Reads(1, "end"), Reads(BODY, "err"), Writes(REPLY)>>
    BY <2>1, <2>2, ConcatThree
  <2>4. Auth \o Business \in Seq(ScriptEntry)
    <3>1. Auth \in Seq(ScriptEntry)
      BY EntryTypes, ServeSizes DEF Auth
    <3>. QED  BY <1>3, <3>1, ConcatProperties
  <2>5. Script("REQUEST") = Auth \o Business
    BY <1>1, <1>2, <2>4 DEF Script
  <2>. QED  BY <1>4, <1>6, <2>3, <2>5 DEF Reg
<1>. QED  BY <1>5, <1>6

LEMMA UnitsCounted ==
    ASSUME NEW n \in Nat
    PROVE  IsFiniteSet(1 .. n) /\ Cardinality(1 .. n) = n
<1>1. IsFiniteSet(1 .. n) /\ Cardinality(1 .. n) = IF 1 > n THEN 0 ELSE n - 1 + 1
  BY FS_Interval, 1 \in Int, n \in Int
<1>. QED  BY <1>1

\* One more entry adds its units, if it is a read.
LEMMA UptoNext ==
    ASSUME NEW kind \in {"REG", "REQUEST"}, NEW k \in DOMAIN Script(kind)
    PROVE  /\ Upto(kind, k) \in Nat
           /\ Upto(kind, k + 1) = Upto(kind, k) +
                (IF Script(kind)[k].io = "read" THEN Script(kind)[k].size ELSE 0)
<1>. DEFINE s == Script(kind)
            row(i) == {i} \X (1 .. s[i].size)
            R(n) == {j \in 1 .. n - 1 : s[j].io = "read"}
<1>0. /\ s \in Seq(ScriptEntry) /\ k \in Nat /\ DOMAIN s = 1 .. Len(s)
      /\ \A i \in DOMAIN s : s[i] \in ScriptEntry
  BY ScriptTypes
<1>1. \A i \in DOMAIN s : IsFiniteSet(row(i)) /\ Cardinality(row(i)) = s[i].size
  <2>. SUFFICES ASSUME NEW i \in DOMAIN s
                PROVE  IsFiniteSet(row(i)) /\ Cardinality(row(i)) = s[i].size
    OBVIOUS
  <2>1. s[i].size \in Nat /\ s[i].size > 0
    BY <1>0 DEF ScriptEntry
  <2>2. IsFiniteSet(1 .. s[i].size) /\ Cardinality(1 .. s[i].size) = s[i].size
    BY <2>1, UnitsCounted
  <2>3. IsFiniteSet({i}) /\ Cardinality({i}) = 1
    BY FS_Singleton
  <2>4. IsFiniteSet(row(i)) /\ Cardinality(row(i)) = 1 * s[i].size
    BY <2>2, <2>3, FS_Product
  <2>. HIDE DEF s
  <2>. QED  BY <2>1, <2>4
<1>2. UnitsRead(kind, k) = UNION {row(i) : i \in R(k)}
  BY DEF UnitsRead
<1>3. UnitsRead(kind, k + 1) = UNION {row(i) : i \in R(k + 1)}
  BY DEF UnitsRead
<1>4. R(k) \subseteq DOMAIN s /\ k \notin R(k)
      /\ R(k + 1) = R(k) \cup (IF s[k].io = "read" THEN {k} ELSE {})
  BY <1>0
<1>5. IsFiniteSet(UnitsRead(kind, k))
  <2>1. IsFiniteSet(1 .. k - 1)
    BY <1>0, FS_Interval
  <2>2. IsFiniteSet(R(k))
    BY <2>1, FS_Subset
  <2>3. IsFiniteSet({row(i) : i \in R(k)})
    <3>. DEFINE rows == {row(i) : i \in R(k)}
                f == [i \in R(k) |-> row(i)]
    <3>1. f \in Surjection(R(k), rows)
      BY DEF Surjection
    <3>. HIDE DEF row, R, f
    <3>. QED  BY <2>2, <3>1, FS_Surjection
  <2>4. \A S \in {row(i) : i \in R(k)} : IsFiniteSet(S)
    BY <1>1, <1>4
  <2>. QED  BY <1>2, <2>3, <2>4, FS_UNION
<1>6. Upto(kind, k) \in Nat
  BY <1>5, FS_CardinalityType DEF Upto
<1>7. CASE s[k].io = "read"
  <2>1. UnitsRead(kind, k + 1) = UnitsRead(kind, k) \cup row(k)
    BY <1>2, <1>3, <1>4, <1>7
  <2>2. UnitsRead(kind, k) \cap row(k) = {}
    BY <1>2, <1>4
  <2>3. Cardinality(UnitsRead(kind, k) \cap row(k)) = 0
    BY <2>2, FS_EmptySet
  <2>4. s[k].size \in Nat
    BY <1>0 DEF ScriptEntry
  <2>5. Cardinality(UnitsRead(kind, k) \cup row(k)) =
          Cardinality(UnitsRead(kind, k)) + s[k].size - 0
    <3>1. IsFiniteSet(row(k)) /\ Cardinality(row(k)) = s[k].size
      BY <1>0, <1>1
    <3>. HIDE DEF s, row
    <3>. QED  BY <1>5, <2>3, <3>1, FS_Union
  <2>6. Upto(kind, k + 1) = Upto(kind, k) + s[k].size
    <3>. HIDE DEF s, row
    <3>1. Upto(kind, k + 1) = Cardinality(UnitsRead(kind, k) \cup row(k))
      BY <2>1, Zenon DEF Upto
    <3>2. Cardinality(UnitsRead(kind, k) \cup row(k)) = Upto(kind, k) + s[k].size - 0
      BY <2>5 DEF Upto
    <3>. QED  BY <1>6, <2>4, <3>1, <3>2
  <2>. QED  BY <1>6, <1>7, <2>6
<1>8. CASE s[k].io # "read"
  <2>1. UnitsRead(kind, k + 1) = UnitsRead(kind, k)
    BY <1>2, <1>3, <1>4, <1>8
  <2>2. Upto(kind, k + 1) = Upto(kind, k)
    BY <2>1 DEF Upto
  <2>. QED  BY <1>6, <1>8, <2>2
<1>. QED  BY <1>6, <1>7, <1>8

LEMMA UptoFirst == ASSUME NEW kind PROVE Upto(kind, 1) = 0
<1>1. UnitsRead(kind, 1) = {}
  BY DEF UnitsRead
<1>. QED  BY <1>1, FS_EmptySet DEF Upto

LEMMA MinOfTwo ==
    ASSUME NEW a \in Int, NEW b \in Int
    PROVE  Min({a, b}) = IF a =< b THEN a ELSE b
BY DEF Min

(***************************************************************************)
(* Types, the queue, and whole reads.                                      *)
(***************************************************************************)
\* The connection that is served.
LEMMA Served ==
    ASSUME ServeInv, pc \in {"io", "err", "end", "close"}
    PROVE  /\ queue \in Seq(Clients) /\ 1 \in DOMAIN queue /\ cur = queue[1] /\ cur \in Clients
           /\ conn[cur] \in Conn /\ conn[cur].kind \in {"REG", "REQUEST"}
           /\ conn[cur].state \in {"open", "left"}
           /\ Script(conn[cur].kind) \in Seq(ScriptEntry) /\ Len_(cur) \in Nat
           /\ conn \in [Clients -> Conn]
<1>1. queue \in Seq(Clients) /\ conn \in [Clients -> Conn] /\ queue # << >>
  BY DEF ServeInv, TypeOK, AtWork
<1>2. 1 \in DOMAIN queue /\ cur = queue[1]
  BY <1>1, EmptySeq DEF cur
<1>3. cur \in Clients
  BY <1>1, <1>2
<1>4. conn[cur] \in Conn
  BY <1>1, <1>3
<1>5. conn[cur].kind \in {"REG", "REQUEST"}
  BY <1>4 DEF Conn
<1>6. conn[cur].state \in {"open", "left"}
  BY <1>2, <1>3 DEF ServeInv, QueueOK, Queued
<1>. QED  BY <1>1, <1>2, <1>3, <1>4, <1>5, <1>6, ScriptTypes, LenProperties DEF Len_

LEMMA ConnFields ==
    ASSUME NEW c \in Conn
    PROVE  /\ c.state \in {"none", "open", "left", "closed"} /\ c.kind \in {"REG", "REQUEST"}
           /\ c.at \in Nat /\ c.done \in Nat /\ c.received \in Nat /\ c.sent \in Nat
           /\ c.taken \in Nat /\ c.fault \in {"none", "ECONNRESET", "EPIPE"}
           /\ c.answered \in BOOLEAN
BY DEF Conn

\* A step of a client on its connection: the server has read no more of it.
LEMMA TiedStep ==
    ASSUME ServeInv, NEW c \in Clients, NEW r \in Conn, r.kind = conn[c].kind,
           r.taken = conn[c].taken, conn[c].state \in {"open", "left"},
           r.state \in {"open", "left"}, conn' = [conn EXCEPT ![c] = r],
           UNCHANGED <<queue, pc, op, left>>
    PROVE  ServeInv'
<1>. USE DEF ServeInv
<1>0. conn \in [Clients -> Conn] /\ queue \in Seq(Clients)
  BY DEF TypeOK
<1>1. \A d \in Clients : /\ conn'[d].kind = conn[d].kind /\ conn'[d].taken = conn[d].taken
                         /\ conn'[d].state \in {"open", "left"} <=> conn[d].state \in {"open", "left"}
  BY <1>0
<1>2. TypeOK'
  BY <1>0 DEF TypeOK
<1>3. QueueOK'
  BY <1>1 DEF QueueOK, Queued
<1>4. Untouched'
  BY <1>1 DEF Untouched, Waits
<1>5. cur' = cur
  BY DEF cur
<1>6. CASE pc = "io"
  <2>1. cur \in Clients /\ conn'[cur].kind = conn[cur].kind /\ conn'[cur].taken = conn[cur].taken
    BY <1>1, <1>6, Served
  <2>2. Entry' = Entry /\ Len_(cur)' = Len_(cur)
    BY <1>5, <2>1 DEF Entry, Len_
  <2>3. AtWork'
    BY <1>5, <1>6, <2>2 DEF AtWork
  <2>4. WholeReads'
    BY <1>5, <1>6, <2>1, <2>2 DEF WholeReads
  <2>. QED  BY <1>2, <1>3, <1>4, <2>3, <2>4
<1>7. CASE pc # "io"
  BY <1>2, <1>3, <1>4, <1>7 DEF AtWork, WholeReads
<1>. QED  BY <1>6, <1>7

\* A step of the server on the connection it serves, which stays the one it serves.
LEMMA ServedStep ==
    ASSUME ServeInv, pc \in {"io", "err"}, NEW r \in Conn, r.kind = conn[cur].kind,
           r.state \in {"open", "left"}, conn' = [conn EXCEPT ![cur] = r], queue' = queue,
           pc' \in {"io", "err", "end", "close", "dead"}, op' \in Nat, left' \in Nat,
           pc' = "io" => LET e == Script(r.kind)[op']
                         IN  /\ op' \in 1 .. Len_(cur) /\ left' \in 1 .. e.size
                             /\ r.taken = Upto(r.kind, op') +
                                            (IF e.io = "read" THEN e.size - left' ELSE 0)
    PROVE  ServeInv'
<1>. USE DEF ServeInv
<1>0. /\ conn \in [Clients -> Conn] /\ queue \in Seq(Clients) /\ 1 \in DOMAIN queue
      /\ cur = queue[1] /\ cur \in Clients /\ conn[cur].state \in {"open", "left"}
      /\ queue # << >>
  BY Served DEF AtWork
<1>1. cur' = cur /\ conn'[cur] = r /\ \A d \in Clients : d # cur => conn'[d] = conn[d]
  BY <1>0 DEF cur
<1>2. TypeOK'
  BY <1>0 DEF TypeOK
<1>3. QueueOK'
  <2>1. \A d \in Clients : conn'[d].state \in {"open", "left"} <=> conn[d].state \in {"open", "left"}
    BY <1>0, <1>1
  <2>. QED  BY <2>1 DEF QueueOK, Queued
<1>4. Untouched'
  <2>. SUFFICES ASSUME NEW d \in Clients, NEW i \in DOMAIN queue, queue[i] = d, i > 1
                PROVE  conn'[d].taken = 0
    BY DEF Untouched, Waits
  <2>1. d # cur /\ Waits(d)
    BY <1>0 DEF QueueOK, Waits
  <2>. QED  BY <1>1, <2>1 DEF Untouched
<1>5. Entry' = Script(r.kind)[op'] /\ Len_(cur)' = Len_(cur)
  BY <1>1 DEF Entry, Len_
<1>6. AtWork'
  BY <1>0, <1>5 DEF AtWork
<1>7. WholeReads'
  BY <1>1, <1>5 DEF WholeReads
<1>. QED  BY <1>2, <1>3, <1>4, <1>6, <1>7

\* Where the server goes when n units of the entry are left: the units it has read up to
\* there are the same before and after.
UnitsAt(k, o, l) ==
    Upto(k, o) + (IF Script(k)[o].io = "read" THEN Script(k)[o].size - l ELSE 0)
WentOn(n) ==
    /\ pc' \in {"io", "err", "end"} /\ op' \in Nat /\ left' \in Nat
    /\ pc' = "io" => /\ op' \in 1 .. Len_(cur)
                     /\ left' \in 1 .. Script(conn[cur].kind)[op'].size
                     /\ UnitsAt(conn[cur].kind, op', left') = UnitsAt(conn[cur].kind, op, n)

LEMMA GoesOnFacts ==
    ASSUME ServeInv, pc = "io", NEW n \in 0 .. left, GoesOn(n)
    PROVE  WentOn(n)
<1>. DEFINE k == conn[cur].kind
            s == Script(k)
<1>0. /\ k \in {"REG", "REQUEST"} /\ s \in Seq(ScriptEntry) /\ Len_(cur) = Len(s)
      /\ Len(s) \in Nat /\ DOMAIN s = 1 .. Len(s) /\ Entry = s[op]
  BY Served DEF Len_, Entry
<1>1. /\ op \in 1 .. Len(s) /\ left \in 1 .. s[op].size /\ op \in Nat /\ left \in Nat
  BY <1>0 DEF ServeInv, AtWork, TypeOK
<1>2. \A i \in 1 .. Len(s) : /\ s[i].size \in Nat /\ s[i].size # 0
                             /\ Upto(k, i) \in Nat
                             /\ Upto(k, i + 1) = Upto(k, i) + (IF s[i].io = "read" THEN s[i].size ELSE 0)
  <2>1. \A i \in 1 .. Len(s) : s[i] \in ScriptEntry
    BY <1>0
  <2>. QED  BY <1>0, <2>1, UptoNext DEF ScriptEntry
<1>. HIDE DEF k, s
<1>3. CASE n # 0 /\ left' = n /\ pc' = pc /\ op' = op
  <2>1. op' \in Nat /\ left' \in Nat /\ op' \in 1 .. Len(s) /\ left' \in 1 .. s[op'].size
    BY <1>0, <1>1, <1>2, <1>3
  <2>2. UnitsAt(k, op', left') = UnitsAt(k, op, n)
    BY <1>3
  <2>3. pc' = "io"
    BY <1>3
  <2>. QED  BY <1>0, <2>1, <2>2, <2>3 DEF k, s, WentOn
<1>4. CASE n = 0 /\ op < Len(s) /\ op' = op + 1 /\ left' = s[op + 1].size /\ pc' = pc
  <2>1. op + 1 \in 1 .. Len(s)
    BY <1>0, <1>1, <1>4
  <2>2. s[op + 1].size \in Nat /\ s[op + 1].size # 0
    BY <1>2, <2>1
  <2>3. Upto(k, op + 1) = Upto(k, op) + (IF s[op].io = "read" THEN s[op].size ELSE 0)
        /\ Upto(k, op) \in Nat /\ s[op].size \in Nat
    BY <1>1, <1>2
  <2>4. Upto(k, op + 1) + (IF s[op + 1].io = "read" THEN s[op + 1].size - s[op + 1].size ELSE 0)
          = Upto(k, op) + (IF s[op].io = "read" THEN s[op].size - 0 ELSE 0)
    BY <2>2, <2>3
  <2>5. op' \in Nat /\ op' \in 1 .. Len(s) /\ left' \in Nat /\ left' \in 1 .. s[op + 1].size
    BY <1>4, <2>1, <2>2
  <2>. QED  BY <1>0, <1>4, <2>4, <2>5 DEF k, s, WentOn, UnitsAt
<1>5. CASE pc' = "err" /\ left' = 1 /\ op' = op
  BY <1>1, <1>5 DEF WentOn
<1>6. CASE pc' = "end" /\ left' = 0 /\ op' = op
  BY <1>1, <1>6 DEF WentOn
<1>7. \/ n # 0 /\ left' = n /\ pc' = pc /\ op' = op
      \/ n = 0 /\ op < Len(s) /\ op' = op + 1 /\ left' = s[op + 1].size /\ pc' = pc
      \/ pc' = "err" /\ left' = 1 /\ op' = op
      \/ pc' = "end" /\ left' = 0 /\ op' = op
  BY <1>0, Zenon DEF GoesOn, NextOp, k, s
<1>. QED  BY <1>3, <1>4, <1>5, <1>6, <1>7, Zenon

\* While an entry of the script is carried out.
LEMMA InEntry ==
    ASSUME ServeInv, pc = "io"
    PROVE  /\ op \in 1 .. Len_(cur) /\ op \in Nat /\ left \in Nat /\ left > 0
           /\ Entry \in ScriptEntry /\ Entry = Script(conn[cur].kind)[op]
           /\ Entry.size \in Nat /\ left =< Entry.size
           /\ Upto(conn[cur].kind, op) \in Nat
           /\ conn[cur].taken = UnitsAt(conn[cur].kind, op, left)
<1>1. /\ conn[cur].kind \in {"REG", "REQUEST"} /\ Script(conn[cur].kind) \in Seq(ScriptEntry)
      /\ Len_(cur) = Len(Script(conn[cur].kind)) /\ Len_(cur) \in Nat
  BY Served DEF Len_
<1>2. op \in 1 .. Len_(cur) /\ left \in 1 .. Entry.size /\ op \in Nat /\ left \in Nat
  BY DEF ServeInv, AtWork, TypeOK
<1>3. Entry = Script(conn[cur].kind)[op] /\ op \in DOMAIN Script(conn[cur].kind)
  BY <1>1, <1>2 DEF Entry
<1>4. Entry \in ScriptEntry
  BY <1>1, <1>3
<1>5. Entry.size \in Nat
  BY <1>4 DEF ScriptEntry
<1>6. Upto(conn[cur].kind, op) \in Nat
  BY <1>1, <1>3, UptoNext
<1>7. conn[cur].taken = UnitsAt(conn[cur].kind, op, left)
  BY <1>3 DEF ServeInv, WholeReads, UnitsAt
<1>. QED  BY <1>2, <1>3, <1>4, <1>5, <1>6, <1>7

\* A read of n units, and a write after which n are left.
LEMMA ReadStep ==
    ASSUME ServeInv, pc = "io", Entry.io = "read", read_some
    PROVE  ServeInv'
<1>. DEFINE c == conn[cur]
<1>1. c \in Conn /\ c.kind \in {"REG", "REQUEST"} /\ c.state \in {"open", "left"}
      /\ c.received \in Nat /\ c.taken \in Nat
  BY Served, ConnFields
<1>2. left \in Nat /\ left > 0 /\ Entry = Script(c.kind)[op] /\ Upto(c.kind, op) \in Nat
      /\ Entry.size \in Nat /\ left =< Entry.size /\ c.taken = UnitsAt(c.kind, op, left)
  BY InEntry
<1>3. PICK n \in 1 .. Taken(left, c.received) :
        /\ conn' = [conn EXCEPT ![cur].received = @ - n, ![cur].taken = @ + n]
        /\ GoesOn(left - n)
  BY DEF read_some
<1>4. n \in Nat /\ n =< left /\ n =< c.received
  <2>1. Taken(left, c.received) = IF left =< c.received THEN left ELSE c.received
    BY <1>1, <1>2, MinOfTwo DEF Taken
  <2>. HIDE DEF c
  <2>. QED  BY <1>1, <1>2, <1>3, <2>1
<1>. DEFINE r == [c EXCEPT !.received = @ - n, !.taken = @ + n]
<1>5. c.received - n \in Nat /\ c.taken + n \in Nat
  BY <1>1, <1>4
<1>6. r \in Conn /\ r.kind = c.kind /\ r.state = c.state /\ r.taken = c.taken + n
  BY <1>1, <1>5 DEF Conn
<1>7. conn' = [conn EXCEPT ![cur] = r]
  BY <1>3
<1>8. queue' = queue
  BY DEF read_some
<1>9. PICK m \in 0 .. left : m = left - n
  BY <1>2, <1>4
<1>10. WentOn(m)
  <2>1. GoesOn(m)
    BY <1>3, <1>9
  <2>. QED  BY <2>1, GoesOnFacts
<1>11. UnitsAt(c.kind, op, m) = c.taken + n
  BY <1>2, <1>4, <1>9 DEF UnitsAt
<1>. HIDE DEF r
<1>12. pc' = "io" => r.taken = UnitsAt(r.kind, op', left')
  BY <1>6, <1>10, <1>11 DEF WentOn
<1>. QED
  <2>1. pc' \in {"io", "err", "end", "close", "dead"} /\ op' \in Nat /\ left' \in Nat
    BY <1>10 DEF WentOn
  <2>2. pc' = "io" => op' \in 1 .. Len_(cur) /\ left' \in 1 .. Script(r.kind)[op'].size
    BY <1>6, <1>10 DEF WentOn
  <2>3. pc' = "io" => r.taken = Upto(r.kind, op') +
          (IF Script(r.kind)[op'].io = "read" THEN Script(r.kind)[op'].size - left' ELSE 0)
    BY <1>12 DEF UnitsAt
  <2>4. r.state \in {"open", "left"}
    BY <1>1, <1>6
  <2>. HIDE DEF c
  <2>. QED  BY <1>6, <1>7, <1>8, <2>1, <2>2, <2>3, <2>4, ServedStep DEF c

LEMMA ReadFails ==
    ASSUME ServeInv, read_fails
    PROVE  ServeInv'
<1>1. pc = "io" /\ pc' = Entry.fail /\ left' = (IF pc' = "err" THEN 1 ELSE 0)
      /\ conn' = conn /\ queue' = queue /\ op' = op
  BY DEF read_fails
<1>2. Entry \in ScriptEntry /\ op \in Nat
  BY <1>1, InEntry
<1>3. pc' \in {"end", "err", "close"}
  BY <1>1, <1>2 DEF ScriptEntry
<1>4. conn[cur] \in Conn /\ conn[cur].state \in {"open", "left"} /\ cur \in Clients
      /\ conn \in [Clients -> Conn]
  BY <1>1, Served
<1>5. conn' = [conn EXCEPT ![cur] = conn[cur]]
  BY <1>1, <1>4
<1>6. op' \in Nat /\ left' \in Nat
  BY <1>1, <1>2
<1>. QED  BY <1>1, <1>3, <1>4, <1>5, <1>6, ServedStep

\* A write that fails, and what is left of the entry does not matter.
LEMMA FailedWrite ==
    ASSUME ServeInv, pc \in {"io", "err"}, NEW failed \in {"end", "err", "close"},
           WriteFails(failed), queue' = queue
    PROVE  ServeInv'
<1>. DEFINE c == conn[cur]
<1>1. c \in Conn /\ c.kind \in {"REG", "REQUEST"} /\ c.state \in {"open", "left"}
      /\ cur \in Clients /\ conn \in [Clients -> Conn] /\ op \in Nat
  BY Served DEF ServeInv, TypeOK
<1>. DEFINE r == IF conn' = conn THEN c ELSE [c EXCEPT !.fault = "EPIPE"]
<1>2. /\ pc' \in {"end", "err", "close", "dead"} /\ op' = op /\ left' \in Nat
      /\ conn' = conn \/ conn' = [conn EXCEPT ![cur].fault = "EPIPE"]
  BY DEF WriteFails
<1>3. r \in Conn /\ r.kind = c.kind /\ r.state = c.state
  BY <1>1 DEF Conn
<1>4. conn' = [conn EXCEPT ![cur] = r]
  BY <1>1, <1>2
<1>. HIDE DEF r
<1>. QED  BY <1>1, <1>2, <1>3, <1>4, ServedStep

LEMMA WrittenConn ==
    ASSUME ServeInv, pc \in {"io", "err"}, NEW n \in Int, WriteTakes(n)
    PROVE  \E r \in Conn : /\ r.kind = conn[cur].kind /\ r.state = conn[cur].state
                           /\ r.taken = conn[cur].taken /\ conn' = [conn EXCEPT ![cur] = r]
<1>. DEFINE c == conn[cur]
            over == pc = "err" \/ (op = Len_(cur) /\ n = left)
            r == IF c.state = "left" THEN [c EXCEPT !.fault = "EPIPE", !.answered = over]
                                     ELSE [c EXCEPT !.sent = @ + n, !.answered = over]
<1>1. c \in Conn /\ c.sent \in Nat /\ cur \in Clients /\ conn \in [Clients -> Conn]
  BY Served, ConnFields
<1>2. n \in Nat
  BY DEF WriteTakes
<1>5. conn' = [conn EXCEPT ![cur] = r]
  BY Zenon DEF WriteTakes
<1>3. over \in BOOLEAN /\ c.sent + n \in Nat
  BY <1>1, <1>2
<1>. HIDE DEF over
<1>4. r \in Conn /\ r.kind = c.kind /\ r.state = c.state /\ r.taken = c.taken
  BY <1>1, <1>3 DEF Conn
<1>. HIDE DEF r
<1>. QED  BY <1>4, <1>5

LEMMA RoomFacts ==
    ASSUME ServeInv, pc \in {"io", "err"}
    PROVE  /\ Room \in Int /\ Room =< left /\ Room =< SOCKBUF - conn[cur].sent
           /\ Room = left \/ Room = SOCKBUF - conn[cur].sent
<1>1. left \in Nat /\ conn[cur].sent \in Nat /\ SOCKBUF \in Nat
  BY Served, ConnFields, ServeSizes DEF ServeInv, TypeOK
<1>. DEFINE free == SOCKBUF - conn[cur].sent
<1>2. free \in Int
  BY <1>1
<1>. HIDE DEF free
<1>3. Room = Min({left, free})
  BY DEF Room, free
<1>4. Room = IF left =< free THEN left ELSE free
  BY <1>1, <1>2, <1>3, MinOfTwo
<1>5. Room \in Int /\ Room =< left /\ Room =< free /\ (Room = left \/ Room = free)
  BY <1>1, <1>2, <1>4
<1>. QED  BY <1>5 DEF free

LEMMA WriteStep ==
    ASSUME ServeInv, write_some
    PROVE  ServeInv'
<1>1. pc = "io" /\ Entry.io = "write" /\ queue' = queue
  BY DEF write_some
<1>2. CASE WriteFails(Entry.fail)
  <2>1. Entry.fail \in {"end", "err", "close"}
    BY <1>1, InEntry DEF ScriptEntry
  <2>. QED  BY <1>1, <1>2, <2>1, FailedWrite
<1>3. CASE WriteTakes(Room) /\ GoesOn(left - Room)
  <2>. DEFINE c == conn[cur]
  <2>1. left \in Nat /\ Entry = Script(c.kind)[op] /\ c.taken = UnitsAt(c.kind, op, left)
        /\ c.state \in {"open", "left"}
    BY <1>1, InEntry, Served
  <2>2. Room \in Int /\ Room =< left /\ Room > 0
    BY <1>1, <1>3, RoomFacts DEF WriteTakes
  <2>3. PICK m \in 0 .. left : m = left - Room
    BY <2>1, <2>2
  <2>4. WentOn(m)
    <3>1. GoesOn(m)
      BY <1>3, <2>3
    <3>. QED  BY <1>1, <3>1, GoesOnFacts
  <2>5. UnitsAt(c.kind, op, m) = c.taken
    BY <1>1, <2>1 DEF UnitsAt
  <2>6. PICK r \in Conn : /\ r.kind = c.kind /\ r.state = c.state
                          /\ r.taken = c.taken /\ conn' = [conn EXCEPT ![cur] = r]
    BY <1>1, <1>3, <2>2, WrittenConn
  <2>7. pc' \in {"io", "err", "end", "close", "dead"} /\ op' \in Nat /\ left' \in Nat
    BY <2>4 DEF WentOn
  <2>8. pc' = "io" => op' \in 1 .. Len_(cur) /\ left' \in 1 .. Script(r.kind)[op'].size
    BY <2>4, <2>6 DEF WentOn
  <2>9. pc' = "io" => r.taken = Upto(r.kind, op') +
          (IF Script(r.kind)[op'].io = "read" THEN Script(r.kind)[op'].size - left' ELSE 0)
    <3>1. pc' = "io" => r.taken = UnitsAt(r.kind, op', left')
      BY <2>4, <2>5, <2>6 DEF WentOn
    <3>. QED  BY <3>1 DEF UnitsAt
  <2>10. r.state \in {"open", "left"}
    BY <2>1, <2>6
  <2>. HIDE DEF c
  <2>. QED  BY <1>1, <2>6, <2>7, <2>8, <2>9, <2>10, ServedStep DEF c
<1>. QED  BY <1>2, <1>3 DEF write_some

LEMMA ErrStep ==
    ASSUME ServeInv, send_err
    PROVE  ServeInv'
<1>1. pc = "err" /\ queue' = queue /\ op \in Nat
  BY DEF send_err, ServeInv, TypeOK
<1>2. CASE WriteFails("end")
  BY <1>1, <1>2, FailedWrite
<1>3. CASE WriteTakes(1) /\ pc' = "end" /\ left' = 0 /\ op' = op
  <2>1. PICK r \in Conn : /\ r.kind = conn[cur].kind /\ r.state = conn[cur].state
                          /\ r.taken = conn[cur].taken /\ conn' = [conn EXCEPT ![cur] = r]
    BY <1>1, <1>3, WrittenConn
  <2>2. r.state \in {"open", "left"}
    BY <1>1, <2>1, Served
  <2>. QED  BY <1>1, <1>3, <2>1, <2>2, ServedStep
<1>. QED  BY <1>2, <1>3 DEF send_err

\* The next connection is served: nothing has been read of it.
LEMMA AcceptStep ==
    ASSUME ServeInv, accept
    PROVE  ServeInv'
<1>. USE DEF ServeInv
<1>1. /\ pc = "accept" /\ queue # << >> /\ op' = 1 /\ left' = Script(conn[cur].kind)[1].size
      /\ pc' = "io" /\ conn' = conn /\ queue' = queue
      /\ queue \in Seq(Clients) /\ conn \in [Clients -> Conn]
  BY DEF accept, TypeOK
<1>2. 1 \in DOMAIN queue /\ cur = queue[1] /\ cur \in Clients
  BY <1>1, EmptySeq DEF cur
<1>3. conn[cur] \in Conn /\ conn[cur].taken = 0
  BY <1>1, <1>2 DEF Untouched, Waits
<1>. DEFINE k == conn[cur].kind
            e == Script(k)[1]
<1>4. k \in {"REG", "REQUEST"}
  BY <1>3, ConnFields
<1>5. Script(k) \in Seq(ScriptEntry) /\ Len(Script(k)) \in Nat /\ 1 \in 1 .. Len(Script(k))
  BY <1>4, ScriptTypes, LenProperties
<1>6. e.size \in Nat /\ e.size > 0
  <2>1. e \in ScriptEntry
    BY <1>5
  <2>. QED  BY <2>1 DEF ScriptEntry
<1>7. cur' = cur /\ Entry' = e /\ Len_(cur)' = Len(Script(k))
  BY <1>1 DEF cur, Entry, Len_
<1>. HIDE DEF k, e
<1>8. left' = e.size /\ left' \in Nat /\ op' \in Nat
  BY <1>1, <1>6 DEF e, k
<1>9. TypeOK'
  BY <1>1, <1>8 DEF TypeOK
<1>10. QueueOK'
  BY <1>1 DEF QueueOK, Queued
<1>11. AtWork'
  BY <1>1, <1>5, <1>6, <1>7, <1>8 DEF AtWork
<1>12. Untouched'
  BY <1>1 DEF Untouched, Waits
<1>13. WholeReads'
  <2>1. Upto(k, 1) = 0
    BY UptoFirst
  <2>2. Upto(conn'[cur'].kind, op') = 0 /\ conn'[cur'].taken = 0
    BY <1>1, <1>3, <1>7, <2>1 DEF k
  <2>3. (IF Entry'.io = "read" THEN Entry'.size - left' ELSE 0) = 0
    BY <1>6, <1>7, <1>8
  <2>. QED  BY <2>2, <2>3 DEF WholeReads
<1>. QED  BY <1>9, <1>10, <1>11, <1>12, <1>13

\* A connection is closed, and those behind it move up.
LEMMA ClosedQueue ==
    ASSUME ServeInv, queue # << >>, queue' = Tail(queue), pc' = "accept"
    PROVE  /\ queue' \in Seq(Clients)
           /\ \A i \in DOMAIN queue' : i + 1 \in DOMAIN queue /\ queue'[i] = queue[i + 1]
           /\ \A i \in DOMAIN queue : i # 1 => i - 1 \in DOMAIN queue' /\ queue'[i - 1] = queue[i]
           /\ \A c \in Clients : Queued(c)' <=> Queued(c) /\ c # queue[1]
           /\ \A c \in Clients : Waits(c)' => Waits(c) /\ c # queue[1]
           /\ \A i, j \in DOMAIN queue' : queue'[i] = queue'[j] => i = j
<1>1. queue \in Seq(Clients) /\ QueueOK
  BY DEF ServeInv, TypeOK
<1>2. /\ queue' \in Seq(Clients) /\ Len(queue') = Len(queue) - 1
      /\ \A i \in 1 .. Len(queue') : queue'[i] = queue[i + 1]
  BY <1>1, HeadTailProperties
<1>3. Len(queue) \in Nat /\ Len(queue) > 0 /\ DOMAIN queue = 1 .. Len(queue)
      /\ DOMAIN queue' = 1 .. Len(queue')
  BY <1>1, <1>2, EmptySeq, LenProperties
<1>4. \A i \in DOMAIN queue' : i + 1 \in DOMAIN queue /\ queue'[i] = queue[i + 1] /\ i + 1 > 1
  BY <1>2, <1>3
<1>5. \A i \in DOMAIN queue : i # 1 => /\ i - 1 \in DOMAIN queue' /\ queue'[i - 1] = queue[i]
                                       /\ i > 1
  <2>. SUFFICES ASSUME NEW i \in DOMAIN queue, i # 1
                PROVE  i - 1 \in DOMAIN queue' /\ queue'[i - 1] = queue[i] /\ i > 1
    OBVIOUS
  <2>1. i \in Int /\ i > 1 /\ i - 1 \in DOMAIN queue' /\ (i - 1) + 1 = i
    BY <1>2, <1>3
  <2>. QED  BY <1>4, <2>1
<1>6. 1 \in DOMAIN queue
  BY <1>3
<1>7. \A i, j \in DOMAIN queue : queue[i] = queue[j] => i = j
  BY <1>1 DEF QueueOK
<1>8. \A c \in Clients : Queued(c)' => Queued(c) /\ c # queue[1]
  BY <1>4, <1>6, <1>7 DEF Queued
<1>9. \A c \in Clients : Queued(c) /\ c # queue[1] => Queued(c)'
  BY <1>5 DEF Queued
<1>10. \A c \in Clients : Waits(c)' => Waits(c) /\ c # queue[1]
  <2>. SUFFICES ASSUME NEW c \in Clients, NEW i \in DOMAIN queue', queue'[i] = c
                PROVE  Waits(c) /\ c # queue[1]
    BY DEF Waits
  <2>1. i + 1 \in DOMAIN queue /\ queue[i + 1] = c /\ i + 1 > 1
    BY <1>4
  <2>. QED  BY <1>6, <1>7, <2>1 DEF Waits
<1>11. \A i, j \in DOMAIN queue' : queue'[i] = queue'[j] => i = j
  <2>. SUFFICES ASSUME NEW i \in DOMAIN queue', NEW j \in DOMAIN queue', queue'[i] = queue'[j]
                PROVE  i = j
    OBVIOUS
  <2>1. i + 1 = j + 1
    BY <1>4, <1>7
  <2>2. i \in Int /\ j \in Int
    BY <1>3
  <2>. QED  BY <2>1, <2>2
<1>. QED  BY <1>2, <1>4, <1>5, <1>8, <1>9, <1>10, <1>11

LEMMA ClosedConn ==
    ASSUME NEW a \in BOOLEAN
    PROVE  [NoConn EXCEPT !.state = "closed", !.answered = a] \in Conn
BY DEF NoConn, Conn

LEMMA EndStep ==
    ASSUME ServeInv, end
    PROVE  ServeInv'
<1>. USE DEF ServeInv
<1>1. pc \in {"end", "close"} /\ queue # << >> /\ op' = 0 /\ left' = 0
  BY DEF end, AtWork
<1>2. /\ conn \in [Clients -> Conn] /\ queue \in Seq(Clients)
      /\ cur \in Clients /\ conn[cur] \in Conn /\ cur = queue[1]
  BY <1>1, Served
<1>3. CASE pc' = "dead" /\ UNCHANGED <<conn, queue>>
  <2>1. TypeOK' /\ AtWork'
    BY <1>1, <1>2, <1>3 DEF TypeOK, AtWork
  <2>2. QueueOK' /\ Untouched' /\ WholeReads'
    BY <1>1, <1>3 DEF QueueOK, Queued, Untouched, Waits, WholeReads
  <2>. QED  BY <2>1, <2>2
<1>4. CASE /\ pc' = "accept" /\ queue' = Tail(queue)
           /\ conn' = [conn EXCEPT ![cur] = [NoConn EXCEPT !.state = "closed",
                                               !.answered = conn[cur].answered]]
  <2>. DEFINE r == [NoConn EXCEPT !.state = "closed", !.answered = conn[cur].answered]
  <2>1. r \in Conn /\ r.state = "closed"
    BY <1>2, ConnFields, ClosedConn DEF NoConn
  <2>. HIDE DEF r
  <2>2. conn' = [conn EXCEPT ![cur] = r]
    BY <1>4 DEF r
  <2>3. conn' \in [Clients -> Conn] /\ conn'[cur].state = "closed"
        /\ \A d \in Clients : d # cur => conn'[d] = conn[d]
    BY <1>2, <2>1, <2>2
  <2>4. /\ queue' \in Seq(Clients)
        /\ \A i, j \in DOMAIN queue' : queue'[i] = queue'[j] => i = j
        /\ \A c \in Clients : Queued(c)' <=> Queued(c) /\ c # queue[1]
        /\ \A c \in Clients : Waits(c)' => Waits(c) /\ c # queue[1]
    BY <1>1, <1>4, ClosedQueue
  <2>5. TypeOK'
    BY <1>1, <1>4, <2>3, <2>4 DEF TypeOK
  <2>6. QueueOK'
    <3>1. \A c \in Clients : Queued(c)' <=> conn'[c].state \in {"open", "left"}
      BY <1>2, <2>3, <2>4 DEF QueueOK
    <3>. QED  BY <2>4, <3>1 DEF QueueOK
  <2>7. Untouched'
    BY <1>2, <2>3, <2>4 DEF Untouched
  <2>8. AtWork' /\ WholeReads'
    BY <1>4 DEF AtWork, WholeReads
  <2>. QED  BY <2>5, <2>6, <2>7, <2>8
<1>. QED  BY <1>1, <1>3, <1>4 DEF end

(***************************************************************************)
(* The clients' steps.                                                     *)
(***************************************************************************)
LEMMA NewConn ==
    ASSUME NEW kind \in {"REG", "REQUEST"}
    PROVE  LET r == [NoConn EXCEPT !.state = "open", !.kind = kind]
           IN  r \in Conn /\ r.state = "open" /\ r.kind = kind /\ r.at = 1 /\ r.done = 0
               /\ r.received = 0 /\ r.sent = 0 /\ r.taken = 0 /\ r.fault = "none"
BY DEF NoConn, Conn

\* A new connection goes to the end of the queue.
LEMMA LongerQueue ==
    ASSUME ServeInv, NEW c \in Clients, ~Queued(c), queue' = Append(queue, c), pc' = pc
    PROVE  /\ queue' \in Seq(Clients) /\ queue' # << >>
           /\ queue # << >> => cur' = cur
           /\ \A d \in Clients : Queued(d)' <=> Queued(d) \/ d = c
           /\ \A d \in Clients : Waits(d)' => Waits(d) \/ d = c
           /\ \A i, j \in DOMAIN queue' : queue'[i] = queue'[j] => i = j
<1>1. queue \in Seq(Clients) /\ QueueOK
  BY DEF ServeInv, TypeOK
<1>2. /\ queue' \in Seq(Clients) /\ queue' # << >> /\ Len(queue') = Len(queue) + 1
      /\ \A i \in 1 .. Len(queue) : queue'[i] = queue[i]
      /\ queue'[Len(queue) + 1] = c
  BY <1>1, AppendProperties
<1>3. Len(queue) \in Nat /\ DOMAIN queue = 1 .. Len(queue) /\ DOMAIN queue' = 1 .. Len(queue) + 1
  BY <1>1, <1>2, LenProperties
<1>4. /\ DOMAIN queue \subseteq DOMAIN queue' /\ Len(queue) + 1 \in DOMAIN queue'
      /\ \A i \in DOMAIN queue' : i \in DOMAIN queue \/ i = Len(queue) + 1
      /\ \A i \in DOMAIN queue : queue'[i] = queue[i]
  BY <1>2, <1>3
<1>5. queue # << >> => cur' = cur
  <2>. SUFFICES ASSUME queue # << >> PROVE cur' = cur
    OBVIOUS
  <2>1. Len(queue) # 0
    BY <1>1, EmptySeq
  <2>2. 1 \in 1 .. Len(queue)
    BY <1>3, <2>1
  <2>3. queue'[1] = queue[1]
    BY <1>2, <2>2
  <2>. QED  BY <1>1, <1>2, <2>3 DEF cur
<1>6. \A d \in Clients : Queued(d)' <=> Queued(d) \/ d = c
  <2>. SUFFICES ASSUME NEW d \in Clients PROVE Queued(d)' <=> Queued(d) \/ d = c
    OBVIOUS
  <2>. DEFINE n == Len(queue) + 1
  <2>1. ASSUME Queued(d)' PROVE Queued(d) \/ d = c
    BY <1>2, <1>4, <2>1 DEF Queued
  <2>2. ASSUME Queued(d) PROVE Queued(d)'
    BY <1>4, <2>2 DEF Queued
  <2>3. Queued(c)'
    BY <1>2, <1>4 DEF Queued
  <2>. QED  BY <2>1, <2>2, <2>3
<1>7. \A d \in Clients : Waits(d)' => Waits(d) \/ d = c
  BY <1>2, <1>4 DEF Waits
<1>8. \A i, j \in DOMAIN queue' : queue'[i] = queue'[j] => i = j
  <2>. SUFFICES ASSUME NEW i \in DOMAIN queue', NEW j \in DOMAIN queue', queue'[i] = queue'[j]
                PROVE  i = j
    OBVIOUS
  <2>1. \A k \in DOMAIN queue : queue[k] # c
    BY DEF Queued
  <2>2. \A k, l \in DOMAIN queue : queue[k] = queue[l] => k = l
    BY <1>1 DEF QueueOK
  <2>3. CASE i \in DOMAIN queue /\ j \in DOMAIN queue
    BY <1>4, <2>2, <2>3
  <2>4. CASE i \notin DOMAIN queue \/ j \notin DOMAIN queue
    <3>. DEFINE n == Len(queue) + 1
    <3>1. (i = n \/ i \in DOMAIN queue) /\ (j = n \/ j \in DOMAIN queue) /\ queue'[n] = c
      BY <1>2, <1>4
    <3>. HIDE DEF n
    <3>. QED  BY <1>4, <2>1, <2>4, <3>1
  <2>. QED  BY <2>3, <2>4
<1>. QED  BY <1>2, <1>5, <1>6, <1>7, <1>8

LEMMA ConnectStep ==
    ASSUME ServeInv, NEW c \in Clients, connect(c)
    PROVE  ServeInv'
<1>. USE DEF ServeInv
<1>1. PICK kind \in {"REG", "REQUEST"} :
        conn' = [conn EXCEPT ![c] = [NoConn EXCEPT !.state = "open", !.kind = kind]]
  BY DEF connect
<1>2. conn[c].state = "none" /\ queue' = Append(queue, c) /\ pc' = pc /\ op' = op /\ left' = left
  BY DEF connect
<1>3. conn \in [Clients -> Conn] /\ ~Queued(c)
  BY <1>2 DEF TypeOK, QueueOK
<1>. DEFINE r == [NoConn EXCEPT !.state = "open", !.kind = kind]
<1>4. r \in Conn /\ r.state = "open" /\ r.taken = 0
  BY NewConn
<1>5. conn' = [conn EXCEPT ![c] = r]
  BY <1>1
<1>. HIDE DEF r
<1>6. conn' \in [Clients -> Conn] /\ conn'[c] = r /\ \A d \in Clients : d # c => conn'[d] = conn[d]
  BY <1>3, <1>4, <1>5
<1>7. /\ queue' \in Seq(Clients) /\ queue' # << >>
      /\ queue # << >> => cur' = cur
      /\ \A d \in Clients : Queued(d)' <=> Queued(d) \/ d = c
      /\ \A d \in Clients : Waits(d)' => Waits(d) \/ d = c
      /\ \A i, j \in DOMAIN queue' : queue'[i] = queue'[j] => i = j
  BY <1>2, <1>3, LongerQueue
<1>8. TypeOK'
  BY <1>2, <1>6, <1>7 DEF TypeOK
<1>9. QueueOK'
  <2>1. \A d \in Clients : Queued(d)' <=> conn'[d].state \in {"open", "left"}
    BY <1>4, <1>6, <1>7 DEF QueueOK
  <2>. QED  BY <1>7, <2>1 DEF QueueOK
<1>10. Untouched'
  BY <1>4, <1>6, <1>7 DEF Untouched
<1>11. CASE pc = "io"
  <2>1. cur \in Clients /\ conn[cur].state \in {"open", "left"} /\ queue # << >>
    BY <1>11, Served DEF AtWork
  <2>2. cur # c
    BY <1>2, <2>1
  <2>3. cur' = cur /\ conn'[cur] = conn[cur]
    BY <1>6, <1>7, <2>1, <2>2
  <2>4. Entry' = Entry /\ Len_(cur)' = Len_(cur)
    BY <1>2, <2>3 DEF Entry, Len_
  <2>5. AtWork'
    BY <1>2, <1>7, <1>11, <2>4 DEF AtWork
  <2>6. WholeReads'
    BY <1>2, <1>11, <2>3, <2>4 DEF WholeReads
  <2>. QED  BY <1>8, <1>9, <1>10, <2>5, <2>6
<1>12. CASE pc # "io"
  BY <1>2, <1>7, <1>8, <1>9, <1>10, <1>12 DEF AtWork, WholeReads
<1>. QED  BY <1>11, <1>12

\* What a client that sends or reads a unit changes.
LEMMA Advanced ==
    ASSUME ServeInv, NEW c \in Clients, NEW field \in {"received", "sent"}, NEW n \in {1, -1},
           conn[c].state = "open", conn[c].at =< Len_(c),
           conn[c][field] + n >= 0, Advances(c, field, n)
    PROVE  \E r \in Conn :
             /\ r.kind = conn[c].kind /\ r.taken = conn[c].taken /\ r.state = "open"
             /\ r.fault = conn[c].fault
             /\ r.received = IF field = "received" THEN conn[c].received + n ELSE conn[c].received
             /\ r.sent = IF field = "sent" THEN conn[c].sent + n ELSE conn[c].sent
             /\ IF conn[c].done + 1 = Script(conn[c].kind)[conn[c].at].size
                THEN r.at = conn[c].at + 1 /\ r.done = 0
                ELSE r.at = conn[c].at /\ r.done = conn[c].done + 1
             /\ conn' = [conn EXCEPT ![c] = r]
<1>. DEFINE d == conn[c]
            moved == [d EXCEPT ![field] = @ + n]
            over == d.done + 1 = Script(d.kind)[d.at].size
            r == [moved EXCEPT !.at = IF over THEN @ + 1 ELSE @,
                               !.done = IF over THEN 0 ELSE @ + 1]
<1>1. d \in Conn
  BY DEF ServeInv, TypeOK
<1>2. d.received \in Nat /\ d.sent \in Nat /\ d.at \in Nat /\ d.done \in Nat
  BY <1>1, ConnFields
<1>3. /\ moved \in Conn /\ moved.kind = d.kind /\ moved.taken = d.taken /\ moved.state = d.state
      /\ moved.fault = d.fault /\ moved.at = d.at /\ moved.done = d.done
      /\ moved.received = IF field = "received" THEN d.received + n ELSE d.received
      /\ moved.sent = IF field = "sent" THEN d.sent + n ELSE d.sent
  <2>. HIDE DEF d
  <2>1. CASE field = "received"
    <3>1. moved = [d EXCEPT !.received = @ + n]
      BY <2>1
    <3>2. d.received + n \in Nat
      BY <1>2, <2>1 DEF d
    <3>. HIDE DEF moved
    <3>. QED  BY <1>1, <2>1, <3>1, <3>2 DEF Conn
  <2>2. CASE field = "sent"
    <3>1. moved = [d EXCEPT !.sent = @ + n]
      BY <2>2
    <3>2. d.sent + n \in Nat
      BY <1>2, <2>2 DEF d
    <3>. HIDE DEF moved
    <3>. QED  BY <1>1, <2>2, <3>1, <3>2 DEF Conn
  <2>. QED  BY <2>1, <2>2
<1>4. conn' = [conn EXCEPT ![c] = r]
  BY Zenon DEF Advances
<1>. HIDE DEF moved, over, d
<1>5. /\ r \in Conn /\ r.kind = moved.kind /\ r.taken = moved.taken /\ r.state = moved.state
      /\ r.fault = moved.fault /\ r.received = moved.received /\ r.sent = moved.sent
      /\ IF over THEN r.at = moved.at + 1 /\ r.done = 0
                 ELSE r.at = moved.at /\ r.done = moved.done + 1
  <2>1. moved.at \in Nat /\ moved.done \in Nat
    BY <1>2, <1>3
  <2>2. CASE over
    <3>1. r = [moved EXCEPT !.at = moved.at + 1, !.done = 0]
      BY <2>2
    <3>. HIDE DEF r
    <3>2. moved \in Conn /\ moved.at + 1 \in Nat /\ 0 \in Nat
      BY <1>3, <2>1
    <3>3. /\ r \in Conn /\ r.kind = moved.kind /\ r.taken = moved.taken /\ r.state = moved.state
          /\ r.fault = moved.fault /\ r.received = moved.received /\ r.sent = moved.sent
          /\ r.at = moved.at + 1 /\ r.done = 0
      BY <3>1, <3>2 DEF Conn
    <3>. QED  BY <2>2, <3>3
  <2>3. CASE ~over
    <3>1. r = [moved EXCEPT !.at = moved.at, !.done = moved.done + 1]
      BY <2>3
    <3>. HIDE DEF r
    <3>2. moved \in Conn /\ moved.at \in Nat /\ moved.done + 1 \in Nat
      BY <1>3, <2>1
    <3>3. /\ r \in Conn /\ r.kind = moved.kind /\ r.taken = moved.taken /\ r.state = moved.state
          /\ r.fault = moved.fault /\ r.received = moved.received /\ r.sent = moved.sent
          /\ r.at = moved.at /\ r.done = moved.done + 1
      BY <3>1, <3>2 DEF Conn
    <3>. QED  BY <2>3, <3>3
  <2>. QED  BY <2>2, <2>3
<1>. HIDE DEF r
<1>. QED  BY <1>3, <1>4, <1>5 DEF d, over

\* A client that sends or reads has an entry of the script before it.
LEMMA ReachedFacts ==
    ASSUME ServeInv, NEW c \in Clients, NEW io \in {"read", "write"}, Reached(c, io)
    PROVE  /\ conn[c] \in Conn /\ conn[c].state = "open" /\ conn[c].kind \in {"REG", "REQUEST"}
           /\ conn[c].at \in Nat /\ conn[c].at =< Len_(c)
           /\ Script(conn[c].kind)[conn[c].at].io = io
BY ConnFields DEF Reached, ServeInv, TypeOK

LEMMA LeaveStep ==
    ASSUME ServeInv, NEW c \in Clients, leave(c)
    PROVE  \E r \in Conn : /\ r.kind = conn[c].kind /\ r.taken = conn[c].taken
                           /\ r.state = "left" /\ r.sent = conn[c].sent
                           /\ r.at = conn[c].at /\ r.done = conn[c].done
                           /\ r.received = conn[c].received
                           /\ r.fault = IF conn[c].sent = 0 THEN conn[c].fault ELSE "ECONNRESET"
                           /\ conn' = [conn EXCEPT ![c] = r]
<1>. DEFINE d == conn[c]
            fault == IF d.sent > 0 THEN "ECONNRESET" ELSE d.fault
            r == [d EXCEPT !.state = "left", !.fault = fault]
<1>1. d \in Conn /\ d.sent \in Nat /\ d.fault \in {"none", "ECONNRESET", "EPIPE"}
      /\ conn \in [Clients -> Conn]
  BY ConnFields DEF ServeInv, TypeOK
<1>2. conn' = [conn EXCEPT ![c] = r]
  BY <1>1 DEF leave
<1>3. fault \in {"none", "ECONNRESET", "EPIPE"}
  BY <1>1
<1>5. fault = IF d.sent = 0 THEN d.fault ELSE "ECONNRESET"
  BY <1>1
<1>. HIDE DEF fault, d
<1>4. /\ r \in Conn /\ r.kind = d.kind /\ r.taken = d.taken /\ r.state = "left"
      /\ r.sent = d.sent /\ r.at = d.at /\ r.done = d.done /\ r.received = d.received
      /\ r.fault = fault
  BY <1>1, <1>3 DEF Conn
<1>. HIDE DEF r
<1>. QED  BY <1>2, <1>4, <1>5 DEF d

LEMMA ClientStep ==
    ASSUME ServeInv, NEW c \in Clients, send(c) \/ receive(c) \/ leave(c)
    PROVE  ServeInv'
<1>1. UNCHANGED <<queue, pc, op, left>> /\ conn[c].state = "open"
  BY DEF send, receive, leave, Reached
<1>2. \E r \in Conn : /\ r.kind = conn[c].kind /\ r.taken = conn[c].taken
                      /\ r.state \in {"open", "left"} /\ conn' = [conn EXCEPT ![c] = r]
  <2>1. CASE leave(c)
    BY <2>1, LeaveStep
  <2>2. CASE send(c)
    <3>1. Reached(c, "read") /\ Advances(c, "received", 1)
      BY <2>2 DEF send
    <3>2. conn[c] \in Conn /\ conn[c].at \in Nat /\ conn[c].at =< Len_(c)
      BY <3>1, ReachedFacts
    <3>3. conn[c].received + 1 >= 0
      BY <3>2, ConnFields
    <3>4. PICK r \in Conn : /\ r.kind = conn[c].kind /\ r.taken = conn[c].taken /\ r.state = "open"
                            /\ conn' = [conn EXCEPT ![c] = r]
      BY <1>1, <3>1, <3>2, <3>3, Advanced
    <3>. QED  BY <3>4
  <2>3. CASE receive(c)
    <3>1. Reached(c, "write") /\ Advances(c, "sent", -1) /\ conn[c].sent > 0
      BY <2>3 DEF receive
    <3>2. conn[c] \in Conn /\ conn[c].at \in Nat /\ conn[c].at =< Len_(c)
      BY <3>1, ReachedFacts
    <3>3. conn[c].sent + (-1) >= 0
      BY <3>1, <3>2, ConnFields
    <3>4. PICK r \in Conn : /\ r.kind = conn[c].kind /\ r.taken = conn[c].taken /\ r.state = "open"
                            /\ conn' = [conn EXCEPT ![c] = r]
      BY <1>1, <3>1, <3>2, <3>3, Advanced
    <3>. QED  BY <3>4
  <2>. QED  BY <2>1, <2>2, <2>3
<1>3. PICK r \in Conn : /\ r.kind = conn[c].kind /\ r.taken = conn[c].taken
                        /\ r.state \in {"open", "left"} /\ conn' = [conn EXCEPT ![c] = r]
  BY <1>2
<1>. QED  BY <1>1, <1>3, TiedStep

(***************************************************************************)
(* The theorems on types and reads.                                        *)
(***************************************************************************)
LEMMA ServeInit == Init => ServeInv
<1>. SUFFICES ASSUME Init PROVE ServeInv
  OBVIOUS
<1>1. NoConn \in Conn /\ NoConn.state = "none"
  BY DEF NoConn, Conn
<1>2. TypeOK
  BY <1>1 DEF Init, TypeOK
<1>3. DOMAIN queue = {}
  BY DEF Init
<1>4. QueueOK /\ AtWork /\ Untouched /\ WholeReads
  BY <1>1, <1>3 DEF Init, QueueOK, Queued, AtWork, Untouched, Waits, WholeReads
<1>. QED  BY <1>2, <1>4 DEF ServeInv

LEMMA ServeNext == ServeInv /\ [Next]_vars => ServeInv'
<1>. SUFFICES ASSUME ServeInv, [Next]_vars PROVE ServeInv'
  OBVIOUS
<1>1. CASE UNCHANGED vars
  BY <1>1 DEF vars, ServeInv, TypeOK, QueueOK, Queued, AtWork, Untouched, Waits, WholeReads,
              cur, Entry, Len_
<1>2. CASE accept
  BY <1>2, AcceptStep
<1>3. CASE read_some
  BY <1>3, ReadStep DEF read_some
<1>4. CASE read_fails
  BY <1>4, ReadFails
<1>5. CASE write_some
  BY <1>5, WriteStep
<1>6. CASE send_err
  BY <1>6, ErrStep
<1>7. CASE end
  BY <1>7, EndStep
<1>8. ASSUME NEW c \in Clients, Client(c) PROVE ServeInv'
  BY <1>8, ConnectStep, ClientStep DEF Client
<1>. QED  BY <1>1, <1>2, <1>3, <1>4, <1>5, <1>6, <1>7, <1>8 DEF Next, Server

\* The connections, the queue and the server's place in a script keep their types.
THEOREM ServeTypes == Spec => []TypeOK
<1>1. ServeInv => TypeOK
  BY DEF ServeInv
<1>. QED  BY <1>1, ServeInit, ServeNext, PTL DEF Spec

\* However the bytes of a connection arrive, and whoever else connects, waits or leaves
\* meanwhile, every readn begins at the field of the request that follows the one before it.
THEOREM ReadsAreWhole == Spec => []WholeReads
<1>1. ServeInv => WholeReads
  BY DEF ServeInv
<1>. QED  BY <1>1, ServeInit, ServeNext, PTL DEF Spec

(***************************************************************************)
(* In the clear, with answers that fit in the socket buffers.              *)
(***************************************************************************)
LEMMA ClearEntries ==
    ASSUME ~TLS, REPLY =< SOCKBUF, NEW kind \in {"REG", "REQUEST"}
    PROVE  LET s == Script(kind)
           IN  /\ Len(s) \in {3, 6}
               /\ s[1].io = "read" /\ s[1].size = 1 /\ s[1].fail = "end"
               /\ s[2].io = "read" /\ s[2].size = BODY
               /\ s[3].io = "write" /\ s[3].size =< SOCKBUF
               /\ Len(s) = 6 =>
                    /\ s[3].size = 1
                    /\ s[4].io = "read" /\ s[4].size = 1 /\ s[4].fail = "end"
                    /\ s[5].io = "read"
                    /\ s[6].io = "write" /\ s[6].size =< SOCKBUF
<1>1. SOCKBUF \in Nat /\ SOCKBUF # 0
  BY ServeSizes
<1>2. CASE kind = "REG"
  <2>1. Script(kind) = <<Reads(1, "end"), Reads(BODY, "end"), Writes(1)>>
    BY <1>2, ClearScripts
  <2>. QED  BY <1>1, <2>1 DEF Reads, Writes
<1>3. CASE kind = "REQUEST" /\ ~SigningKey
  <2>1. Script(kind) = <<Reads(1, "end"), Reads(BODY, "err"), Writes(REPLY)>>
    BY <1>3, ClearScripts
  <2>. QED  BY <1>1, <2>1 DEF Reads, Writes
<1>4. CASE kind = "REQUEST" /\ SigningKey
  <2>1. Script(kind) = <<Reads(1, "end"), Reads(BODY, "err"), Writes(1),
                         Reads(1, "end"), Reads(BODY, "err"), Writes(REPLY)>>
    BY <1>4, ClearScripts
  <2>. QED  BY <1>1, <2>1 DEF Reads, Writes
<1>. QED  BY <1>2, <1>3, <1>4

\* The server has read a whole AUTH when it goes on to the request that follows it.
LEMMA AuthRead ==
    ASSUME ~TLS, REPLY =< SOCKBUF, ServeInv, pc = "io", op = AfterAuth
    PROVE  left = 1 /\ conn[cur].taken = 1 + BODY
<1>. DEFINE k == conn[cur].kind
            s == Script(k)
<1>1. /\ op \in 1 .. Len(s) /\ left \in Nat /\ left > 0 /\ left =< s[op].size
      /\ conn[cur].taken = UnitsAt(k, op, left)
  BY InEntry DEF Len_
<1>2. k \in {"REG", "REQUEST"} /\ s \in Seq(ScriptEntry)
  BY Served
<1>3. /\ Len(s) \in {3, 6} /\ s[1].io = "read" /\ s[1].size = 1 /\ s[2].io = "read"
      /\ s[2].size = BODY /\ s[3].io = "write"
      /\ Len(s) = 6 => s[4].io = "read" /\ s[4].size = 1
  BY <1>2, ClearEntries
<1>. HIDE DEF k
<1>4. Len(s) = 6 /\ left = 1
  BY <1>1, <1>3 DEF AfterAuth
<1>5. {1, 2, 3} \subseteq DOMAIN s
  BY <1>2, <1>4
<1>6. /\ Upto(k, 1) = 0
      /\ Upto(k, 1 + 1) = Upto(k, 1) + 1
      /\ Upto(k, 2 + 1) = Upto(k, 2) + BODY
      /\ Upto(k, 3 + 1) = Upto(k, 3) + 0 /\ Upto(k, 3) \in Nat
  BY <1>2, <1>3, <1>5, UptoFirst, UptoNext
<1>7. BODY \in Nat
  BY ServeSizes
<1>8. Upto(k, 4) = 1 + BODY
  BY <1>6, <1>7
<1>9. UnitsAt(k, 4, 1) = 1 + BODY
  BY <1>3, <1>4, <1>7, <1>8 DEF UnitsAt
<1>. QED  BY <1>1, <1>4, <1>9 DEF AfterAuth

\* A step of a client on its connection.
LEMMA ClearTied ==
    ASSUME ServeInv, Clear, NEW c \in Clients, NEW r \in Conn,
           conn[c].state \in {"open", "left"}, conn' = [conn EXCEPT ![c] = r],
           UNCHANGED <<queue, pc, op, left>>,
           Sending(r), Fresh(conn[c]) => Fresh(r),
           Ready(conn[c], pc, op) => Ready(r, pc, op)
    PROVE  Clear'
<1>1. conn \in [Clients -> Conn]
  BY DEF ServeInv, TypeOK
<1>2. conn'[c] = r /\ \A d \in Clients : d # c => conn'[d] = conn[d]
  BY <1>1
<1>3. \A d \in Clients : Queued(d)' => Sending(conn'[d])
  BY <1>2 DEF Clear, Queued
<1>4. \A d \in Clients : Waits(d)' => Fresh(conn'[d])
  BY <1>2 DEF Clear, Waits
<1>5. pc' \in {"io", "err"} => Ready(conn'[cur'], pc', op')
  <2>. SUFFICES ASSUME pc \in {"io", "err"} PROVE Ready(conn'[cur], pc, op)
    BY DEF cur
  <2>1. cur \in Clients /\ Ready(conn[cur], pc, op)
    BY Served DEF Clear
  <2>. QED  BY <1>2, <2>1
<1>. QED  BY <1>3, <1>4, <1>5 DEF Clear

\* A step of the server on the connection it serves.
LEMMA ClearServed ==
    ASSUME ServeInv, Clear, pc \in {"io", "err"}, NEW r \in Conn,
           conn' = [conn EXCEPT ![cur] = r], queue' = queue,
           Sending(r), pc' \in {"io", "err", "end", "close"},
           pc' \in {"io", "err"} => Ready(r, pc', op'), pc' = "err" => left' = 1
    PROVE  Clear'
<1>1. conn \in [Clients -> Conn] /\ queue \in Seq(Clients) /\ cur \in Clients
      /\ 1 \in DOMAIN queue /\ cur = queue[1]
  BY Served
<1>2. conn'[cur] = r /\ (\A d \in Clients : d # cur => conn'[d] = conn[d]) /\ cur' = cur
  BY <1>1 DEF cur
<1>3. \A d \in Clients : Queued(d)' => Sending(conn'[d])
  BY <1>2 DEF Clear, Queued
<1>4. \A d \in Clients : Waits(d)' => Fresh(conn'[d])
  <2>. SUFFICES ASSUME NEW d \in Clients, NEW i \in DOMAIN queue, queue[i] = d, i > 1
                PROVE  Fresh(conn'[d])
    BY DEF Waits
  <2>1. d # cur
    BY <1>1 DEF ServeInv, QueueOK
  <2>2. Waits(d)
    BY DEF Waits
  <2>. QED  BY <1>2, <2>1, <2>2 DEF Clear
<1>. QED  BY <1>2, <1>3, <1>4 DEF Clear

\* What is known of the connection served, in the clear.
LEMMA ClearServing ==
    ASSUME ~TLS, REPLY =< SOCKBUF, ServeInv, Clear, pc \in {"io", "err"}
    PROVE  /\ conn[cur] \in Conn /\ conn[cur].kind \in {"REG", "REQUEST"}
           /\ Sending(conn[cur]) /\ Ready(conn[cur], pc, op)
           /\ pc = "err" => left = 1
<1>1. /\ conn[cur] \in Conn /\ conn[cur].kind \in {"REG", "REQUEST"} /\ cur \in Clients
      /\ 1 \in DOMAIN queue /\ cur = queue[1]
  BY Served
<1>2. Queued(cur)
  BY <1>1 DEF Queued
<1>. QED  BY <1>1, <1>2 DEF Clear

LEMMA ClearRead ==
    ASSUME ~TLS, REPLY =< SOCKBUF, ServeInv, Clear, read_some
    PROVE  Clear'
<1>. DEFINE d == conn[cur]
            s == Script(d.kind)
<1>1. /\ pc = "io" /\ Entry.io = "read" /\ d.received > 0 /\ d.fault = "none"
      /\ queue' = queue
  BY DEF read_some
<1>2. d \in Conn /\ Sending(d) /\ Ready(d, pc, op) /\ d.kind \in {"REG", "REQUEST"}
  BY <1>1, ClearServing
<1>3. /\ left \in Nat /\ left > 0 /\ op \in 1 .. Len(s) /\ op \in Nat /\ Entry = s[op]
  BY <1>1, InEntry DEF Len_
<1>4. d.received \in Nat /\ d.taken \in Nat /\ d.sent \in Nat /\ d.at \in Nat
  BY <1>2, ConnFields
<1>5. PICK n \in 1 .. Taken(left, d.received) :
        /\ conn' = [conn EXCEPT ![cur].received = @ - n, ![cur].taken = @ + n]
        /\ GoesOn(left - n)
  BY DEF read_some
<1>6. n \in Nat /\ n =< d.received
  <2>1. Taken(left, d.received) = IF left =< d.received THEN left ELSE d.received
    BY <1>3, <1>4, MinOfTwo DEF Taken
  <2>. HIDE DEF d
  <2>. QED  BY <1>3, <1>4, <1>5, <2>1
<1>. DEFINE r == [d EXCEPT !.received = d.received - n, !.taken = d.taken + n]
<1>7. conn' = [conn EXCEPT ![cur] = r]
  BY <1>5
<1>8. d.received - n \in Nat /\ d.taken + n \in Nat
  BY <1>4, <1>6
<1>. HIDE DEF d
<1>9. /\ r \in Conn /\ r.sent = d.sent /\ r.fault = d.fault /\ r.at = d.at /\ r.done = d.done
      /\ r.received = d.received - n /\ r.taken = d.taken + n
  BY <1>2, <1>8 DEF Conn
<1>. HIDE DEF r
<1>10. Sending(r)
  <2>1. r.taken + r.received = d.taken + d.received
    BY <1>4, <1>6, <1>9
  <2>. QED  BY <1>2, <1>9, <2>1 DEF Sending
<1>11. /\ Len(s) \in {3, 6} /\ s[3].io = "write" /\ (Len(s) = 6 => s[5].io = "read")
  BY <1>2, ClearEntries
<1>. HIDE DEF s
<1>12. \/ pc' = "io" /\ op' = op
       \/ pc' = "io" /\ op' = op + 1
       \/ pc' = "err" /\ left' = 1 /\ op' = op
       \/ pc' = "end"
  BY <1>1, <1>5, Zenon DEF GoesOn, NextOp, Len_, s, d
<1>17. Intact(r)
  <2>1. CASE op = AfterAuth
    <3>1. d.taken = 1 + BODY
      BY <1>1, <2>1, AuthRead DEF d
    <3>2. d.at > 3
      <4>1. d.done \in Nat /\ BODY \in Nat
        BY <1>2, ConnFields, ServeSizes
      <4>2. d.taken + d.received > 1 + BODY
        BY <1>1, <1>4, <3>1, <4>1
      <4>. QED  BY <1>2, <1>4, <4>1, <4>2 DEF Sending
    <3>3. d.sent = 0
      BY <1>1, <1>2, <2>1, <3>2 DEF Ready
    <3>. QED  BY <1>1, <1>9, <3>3 DEF Intact
  <2>2. CASE op # AfterAuth
    BY <1>1, <1>2, <1>9, <2>2 DEF Ready, Intact
  <2>. QED  BY <2>1, <2>2
<1>13. CASE pc' = "io" /\ op' = op
  <2>1. Ready(r, "io", op)
    BY <1>1, <1>2, <1>9 DEF Ready, Intact
  <2>. QED  BY <1>1, <1>7, <1>9, <1>10, <1>13, <2>1, ClearServed
<1>14. CASE pc' = "io" /\ op' = op + 1
  <2>1. op # 3
    BY <1>1, <1>3, <1>11
  <2>3. op + 1 < AfterAuth => r.at =< 3
    BY <1>1, <1>2, <1>3, <1>9 DEF Ready, AfterAuth
  <2>4. op + 1 # AfterAuth
    BY <1>3, <2>1 DEF AfterAuth
  <2>5. Ready(r, "io", op + 1)
    BY <1>17, <2>3, <2>4 DEF Ready
  <2>. QED  BY <1>1, <1>7, <1>9, <1>10, <1>14, <2>5, ClearServed
<1>15. CASE pc' = "err" /\ left' = 1 /\ op' = op
  <2>2. Ready(r, "err", op)
    BY <1>17 DEF Ready
  <2>. QED  BY <1>1, <1>7, <1>9, <1>10, <1>15, <2>2, ClearServed
<1>16. CASE pc' = "end"
  BY <1>1, <1>7, <1>9, <1>10, <1>16, ClearServed
<1>. QED  BY <1>12, <1>13, <1>14, <1>15, <1>16

LEMMA ClearReadFails ==
    ASSUME ~TLS, REPLY =< SOCKBUF, ServeInv, Clear, read_fails
    PROVE  Clear'
<1>. DEFINE d == conn[cur]
            s == Script(d.kind)
<1>1. pc = "io" /\ Entry.io = "read" /\ pc' = Entry.fail /\ left' = (IF pc' = "err" THEN 1 ELSE 0)
      /\ conn' = conn /\ queue' = queue /\ op' = op
  BY DEF read_fails
<1>2. d \in Conn /\ Sending(d) /\ Ready(d, pc, op) /\ d.kind \in {"REG", "REQUEST"}
  BY <1>1, ClearServing
<1>3. op \in 1 .. Len(s) /\ Entry = s[op] /\ Entry \in ScriptEntry
  BY <1>1, InEntry DEF Len_
<1>4. pc' \in {"end", "err", "close"}
  BY <1>1, <1>3 DEF ScriptEntry
<1>5. Len(s) \in {3, 6} /\ (Len(s) = 6 => s[4].fail = "end")
  BY <1>2, ClearEntries
<1>6. pc' = "err" => op # AfterAuth
  BY <1>1, <1>3, <1>5 DEF AfterAuth
<1>. HIDE DEF s
<1>7. pc' \in {"io", "err"} => Ready(d, pc', op')
  BY <1>1, <1>2, <1>4, <1>6 DEF Ready
<1>8. conn' = [conn EXCEPT ![cur] = d]
  BY <1>1, Served
<1>. HIDE DEF d
<1>. QED  BY <1>1, <1>2, <1>4, <1>7, <1>8, ClearServed

\* Each write is carried out at once, on a connection not known to be broken.
LEMMA ClearWrite ==
    ASSUME ~TLS, REPLY =< SOCKBUF, ServeInv, Clear, write_some
    PROVE  Clear'
<1>. DEFINE d == conn[cur]
            s == Script(d.kind)
<1>1. pc = "io" /\ Entry.io = "write" /\ queue' = queue
  BY DEF write_some
<1>2. d \in Conn /\ Sending(d) /\ Ready(d, pc, op) /\ d.kind \in {"REG", "REQUEST"}
  BY <1>1, ClearServing
<1>3. /\ left \in Nat /\ left > 0 /\ op \in 1 .. Len(s) /\ op \in Nat /\ Entry = s[op]
      /\ left =< Entry.size /\ Entry.size \in Nat
  BY <1>1, InEntry DEF Len_
<1>4. /\ Len(s) \in {3, 6} /\ s[1].io = "read" /\ s[2].io = "read"
      /\ s[3].io = "write" /\ s[3].size =< SOCKBUF
      /\ Len(s) = 6 => /\ s[3].size = 1 /\ s[4].io = "read" /\ s[5].io = "read"
                       /\ s[6].size =< SOCKBUF
  BY <1>2, ClearEntries
<1>. HIDE DEF s
<1>5. op = 3 \/ (op = 6 /\ Len(s) = 6)
  BY <1>1, <1>3, <1>4
<1>6. Intact(d) /\ (op = 3 => d.at =< 3)
  BY <1>1, <1>2, <1>5 DEF Ready, AfterAuth
<1>7. Entry.size =< SOCKBUF
  BY <1>3, <1>4, <1>5
<1>8. Room = left
  <2>1. d.sent = 0
    BY <1>6 DEF Intact
  <2>2. Room \in Int /\ Room =< left /\ (Room = left \/ Room = SOCKBUF - d.sent)
    BY <1>1, RoomFacts
  <2>3. left =< SOCKBUF /\ SOCKBUF \in Nat
    BY <1>3, <1>7, ServeSizes
  <2>. QED  BY <1>3, <2>1, <2>2, <2>3
<1>9. ~WriteFails(Entry.fail)
  BY <1>6 DEF WriteFails, Intact
<1>10. WriteTakes(left) /\ GoesOn(left - left)
  BY <1>8, <1>9 DEF write_some
<1>. DEFINE over == pc = "err" \/ (op = Len_(cur) /\ left = left)
            r == IF d.state = "left" THEN [d EXCEPT !.fault = "EPIPE", !.answered = over]
                                     ELSE [d EXCEPT !.sent = @ + left, !.answered = over]
<1>11. conn' = [conn EXCEPT ![cur] = r]
  BY <1>10, Zenon DEF WriteTakes
<1>12. over \in BOOLEAN /\ d.sent + left \in Nat /\ d.sent = 0
  BY <1>3, <1>6 DEF Intact
<1>. HIDE DEF over, d
<1>13. /\ r \in Conn /\ r.at = d.at /\ r.done = d.done /\ r.taken = d.taken
       /\ r.received = d.received
       /\ r.fault = "none" => r.sent = left
  <2>1. CASE d.state = "left"
    <3>1. r = [d EXCEPT !.fault = "EPIPE", !.answered = over]
      BY <2>1
    <3>. HIDE DEF r
    <3>. QED  BY <1>2, <1>12, <3>1 DEF Conn
  <2>2. CASE d.state # "left"
    <3>1. r = [d EXCEPT !.sent = d.sent + left, !.answered = over]
      BY <2>2
    <3>2. d.sent + left = left
      BY <1>3, <1>12
    <3>. HIDE DEF r
    <3>. QED  BY <1>2, <1>3, <1>12, <3>1, <3>2 DEF Conn
  <2>. QED  BY <2>1, <2>2
<1>. HIDE DEF r
<1>14. Sending(r)
  BY <1>2, <1>13 DEF Sending
<1>15. \/ op < Len(s) /\ pc' = "io" /\ op' = op + 1
       \/ pc' = "end"
  BY <1>1, <1>3, <1>10 DEF GoesOn, NextOp, Len_, s, d
<1>16. CASE op < Len(s) /\ pc' = "io" /\ op' = op + 1
  <2>1. op = 3 /\ Len(s) = 6 /\ op' = AfterAuth
    <3>1. Len(s) \in {3, 6} /\ op < Len(s) /\ op' = op + 1
      BY <1>4, <1>16
    <3>2. CASE op = 3
      <4>1. Len(s) # 3
        <5>1. op # Len(s)
          BY <1>3, <3>1
        <5>. QED  BY <3>2, <5>1, Zenon
      <4>2. op' = 4
        BY <3>1, <3>2
      <4>. QED  BY <3>1, <3>2, <4>1, <4>2 DEF AfterAuth
    <3>3. CASE op = 6 /\ Len(s) = 6
      BY <3>1, <3>3
    <3>. QED  BY <1>5, <3>2, <3>3
  <2>2. left = 1
    BY <1>3, <1>4, <2>1
  <2>3. r.fault = "none" => r.sent = 1 /\ ~(r.at > 3)
    <3>1. d.at \in Nat /\ d.at =< 3
      BY <1>2, <1>6, <2>1, ConnFields
    <3>. QED  BY <1>13, <2>2, <3>1
  <2>4. Ready(r, "io", AfterAuth)
    BY <2>3 DEF Ready, AfterAuth
  <2>. QED  BY <1>1, <1>11, <1>13, <1>14, <1>16, <2>1, <2>4, ClearServed
<1>17. CASE pc' = "end"
  BY <1>1, <1>11, <1>13, <1>14, <1>17, ClearServed
<1>. QED  BY <1>15, <1>16, <1>17

LEMMA ClearErr ==
    ASSUME ~TLS, REPLY =< SOCKBUF, ServeInv, Clear, send_err
    PROVE  Clear'
<1>. DEFINE d == conn[cur]
<1>1. pc = "err" /\ queue' = queue
  BY DEF send_err
<1>2. d \in Conn /\ Sending(d) /\ Ready(d, pc, op)
  BY <1>1, ClearServing
<1>3. Intact(d)
  BY <1>1, <1>2 DEF Ready
<1>4. WriteTakes(1) /\ pc' = "end"
  BY <1>3 DEF send_err, WriteFails, Intact
<1>. DEFINE over == pc = "err" \/ (op = Len_(cur) /\ 1 = left)
            r == IF d.state = "left" THEN [d EXCEPT !.fault = "EPIPE", !.answered = over]
                                     ELSE [d EXCEPT !.sent = @ + 1, !.answered = over]
<1>5. conn' = [conn EXCEPT ![cur] = r]
  BY <1>4, Zenon DEF WriteTakes
<1>6. over \in BOOLEAN /\ d.sent + 1 \in Nat
  BY <1>3 DEF Intact
<1>. HIDE DEF over, d
<1>7. /\ r \in Conn /\ r.at = d.at /\ r.done = d.done /\ r.taken = d.taken
      /\ r.received = d.received
  BY <1>2, <1>6 DEF Conn
<1>. HIDE DEF r
<1>8. Sending(r)
  BY <1>2, <1>7 DEF Sending
<1>. QED  BY <1>1, <1>4, <1>5, <1>7, <1>8, ClearServed

LEMMA ClearAccept ==
    ASSUME ServeInv, Clear, accept
    PROVE  Clear'
<1>1. /\ pc = "accept" /\ queue # << >> /\ op' = 1 /\ pc' = "io" /\ conn' = conn
      /\ queue' = queue /\ queue \in Seq(Clients)
  BY DEF accept, ServeInv, TypeOK
<1>2. 1 \in DOMAIN queue /\ cur = queue[1] /\ cur \in Clients /\ cur' = cur
  BY <1>1, EmptySeq DEF cur
<1>3. Waits(cur)
  BY <1>1, <1>2 DEF Waits
<1>4. Fresh(conn[cur])
  BY <1>2, <1>3 DEF Clear
<1>5. Ready(conn[cur], "io", 1)
  BY <1>4 DEF Ready, Fresh, AfterAuth
<1>6. \A c \in Clients : Queued(c)' => Sending(conn'[c])
  BY <1>1 DEF Clear, Queued
<1>7. \A c \in Clients : Waits(c)' => Fresh(conn'[c])
  BY <1>1 DEF Clear, Waits
<1>. QED  BY <1>1, <1>2, <1>5, <1>6, <1>7 DEF Clear

LEMMA ClearEnd ==
    ASSUME ~TLS, ServeInv, Clear, end
    PROVE  Clear'
<1>1. pc \in {"end", "close"} /\ queue # << >> /\ queue' = Tail(queue) /\ pc' = "accept"
  BY DEF end, ServeInv, AtWork
<1>2. conn \in [Clients -> Conn] /\ cur \in Clients /\ cur = queue[1]
  BY <1>1, Served
<1>3. \A c \in Clients : c # queue[1] => conn'[c] = conn[c]
  BY <1>2 DEF end
<1>4. /\ \A c \in Clients : Queued(c)' <=> Queued(c) /\ c # queue[1]
      /\ \A c \in Clients : Waits(c)' => Waits(c) /\ c # queue[1]
  BY <1>1, ClosedQueue
<1>. QED  BY <1>1, <1>3, <1>4 DEF Clear

LEMMA ClearConnect ==
    ASSUME ServeInv, Clear, NEW c \in Clients, connect(c)
    PROVE  Clear'
<1>1. PICK kind \in {"REG", "REQUEST"} :
        conn' = [conn EXCEPT ![c] = [NoConn EXCEPT !.state = "open", !.kind = kind]]
  BY DEF connect
<1>2. conn[c].state = "none" /\ queue' = Append(queue, c) /\ pc' = pc /\ op' = op /\ left' = left
  BY DEF connect
<1>3. conn \in [Clients -> Conn] /\ ~Queued(c)
  BY <1>2 DEF ServeInv, TypeOK, QueueOK
<1>. DEFINE r == [NoConn EXCEPT !.state = "open", !.kind = kind]
<1>4. Sending(r) /\ Fresh(r)
  <2>1. r.at = 1 /\ r.done = 0 /\ r.received = 0 /\ r.sent = 0 /\ r.taken = 0 /\ r.fault = "none"
    BY NewConn
  <2>. HIDE DEF r
  <2>. QED  BY <2>1 DEF Sending, Fresh, Intact
<1>5. conn' = [conn EXCEPT ![c] = r]
  BY <1>1
<1>. HIDE DEF r
<1>6. conn'[c] = r /\ \A d \in Clients : d # c => conn'[d] = conn[d]
  BY <1>3, <1>5
<1>7. /\ queue # << >> => cur' = cur
      /\ \A d \in Clients : Queued(d)' <=> Queued(d) \/ d = c
      /\ \A d \in Clients : Waits(d)' => Waits(d) \/ d = c
  BY <1>2, <1>3, LongerQueue
<1>8. \A d \in Clients : Queued(d)' => Sending(conn'[d])
  BY <1>4, <1>6, <1>7 DEF Clear
<1>9. \A d \in Clients : Waits(d)' => Fresh(conn'[d])
  BY <1>4, <1>6, <1>7 DEF Clear
<1>10. pc' \in {"io", "err"} => Ready(conn'[cur'], pc', op')
  <2>. SUFFICES ASSUME pc \in {"io", "err"} PROVE Ready(conn'[cur'], pc, op)
    BY <1>2
  <2>1. cur \in Clients /\ conn[cur].state \in {"open", "left"} /\ queue # << >>
    BY Served DEF ServeInv, AtWork
  <2>2. cur # c
    BY <1>2, <2>1
  <2>3. conn'[cur'] = conn[cur]
    BY <1>6, <1>7, <2>1, <2>2
  <2>. QED  BY <2>3 DEF Clear
<1>. QED  BY <1>2, <1>8, <1>9, <1>10 DEF Clear

\* A client that has its connection is in the queue.
LEMMA ClearClient ==
    ASSUME ServeInv, Clear, NEW c \in Clients, conn[c].state = "open"
    PROVE  /\ conn[c] \in Conn /\ conn[c].kind \in {"REG", "REQUEST"} /\ Sending(conn[c])
           /\ conn[c].at \in Nat /\ conn[c].done \in Nat /\ conn[c].sent \in Nat
           /\ conn[c].taken \in Nat /\ conn[c].received \in Nat
BY ConnFields DEF ServeInv, TypeOK, QueueOK, Clear

LEMMA ClearLeave ==
    ASSUME ServeInv, Clear, NEW c \in Clients, leave(c)
    PROVE  Clear'
<1>1. UNCHANGED <<queue, pc, op, left>> /\ conn[c].state = "open"
  BY DEF leave
<1>2. Sending(conn[c]) /\ conn[c].sent \in Nat
  BY <1>1, ClearClient
<1>3. PICK r \in Conn : /\ r.taken = conn[c].taken /\ r.sent = conn[c].sent
                        /\ r.at = conn[c].at /\ r.done = conn[c].done
                        /\ r.received = conn[c].received
                        /\ r.fault = IF conn[c].sent = 0 THEN conn[c].fault ELSE "ECONNRESET"
                        /\ conn' = [conn EXCEPT ![c] = r]
  BY LeaveStep
<1>4. Sending(r)
  BY <1>2, <1>3 DEF Sending
<1>5. Fresh(conn[c]) => Fresh(r)
  BY <1>3 DEF Fresh, Intact
<1>6. Ready(conn[c], pc, op) => Ready(r, pc, op)
  BY <1>3 DEF Ready, Intact
<1>. QED  BY <1>1, <1>3, <1>4, <1>5, <1>6, ClearTied

LEMMA ClearSend ==
    ASSUME ~TLS, REPLY =< SOCKBUF, ServeInv, Clear, NEW c \in Clients, send(c)
    PROVE  Clear'
<1>. DEFINE d == conn[c]
            s == Script(d.kind)
<1>1. /\ Reached(c, "read") /\ Advances(c, "received", 1)
      /\ UNCHANGED <<queue, pc, op, left>>
  BY DEF send
<1>2. /\ d.state = "open" /\ d.at =< Len(s) /\ s[d.at].io = "read"
  BY <1>1, ReachedFacts DEF Len_
<1>3. /\ d.kind \in {"REG", "REQUEST"} /\ Sending(d) /\ d.at \in Nat /\ d.done \in Nat
      /\ d.sent \in Nat /\ d.taken \in Nat /\ d.received \in Nat
  BY <1>2, ClearClient
<1>4. /\ Len(s) \in {3, 6} /\ s[1].size = 1 /\ s[2].size = BODY /\ s[3].io = "write"
  BY <1>3, ClearEntries
<1>5. PICK r \in Conn :
        /\ r.taken = d.taken /\ r.fault = d.fault /\ r.received = d.received + 1
        /\ r.sent = d.sent
        /\ IF d.done + 1 = s[d.at].size THEN r.at = d.at + 1 /\ r.done = 0
                                        ELSE r.at = d.at /\ r.done = d.done + 1
        /\ conn' = [conn EXCEPT ![c] = r]
  <2>1. conn[c].received + 1 >= 0
    BY <1>3
  <2>2. \E r \in Conn :
             /\ r.taken = conn[c].taken
             /\ r.fault = conn[c].fault
             /\ r.received = conn[c].received + 1
             /\ r.sent = conn[c].sent
             /\ IF conn[c].done + 1 = Script(conn[c].kind)[conn[c].at].size
                THEN r.at = conn[c].at + 1 /\ r.done = 0
                ELSE r.at = conn[c].at /\ r.done = conn[c].done + 1
             /\ conn' = [conn EXCEPT ![c] = r]
    BY <1>1, <1>2, <2>1, Advanced DEF Len_
  <2>. QED  BY <2>2
<1>6. d.at # 3 /\ d.at # 0
  BY <1>2, <1>3, <1>4 DEF Sending
<1>. HIDE DEF d, s
<1>7. BODY \in Nat /\ BODY # 0
  BY ServeSizes
<1>8. r.at = d.at \/ r.at = d.at + 1
  BY <1>5
<1>9. Sending(r)
  <2>1. CASE d.at = 1
    <3>1. d.done = 0 /\ d.taken + d.received = 0
      BY <1>3, <2>1 DEF Sending
    <3>2. r.at = 2 /\ r.done = 0 /\ r.taken + r.received = 1
      BY <1>3, <1>4, <1>5, <2>1, <3>1
    <3>. QED  BY <1>7, <3>2 DEF Sending
  <2>2. CASE d.at = 2
    <3>1. d.done < BODY /\ d.taken + d.received = 1 + d.done
      BY <1>3, <2>2 DEF Sending
    <3>2. r.taken + r.received = 1 + (d.done + 1)
      BY <1>3, <1>5, <3>1
    <3>3. CASE d.done + 1 = BODY
      <4>1. r.at = 3
        BY <1>4, <1>5, <2>2, <3>3
      <4>. QED  BY <3>2, <3>3, <4>1 DEF Sending
    <3>4. CASE d.done + 1 # BODY
      <4>1. r.at = 2 /\ r.done = d.done + 1
        BY <1>4, <1>5, <2>2, <3>4
      <4>2. d.done + 1 < BODY
        BY <1>3, <1>7, <3>1, <3>4
      <4>. QED  BY <3>2, <4>1, <4>2 DEF Sending
    <3>. QED  BY <3>3, <3>4
  <2>3. CASE d.at > 3
    BY <1>3, <1>8, <2>3 DEF Sending
  <2>. QED  BY <1>3, <1>6, <2>1, <2>2, <2>3
<1>10. (d.at =< 3 => r.at =< 3) /\ (r.at > 3 => d.at > 3)
  BY <1>3, <1>6, <1>8
<1>11. Fresh(d) => Fresh(r)
  BY <1>5, <1>10 DEF Fresh, Intact
<1>12. Ready(d, pc, op) => Ready(r, pc, op)
  BY <1>5, <1>10 DEF Ready, Intact
<1>. QED  BY <1>1, <1>2, <1>5, <1>9, <1>11, <1>12, ClearTied DEF d

LEMMA ClearReceive ==
    ASSUME ~TLS, REPLY =< SOCKBUF, ServeInv, Clear, NEW c \in Clients, receive(c)
    PROVE  Clear'
<1>. DEFINE d == conn[c]
            s == Script(d.kind)
<1>1. /\ Reached(c, "write") /\ Advances(c, "sent", -1) /\ d.sent > 0
      /\ UNCHANGED <<queue, pc, op, left>>
  BY DEF receive
<1>2. /\ d.state = "open" /\ d.at =< Len(s) /\ s[d.at].io = "write"
  BY <1>1, ReachedFacts DEF Len_
<1>3. /\ d.kind \in {"REG", "REQUEST"} /\ Sending(d) /\ d.at \in Nat /\ d.done \in Nat
      /\ d.sent \in Nat /\ d.taken \in Nat /\ d.received \in Nat
  BY <1>2, ClearClient
<1>4. /\ Len(s) \in {3, 6} /\ s[1].io = "read" /\ s[2].io = "read"
  BY <1>3, ClearEntries
<1>5. PICK r \in Conn :
        /\ r.taken = d.taken /\ r.fault = d.fault /\ r.received = d.received
        /\ r.sent = d.sent + (-1)
        /\ r.at = d.at + 1 \/ r.at = d.at
        /\ conn' = [conn EXCEPT ![c] = r]
  <2>1. conn[c].sent + (-1) >= 0
    BY <1>1, <1>3
  <2>2. \E r \in Conn :
             /\ r.taken = conn[c].taken
             /\ r.fault = conn[c].fault
             /\ r.received = conn[c].received
             /\ r.sent = conn[c].sent + (-1)
             /\ r.at = conn[c].at + 1 \/ r.at = conn[c].at
             /\ conn' = [conn EXCEPT ![c] = r]
    BY <1>1, <1>2, <2>1, Advanced DEF Len_
  <2>. QED  BY <2>2
<1>6. d.at >= 3
  <2>1. d.at # 0 /\ d.at # 1 /\ d.at # 2
    BY <1>2, <1>3, <1>4 DEF Sending
  <2>. QED  BY <1>3, <2>1
<1>. HIDE DEF d, s
<1>7. Sending(r)
  <2>1. CASE r.at = 3
    <3>1. d.at = 3
      BY <1>3, <1>5, <1>6, <2>1
    <3>. QED  BY <1>3, <1>5, <2>1, <3>1 DEF Sending
  <2>2. CASE r.at > 3
    BY <2>2 DEF Sending
  <2>. QED  BY <1>3, <1>5, <1>6, <2>1, <2>2
<1>8. ~Intact(d)
  BY <1>1, <1>3 DEF Intact, d
<1>9. d.sent =< 1 => r.sent = 0
  BY <1>1, <1>3, <1>5 DEF d
<1>10. Ready(d, pc, op) => Ready(r, pc, op)
  <2>. SUFFICES ASSUME Ready(d, pc, op), pc = "io", op = AfterAuth
                PROVE  Ready(r, pc, op)
    BY <1>8 DEF Ready
  <2>. QED  BY <1>5, <1>9 DEF Ready, AfterAuth
<1>. QED  BY <1>1, <1>2, <1>5, <1>7, <1>8, <1>10, ClearTied DEF d, Fresh

(***************************************************************************)
(* The theorem on clients that leave.                                      *)
(***************************************************************************)
LEMMA ClearInit == Init => Clear
<1>. SUFFICES ASSUME Init PROVE Clear
  OBVIOUS
<1>1. DOMAIN queue = {} /\ pc = "accept"
  BY DEF Init
<1>. QED  BY <1>1 DEF Clear, Queued, Waits

LEMMA ClearNext ==
    ASSUME ~TLS, REPLY =< SOCKBUF, ServeInv, Clear, [Next]_vars
    PROVE  Clear'
<1>1. CASE UNCHANGED vars
  BY <1>1 DEF vars, Clear, Queued, Waits, cur
<1>2. CASE accept
  BY <1>2, ClearAccept
<1>3. CASE read_some
  BY <1>3, ClearRead
<1>4. CASE read_fails
  BY <1>4, ClearReadFails
<1>5. CASE write_some
  BY <1>5, ClearWrite
<1>6. CASE send_err
  BY <1>6, ClearErr
<1>7. CASE end
  BY <1>7, ClearEnd
<1>8. ASSUME NEW c \in Clients, Client(c) PROVE Clear'
  BY <1>8, ClearConnect, ClearSend, ClearReceive, ClearLeave DEF Client
<1>. QED  BY <1>1, <1>2, <1>3, <1>4, <1>5, <1>6, <1>7, <1>8 DEF Next, Server

\* A server in the clear survives every client that leaves, at whatever moment, as long as
\* an answer fits in the socket buffers: it never writes to a connection it has found
\* broken, on which SIGPIPE would end it.
THEOREM ServerSurvives ==
    ASSUME ~TLS, REPLY =< SOCKBUF
    PROVE  Spec => []ServerAlive
<1>1. Init => ClearInv
  BY ServeInit, ClearInit DEF ClearInv
<1>2. ClearInv /\ [Next]_vars => ClearInv'
  BY ServeNext, ClearNext DEF ClearInv
<1>3. ClearInv => ServerAlive
  BY DEF ClearInv, Clear, ServerAlive
<1>. QED  BY <1>1, <1>2, <1>3, PTL DEF Spec

================================================================================
