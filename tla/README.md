# A verification project for Paroles

Paroles is a small message service in C: `paroles_server` (`src/src/server.c`)
keeps users, groups and their threads of *billets* and replies in memory, and
`paroles_client` (`src/src/client.c`) sends it one request per TCP connection and
listens to UDP and multicast notifications. TLS and Ed25519 authentication are
options. The repository also keeps the program as it was delivered step by step
(`src/Projets/CHRONO_livrable_68`): deliveries 16 to 33 are complete servers and
clients. This directory holds TLA+ modules that model the program and those
deliveries, TLC configurations that check them on small instances, and TLAPS proofs.

Paths such as `src/src/server.c` are the repository's, `src/` being its root.

## 1. The system

| component | code | state | operations |
|---|---|---|---|
| tables and handlers | `server.c` 31-598, 668-758 | `users[]`, `groups[]` (members, pending, posts, feed), `next_uid`, `next_gid` | REG, NEW_GROUP, INVITE, LIST_INV, INV_ANS (0 decline, 1 accept, 2 leave), LIST_MEM, POST, REPLY, FEED |
| authenticated sessions | `server.c` 600-666, 846-858; `client.c` 32-203 | `auth_nonce` and `cle` of each user, `sess_uid`; the files `/tmp/paroles_nonce_<port>_<uid>` | AUTH, AUTH_OK, the request that follows; reading and writing the file |
| accept loop, connection service | `server.c` 816-932, `net.c`, `tls_io.c` | the connection being served, the kernel's accept queue | accept, `readn`/`writen` and their SSL twins, timeouts, `send_err`, close |
| wire encoding | `wire.c`, `server.c` 760-814, `client.c` | none | integers of 2 and 4 bytes, requests, framing, the answer to FEED |
| client commands | `client.c` 56-104, 227-453 | a connection, what was answered | one command is one process and one connection |
| notification listeners | `client.c` 455-504 | a socket and a deadline | receive, print |
| deliveries 16 to 33 | `CHRONO_livrable_68/<n>/serveur_complet_*.c`, `client_complet_*.c` | the tables, with lists of fixed size | the requests served so far |
| start-up, key and certificate files | `main()` of both, `tls_io.c` 6-35, `auth_ed25519.c` | options | runs once |

The server has one thread: a connection is served to its end before the next is
accepted, so the handlers are atomic with respect to each other. The concurrency
is elsewhere: client processes run beside each other and share nonce files
without a lock; a client can time out, be killed or be slow at any moment of its
connection, and what it has sent stays in the queue and is carried out later; UDP
notifications leave before the TCP reply and may be late, doubled, reordered or lost. Nothing is persisted by the
server: a restart gives the same numbers to other people, while the clients' files stay.

What is hard, and what makes each part correct:

* **Tables.** Failures in the middle of a request (an unknown invitee, a `malloc`
  that fails after a number was taken), entries that are never freed, closed groups
  that stay in the table. Correct means: numbers, ports and addresses name one entry for
  ever, membership follows from people's own decisions, history is only appended to, the
  feed's numbering is consistent, an ERR leaves nothing behind, notifications go to whom
  they concern. All of it together: the server is the service people expect.
* **Sessions.** The number is counted at different moments by server and client.
  Correct means: a session belongs to the holder of the registered key, the file is
  written by one process at a time and stays in step, commands end.
* **Service.** One slow client against all others. Correct means: requests are read
  whole, every connection is closed, whoever sends in time is answered, and no client
  takes the server down.
* **Commands.** A command that was given up may still be carried out, before or after
  the ones typed later; lengths and numbers are cut to the width of their fields. Correct
  means: the server understands what was typed, nothing acknowledged is missing, the last
  answer stays true, what is printed or heard is true, the exit status tells refusals.
* **Deliveries.** Lists of fixed size, requests undone after a failed allocation, clients
  and servers of different deliveries. Correct means: each delivery is the same service,
  nothing acknowledged is missing from the feed, later servers serve earlier clients.

The full list of hazards, each at its line with the properties that cover it, is in
`PROJECT.json`.

## 2. The modules

| module | models | checked by |
|---|---|---|
| `ParolesServer` | the tables and every handler | `MCServer`, runs *server*, *zero_zero* |
| `FeedReader` | members paging through a feed with `cmd_feed`; extends `ParolesServer` | `MCReader`, run *reader* |
| `ParolesService` | what the service promises, without tables | as the abstract side of the two refinements |
| `ParolesServerService` | the refinement mapping from `ParolesServer` to it | `MCServer`, run *server*; proved |
| `ParolesAuth` | server sessions and client processes with their nonce files | `MCAuth`, runs *auth_calm*, *auth_faults*, *auth_lockout* |
| `ParolesServe` | the accept loop and the reads and writes of a connection | `MCServe`, runs *serve_clear*, *serve_tls*, *serve_large* |
| `ParolesWire` | requests and the answer to FEED in bytes; operators only | `MCCommands`, through `ParolesCommands` |
| `ParolesCommands` | people who run commands and listeners; composes `ParolesServer` and `ParolesWire` | `MCCommands`, runs *commands*, *commands_status* |
| `ChronoServer` | servers and clients of deliveries 16 to 33; extends `ParolesServer` | `MCChrono`, run *chrono* |
| `ChronoService` | the refinement mapping from them to `ParolesService` | `MCChrono`, run *chrono*; proved |
| `ParolesServerProofs` | its types, inductive invariant, safety and action theorems | TLAPS |
| `ParolesServerRefinement` | that `ParolesServer` implements `ParolesService` | TLAPS |
| `FeedReaderProofs` | that paging through a feed misses nothing | TLAPS |
| `ParolesAuthProofs` | who owns a session and writes a nonce file | TLAPS |
| `ParolesServeProofs` | that reads are whole and the server survives | TLAPS |
| `ParolesWireProofs` | that requests and pages are read as they were written | TLAPS |
| `ParolesCommandsProofs` | all that *commands* checks | TLAPS |
| `ChronoProofs` | that every delivery implements `ParolesService`, and serves earlier clients | TLAPS |

Operators whose name ends in an underscore and a word (`Room_OffByOne`) are
slips that a change of the code could introduce. No specification uses them: each stands
for the operator named before the underscore, to see that a property would notice.

### ParolesServer

`users` and `groups` are the used entries of the two tables in slot order; since the
code never frees an entry, sequences are exact. A group record keeps the code's field
names; member and pending lists are sets, because the code keeps them free of
duplicates and no property depends on their order. Each handler is an operator with
its code's name and is one step, reply and datagrams included: `reply` and `sent`
are what the last request produced. Handlers that return -1 before changing anything
are `Refused`; those that fail later say what they had changed (`handle_invite`,
`handle_new_group`, `accept`, `handle_post`, `handle_reply`). `BadRequest` stands for
the requests turned down by framing. With `SigningKey` the caller is a registered
user (what `do_client_auth` guarantees, see `ParolesAuth`); without it any number is.
`AllocMayFail` lets `malloc` of names, bodies and feed items fail; the server's
`realloc` calls of the arrays are not checked by the code and are taken to succeed.
`sent` is a set: two equal datagrams of one request count once.

### ParolesAuth

A client process goes through `pc`: `read_nonce` (connected, file not read),
`auth_ok` (AUTH sent), `write_nonce` (AUTH_OK read and the file emptied by `fopen`),
`send`, `reply`. Leaving at any point, by `timeout` or `kill`, leaves the connection
in `backlog` with `client = None` and what had been sent. The server's `stage` is
what it awaits on the head of the queue. Time is abstracted: a timeout may expire
whenever what is awaited has not come, which over-approximates the 30 s. The person
behind a process is a key; `known` is the uid she was last given, used even after a
restart. All processes run on one machine, as in the project's tests, so one uid is
one file.

### ParolesServe

A connection follows a script, one entry for each `conn_readn` or `conn_writen` of
`serve_client`, with the place a failure leads to (`end`, `err`, or the early return of
`SSL_accept`). Units stand for bytes: `read_some` takes any part of what has arrived,
`Write` what the socket has room for. The kernel's part is stated in the module's
header and is external: in particular a write on a reset connection fails once with
ECONNRESET and raises SIGPIPE after that, or at once if the client had closed in good
order. The several `conn_readn` of one request's body are one entry. TLS is its
blocking calls (no timeout on a read) and the last write of `SSL_shutdown`.

### ParolesService and the refinements

The service has people, circles of people and a thread in each circle, and for every
request an answer and a set of announcements. It says what nobody should have to read in
the tables: who may do what, what it changes, who is told. Three of its steps are not what
one would wish, and are there because the code does them: `Invite` may be refused with
part of it done, `Lose` uses up the number of a post that was refused, and in a full
circle `InviteToFull` and `JoinFull` answer and announce what did not happen. The last two
concern the deliveries only: `Capacity` is more than there are people for the last server.
`ParolesServerService` maps every entry of `groups[]` to a circle. What a failed creation
leaves in the table is an `Abandoned` one: no members, no address to announce anything at,
and `Nobody` for administrator, which is the number 0 that no user has. Over clear TCP a
request may carry that number, and then the abandoned circle comes to life: `Nobody` invites
people into it, and it works like another for those who accept, except that nothing is
announced (its multicast address and port were never set, so `notif_mcast` reaches nobody).
The refinement covers these behaviours too, for every set of callers. One of them ends it:
`handle_list_inv` gives the `NULL` name of that group to `strlen`, so a LIST_INV of somebody
pending there is the server's last step (`Nameless`; `ChronoServer` has it as a crash).

### ParolesWire and ParolesCommands

A byte is a number below `BYTE`, so integers wrap as the code's do. `Read(code, Sent(c))`
is what the handlers find in the bytes `cmd_*` wrote for command `c`: framing by
`serve_business_switch` (`Header`, `Announced`, the limit `MAX_NB`), then the fields at
their offsets. `Printed` is `cmd_feed` on whatever part of the answer has arrived.

In `ParolesCommands` a person types a command, its bytes enter the accept queue, and the
person waits or gives up; the server takes connections in order and carries out what it
reads, also for clients that have gone. `word` is what the last answer about membership
settled. The answer's body is built in bytes for POST and FEED, the two whose contents the
client uses.

Two commands put their request together in a buffer on the stack without looking at its
size: `cmd_newgroup` in `msg[512]`, `cmd_invite` in `msg[2048]` (`NEWGROUP_MSG` and
`INVITE_MSG`). People type names and lists that fit and others just too long (`LongName`,
`Crowd`). A request that does not fit (`Fits`) is written over the stack: the command may
end without having sent anything (`overflows`), or send it. What it would otherwise do is
outside TLA+, and nothing is promised about it: `RequestsUnderstood` is about requests that
fit.

Datagrams are in `net` from the moment they are sent, and stay there: a listener that runs
may receive any of them at any time, in any order, more than once or never, also those sent
before it started. `item` in a `Packet` is not on the wire. It says which item a NEW_MSG was
sent for, so that properties can say what somebody who hears it may conclude: that the feed
has that item (`HeardTrue`), and that asking for the feed will show it (`AnnouncedIsRead`;
`knew` is what the person had been told when typing).

### ChronoServer and ChronoService

A behaviour is one server, `delivery`, asked by clients of any delivery. `serve_16` to
`serve_33` are the request codes each `serve_one_codereq` knows and the widths of the
fields it reads, `sends_16` to `sends_33` the same as the `cmd_*` functions write them, and
`main_16` to `main_33` the commands `main` accepts with their numbers of words. The
handlers are those of `ParolesServer` where the code does the same, and their own where it
does not: members and invitees in arrays of `MAX_GM`, an address conflict that gives the
entry back, a post or reply undone when `feed_push` fails, the array of the feed that a
failed `calloc` leaves announced but missing (`array`, `Crash`). Where the last server
sends ERR these close the connection; `reply.code = "ERR"` stands for that too. (0,0) in
FEED is the whole feed there. A client that keeps too little of an answer it accepts fails
(`MayFail`: 8192 bytes of a list, 65536 of a feed, names below 512 bytes), and so may one
whose `newgroup` overflowed its buffer. Deliveries 26 to 33 do the same to the tables; `readn` has a
limit of 30 s from 32 on, which is `ParolesServe`'s subject.
`++` puts the entries of two functions together, those of the first where both have one (the
standard `@@` belongs to `TLC`, whose operators have no definition a proof could expand).
`ChronoService` adds the history variable `thread`, what was acknowledged in order, since
deliveries 24 and 25 number posts and keep no feed.

## 3. The runs

Every run keeps its tables small because the properties relate at most two entries;
the bounds are chosen so that the last entry, a reused number or a second writer does
occur.

| run | bounds | shows |
|---|---|---|
| *server* | 2 users, a third caller who never registers (the number 0 calls in *chrono*), 2 groups, 2 invitees, 1 billet, failing `malloc`, no key | `IdsNameOneEntry`, `PortsDistinct`, `MembersRegistered`, `GhostInert`, `HistoryKept`, `ErrorsHarmless`, `OwnDecisions`, `ChangesAnnounced`, and the refinement `ImplementsService`, with both tables full |
| *reader* | 2 users, 1 group, 2 billets with 2 replies each, one reader | `TypeOK`, `FeedNumbered`, `FeedComplete`, `DatagramsAddressed`, and `ReadInOrder`: paging misses and repeats nothing after the first billet |
| *zero_zero* | 1 user, 1 group | violated: FEED from (0,0) on a feed of one billet is answered with an empty list |
| *auth_calm* | 3 processes, 1 user, up to 2 numbers, no fault | `TypeOK`, `InSync`, and the liveness property `CommandsEnd` |
| *auth_faults* | 2 processes, 2 people, 1 uid, timeouts, kills, 1 restart | `SessionOwned`, `SingleWriter`, `FileBehind` |
| *auth_lockout* | 2 processes, 1 user, timeouts | violated: NUM does not follow the accepted connections |
| *serve_clear* | 2 connections, AUTH and request of 1+2 units, answers that fit | `TypeOK`, `WholeReads`, `ServerAlive`, and the liveness properties `ConnectionsClose` and `Answered` |
| *serve_tls* | 2 connections that stay, TLS | violated: a silent client stops the server |
| *serve_large* | 2 connections, answer twice the socket's room | violated: the error path's write raises SIGPIPE |
| *commands* | 2 people with 2 commands each, one of whom makes groups and invites (`Hosts`), bytes below 3, texts of 1 byte and of 9 (2^16 there), buffers with room for one letter of a name and one invitee, a queue of 2, 1 listener, any delay of datagrams | `CommandsTypeOK`, `RequestsUnderstood`, `WritingsAccounted`, `LastWordStands`, `PagesTrue`, `NumberTrue`, `HeardTrue`, `AnnouncedIsRead` |
| *commands_status* | the same | violated: LIST_MEM refused ends with status 0 |
| *chrono* | deliveries 16 to 33, clients 16 and 33, 3 users and the caller 0, 1 group with room for 2, 1 post, 1 reply, 2 invitees, failing `malloc` | `ClientsServed`, `ExitTellsOutcome`, `NothingNumberedInVain`, `FeedIsAcknowledged`, and the refinement `DeliveriesImplementService` |

The runs with tables use a `VIEW` on what the next step depends on. `reply` and `sent` are
outputs no handler reads, so states that differ only in them have the same future;
properties about them are action properties, which TLC evaluates on every step, also those
that lead to a known view. (The typing of `reply` and `sent` on every state is proved, as
is each of these properties.) The view of *commands* also leaves out the datagrams that no
listener's line is about, and what somebody had been told (`knew`) when the command is not
FEED.
*auth_faults* uses symmetry on processes and keys, which no operator tells apart; runs
with liveness use none.

*reader* runs without allocation failures, which would make its thread too long to
explore; that failures leave the feed numbered is proved (`FeedAlwaysNumbered`).
In *chrono* the two clients know the fewest and the most commands; `ClientsServed` looks
at all of them. A group of two among three people is what makes its lists full.

`MaxBillets`, `MaxReplies`, `MaxInvitees`, `MaxRuns`, `MaxNum`, `MaxBacklog` and
`MaxRestarts` are bounds in guards, with `Words` for the command line of the deliveries.
One machine's arithmetic (`next_uid` wrapping at 2^32) is out of reach of the tables: 1024
users are refused long before.

**Fairness.** `ParolesAuth` asks that a process that can go on does, and the server
too (operating-system scheduling); nobody has to start a command and no timeout has to
expire. `ParolesServe` asks only that the server goes on when it can: `poll` comes back
within 30 s, and nothing at all is asked of the clients.

**Deadlock** is checked except in the *serve* runs, where each client connects once and
the server then waits in `accept` for good, and in *chrono*, where a server may crash.

## 4. What the code does not do as documented

1. `FEED` from `(0,0)` (run *zero_zero*): the checklist (:306) calls it the whole feed, and
   the guide (:706) « depuis le tout début »; it is what follows the first billet. The run
   shows a group with one billet answered FEED_OK and an empty list. The guide's § 9.3 (:988)
   describes what the code does, so the documents disagree among themselves; deliveries 26
   to 33 do what the checklist says.
2. Lockout (run *auth_lockout*): a client that gives up after its AUTH was sent, and
   before it has written its file, is one number behind for ever.
3. TLS waits (run *serve_tls*): `SSL_accept` and `SSL_read` have no timeout.
4. SIGPIPE (run *serve_large*): `send_err` after a failed write ends the process. The
   kernel's sequence (partial write, ECONNRESET, EPIPE) is what Linux does on loopback,
   with room for about 4 MB between writer and reader.
5. Exit status (run *commands_status*): `listmem` and `listinv` do not look at the code of
   the answer; an ERR is printed as an empty list, with status 0. In the deliveries the
   same commands fail for want of bytes, since those servers only hang up
   (`ExitTellsOutcome` holds in *chrono*: 0 only if the server answered).

## 5. The proofs

Every safety invariant, action property and refinement that a passing run checks is also
a theorem, for every value of the constants under the named assumptions of the modules.
The theorems are in eight modules.

| module | theorems | invariant they rest on |
|---|---|---|
| `ParolesServerProofs` | `TypeCorrect`, `NumbersUnique`, `MembersAlwaysRegistered`, `FeedAlwaysNumbered`, `FeedAlwaysComplete`, `GhostsStayInert`, `PortsAlwaysDistinct`, `DecisionsAlwaysOwn`, `HistoryAlwaysKept`, `ErrorsAlwaysHarmless`, `ChangesAlwaysAnnounced`, `DatagramsAlwaysAddressed` | `IInv` |
| `ParolesServerRefinement` | `ServerImplementsService` | `SInv` |
| `FeedReaderProofs` | `ReadersMissNothing` | `ReaderInv` |
| `ParolesAuthProofs` | `TypeCorrect`, `SessionsAreOwned`, `OneWriter`, `FileIsBehind`, `StaysInSync` | `Sessions`, `IInv`, `CalmInv` |
| `ParolesServeProofs` | `ServeTypes`, `ReadsAreWhole`, `ServerSurvives` | `ServeInv`, `ClearInv` |
| `ParolesWireProofs` | `EveryRequestRead`, `PagesArePrefixes` | (about operators) |
| `ParolesCommandsProofs` | `CommandsTypes`, `RequestsAlwaysUnderstood`, `WritingsAlwaysAccounted`, `LastWordAlwaysStands`, `PagesAlwaysTrue`, `NumbersAlwaysTrue`, `HeardAlwaysTrue`, `AnnouncedAlwaysRead` | `CmdInv` |
| `ChronoProofs` | `ClientsAlwaysServed`, `ExitAlwaysTellsOutcome`, `DeliveriesImplementTheService`, `FeedAlwaysAcknowledged`, `NothingAlwaysNumberedInVain` | `CInv` |

**The tables** (`ParolesServerProofs`). Every handler keeps the types, action by action,
and the tables never outgrow their sizes (`TypeCorrect`). Then `NextShape` shows that every
step does one of four things to the tables: nothing, a new user, a new group, or one of
seven steps of one open group (`GroupStep`). The inductive invariant, proved shape by
shape, is

    IInv == TypeOK /\ Counters /\ IdsNameOneEntry /\ MembersRegistered
            /\ FeedNumbered /\ GhostInert

`Counters` (each counter is one past its table) is what makes a new number fresh and is
not part of any property. `GhostInert` needs `MembersRegistered` and `IdsNameOneEntry`:
uid 0 is the administrator of a ghost entry, and no registered user has it. The feed's
numbering is proved by one lemma for each way a group changes (`NumberedPost`,
`NumberedReply`, `NumberedOthers`). `PortsAlwaysDistinct` adds that every number is its
slot (`SlotsNumbered`), so that numbers modulo a range at least as long as the table
differ, and that reading decimal digits as hexadecimal ones keeps numbers below 10000
apart (`Digits`). `FeedAlwaysComplete` is inductive with `IInv` under the hypothesis that
no allocation fails: each number given is in the feed (`Unbroken`). The action theorems
(`DecisionsAlwaysOwn`, `HistoryAlwaysKept`, `ErrorsAlwaysHarmless`,
`ChangesAlwaysAnnounced`, `DatagramsAlwaysAddressed`) need the answer and the datagrams as
well as the tables, so the last three go handler by handler.

**The service** (`ParolesServerRefinement`). Initial states map to initial states, and
every step maps, handler by handler, to a step of the service or to a stutter. `SInv` adds
to `IInv` what makes the mapping work: a number is the slot of its entry, and an entry
without name comes from a failed allocation. Finite cardinalities give the room of a
circle (`SameCount`, `Room`).

**Readers** (`FeedReaderProofs`). `ReadersMissNothing` says that a reader sees each item
after the first once and in order, whatever the others write between two pages and
wherever a page is cut. `FeedNumbered` alone does not give it: it says that a cursor names
one position, but the first request's cursor (0,0) was not read from the feed, and nothing
in `FeedNumbered` says that the entry numbered (0,0) is the first one. `ReaderInv` adds
`BilletsOpen` (a billet comes after items of earlier billets only) and `GotNothingYet` (as
long as no group has the number asked for, nothing has been read under it).

**Sessions** (`ParolesAuthProofs`). With timeouts, kills and restarts, sessions belong to
the registered key. `Sessions` adds to this what connects a process, its connection and
what is on the way to it (`Processes`, `Linked`). For `OneWriter` and `FileIsBehind` the
invariant `IInv` adds, for the server's first run, that the file of each uid is at most one
behind the number n the server expects (or empty), that n waits in the queue only if the file
holds it, and that whoever may write the file was accepted with n - 1 and is alone
(`Numbers`). `StaysInSync` is about the calm system:
its hypotheses (no timeout, no kill, no restart) are the setting of *auth_calm*, and
*auth_lockout* shows that it needs the first of them.

**Connections** (`ParolesServeProofs`). `ReadsAreWhole` needs that a client is in the queue
once (`QueueOK`), that the server is inside the script of whom it serves (`AtWork`) and that
nobody has been read from before his turn (`Untouched`). `ServerSurvives` has two hypotheses,
no TLS and answers that fit the socket buffer; *serve_large* shows that the second is
needed. Its invariant `ClearInv` says that nothing is on its way to a client and no write
has gone astray when the server is about to write, except between AUTH_OK and the request
that follows.

**Bytes** (`ParolesWireProofs`). `EveryRequestRead`: for every base of at least three, what
the handlers read in the bytes of a request that fits its buffer is the command typed, its
text cut to the width of its length field. `PagesArePrefixes`: whatever part of the answer to FEED arrives,
`cmd_feed` prints a prefix of its items, each whole, and at least one as soon as the first
has arrived. Framing and printing are recursive functions; the induction theorems of the
library take an operator as parameter and are out of reach, so each such function is
characterised through the least counterexample (`LeastNat`), which is a first-order
argument.

**Commands** (`ParolesCommandsProofs`). `CmdInv` joins the server's `IInv`, restricted to the
one group people talk about (`Talk`), with the queue (`Connected`), the people (`Peopled`),
the texts, the datagrams (`NetOK`), the listeners (`EarOK`) and, for each person, what an answer that has not been read
yet must say (`Mailed`, `Posted`, `Paged`, `Worded`) and the account of writings typed, given
up, acknowledged and in the feed (`Counted`). `Live` is the part that carries the
ordering: a person who waits has nothing behind her own connection in the queue, so the last
answer she reads is about the last command carried out for her. A datagram is true when it is sent and
stays true, since the feed only grows and a closed group stays closed (`NetOK`): that is why
its delay, its copies and its order do not matter. What a request does to the
group is said once for all requests (`FeedEffect`, `PostsEffect`, `FetchEffect`).

**Deliveries** (`ChronoProofs`). `ClientsAlwaysServed` compares the tables of requests of any
two deliveries: the 18 of them are collapsed into the few that differ. `CInv` says, for
each group, its thread, the delivery and the registered people (`Good`), what `IInv` says of
a group, but of the *thread*: deliveries 24 and 25 number posts and keep no feed, so
`Numbered` and `Unbroken` are stated of the group shown with its thread as feed, and the
feed is the thread from 26 on and empty before. One lemma per handler proves
`CInv' /\ Service!Next`. Three steps are worth a look: an INVITE that does not fit keeps a
prefix of the invitees, and either all of them or exactly a full list (`Fitting`); the pairs
of address and port never conflict while numbers are within the port range (`NoConflict`),
which makes the code's conflict branch unreachable; and a reply undone gives the group
back (`CountedSame`). `FeedAlwaysAcknowledged` and `NothingAlwaysNumberedInVain` follow from
`CInv`.

### Assumptions

Each is an `ASSUME` of the module that declares the constants, and TLC evaluates it.

* `ParolesServer`: sizes and bounds are naturals, callers are naturals, the port ranges are
  at least as large as the tables (45000 and 30000 against 1024 and 512), fewer than 10000
  groups. `FeedReader`: readers are callers.
* `ParolesAuth`, `ParolesServe`: sizes are positive, switches are Booleans.
* `ParolesWire`: `BYTE > 2`, since a byte holds the three answers to an invitation;
  `WireLimits` and `Buffers`: the limits are naturals, the server's count of invitees fits in
  its field, and the client's buffers hold a request's header and fewer invitees than the
  server takes (2048 bytes against 8192 invitees of 8).
* `ParolesCommands`: the people are the first users and need no session; the numbers they
  reach fit in four bytes (`NumbersFit`); `RequestsInBounds` says that the bounds of the
  tables leave room for the requests typed.
* `ChronoServer`: deliveries are 16 to 33, lists have at least one place.

### Model-checked only

* `CommandsEnd` (*auth_calm*), `ConnectionsClose` and `Answered` (*serve_clear*): liveness
  under fairness, which TLAPS does not prove, since fairness is about ENABLED.
* The five violations, which are counterexamples of TLC.

## 6. Not modelled

* The lists of names in JOIN_OK, LIST_MEM_OK and LIST_INV_OK, hence their 8192 bytes, and
  the names of 256 bytes and more that `cmd_listinv` copies into `gn[256]` (client.c:315).
* What a write past a local buffer does, beyond ending the process.
* The comparison of a request's uid with its session in `dispatch` (server.c:670-676) as a
  step of its own: `ParolesServer` takes it as made (`Session`), and the requests of
  `ParolesAuth` carry no uid.
* The output of the client, the parsing of its options, OpenSSL and Ed25519 themselves,
  key and certificate files, start-up.
* Broken connections of the deliveries, and their SIGPIPE: one request of one client is
  served at a time there; what a connection can do is in `ParolesServe`, for the last server.
* Deliveries 10 to 15 and 34 to 63, which are extracts of a few lines and not programs,
  and the archive of an earlier state, which nothing builds.
* Test scripts and documents, which are read for what they say of the program.

`PROJECT.json` gives the reason for each component.

## 7. What is left

1. *Connections of the deliveries.* `readn` without a limit before delivery 32, and their
   SIGPIPE, as a second instance of `ParolesServe`'s scripts.
2. *An abstract specification of sessions.* What AUTH promises (a session opens to the
   holder of a key, once per number), with `ParolesAuth` shown to implement it.
3. *An abstract specification of commands.* `ParolesCommands` as a mailbox in which each
   command happens at most once, at some moment after it was typed.
4. *The tables together with sessions.* `ParolesServer` has `SigningKey` stand for the
   session; composing the two would make that an invariant of the composition.
