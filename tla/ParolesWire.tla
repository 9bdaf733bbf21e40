------------------------------ MODULE ParolesWire ------------------------------
(***************************************************************************)
(* What goes over a TCP connection: how a command of the client is put in  *)
(* bytes (src/src/client.c, src/src/wire.c), how the server cuts it out of *)
(* the stream and reads it again (serve_business_switch, dispatch and the  *)
(* handlers of src/src/server.c), and the answer to FEED, which the client *)
(* may receive in part.                                                    *)
(*                                                                         *)
(* A byte is a number below BYTE, 256 in the code, so that the integers of *)
(* 2 and 4 bytes wrap where the code's do.  The first byte of a message is *)
(* its code, kept apart under its name; buffers are numbered from 1.       *)
(***************************************************************************)
EXTENDS Integers, Sequences

CONSTANTS BYTE,          \* 256
          MAX_NB,        \* 8192: more invitees than that are refused
          RESP,          \* 65536: bytes of a FEED answer the client keeps
          NEWGROUP_MSG,  \* 512 and 2048: the buffers in which cmd_newgroup
          INVITE_MSG     \* and cmd_invite put their requests together

ASSUME ByteBase == BYTE \in Nat /\ BYTE > 2      \* a byte holds the three answers to an invitation
ASSUME WireLimits == MAX_NB \in 1 .. BYTE * BYTE * BYTE * BYTE - 1 /\ RESP \in Nat
ASSUME Buffers == /\ NEWGROUP_MSG \in Nat /\ NEWGROUP_MSG > 7
                  /\ INVITE_MSG \in Nat /\ 13 =< INVITE_MSG /\ INVITE_MSG < 13 + 8 * MAX_NB

(***************************************************************************)
(* src/src/wire.c                                                          *)
(***************************************************************************)
U16 == 0 .. BYTE * BYTE - 1
U32 == 0 .. BYTE * BYTE * BYTE * BYTE - 1

wire_put_u8(v) == <<v % BYTE>>
wire_put_u16_be(v) == <<(v \div BYTE) % BYTE, v % BYTE>>
wire_put_u32_be(v) ==
    <<(v \div (BYTE * BYTE * BYTE)) % BYTE, (v \div (BYTE * BYTE)) % BYTE,
      (v \div BYTE) % BYTE, v % BYTE>>
wire_put_zeros(n) == [i \in 1 .. n |-> 0]

wire_get_u16_be(b, k) == b[k] * BYTE + b[k + 1]
wire_get_u32_be(b, k) ==
    ((b[k] * BYTE + b[k + 1]) * BYTE + b[k + 2]) * BYTE + b[k + 3]

(***************************************************************************)
(* Slips a change of the code could introduce, each in place of the        *)
(* operator named before its underscore.                                   *)
(***************************************************************************)
Announced_Long(code, b) ==
    IF code = "REPLY" THEN wire_get_u16_be(b, 13) + 1
    ELSE IF code \in {"NEW_GROUP", "POST"} THEN wire_get_u16_be(b, IF code = "POST" THEN 9 ELSE 5)
    ELSE IF code = "INVITE" THEN 8 * wire_get_u32_be(b, 9) ELSE 0

(***************************************************************************)
(* A command, as it is typed and as it is understood                       *)
(***************************************************************************)
Command(code, uid, idg) ==
    [code |-> code, uid |-> uid, idg |-> idg, numb |-> 0, numr |-> 0, an |-> 0,
     ids |-> << >>, text |-> << >>]
Bad == Command("BAD", 0, 0)
CommandType == [code : {"NEW_GROUP", "INVITE", "LIST_INV", "INV_ANS", "LIST_MEM", "POST",
                        "REPLY", "FEED", "BAD"},
                uid : Nat, idg : Nat, numb : Nat, numr : Nat, an : Nat,
                ids : Seq(Nat), text : Seq(Nat)]

\* A text is sent after its length, taken modulo 2^16: a longer text is cut, to nothing
\* when it has exactly 65536 bytes.
Kept(text) == SubSeq(text, 1, Len(text) % (BYTE * BYTE))

(***************************************************************************)
(* The client: the bytes after the code                                    *)
(***************************************************************************)
Text(text) == wire_put_u16_be(Len(text)) \o Kept(text)

\* Each invitee is four bytes and four zeros.
Invitee(uid) == wire_put_u32_be(uid) \o wire_put_zeros(4)
Invitees(ids) ==
    [j \in 1 .. 8 * Len(ids) |-> Invitee(ids[((j - 1) \div 8) + 1])[((j - 1) % 8) + 1]]

\* The request fits in the buffer of its command: msg[512] for the code, the uid, the length
\* and the name, msg[2048] for the code, three numbers and the invitees.  No command looks.
Fits(c) ==
    /\ c.code = "NEW_GROUP" => 7 + Len(Kept(c.text)) =< NEWGROUP_MSG
    /\ c.code = "INVITE" => 13 + 8 * Len(c.ids) =< INVITE_MSG

cmd_newgroup(c) == wire_put_u32_be(c.uid) \o Text(c.text)
cmd_invite(c) == wire_put_u32_be(c.uid) \o wire_put_u32_be(c.idg)
                   \o wire_put_u32_be(Len(c.ids)) \o Invitees(c.ids)
cmd_listinv(c) == wire_put_u32_be(c.uid)
cmd_ans(c) == wire_put_u32_be(c.uid) \o wire_put_u32_be(c.idg) \o wire_put_u8(c.an)
cmd_listmem(c) == wire_put_u32_be(c.uid) \o wire_put_u32_be(c.idg)
cmd_post(c) == wire_put_u32_be(c.uid) \o wire_put_u32_be(c.idg) \o Text(c.text)
cmd_reply(c) == wire_put_u32_be(c.uid) \o wire_put_u32_be(c.idg)
                  \o wire_put_u32_be(c.numb) \o Text(c.text)
cmd_feed_request(c) == wire_put_u32_be(c.uid) \o wire_put_u32_be(c.idg)
                  \o wire_put_u32_be(c.numb) \o wire_put_u32_be(c.numr)

Sent(c) ==
    CASE c.code = "NEW_GROUP" -> cmd_newgroup(c)
      [] c.code = "INVITE"    -> cmd_invite(c)
      [] c.code = "LIST_INV"  -> cmd_listinv(c)
      [] c.code = "INV_ANS"   -> cmd_ans(c)
      [] c.code = "LIST_MEM"  -> cmd_listmem(c)
      [] c.code = "POST"      -> cmd_post(c)
      [] c.code = "REPLY"     -> cmd_reply(c)
      [] c.code = "FEED"      -> cmd_feed_request(c)

(***************************************************************************)
(* The server                                                              *)
(***************************************************************************)
\* serve_business_switch: the bytes read at once for each code, and how many of them
\* announce that more follow.
Header == [NEW_GROUP |-> 6, INVITE |-> 12, LIST_INV |-> 4, INV_ANS |-> 9, LIST_MEM |-> 8,
           POST |-> 10, REPLY |-> 14, FEED |-> 16]
Announced(code, b) ==
    CASE code = "NEW_GROUP" -> wire_get_u16_be(b, 5)
      [] code = "POST"      -> wire_get_u16_be(b, 9)
      [] code = "REPLY"     -> wire_get_u16_be(b, 13)
      [] code = "INVITE"    -> 8 * wire_get_u32_be(b, 9)
      [] OTHER              -> 0

\* The stream b after the code holds a whole request, of a length the server takes.
Whole(code, b) ==
    /\ code \in DOMAIN Header /\ Header[code] =< Len(b)
    /\ code = "INVITE" => wire_get_u32_be(b, 9) =< MAX_NB
    /\ Header[code] + Announced(code, b) =< Len(b)

\* What the handlers read in it.
Fields(code, b) ==
    LET uid == wire_get_u32_be(b, 1)
        end == Header[code] + Announced(code, b)
        c == Command(code, uid, IF code \in {"NEW_GROUP", "LIST_INV"} THEN 0
                                ELSE wire_get_u32_be(b, 5))
    IN  CASE code = "NEW_GROUP" -> [c EXCEPT !.text = SubSeq(b, 7, end)]
          [] code = "INVITE"    -> [c EXCEPT !.ids = [i \in 1 .. wire_get_u32_be(b, 9) |->
                                                        wire_get_u32_be(b, 5 + 8 * i)]]
          [] code = "INV_ANS"   -> [c EXCEPT !.an = b[9]]
          [] code = "POST"      -> [c EXCEPT !.text = SubSeq(b, 11, end)]
          [] code = "REPLY"     -> [c EXCEPT !.numb = wire_get_u32_be(b, 9),
                                             !.text = SubSeq(b, 15, end)]
          [] code = "FEED"      -> [c EXCEPT !.numb = wire_get_u32_be(b, 9),
                                             !.numr = wire_get_u32_be(b, 13)]
          [] OTHER              -> c

\* A group must have a name.  (Bytes after an invitee that are not zero, which no client
\* sends, end handle_invite as an unknown invitee does: see Invited of ParolesServer.)
Sound(code, b) == code = "NEW_GROUP" => Announced(code, b) > 0

Read(code, b) == IF Whole(code, b) /\ Sound(code, b) THEN Fields(code, b) ELSE Bad

(***************************************************************************)
(* The answer to FEED                                                      *)
(***************************************************************************)
\* A line of the feed: an item with its text.
Line(item, text) == [author |-> item.author, numb |-> item.numb, numr |-> item.numr,
                     text |-> text]
LineBytes(l) == wire_put_u32_be(l.author) \o wire_put_u32_be(l.numb)
                  \o wire_put_u32_be(l.numr) \o Text(l.text)

\* handle_feed: the group, how many lines, the lines.
FeedBytes(idg, lines) ==
    LET upto[k \in 0 .. Len(lines)] ==
          IF k = 0 THEN wire_put_u32_be(idg) \o wire_put_u32_be(Len(lines))
          ELSE upto[k - 1] \o LineBytes(lines[k])
    IN  upto[Len(lines)]

\* cmd_feed prints the lines that are whole in what it received, as many as announced
\* at most, and stops at the first one that is not.
LineAt(b, k) == [author |-> wire_get_u32_be(b, k), numb |-> wire_get_u32_be(b, k + 4),
                 numr |-> wire_get_u32_be(b, k + 8),
                 text |-> SubSeq(b, k + 14, k + 13 + wire_get_u16_be(b, k + 12))]
WholeAt(b, k) == k + 13 =< Len(b) /\ k + 13 + wire_get_u16_be(b, k + 12) =< Len(b)
Printed(b) ==
    LET from[k \in 1 .. Len(b) + 1] ==
          IF WholeAt(b, k) THEN <<LineAt(b, k)>> \o from[k + 14 + wire_get_u16_be(b, k + 12)]
          ELSE << >>
        lines == from[9]
        nb == wire_get_u32_be(b, 5)
    IN  IF Len(b) < 8 THEN << >> ELSE SubSeq(lines, 1, IF nb < Len(lines) THEN nb ELSE Len(lines))
================================================================================
