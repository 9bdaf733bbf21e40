------------------------------ MODULE ChronoProofs ------------------------------
(***************************************************************************)
(* Theorems about the delivered versions (ChronoServer, ChronoService),    *)
(* for every set of deliveries and clients among 16 to 33, every size of   *)
(* the tables and lists, and every set of callers.                         *)
(***************************************************************************)
EXTENDS ChronoService, ParolesServerProofs, FiniteSetTheorems, WellFoundedInduction

(***************************************************************************)
(* Every client is served by its own delivery and by the later ones.       *)
(***************************************************************************)
\* The commands of client d, and the requests they make.
Known(d) == {"reg", "newgroup"} \cup (IF d >= 19 THEN {"invite"} ELSE {})
            \cup (IF d >= 20 THEN {"listinv"} ELSE {}) \cup (IF d >= 21 THEN {"ans"} ELSE {})
            \cup (IF d >= 23 THEN {"listmem"} ELSE {}) \cup (IF d >= 24 THEN {"post"} ELSE {})
            \cup (IF d >= 25 THEN {"reply"} ELSE {}) \cup (IF d >= 26 THEN {"feed"} ELSE {})
CodeOf == [reg |-> "REG", newgroup |-> "NEW_GROUP", invite |-> "INVITE", listinv |-> "LIST_INV",
           ans |-> "INV_ANS", listmem |-> "LIST_MEM", post |-> "POST", reply |-> "REPLY",
           feed |-> "FEED"]
FieldsOf == [reg |-> <<10, 113>>, newgroup |-> <<4, 2, Each(1)>>,
             invite |-> <<4, 4, 4, Each(8)>>, listinv |-> <<4>>, ans |-> <<4, 4, 1>>,
             listmem |-> <<4, 4>>, post |-> <<4, 4, 2, Each(1)>>,
             reply |-> <<4, 4, 4, 2, Each(1)>>, feed |-> <<4, 4, 4, 4>>]

LEMMA Merged ==
    ASSUME NEW f, NEW g
    PROVE  /\ DOMAIN (f ++ g) = DOMAIN f \cup DOMAIN g
           /\ \A x \in DOMAIN f : (f ++ g)[x] = f[x]
           /\ \A x \in DOMAIN g \ DOMAIN f : (f ++ g)[x] = g[x]
  BY DEF ++

LEMMA KnownCommands == \A d \in 16 .. 33 : DOMAIN Knows(d) = Known(d)
<1>1. DOMAIN main_16 = {"reg", "newgroup"}
  BY DEF main_16
<1>2. DOMAIN main_19 = DOMAIN main_16 \cup {"invite"}
  BY Merged DEF main_19, main_18, main_17
<1>3. DOMAIN main_20 = DOMAIN main_19 \cup {"listinv"}
  BY Merged DEF main_20
<1>4. DOMAIN main_21 = DOMAIN main_20 \cup {"ans"}
  BY Merged DEF main_21
<1>5. DOMAIN main_23 = DOMAIN main_21 \cup {"listmem"}
  BY Merged DEF main_23, main_22
<1>6. DOMAIN main_24 = DOMAIN main_23 \cup {"post"}
  BY Merged DEF main_24
<1>7. DOMAIN main_25 = DOMAIN main_24 \cup {"reply"}
  BY Merged DEF main_25
<1>8. DOMAIN main_26 = DOMAIN main_25 \cup {"feed"}
  BY Merged DEF main_26
<1>9. ASSUME NEW d \in 16 .. 33
      PROVE  /\ d < 19 => Knows(d) = main_16
             /\ d = 19 => Knows(d) = main_19
             /\ d = 20 => Knows(d) = main_20
             /\ d \in {21, 22} => Knows(d) = main_21
             /\ d = 23 => Knows(d) = main_23
             /\ d = 24 => Knows(d) = main_24
             /\ d = 25 => Knows(d) = main_25
             /\ d >= 26 => Knows(d) = main_26
  BY DEF Knows, main_17, main_18, main_22, main_27, main_28, main_29, main_30, main_31,
         main_32, main_33
<1>. QED  BY <1>1, <1>2, <1>3, <1>4, <1>5, <1>6, <1>7, <1>8, <1>9 DEF Known

LEMMA SentRequests ==
    \A d \in 16 .. 33 : /\ DOMAIN Sends(d) = Known(d)
                        /\ \A cmd \in Known(d) : Sends(d)[cmd] = Req(CodeOf[cmd], FieldsOf[cmd])
<1>. DEFINE asks(s) == \A cmd \in DOMAIN s : s[cmd] = Req(CodeOf[cmd], FieldsOf[cmd])
<1>0. ASSUME NEW s, asks(s), NEW t, asks(t)
      PROVE  asks(s ++ t) /\ DOMAIN (s ++ t) = DOMAIN s \cup DOMAIN t
  <2>. DEFINE u == s ++ t
  <2>1. /\ DOMAIN u = DOMAIN s \cup DOMAIN t
        /\ \A x \in DOMAIN s : u[x] = s[x]
        /\ \A x \in DOMAIN t \ DOMAIN s : u[x] = t[x]
    BY Merged
  <2>. HIDE DEF u
  <2>. QED  BY <1>0, <2>1 DEF u
<1>1. asks(sends_16) /\ DOMAIN sends_16 = {"reg", "newgroup"}
  BY DEF sends_16, CodeOf, FieldsOf
<1>2. asks([invite |-> Req("INVITE", <<4, 4, 4, Each(8)>>)])
  BY DEF CodeOf, FieldsOf
<1>3. asks([listinv |-> Req("LIST_INV", <<4>>)])
  BY DEF CodeOf, FieldsOf
<1>4. asks([ans |-> Req("INV_ANS", <<4, 4, 1>>)])
  BY DEF CodeOf, FieldsOf
<1>5. asks([listmem |-> Req("LIST_MEM", <<4, 4>>)])
  BY DEF CodeOf, FieldsOf
<1>6. asks([post |-> Req("POST", <<4, 4, 2, Each(1)>>)])
  BY DEF CodeOf, FieldsOf
<1>7. asks([reply |-> Req("REPLY", <<4, 4, 4, 2, Each(1)>>)])
  BY DEF CodeOf, FieldsOf
<1>8. asks([feed |-> Req("FEED", <<4, 4, 4, 4>>)])
  BY DEF CodeOf, FieldsOf
<1>. HIDE DEF asks
<1>11. asks(sends_19) /\ DOMAIN sends_19 = DOMAIN sends_16 \cup {"invite"}
  BY <1>0, <1>1, <1>2 DEF sends_19, sends_18, sends_17
<1>12. asks(sends_20) /\ DOMAIN sends_20 = DOMAIN sends_19 \cup {"listinv"}
  BY <1>0, <1>3, <1>11 DEF sends_20
<1>13. asks(sends_21) /\ DOMAIN sends_21 = DOMAIN sends_20 \cup {"ans"}
  BY <1>0, <1>4, <1>12 DEF sends_21
<1>14. asks(sends_23) /\ DOMAIN sends_23 = DOMAIN sends_21 \cup {"listmem"}
  BY <1>0, <1>5, <1>13 DEF sends_23, sends_22
<1>15. asks(sends_24) /\ DOMAIN sends_24 = DOMAIN sends_23 \cup {"post"}
  BY <1>0, <1>6, <1>14 DEF sends_24
<1>16. asks(sends_25) /\ DOMAIN sends_25 = DOMAIN sends_24 \cup {"reply"}
  BY <1>0, <1>7, <1>15 DEF sends_25
<1>17. asks(sends_26) /\ DOMAIN sends_26 = DOMAIN sends_25 \cup {"feed"}
  BY <1>0, <1>8, <1>16 DEF sends_26
<1>18. ASSUME NEW d \in 16 .. 33
       PROVE  /\ d < 19 => Sends(d) = sends_16
              /\ d = 19 => Sends(d) = sends_19
              /\ d = 20 => Sends(d) = sends_20
              /\ d \in {21, 22} => Sends(d) = sends_21
              /\ d = 23 => Sends(d) = sends_23
              /\ d = 24 => Sends(d) = sends_24
              /\ d = 25 => Sends(d) = sends_25
              /\ d >= 26 => Sends(d) = sends_26
  BY DEF Sends, sends_17, sends_18, sends_22, sends_27, sends_28, sends_29, sends_30, sends_31,
         sends_32, sends_33
<1>19. ASSUME NEW d \in 16 .. 33 PROVE asks(Sends(d)) /\ DOMAIN Sends(d) = Known(d)
  BY <1>1, <1>11, <1>12, <1>13, <1>14, <1>15, <1>16, <1>17, <1>18 DEF Known
<1>. QED  BY <1>19 DEF asks

\* A server knows the request of each command of the client of its delivery.
LEMMA ServedRequests ==
    \A d \in 16 .. 33 : /\ DOMAIN Serves(d) = {CodeOf[cmd] : cmd \in Known(d)}
                        /\ \A cmd \in Known(d) : Serves(d)[CodeOf[cmd]] = FieldsOf[cmd]
<1>. DEFINE cmds == {"reg", "newgroup", "invite", "listinv", "ans", "listmem", "post", "reply", "feed"}
            codes(K) == {CodeOf[cmd] : cmd \in K}
            reads(s, K) == /\ K \subseteq cmds
                           /\ DOMAIN s = codes(K)
                           /\ \A cmd \in K : s[CodeOf[cmd]] = FieldsOf[cmd]
<1>0. ASSUME NEW s, NEW t, NEW K, NEW cmd \in cmds \ K, reads(s, K), reads(t, {cmd})
      PROVE  reads(s ++ t, K \cup {cmd})
  <2>1. \A x \in K : CodeOf[x] # CodeOf[cmd]
    BY <1>0 DEF CodeOf
  <2>. DEFINE u == s ++ t
  <2>2. /\ DOMAIN u = DOMAIN s \cup DOMAIN t
        /\ \A x \in DOMAIN s : u[x] = s[x]
        /\ \A x \in DOMAIN t \ DOMAIN s : u[x] = t[x]
    BY Merged
  <2>3. DOMAIN s = codes(K) /\ DOMAIN t = {CodeOf[cmd]} /\ K \subseteq cmds
    BY <1>0
  <2>. HIDE DEF u
  <2>4. DOMAIN u = codes(K \cup {cmd})
    BY <2>2, <2>3
  <2>5. \A x \in K : u[CodeOf[x]] = FieldsOf[x]
    BY <1>0, <2>2, <2>3
  <2>6. u[CodeOf[cmd]] = FieldsOf[cmd]
    <3>1. CodeOf[cmd] \notin DOMAIN s
      BY <2>1, <2>3
    <3>. QED  BY <1>0, <2>2, <2>3, <3>1
  <2>. QED  BY <1>0, <2>3, <2>4, <2>5, <2>6 DEF u
<1>1. reads(serve_16, {"reg", "newgroup"})
  BY DEF serve_16, CodeOf, FieldsOf
<1>2. reads([INVITE |-> <<4, 4, 4, Each(8)>>], {"invite"})
  BY DEF CodeOf, FieldsOf
<1>3. reads([LIST_INV |-> <<4>>], {"listinv"})
  BY DEF CodeOf, FieldsOf
<1>4. reads([INV_ANS |-> <<4, 4, 1>>], {"ans"})
  BY DEF CodeOf, FieldsOf
<1>5. reads([LIST_MEM |-> <<4, 4>>], {"listmem"})
  BY DEF CodeOf, FieldsOf
<1>6. reads([POST |-> <<4, 4, 2, Each(1)>>], {"post"})
  BY DEF CodeOf, FieldsOf
<1>7. reads([REPLY |-> <<4, 4, 4, 2, Each(1)>>], {"reply"})
  BY DEF CodeOf, FieldsOf
<1>8. reads([FEED |-> <<4, 4, 4, 4>>], {"feed"})
  BY DEF CodeOf, FieldsOf
<1>. HIDE DEF reads
<1>. DEFINE k19 == {"reg", "newgroup"} \cup {"invite"}
            k20 == k19 \cup {"listinv"}
            k21 == k20 \cup {"ans"}
            k23 == k21 \cup {"listmem"}
            k24 == k23 \cup {"post"}
            k25 == k24 \cup {"reply"}
            k26 == k25 \cup {"feed"}
<1>11. reads(serve_19, k19)
  BY <1>0, <1>1, <1>2 DEF serve_19, serve_18, serve_17
<1>12. reads(serve_20, k20)
  BY <1>0, <1>3, <1>11 DEF serve_20
<1>13. reads(serve_21, k21)
  BY <1>0, <1>4, <1>12 DEF serve_21
<1>14. reads(serve_23, k23)
  BY <1>0, <1>5, <1>13 DEF serve_23, serve_22
<1>15. reads(serve_24, k24)
  BY <1>0, <1>6, <1>14 DEF serve_24
<1>16. reads(serve_25, k25)
  BY <1>0, <1>7, <1>15 DEF serve_25
<1>17. reads(serve_26, k26)
  BY <1>0, <1>8, <1>16 DEF serve_26
<1>18. ASSUME NEW d \in 16 .. 33
       PROVE  /\ d < 19 => Serves(d) = serve_16 /\ Known(d) = {"reg", "newgroup"}
              /\ d = 19 => Serves(d) = serve_19 /\ Known(d) = k19
              /\ d = 20 => Serves(d) = serve_20 /\ Known(d) = k20
              /\ d \in {21, 22} => Serves(d) = serve_21 /\ Known(d) = k21
              /\ d = 23 => Serves(d) = serve_23 /\ Known(d) = k23
              /\ d = 24 => Serves(d) = serve_24 /\ Known(d) = k24
              /\ d = 25 => Serves(d) = serve_25 /\ Known(d) = k25
              /\ d >= 26 => Serves(d) = serve_26 /\ Known(d) = k26
  BY DEF Serves, serve_17, serve_18, serve_22, serve_27, serve_28, serve_29, serve_30, serve_31,
         serve_32, serve_33, Known
<1>. HIDE DEF k19, k20, k21, k23, k24, k25, k26
<1>19. ASSUME NEW d \in 16 .. 33 PROVE reads(Serves(d), Known(d))
  BY <1>1, <1>11, <1>12, <1>13, <1>14, <1>15, <1>16, <1>17, <1>18
<1>. QED  BY <1>19 DEF reads

\* What is asked by a client that knows the command is what the server reads.
LEMMA Asked ==
    ASSUME NEW c \in 16 .. 33, NEW cmd, delivery \in 16 .. 33
    PROVE  Asks(c, cmd) <=> cmd \in Known(c) /\ cmd \in Known(delivery)
<1>1. ASSUME cmd \in Known(c)
      PROVE  Asks(c, cmd) <=> cmd \in Known(delivery)
  <2>. DEFINE s == Sends(c)[cmd]
  <2>1. s.code = CodeOf[cmd] /\ s.fields = FieldsOf[cmd]
    <3>1. s = Req(CodeOf[cmd], FieldsOf[cmd])
      BY <1>1, SentRequests
    <3>2. \A x, y : Req(x, y).code = x /\ Req(x, y).fields = y
      BY DEF Req
    <3>. HIDE DEF s
    <3>. QED  BY <3>1, <3>2
  <2>. HIDE DEF s
  <2>2. CodeOf[cmd] \in {CodeOf[x] : x \in Known(delivery)} <=> cmd \in Known(delivery)
    BY <1>1 DEF Known, CodeOf
  <2>3. Asks(c, cmd) <=> /\ cmd \in DOMAIN Knows(c) /\ s.code \in DOMAIN Serves(delivery)
                         /\ s.fields = Serves(delivery)[s.code]
    BY DEF Asks, s
  <2>. QED  BY <1>1, <2>1, <2>2, <2>3, KnownCommands, ServedRequests
<1>2. Asks(c, cmd) => cmd \in Known(c)
  BY KnownCommands DEF Asks
<1>. QED  BY <1>1, <1>2

\* A client is served by its own delivery and by every later one, field by field.
THEOREM ClientsAlwaysServed == ServiceSpec => []ClientsServed
<1>1. delivery \in 16 .. 33 => ClientsServed
  <2>. SUFFICES ASSUME delivery \in 16 .. 33, NEW c \in 16 .. delivery, NEW cmd \in DOMAIN Knows(c)
                PROVE  Asks(c, cmd)
    BY DEF ClientsServed
  <2>1. c \in 16 .. 33 /\ c =< delivery
    OBVIOUS
  <2>2. cmd \in Known(c)
    BY <2>1, KnownCommands
  <2>3. Known(c) \subseteq Known(delivery)
    BY <2>1 DEF Known
  <2>. QED  BY <2>1, <2>2, <2>3, Asked
<1>2. ServiceInit => delivery \in 16 .. 33
  BY Delivered DEF ServiceInit, ChronoInit
<1>3. delivery \in 16 .. 33 /\ [ServiceNext]_service_vars => (delivery \in 16 .. 33)'
  BY DEF ServiceNext, ChronoNext, service_vars, chrono_vars
<1>. QED  BY <1>1, <1>2, <1>3, PTL DEF ServiceSpec

(***************************************************************************)
(* What a command exits with.                                              *)
(***************************************************************************)
Commands == {"reg", "newgroup", "invite", "listinv", "ans", "listmem", "post", "reply", "feed"}

LEMMA CommandsSent == DOMAIN sends_33 = Commands
<1>1. DOMAIN Sends(33) = Known(33) /\ Known(33) = Commands
  BY SentRequests DEF Known, Commands
<1>. QED  BY <1>1 DEF Sends

LEMMA AcceptCases ==
    \A r : /\ Accepts("reg", r) <=> r.code = "REG_OK"
           /\ Accepts("newgroup", r) <=> r.code = "NEW_GROUP_OK"
           /\ Accepts("invite", r) <=> r.code = "ACK"
           /\ Accepts("listinv", r) <=> r.code # "ERR"
           /\ Accepts("ans", r) <=> r.code \in {"ACK", "JOIN_OK"}
           /\ Accepts("listmem", r) <=> r.code # "ERR"
           /\ Accepts("post", r) <=> r.code = "POST_OK"
           /\ Accepts("reply", r) <=> r.code = "REPLY_OK"
           /\ Accepts("feed", r) <=> r.code = "FEED_OK"
  BY DEF Accepts, cmd_reg, cmd_newgroup, cmd_invite, cmd_listinv, cmd_ans, cmd_listmem,
         cmd_post, cmd_reply, cmd_feed, NoAnswer

LEMMA RefusedCode == ASSUME NEW uid, Refused(uid) PROVE reply'.code = "ERR"
  BY DEF Refused, send_err, Answer

LEMMA AnswerCode ==
    \A uid, code, idg, numb, numr : Answer(uid, code, idg, numb, numr).code = code
  BY DEF Answer

\* A handler answers with the code its command waits for, or not at all.
LEMMA HandlerCode ==
    ASSUME NEW cmd \in Commands, NEW uid, Command(cmd, uid)
    PROVE  reply'.code = "ERR" \/ Accepts(cmd, reply')
<1>. USE RefusedCode, AnswerCode, AcceptCases DEF send_err, send_ack
<1>1. ASSUME cmd = "listinv", handle_list_inv_20(uid)
      PROVE  reply'.code = "ERR" \/ Accepts(cmd, reply')
  BY <1>1 DEF handle_list_inv_20, handle_list_inv
<1>2. ASSUME NEW idg, cmd = "listmem", handle_list_mem_23(uid, idg)
      PROVE  reply'.code = "ERR" \/ Accepts(cmd, reply')
  BY <1>2 DEF handle_list_mem_23, handle_list_mem
<1>3. ASSUME NEW alloc, cmd = "newgroup", handle_new_group_tcp(uid, alloc)
      PROVE  reply'.code = "ERR" \/ Accepts(cmd, reply')
  BY <1>3 DEF handle_new_group_tcp
<1>4. ASSUME NEW idg, NEW inv, cmd = "invite", handle_invite_19(uid, idg, inv)
      PROVE  reply'.code = "ERR" \/ Accepts(cmd, reply')
  BY <1>4 DEF handle_invite_19
<1>5. ASSUME NEW idg, NEW an, cmd = "ans", handle_inv_ans_21(uid, idg, an)
      PROVE  reply'.code = "ERR" \/ Accepts(cmd, reply')
  BY <1>5 DEF handle_inv_ans_21, decline, leave
<1>6. ASSUME NEW idg, NEW alloc, cmd = "post",
             handle_post_24(uid, idg, alloc) \/ handle_post_26(uid, idg, alloc)
      PROVE  reply'.code = "ERR" \/ Accepts(cmd, reply')
  <2>1. Refused(uid) \/ \E g : Posted(uid, idg, g)
    BY <1>6, Zenon DEF handle_post_24, handle_post_26
  <2>. QED  BY <1>6, <2>1 DEF Posted
<1>7. ASSUME NEW idg, NEW numb, NEW alloc, cmd = "reply",
             handle_reply_25(uid, idg, numb) \/ handle_reply_26(uid, idg, numb, alloc)
      PROVE  reply'.code = "ERR" \/ Accepts(cmd, reply')
  <2>1. Refused(uid) \/ reply' = send_err(uid) \/ \E g, i : Replied(uid, idg, g, i)
    BY <1>7, Zenon DEF handle_reply_25, handle_reply_26
  <2>. QED  BY <1>7, <2>1 DEF Replied
<1>8. ASSUME NEW idg, NEW numb, NEW numr, NEW alloc, cmd = "feed",
             handle_feed_26(uid, idg, numb, numr, alloc)
      PROVE  reply'.code = "ERR" \/ Accepts(cmd, reply')
  <2>1. \/ Refused(uid)
        \/ \E items : reply' = [Answer(uid, "FEED_OK", idg, 0, 0) EXCEPT !.items = items]
    BY <1>8, Zenon DEF handle_feed_26
  <2>2. Refused(uid) \/ reply'.code = "FEED_OK"
    <3>1. ASSUME NEW items, reply' = [Answer(uid, "FEED_OK", idg, 0, 0) EXCEPT !.items = items]
          PROVE  reply'.code = "FEED_OK"
      BY <3>1 DEF Answer
    <3>. QED  BY <2>1, <3>1, Zenon
  <2>. QED  BY <1>8, <2>2
<1>. QED  BY <1>1, <1>2, <1>3, <1>4, <1>5, <1>6, <1>7, <1>8 DEF Command

\* A command whose connection held exits with 0 only if the server answered, unless the
\* client did not know what was typed, and always does when it was answered and has no list
\* or feed to take in: whichever the client, the server, and the memory that runs out.
THEOREM ExitAlwaysTellsOutcome == ServiceSpec => ExitTellsOutcome
<1>1. ASSUME ChronoNext, ~(reply'.code = NoAnswer /\ ~ran'.known)
      PROVE  /\ ran'.done => reply'.code # NoAnswer \/ ~ran'.known
             /\ ran'.cmd \in Short /\ reply'.code # NoAnswer => ran'.done
  <2>0. PICK c \in Clients, cmd \in Commands :
          \/ Unserved(c, cmd) \/ Unknown(c, cmd) \/ NotHandled(c, cmd)
          \/ /\ Asks(c, cmd)
             /\ \/ cmd = "reg" /\ handle_reg_codereq_1
                \/ \E uid \in Callers : Command(cmd, uid)
             /\ Ran(cmd)
    BY <1>1, CommandsSent DEF ChronoNext
  <2>1. CASE Unknown(c, cmd)
    BY <1>1, <2>1, RefusedCode DEF Unknown, NoAnswer
  <2>2. CASE ~Unknown(c, cmd)
    <3>1. Ran(cmd)
      BY <2>0, <2>2 DEF Unserved, NotHandled
    <3>2. reply'.code = "ERR" \/ Accepts(cmd, reply')
      <4>1. CASE Unserved(c, cmd) \/ NotHandled(c, cmd)
        BY <4>1, RefusedCode DEF Unserved, NotHandled
      <4>2. CASE cmd = "reg" /\ handle_reg_codereq_1
        BY <4>2, RefusedCode, AnswerCode, AcceptCases DEF handle_reg_codereq_1, handle_reg
      <4>. QED  BY <2>0, <2>2, <4>1, <4>2, HandlerCode
    <3>3. Accepts(cmd, reply') => reply'.code # "ERR"
      BY AcceptCases DEF Commands
    <3>4. Accepts(cmd, reply') = (reply'.code # "ERR")
      <4>1. Accepts(cmd, reply') \in BOOLEAN
        <5>. USE DEF Accepts
        <5>1. cmd = "reg" => Accepts(cmd, reply') \in BOOLEAN
          BY DEF cmd_reg
        <5>2. cmd = "newgroup" => Accepts(cmd, reply') \in BOOLEAN
          BY DEF cmd_newgroup
        <5>3. cmd = "invite" => Accepts(cmd, reply') \in BOOLEAN
          BY DEF cmd_invite
        <5>4. cmd = "listinv" => Accepts(cmd, reply') \in BOOLEAN
          BY DEF cmd_listinv
        <5>5. cmd = "ans" => Accepts(cmd, reply') \in BOOLEAN
          BY DEF cmd_ans
        <5>6. cmd = "listmem" => Accepts(cmd, reply') \in BOOLEAN
          BY DEF cmd_listmem
        <5>7. cmd = "post" => Accepts(cmd, reply') \in BOOLEAN
          BY DEF cmd_post
        <5>8. cmd = "reply" => Accepts(cmd, reply') \in BOOLEAN
          BY DEF cmd_reply
        <5>9. cmd = "feed" => Accepts(cmd, reply') \in BOOLEAN
          BY DEF cmd_feed
        <5>. HIDE DEF Accepts
        <5>. QED  BY <5>1, <5>2, <5>3, <5>4, <5>5, <5>6, <5>7, <5>8, <5>9 DEF Commands
      <4>. QED  BY <3>2, <3>3, <4>1
    <3>. HIDE DEF Accepts
    <3>5. PICK all \in BOOLEAN :
            /\ MayFail(cmd, reply') \/ all
            /\ ran' = [cmd |-> cmd, known |-> TRUE, done |-> all /\ Accepts(cmd, reply')]
      BY <3>1, Zenon DEF Ran
    <3>6. /\ ran'.known = TRUE /\ ran'.cmd = cmd
          /\ ran'.done = (all /\ Accepts(cmd, reply'))
      BY <3>5
    <3>7. cmd \in Short => all
      BY <3>5 DEF Short, MayFail
    <3>. QED  BY <3>4, <3>6, <3>7 DEF NoAnswer
  <2>. QED  BY <2>1, <2>2
<1>2. ASSUME ChronoNext, reply'.code = NoAnswer, ~ran'.known
      PROVE  /\ ran'.done => reply'.code # NoAnswer \/ ~ran'.known
             /\ ran'.cmd \in Short /\ reply'.code # NoAnswer => ran'.done
  BY <1>2
<1>3. ChronoNext => /\ ran'.done => reply'.code # NoAnswer \/ ~ran'.known
                    /\ ran'.cmd \in Short /\ reply'.code # NoAnswer => ran'.done
  BY <1>1, <1>2
<1>4. [ServiceNext]_service_vars
        => [/\ ran'.done => reply'.code # NoAnswer \/ ~ran'.known
            /\ ran'.cmd \in Short /\ reply'.code # NoAnswer => ran'.done]_chrono_vars
  BY <1>3 DEF ServiceNext, service_vars
<1>. QED  BY <1>4, PTL DEF ServiceSpec, ExitTellsOutcome

(***************************************************************************)
(* What holds of the tables and of the thread together.  Numbered and      *)
(* Unbroken, which ParolesServerProofs proves of the feed, are said of the *)
(* thread here: deliveries 24 and 25 have no feed.                         *)
(***************************************************************************)
\* A group whose feed is the thread.
Shown(g, t) == [g EXCEPT !.feed = t]

\* What holds of a group, its thread, the delivery and the registered people.
Good(g, t, d, people) ==
    /\ Numbered(Shown(g, t)) /\ Unbroken(Shown(g, t))
    /\ g.feed = IF d >= 26 THEN t ELSE << >>
    /\ g.mem \subseteq people /\ g.pend \subseteq people
    /\ Cardinality(g.pend) =< MAX_GM

InSlots == /\ \A i \in DOMAIN users : users[i] = i
           /\ \A s \in DOMAIN groups : groups[s].idg = s

CInv == /\ TypeOK /\ Counters /\ InSlots /\ delivery \in 16 .. 33
        /\ thread \in [Gids -> Seq(FeedItem)]
        /\ \A k \in Gids \ DOMAIN groups : thread[k] = << >>
        /\ \A s \in DOMAIN groups : Good(groups[s], thread[s], delivery, UsersSeen)

LEMMA EntryFacts ==
    ASSUME CInv, NEW s \in DOMAIN groups
    PROVE  /\ s \in Gids /\ groups[s] \in Group /\ groups[s].idg = s
           /\ thread[s] \in Seq(FeedItem)
           /\ Good(groups[s], thread[s], delivery, UsersSeen)
<1>1. groups \in Seq(Group) /\ Len(groups) =< MAX_GROUPS /\ MAX_GROUPS \in Nat
  BY TableSizes DEF CInv, TypeOK
<1>2. s \in 1 .. MAX_GROUPS
  BY <1>1
<1>. QED  BY <1>1, <1>2 DEF CInv, InSlots, Gids

\* A step that replaces an entry and the thread of its group.
LEMMA ReplaceKeeps ==
    ASSUME CInv, NEW s \in DOMAIN groups, NEW h \in Group, Update(s, h), delivery' = delivery,
           NEW t \in Seq(FeedItem), thread' = [thread EXCEPT ![s] = t], h.idg = s,
           Good(h, t, delivery, UsersSeen), reply' \in Reply, sent' \subseteq Datagram
    PROVE  CInv'
<1>1. TypeOK /\ TypeOK'
  BY UpdateKeepsTypes DEF CInv
<1>2. /\ Len(groups') = Len(groups) /\ DOMAIN groups' = DOMAIN groups
      /\ users' = users /\ next_uid' = next_uid /\ next_gid' = next_gid
      /\ \A k \in DOMAIN groups : groups'[k] = IF k = s THEN h ELSE groups[k]
  BY <1>1, UpdateTypes
<1>3. Counters' /\ InSlots' /\ UsersSeen' = UsersSeen
  BY <1>2 DEF CInv, Counters, InSlots, UsersSeen
<1>4. /\ thread' \in [Gids -> Seq(FeedItem)]
      /\ \A k \in Gids : thread'[k] = IF k = s THEN t ELSE thread[k]
  BY EntryFacts DEF CInv
<1>5. \A k \in Gids \ DOMAIN groups' : thread'[k] = << >>
  BY <1>2, <1>4 DEF CInv
<1>6. ASSUME NEW k \in DOMAIN groups'
      PROVE  Good(groups'[k], thread'[k], delivery', UsersSeen')
  <2>1. k \in DOMAIN groups /\ k \in Gids /\ Good(groups[k], thread[k], delivery, UsersSeen)
    BY <1>2, <1>6, EntryFacts
  <2>2. CASE k = s
    BY <1>2, <1>3, <1>4, <2>1, <2>2
  <2>3. CASE k # s
    BY <1>2, <1>3, <1>4, <2>1, <2>3
  <2>. QED  BY <2>2, <2>3
<1>7. (delivery \in 16 .. 33)'
  BY DEF CInv
<1>. QED  BY <1>1, <1>3, <1>4, <1>5, <1>6, <1>7 DEF CInv

\* A step that answers and changes no table.
LEMMA SameKeeps ==
    ASSUME CInv, TablesUnchanged, delivery' = delivery, thread' = thread,
           reply' \in Reply, sent' \subseteq Datagram
    PROVE  CInv'
  BY DEF CInv, TablesUnchanged, TypeOK, Counters, InSlots, UsersSeen

\* A new user.
LEMMA UserKeeps ==
    ASSUME CInv, FreeUser, UserStep, delivery' = delivery, thread' = thread,
           reply' \in Reply, sent' \subseteq Datagram
    PROVE  CInv' /\ UsersSeen' = UsersSeen \cup {next_uid}
<1>1. users \in Seq(Nat) /\ next_uid \in Nat /\ next_uid = Len(users) + 1 /\ TypeOK
  BY DEF CInv, TypeOK, Counters
<1>2. /\ users' \in Seq(Nat) /\ Len(users') = Len(users) + 1
      /\ DOMAIN users' = DOMAIN users \cup {Len(users) + 1}
      /\ \A i \in DOMAIN users : users'[i] = users[i]
      /\ users'[Len(users) + 1] = next_uid
      /\ DOMAIN users = 1 .. Len(users) /\ Len(users) \in Nat
  BY <1>1, AppendFacts DEF UserStep
<1>3. groups' = groups /\ next_gid' = next_gid /\ next_uid' = next_uid + 1
  BY DEF UserStep
<1>4. TypeOK'
  BY <1>1, <1>2, <1>3, TableSizes DEF TypeOK, FreeUser
<1>5. Counters' /\ InSlots'
  BY <1>1, <1>2, <1>3 DEF CInv, Counters, InSlots
<1>6. UsersSeen' = UsersSeen \cup {next_uid}
  BY <1>2 DEF UsersSeen
<1>7. \A g, t, d : Good(g, t, d, UsersSeen) => Good(g, t, d, UsersSeen')
  BY <1>6 DEF Good
<1>. QED  BY <1>3, <1>4, <1>5, <1>6, <1>7 DEF CInv

\* A new group, or the entry a failed creation leaves.
LEMMA GroupKeeps ==
    ASSUME CInv, FreeGroup, NEW h \in Group, groups' = Append(groups, h),
           h.idg = next_gid, h.posts = << >>, h.next_billet = 0, h.feed = << >>, h.pend = {},
           h.mem \subseteq UsersSeen,
           next_gid' = next_gid + 1, users' = users, next_uid' = next_uid,
           delivery' = delivery, thread' = thread, reply' \in Reply, sent' \subseteq Datagram
    PROVE  CInv' /\ next_gid \in Gids /\ thread[next_gid] = << >>
<1>1. groups \in Seq(Group) /\ next_gid \in Nat /\ next_gid = Len(groups) + 1 /\ TypeOK
  BY DEF CInv, TypeOK, Counters
<1>2. /\ groups' \in Seq(Group) /\ Len(groups') = Len(groups) + 1
      /\ DOMAIN groups' = DOMAIN groups \cup {next_gid}
      /\ \A s \in DOMAIN groups : groups'[s] = groups[s]
      /\ groups'[next_gid] = h /\ next_gid \notin DOMAIN groups
      /\ DOMAIN groups = 1 .. Len(groups) /\ Len(groups) \in Nat
  BY <1>1, AppendFacts
<1>3. TypeOK'
  BY <1>1, <1>2, TableSizes DEF TypeOK, FreeGroup
<1>4. Counters' /\ InSlots'
  BY <1>1, <1>2 DEF CInv, Counters, InSlots
<1>5. next_gid \in Gids /\ thread[next_gid] = << >>
  <2>1. next_gid \in Gids
    BY <1>1, <1>2, TableSizes DEF Gids, FreeGroup
  <2>. QED  BY <1>2, <2>1 DEF CInv
<1>6. Good(h, << >>, delivery, UsersSeen)
  <2>1. /\ Shown(h, << >>).posts = << >> /\ Shown(h, << >>).next_billet = 0
        /\ Shown(h, << >>).feed = << >>
    BY DEF Shown, Group
  <2>2. Cardinality(h.pend) = 0
    BY FS_EmptySet
  <2>. QED  BY <2>1, <2>2, ListSizes DEF Good, Numbered, Unbroken
<1>7. \A s \in DOMAIN groups' : Good(groups'[s], thread[s], delivery, UsersSeen)
  BY <1>2, <1>5, <1>6, EntryFacts
<1>8. UsersSeen' = UsersSeen
  BY DEF UsersSeen
<1>9. \A k \in Gids \ DOMAIN groups' : thread'[k] = << >>
  BY <1>2 DEF CInv
<1>10. delivery' \in 16 .. 33 /\ thread' \in [Gids -> Seq(FeedItem)]
  BY DEF CInv
<1>. QED  BY <1>3, <1>4, <1>5, <1>7, <1>8, <1>9, <1>10 DEF CInv

LEMMA InitCInv == ServiceInit => CInv
<1>. SUFFICES ASSUME ServiceInit PROVE CInv
  OBVIOUS
<1>1. TypeOK /\ Counters
  BY InitIInv DEF ServiceInit, ChronoInit, IInv
<1>2. users = << >> /\ groups = << >> /\ DOMAIN users = {} /\ DOMAIN groups = {}
  BY DEF ServiceInit, ChronoInit, Init
<1>3. delivery \in 16 .. 33
  BY Delivered DEF ServiceInit, ChronoInit
<1>4. thread = [idg \in Gids |-> << >>] /\ << >> \in Seq(FeedItem)
  BY DEF ServiceInit
<1>. QED  BY <1>1, <1>2, <1>3, <1>4 DEF CInv, InSlots

(***************************************************************************)
(* The thread grows as the feed of the last server does.                   *)
(***************************************************************************)
LEMMA ShownFields ==
    ASSUME NEW g \in Group, NEW t \in Seq(FeedItem)
    PROVE  /\ Shown(g, t) \in Group
           /\ Shown(g, t).posts = g.posts /\ Shown(g, t).next_billet = g.next_billet
           /\ Shown(g, t).feed = t /\ Shown(g, t).mem = g.mem
  BY DEF Shown, Group

\* Only the billets, their counter and the feed matter.
LEMMA SameSound ==
    ASSUME NEW g, NEW h, h.posts = g.posts, h.next_billet = g.next_billet, h.feed = g.feed,
           Numbered(g), Unbroken(g)
    PROVE  Numbered(h) /\ Unbroken(h)
  BY DEF Numbered, Unbroken, feed_index_after

LEMMA PostSound ==
    ASSUME NEW g \in Group, NEW t \in Seq(FeedItem), NEW uid \in Nat,
           Numbered(Shown(g, t)), Unbroken(Shown(g, t)),
           NEW h \in Group, h.posts = NewPost(g, uid).posts, h.next_billet = g.next_billet + 1
    PROVE  LET u == Append(t, BilletItem(uid, g))
           IN  u \in Seq(FeedItem) /\ Numbered(Shown(h, u)) /\ Unbroken(Shown(h, u))
<1>. DEFINE item == BilletItem(uid, g)
            u == Append(t, item)
            v == Shown(g, t)
            k == feed_push(PostedBillet(uid, v), BilletItem(uid, v))
<1>1. v \in Group /\ v.posts = g.posts /\ v.next_billet = g.next_billet /\ v.feed = t /\ v.mem = g.mem
  BY ShownFields
<1>2. item \in FeedItem /\ u \in Seq(FeedItem)
  BY PostedTypes
<1>3. BilletItem(uid, v) = item
  BY <1>1 DEF BilletItem
<1>4. Unbroken(k)
  BY <1>1, PostUnbroken
<1>5. Numbered(k)
  <2>. DEFINE w == group_add_member(v, uid)
              l == feed_push(PostedBillet(uid, w), BilletItem(uid, w))
  <2>1. w \in Group /\ uid \in w.mem /\ w.posts = v.posts /\ w.next_billet = v.next_billet
        /\ w.feed = v.feed
    BY <1>1 DEF group_add_member, Group
  <2>2. Numbered(w)
    BY <2>1 DEF Numbered
  <2>3. Posts(uid, w, l)
    BY <2>1 DEF Posts
  <2>4. Numbered(l)
    BY <2>1, <2>2, <2>3, NumberedPost
  <2>5. k.posts = l.posts /\ k.next_billet = l.next_billet /\ k.feed = l.feed
    <3>1. BilletItem(uid, w) = BilletItem(uid, v)
      BY <2>1 DEF BilletItem
    <3>2. ASSUME NEW x \in Group
          PROVE  LET y == feed_push(PostedBillet(uid, x), BilletItem(uid, x))
                 IN  /\ y.feed = Append(x.feed, BilletItem(uid, x))
                     /\ y.next_billet = x.next_billet + 1
                     /\ y.posts = Append(x.posts, [numb |-> x.next_billet, author |-> uid, next_reply |-> 0])
      BY <3>2 DEF feed_push, PostedBillet, Group
    <3>. HIDE DEF w, v
    <3>. QED  BY <1>1, <2>1, <3>1, <3>2
  <2>. QED  BY <2>4, <2>5 DEF Numbered
<1>6. Shown(h, u).posts = k.posts /\ Shown(h, u).next_billet = k.next_billet /\ Shown(h, u).feed = k.feed
  <2>1. k.feed = Append(t, item) /\ k.next_billet = g.next_billet + 1
    BY <1>1, <1>3 DEF feed_push, PostedBillet, Group
  <2>2. k.posts = Append(g.posts, [numb |-> g.next_billet, author |-> uid, next_reply |-> 0])
    BY <1>1 DEF feed_push, PostedBillet, Group
  <2>3. NewPost(g, uid).posts = Append(g.posts, [numb |-> g.next_billet, author |-> uid, next_reply |-> 0])
    BY DEF NewPost, Group
  <2>. HIDE DEF k, item
  <2>. QED  BY <1>2, <2>1, <2>2, <2>3, ShownFields
<1>. HIDE DEF k, u
<1>7. Numbered(Shown(h, u)) /\ Unbroken(Shown(h, u))
  BY <1>4, <1>5, <1>6, SameSound
<1>. QED  BY <1>2, <1>7 DEF u, item

LEMMA CountedSame ==
    ASSUME NEW g \in Group, NEW i \in DOMAIN g.posts
    PROVE  Counted(g, i) = CountedReply(g, i) /\ Uncounted(Counted(g, i), i) = g
<1>1. Counted(g, i) = CountedReply(g, i)
  BY Zenon DEF Counted, CountedReply
<1>. DEFINE c == CountedReply(g, i)
            n == g.posts[i].next_reply
<1>2. c \in Group /\ g.posts[i] \in Post /\ g.posts \in Seq(Post)
  BY RepliedTypes DEF Group
<1>3. n \in Nat
  BY <1>2 DEF Post
<1>4. c = [g EXCEPT !.posts = [g.posts EXCEPT ![i] = [g.posts[i] EXCEPT !.next_reply = n + 1]]]
  BY DEF CountedReply
<1>5. c.posts[i].next_reply = n + 1 /\ i \in DOMAIN c.posts
  <2>1. c.posts = [g.posts EXCEPT ![i] = [g.posts[i] EXCEPT !.next_reply = n + 1]]
    BY <1>4 DEF Group
  <2>2. c.posts[i] = [g.posts[i] EXCEPT !.next_reply = n + 1] /\ i \in DOMAIN c.posts
    <3>. HIDE DEF c, n
    <3>. QED  BY <2>1
  <2>3. \A m : [g.posts[i] EXCEPT !.next_reply = m].next_reply = m
    BY <1>2 DEF Post
  <2>. HIDE DEF c, n
  <2>. QED  BY <2>2, <2>3
<1>. DEFINE po == [c.posts[i] EXCEPT !.next_reply = n]
            d == [c EXCEPT !.posts = [c.posts EXCEPT ![i] = po]]
<1>6. Uncounted(c, i) = d
  <2>1. c.posts[i].next_reply - 1 = n
    BY <1>3, <1>5
  <2>2. Uncounted(c, i) = [c EXCEPT !.posts[i].next_reply = c.posts[i].next_reply - 1]
    BY Zenon DEF Uncounted
  <2>. HIDE DEF n, c
  <2>. QED  BY <2>1, <2>2
<1>7. [c.posts EXCEPT ![i] = po] = g.posts
  <2>1. c.posts = [g.posts EXCEPT ![i] = [g.posts[i] EXCEPT !.next_reply = n + 1]]
    BY <1>4 DEF Group
  <2>2. c.posts[i] = [g.posts[i] EXCEPT !.next_reply = n + 1]
    <3>. HIDE DEF c, n
    <3>. QED  BY <2>1, <1>2
  <2>3. \A m : [[g.posts[i] EXCEPT !.next_reply = m] EXCEPT !.next_reply = n] = g.posts[i]
    BY <1>2 DEF Post
  <2>4. po = g.posts[i]
    <3>. HIDE DEF c, n
    <3>. QED  BY <2>2, <2>3
  <2>. HIDE DEF c, n, po
  <2>. QED  BY <1>2, <2>1, <2>4
<1>8. d = g
  <2>1. \A q : [[g EXCEPT !.posts = q] EXCEPT !.posts = g.posts] = g
    BY DEF Group
  <2>2. d = [c EXCEPT !.posts = g.posts]
    <3>. HIDE DEF po, c
    <3>. QED  BY <1>7
  <2>. HIDE DEF c, n, d, po
  <2>. QED  BY <1>4, <2>1, <2>2
<1>. QED  BY <1>1, <1>6, <1>8

LEMMA ReplySound ==
    ASSUME NEW g \in Group, NEW t \in Seq(FeedItem), NEW uid \in Nat, NEW i \in DOMAIN g.posts,
           Numbered(Shown(g, t)), Unbroken(Shown(g, t)),
           NEW h \in Group, h.posts = Counted(g, i).posts, h.next_billet = g.next_billet
    PROVE  LET u == Append(t, ReplyItem(uid, g, i))
           IN  u \in Seq(FeedItem) /\ Numbered(Shown(h, u)) /\ Unbroken(Shown(h, u))
<1>. DEFINE item == ReplyItem(uid, g, i)
            u == Append(t, item)
            v == Shown(g, t)
            k == feed_push(CountedReply(v, i), ReplyItem(uid, v, i))
<1>1. v \in Group /\ v.posts = g.posts /\ v.next_billet = g.next_billet /\ v.feed = t /\ v.mem = g.mem
  BY ShownFields
<1>2. item \in FeedItem /\ u \in Seq(FeedItem)
  BY RepliedTypes
<1>3. ReplyItem(uid, v, i) = item /\ i \in DOMAIN v.posts
  BY <1>1 DEF ReplyItem
<1>4. Unbroken(k)
  BY <1>1, <1>3, ReplyUnbroken
<1>0. ASSUME NEW x \in Group, x.posts = g.posts, x.next_billet = g.next_billet
      PROVE  LET y == feed_push(CountedReply(x, i), ReplyItem(uid, x, i))
             IN  /\ y.feed = Append(x.feed, item)
                 /\ y.next_billet = g.next_billet
                 /\ y.posts = [g.posts EXCEPT ![i] = [g.posts[i] EXCEPT !.next_reply = g.posts[i].next_reply + 1]]
  <2>1. ReplyItem(uid, x, i) = item
    BY <1>0 DEF ReplyItem
  <2>. DEFINE r == g.posts[i].next_reply + 1
              q == [g.posts EXCEPT ![i] = [g.posts[i] EXCEPT !.next_reply = r]]
  <2>2. CountedReply(x, i) = [x EXCEPT !.posts = q]
    BY <1>0 DEF CountedReply
  <2>. HIDE DEF item, q
  <2>3. LET y == feed_push(CountedReply(x, i), item)
        IN  y.feed = Append(x.feed, item) /\ y.next_billet = x.next_billet /\ y.posts = q
    BY <1>0, <2>2 DEF feed_push, Group
  <2>. QED  BY <1>0, <2>1, <2>3 DEF q
<1>5. Numbered(k)
  <2>. DEFINE w == group_add_member(v, uid)
              l == feed_push(CountedReply(w, i), ReplyItem(uid, w, i))
  <2>1. w \in Group /\ uid \in w.mem /\ w.posts = v.posts /\ w.next_billet = v.next_billet
        /\ w.feed = v.feed
    BY <1>1 DEF group_add_member, Group
  <2>2. Numbered(w)
    BY <2>1 DEF Numbered
  <2>3. Replies(uid, w, l)
    BY <1>3, <2>1 DEF Replies
  <2>4. Numbered(l)
    BY <2>1, <2>2, <2>3, NumberedReply
  <2>5. k.posts = l.posts /\ k.next_billet = l.next_billet /\ k.feed = l.feed
    <3>. HIDE DEF w, v, item
    <3>. QED  BY <1>0, <1>1, <2>1
  <2>. QED  BY <2>4, <2>5 DEF Numbered
<1>6. Shown(h, u).posts = k.posts /\ Shown(h, u).next_billet = k.next_billet /\ Shown(h, u).feed = k.feed
  <2>1. /\ k.feed = Append(t, item) /\ k.next_billet = g.next_billet
        /\ k.posts = [g.posts EXCEPT ![i] = [g.posts[i] EXCEPT !.next_reply = g.posts[i].next_reply + 1]]
    <3>. HIDE DEF v, item
    <3>. QED  BY <1>0, <1>1
  <2>2. Counted(g, i).posts = [g.posts EXCEPT ![i] = [g.posts[i] EXCEPT !.next_reply = g.posts[i].next_reply + 1]]
    <3>. DEFINE q == [g.posts EXCEPT ![i] = [g.posts[i] EXCEPT !.next_reply = g.posts[i].next_reply + 1]]
    <3>1. CountedReply(g, i) = [g EXCEPT !.posts = q]
      BY DEF CountedReply
    <3>2. Counted(g, i) = CountedReply(g, i)
      BY CountedSame
    <3>. HIDE DEF q
    <3>3. Counted(g, i).posts = q
      BY <3>1, <3>2 DEF Group
    <3>. QED  BY <3>3 DEF q
  <2>. HIDE DEF k, item
  <2>. QED  BY <1>2, <2>1, <2>2, ShownFields
<1>. HIDE DEF k, u
<1>7. Numbered(Shown(h, u)) /\ Unbroken(Shown(h, u))
  BY <1>4, <1>5, <1>6, SameSound
<1>. QED  BY <1>2, <1>7 DEF u, item

\* The billets of a group and the items of its thread, by number.
LEMMA ThreadNumbers ==
    ASSUME NEW g \in Group, NEW t \in Seq(FeedItem), Numbered(Shown(g, t))
    PROVE  /\ g.posts \in Seq(Post) /\ g.next_billet = Len(g.posts)
           /\ DOMAIN g.posts = 1 .. Len(g.posts) /\ Len(g.posts) \in Nat
           /\ \A i \in DOMAIN g.posts : /\ g.posts[i].numb = i - 1 /\ g.posts[i].author \in Nat
                                        /\ g.posts[i].next_reply \in Nat
           /\ \A numb \in Nat : find_post(g, numb) =
                 IF numb < Len(g.posts) THEN {numb + 1} ELSE {}
           /\ \A k \in DOMAIN t :
                 /\ t[k].numb \in Nat /\ t[k].numr \in Nat /\ t[k].numb < Len(g.posts)
                 /\ t[k].numr =< g.posts[t[k].numb + 1].next_reply
<1>0. Shown(g, t).posts = g.posts /\ Shown(g, t).next_billet = g.next_billet /\ Shown(g, t).feed = t
  BY ShownFields
<1>. HIDE DEF Shown
<1>1. g.posts \in Seq(Post) /\ g.next_billet = Len(g.posts)
  BY <1>0 DEF Group, Numbered
<1>2. DOMAIN g.posts = 1 .. Len(g.posts) /\ Len(g.posts) \in Nat
  BY <1>1
<1>3. \A i \in DOMAIN g.posts : /\ g.posts[i].numb = i - 1 /\ g.posts[i].author \in Nat
                                /\ g.posts[i].next_reply \in Nat
  <2>1. \A i \in DOMAIN g.posts : g.posts[i] \in Post
    BY <1>1
  <2>2. \A i \in DOMAIN g.posts : g.posts[i].numb = i - 1
    BY <1>0 DEF Numbered
  <2>. QED  BY <2>1, <2>2 DEF Post
<1>4. \A numb \in Nat : find_post(g, numb) = IF numb < Len(g.posts) THEN {numb + 1} ELSE {}
  BY <1>2, <1>3 DEF find_post
<1>5. \A k \in DOMAIN t : t[k] \in FeedItem
  OBVIOUS
<1>6. \A k \in DOMAIN t : t[k].numb \in Nat /\ t[k].numr \in Nat
  BY <1>5 DEF FeedItem
<1>7. \A k \in DOMAIN t : /\ t[k].numb < Len(g.posts)
                          /\ t[k].numr =< g.posts[t[k].numb + 1].next_reply
  BY <1>0 DEF Numbered
<1>. QED  BY <1>1, <1>2, <1>3, <1>4, <1>6, <1>7

(***************************************************************************)
(* The tables as people see them.                                          *)
(***************************************************************************)
\* A group and its thread, from delivery 18 on, when groups have members.
View(g, t) == [admin |-> g.admin_id, address |-> g.named, closed |-> g.closed, members |-> g.mem,
               invited |-> g.pend, thread |-> t,
               topics |-> [i \in DOMAIN g.posts |-> g.posts[i].author]]

\* The people seen are those the server finds.
LEMMA PeopleFound == \A u : u \in UsersSeen <=> find_user(u)
  BY DEF UsersSeen, find_user

\* The service counts people as anybody does.
LEMMA CountSame == \A S : Service!Cardinality(S) = Cardinality(S)
  BY Zenon DEF Service!Cardinality, Cardinality

LEMMA CirclesView ==
    ASSUME CInv, delivery >= 18
    PROVE  CirclesSeen = [s \in DOMAIN groups |-> View(groups[s], thread[s])]
<1>1. ASSUME NEW s \in DOMAIN groups PROVE Circle(groups[s]) = View(groups[s], thread[s])
  <2>1. groups[s].idg = s /\ ~(delivery < 18)
    BY EntryFacts DEF CInv
  <2>. QED  BY <2>1 DEF Circle, View
<1>. HIDE DEF Circle, View
<1>. QED  BY <1>1 DEF CirclesSeen

\* A step that leaves the tables and the thread alone leaves what is seen alone.
LEMMA SameSeen ==
    ASSUME TablesUnchanged, delivery' = delivery, thread' = thread
    PROVE  CirclesSeen' = CirclesSeen /\ UsersSeen' = UsersSeen
  BY DEF TablesUnchanged, CirclesSeen, UsersSeen, Circle

\* Replacing an entry and its thread replaces one circle.
LEMMA ReplaceSeen ==
    ASSUME CInv, delivery >= 18, NEW s \in DOMAIN groups,
           NEW h \in Group, h.idg = s, Update(s, h), delivery' = delivery,
           NEW t \in Seq(FeedItem), thread' = [thread EXCEPT ![s] = t]
    PROVE  Service!Becomes(s, View(h, t))
<1>1. /\ users' = users /\ DOMAIN groups' = DOMAIN groups
      /\ \A k \in DOMAIN groups : groups'[k] = IF k = s THEN h ELSE groups[k]
  BY UpdateTypes DEF CInv
<1>2. \A k \in DOMAIN groups : thread'[k] = IF k = s THEN t ELSE thread[k]
  BY EntryFacts DEF CInv
<1>3. UsersSeen' = UsersSeen
  BY <1>1 DEF UsersSeen
<1>5. ASSUME NEW k \in DOMAIN groups
      PROVE  Circle(groups[k])' = IF k = s THEN View(h, t) ELSE View(groups[k], thread[k])
  <2>0. groups[k].idg = k /\ delivery \in 16 .. 33
    BY EntryFacts DEF CInv
  <2>1. groups'[k].idg = k /\ ~(delivery' < 18)
    BY <1>1, <2>0
  <2>2. Circle(groups[k])' = View(groups'[k], thread'[k])
    BY <2>1 DEF Circle, View
  <2>. HIDE DEF Circle, View
  <2>. QED  BY <1>1, <1>2, <2>2
<1>. HIDE DEF Circle, View
<1>6. CirclesSeen' = [k \in DOMAIN groups |->
                        IF k = s THEN View(h, t) ELSE View(groups[k], thread[k])]
  BY <1>1, <1>5 DEF CirclesSeen
<1>7. CirclesSeen' = [CirclesSeen EXCEPT ![s] = View(h, t)]
  BY <1>6, CirclesView
<1>. QED  BY <1>3, <1>7 DEF Service!Becomes

\* A group found open is a circle, seen under the number asked for.
LEMMA Visible ==
    ASSUME CInv, delivery >= 18, NEW uid \in Callers, NEW idg \in Nat, NEW s \in find_group(idg)
    PROVE  /\ s = idg /\ s \in DOMAIN groups /\ s \in Gids
           /\ groups[s] \in Group /\ groups[s].idg = idg /\ uid \in Nat
           /\ thread[s] \in Seq(FeedItem) /\ Good(groups[s], thread[s], delivery, UsersSeen)
           /\ ~groups[s].closed
           /\ s \in DOMAIN CirclesSeen /\ CirclesSeen[s] = View(groups[s], thread[s])
<1>1. s \in DOMAIN groups /\ groups[s].idg = idg /\ ~groups[s].closed
  BY DEF find_group
<1>2. /\ s \in Gids /\ groups[s] \in Group /\ groups[s].idg = s
      /\ thread[s] \in Seq(FeedItem) /\ Good(groups[s], thread[s], delivery, UsersSeen)
  BY <1>1, EntryFacts
<1>. HIDE DEF View
<1>. QED  BY <1>1, <1>2, CirclesView, CallerNumbers

\* What is said to a group, seen on its circle.
LEMMA ToCircleSeen ==
    ASSUME NEW s \in DOMAIN groups, groups[s].idg = s, NEW code
    PROVE  notif_mcast(groups[s], code) = Service!ToCircle(code, s)
<1>1. CirclesSeen[s].address = groups[s].named
  BY DEF CirclesSeen, Circle
<1>. QED  BY <1>1, Zenon DEF notif_mcast, Service!ToCircle, ALL

LEMMA InSeen ==
    ASSUME NEW uid \in Callers, NEW s \in DOMAIN CirclesSeen, Service!In(uid, s)
    PROVE  Service!Next
  BY DEF Service!Next

LEMMA ErrSeen == ASSUME NEW uid, reply' = send_err(uid) PROVE AnswerSeen' = Service!Refusal
<1>1. /\ (reply'.code \notin {"NONE", "ERR"}) = FALSE /\ reply'.idg = 0 /\ reply'.numb = 0
      /\ reply'.numr = 0 /\ reply'.items = << >>
  BY DEF send_err, Answer
<1>. QED  BY <1>1, Zenon DEF AnswerSeen, Service!Refusal

LEMMA AckSeen == ASSUME NEW uid, reply' = send_ack(uid) PROVE AnswerSeen' = Service!Done
<1>1. /\ (reply'.code \notin {"NONE", "ERR"}) = TRUE /\ reply'.idg = 0 /\ reply'.numb = 0
      /\ reply'.numr = 0 /\ reply'.items = << >>
  BY DEF send_ack, Answer
<1>. QED  BY <1>1, Zenon DEF AnswerSeen, Service!Done, Service!Granted

LEMMA GrantSeen ==
    ASSUME NEW uid, NEW code \in Codes \ {"NONE", "ERR"}, NEW idg, NEW numb, NEW numr,
           reply' = Answer(uid, code, idg, numb, numr)
    PROVE  AnswerSeen' = Service!Granted(idg, numb, numr, << >>)
  BY DEF AnswerSeen, Answer, Service!Granted

(***************************************************************************)
(* Each request keeps the invariant and is a request of the service, one   *)
(* lemma per handler.                                                      *)
(***************************************************************************)
\* Nothing was acknowledged.
LEMMA Unrecorded ==
    ASSUME Records, reply'.code \notin {"POST_OK", "REPLY_OK"}
    PROVE  thread' = thread
  BY DEF Records

LEMMA RefusedStep ==
    ASSUME CInv, Records, delivery' = delivery, NEW uid \in Nat, Refused(uid)
    PROVE  CInv' /\ Service!Next
<1>1. thread' = thread
  BY RefusedCode, Unrecorded
<1>2. reply' \in Reply /\ sent' \subseteq Datagram
  BY ReplyTypes DEF Refused, Codes
<1>3. CInv'
  BY <1>1, <1>2, SameKeeps DEF Refused
<1>4. Service!Next
  BY <1>1, SameSeen, ErrSeen DEF Refused, Service!Next, Service!Refuse, Service!Same
<1>. QED  BY <1>3, <1>4

LEMMA RegStep ==
    ASSUME CInv, Records, delivery' = delivery, handle_reg_codereq_1
    PROVE  CInv' /\ Service!Next
<1>1. CASE Refused(0)
  BY <1>1, RefusedStep
<1>2. CASE FreeUser /\ ~Refused(0)
  <2>1. /\ UserStep /\ users' = Append(users, next_uid) /\ sent' = {} /\ groups' = groups
        /\ reply' = Answer(next_uid, "REG_OK", 0, 0, 0)
    BY <1>2 DEF handle_reg_codereq_1, handle_reg, UserStep
  <2>2. users \in Seq(Nat) /\ next_uid = Len(users) + 1 /\ next_uid \in Nat
    BY DEF CInv, TypeOK, Counters
  <2>3. thread' = thread
    BY <2>1, AnswerCode, Unrecorded
  <2>4. reply' \in Reply /\ sent' \subseteq Datagram
    BY <2>1, <2>2, ReplyTypes DEF Codes
  <2>5. CInv' /\ UsersSeen' = UsersSeen \cup {next_uid}
    BY <1>2, <2>1, <2>3, <2>4, UserKeeps
  <2>6. next_uid \in 1 .. MAX_USERS
    BY <1>2, <2>2, TableSizes DEF FreeUser
  <2>7. next_uid \notin UsersSeen
    BY <2>2 DEF UsersSeen, CInv, InSlots
  <2>8. CirclesSeen' = CirclesSeen
    BY <2>1, <2>3 DEF CirclesSeen, Circle
  <2>9. AnswerSeen' = Service!Done
    BY <2>1 DEF AnswerSeen, Answer, Service!Done, Service!Granted
  <2>. QED  BY <2>1, <2>5, <2>6, <2>7, <2>8, <2>9 DEF Service!Next, Service!Register
<1>. QED  BY <1>1, <1>2 DEF handle_reg_codereq_1, handle_reg

LEMMA ListStep ==
    ASSUME CInv, Records, delivery' = delivery, NEW uid \in Callers, NEW idg \in Nat,
           handle_list_inv_20(uid) \/ handle_list_mem_23(uid, idg)
    PROVE  CInv' /\ Service!Next
<1>0. uid \in Nat
  BY CallerNumbers
<1>1. CASE Refused(uid)
  BY <1>0, <1>1, RefusedStep
<1>2. CASE ~Refused(uid)
  <2>1. PICK k \in Nat, code \in {"LIST_INV_OK", "LIST_MEM_OK"} :
          TablesUnchanged /\ reply' = Answer(uid, code, k, 0, 0) /\ sent' = {}
    BY <1>2 DEF handle_list_inv_20, handle_list_mem_23, handle_list_inv, handle_list_mem
  <2>2. thread' = thread
    BY <2>1, AnswerCode, Unrecorded
  <2>3. reply' \in Reply /\ sent' \subseteq Datagram
    BY <1>0, <2>1, ReplyTypes DEF Codes
  <2>4. AnswerSeen' = Service!Granted(k, 0, 0, << >>)
    BY <2>1, GrantSeen DEF Codes
  <2>5. AnswerSeen'.idg = k
    BY <2>4 DEF Service!Granted
  <2>6. Service!Next
    BY <2>1, <2>2, <2>4, <2>5, SameSeen DEF Service!Next, Service!Consult, Service!Same
  <2>. QED  BY <2>1, <2>2, <2>3, <2>6, SameKeeps
<1>. QED  BY <1>1, <1>2

\* Before the numbers outgrow the ports no two groups share one.
LEMMA NoConflict ==
    ASSUME CInv, FreeGroup
    PROVE  ~mcast_pair_conflict(next_gid)
<1>. SUFFICES ASSUME NEW s \in DOMAIN groups,
                     mcast_port(groups[s].idg) = mcast_port(next_gid)
              PROVE  FALSE
  BY DEF mcast_pair_conflict
<1>1. groups \in Seq(Group) /\ next_gid = Len(groups) + 1 /\ groups[s].idg = s
  BY DEF CInv, TypeOK, Counters, InSlots
<1>2. s \in 1 .. Len(groups) /\ Len(groups) \in Nat /\ Len(groups) < MAX_GROUPS
  BY <1>1 DEF FreeGroup
<1>3. MCAST_PORTS \in Nat \ {0} /\ MAX_GROUPS =< MCAST_PORTS /\ MAX_GROUPS \in Nat
  BY PortRanges, TableSizes
<1>. DEFINE n == next_gid
<1>4. s \in 1 .. MCAST_PORTS /\ n \in 1 .. MCAST_PORTS /\ s < n
  BY <1>1, <1>2, <1>3
<1>5. s % MCAST_PORTS = n % MCAST_PORTS
  <2>1. \A a, b \in Int : 30000 + a = 30000 + b => a = b
    OBVIOUS
  <2>2. s % MCAST_PORTS \in Int /\ n % MCAST_PORTS \in Int
    BY <1>3, <1>4
  <2>. QED  BY <1>1, <2>1, <2>2 DEF mcast_port
<1>. HIDE DEF n
<1>. QED  BY <1>3, <1>4, <1>5, Remainders

\* The circle a failed creation leaves.
LEMMA AbandonedShape ==
    Service!Abandoned = [admin |-> 0, address |-> FALSE, closed |-> FALSE, members |-> {},
                         invited |-> {}, thread |-> << >>, topics |-> << >>]
<1>. DEFINE circle(p, b, y, v, i, t) == [admin |-> p, address |-> b, closed |-> y, members |-> v,
                                         invited |-> i, topics |-> t, thread |-> t]
            emptied(p, x, y, m, n, i, t) ==
              [circle(p, x, y, m, i, t) EXCEPT !.address = y, !.members = n]
            yes == TRUE
            no == FALSE
<1>1. ASSUME NEW p, NEW x, NEW y, NEW m, NEW n, NEW i, NEW t
      PROVE  emptied(p, x, y, m, n, i, t) = circle(p, y, y, n, i, t)
  <2>. DEFINE d == [circle(p, x, y, m, i, t) EXCEPT !.address = y]
  <2>1. d = circle(p, y, y, m, i, t)
    OBVIOUS
  <2>2. emptied(p, x, y, m, n, i, t) = [d EXCEPT !.members = n]
    OBVIOUS
  <2>. HIDE DEF d, emptied
  <2>3. [d EXCEPT !.members = n] = circle(p, y, y, n, i, t)
    BY <2>1
  <2>. HIDE DEF circle
  <2>. QED  BY <2>2, <2>3
<1>. HIDE DEF circle, emptied, yes, no
<1>2. emptied(0, yes, no, {0}, {}, {}, << >>) = circle(0, no, no, {}, {}, << >>)
  BY <1>1
<1>3. Service!Abandoned = emptied(0, yes, no, {0}, {}, {}, << >>)
  BY Zenon DEF Service!Abandoned, Service!NewCircle, yes, no, emptied, circle
<1>4. circle(0, no, no, {}, {}, << >>) =
         [admin |-> 0, address |-> no, closed |-> no, members |-> {}, invited |-> {},
          thread |-> << >>, topics |-> << >>]
  BY DEF circle
<1>. QED  BY <1>2, <1>3, <1>4, Zenon DEF no

LEMMA NewGroupStepShown ==
    ASSUME CInv, Records, delivery' = delivery, NEW uid \in Callers, NEW alloc \in BOOLEAN,
           alloc \/ AllocMayFail, handle_new_group_tcp(uid, alloc)
    PROVE  CInv' /\ Service!Next
<1>0. uid \in Nat /\ delivery \in 16 .. 33
  BY CallerNumbers DEF CInv
<1>1. CASE Refused(uid)
  BY <1>0, <1>1, RefusedStep
<1>2. CASE ~Refused(uid)
  <2>. DEFINE n == NewGroup(next_gid)
              g == [n EXCEPT !.named = TRUE, !.admin_id = uid]
              full == IF delivery < 18 THEN g ELSE group_add_member(g, uid)
              h == IF alloc THEN full ELSE n
              ok == [admin |-> uid, address |-> TRUE, closed |-> FALSE, members |-> {uid}, invited |-> {},
                     thread |-> << >>, topics |-> << >>]
  <2>1. /\ find_user(uid) /\ FreeGroup /\ groups' = Append(groups, h) /\ next_gid' = next_gid + 1
        /\ reply' = IF alloc THEN Answer(uid, "NEW_GROUP_OK", next_gid, 0, 0) ELSE send_err(uid)
        /\ sent' = {} /\ users' = users /\ next_uid' = next_uid
    <3>1. FreeGroup
      BY <1>2 DEF handle_new_group_tcp
    <3>2. ~mcast_pair_conflict(next_gid)
      BY <3>1, NoConflict
    <3>. QED  BY <1>2, <3>2 DEF handle_new_group_tcp
  <2>2. /\ groups \in Seq(Group) /\ next_gid \in Nat /\ next_gid = Len(groups) + 1
    BY DEF CInv, TypeOK, Counters
  <2>3. n \in Group /\ g \in Group /\ full \in Group /\ h \in Group
    <3>1. n \in Group
      BY <2>2, <1>0, NewGroupTypes
    <3>2. g \in Group
      <4>. HIDE DEF n
      <4>. QED  BY <1>0, <3>1 DEF Group
    <3>. HIDE DEF g, n
    <3>3. group_add_member(g, uid) \in Group
      BY <1>0, <3>2 DEF group_add_member, Group
    <3>. QED  BY <3>1, <3>2, <3>3
  <2>4. /\ n.named = FALSE /\ n.admin_id = 0 /\ n.mem = {} /\ n.pend = {} /\ n.idg = next_gid
        /\ n.posts = << >> /\ n.next_billet = 0 /\ n.feed = << >> /\ n.closed = FALSE
    BY DEF NewGroup
  <2>5. /\ g.named = TRUE /\ g.admin_id = uid /\ g.mem = {} /\ g.pend = {} /\ g.idg = next_gid
        /\ g.posts = << >> /\ g.next_billet = 0 /\ g.feed = << >> /\ g.closed = FALSE
    BY DEF NewGroup
  <2>6. /\ full.named = TRUE /\ full.admin_id = uid /\ full.pend = {} /\ full.idg = next_gid
        /\ full.posts = << >> /\ full.next_billet = 0 /\ full.feed = << >> /\ full.closed = FALSE
        /\ full.mem = IF delivery < 18 THEN {} ELSE {uid}
    <3>. HIDE DEF g
    <3>1. /\ group_add_member(g, uid).mem = {uid} /\ group_add_member(g, uid).named = g.named
          /\ group_add_member(g, uid).admin_id = g.admin_id
          /\ group_add_member(g, uid).pend = g.pend /\ group_add_member(g, uid).idg = g.idg
          /\ group_add_member(g, uid).posts = g.posts
          /\ group_add_member(g, uid).next_billet = g.next_billet
          /\ group_add_member(g, uid).feed = g.feed /\ group_add_member(g, uid).closed = g.closed
      BY <2>3, <2>5 DEF group_add_member, Group
    <3>2. CASE delivery < 18
      BY <2>5, <3>2
    <3>3. CASE ~(delivery < 18)
      BY <2>5, <3>1, <3>3
    <3>. QED  BY <3>2, <3>3
  <2>. HIDE DEF n, g, full
  <2>7. thread' = thread
    BY <2>1, AnswerCode, Unrecorded DEF send_err
  <2>8. reply' \in Reply /\ sent' \subseteq Datagram
    BY <1>0, <2>1, <2>2, ReplyTypes DEF Codes
  <2>9. CInv' /\ next_gid \in Gids /\ thread[next_gid] = << >>
    <3>1. {uid} \subseteq UsersSeen
      BY <2>1, PeopleFound
    <3>2. /\ h.idg = next_gid /\ h.posts = << >> /\ h.next_billet = 0 /\ h.feed = << >> /\ h.pend = {}
          /\ h.mem \subseteq UsersSeen
      <4>1. CASE alloc
        BY <2>6, <3>1, <4>1
      <4>2. CASE ~alloc
        BY <2>4, <4>2
      <4>. QED  BY <4>1, <4>2
    <3>. HIDE DEF h
    <3>. QED  BY <2>1, <2>3, <2>7, <2>8, <3>2, GroupKeeps
  <2>10. /\ DOMAIN groups' = DOMAIN groups \cup {next_gid} /\ groups'[next_gid] = h
         /\ \A s \in DOMAIN groups : groups'[s] = groups[s]
         /\ next_gid \notin DOMAIN groups
    <3>. HIDE DEF h
    <3>. QED  BY <2>1, <2>2, <2>3, AppendFacts
  <2>11. \A s \in DOMAIN groups : Circle(groups[s])' = Circle(groups[s])
    BY <2>7, <2>10 DEF Circle
  <2>12. CASE alloc
    <3>0. PICK m : m = next_gid
      OBVIOUS
    <3>1. Circle(groups[m])' = Service!NewCircle(uid)
      <4>1. groups'[m] = full
        BY <2>10, <2>12, <3>0
      <4>2. [i \in DOMAIN full.posts |-> full.posts[i].author] = << >>
        BY <2>6
      <4>3. thread'[full.idg] = << >>
        BY <2>6, <2>7, <2>9
      <4>4. (IF delivery' < 18 /\ full.named THEN {full.admin_id} ELSE full.mem) = {uid}
        BY <2>6
      <4>5. Circle(groups[m])' =
              [admin |-> full.admin_id, address |-> full.named, closed |-> full.closed,
               members |-> IF delivery' < 18 /\ full.named THEN {full.admin_id} ELSE full.mem,
               invited |-> full.pend, thread |-> thread'[full.idg],
               topics |-> [i \in DOMAIN full.posts |-> full.posts[i].author]]
        BY <4>1, Zenon DEF Circle
      <4>6. Circle(groups[m])' = ok
        BY <2>6, <4>2, <4>3, <4>4, <4>5, Zenon
      <4>. QED  BY <4>6 DEF Service!NewCircle
    <3>. HIDE DEF Circle
    <3>2. DOMAIN CirclesSeen' = DOMAIN CirclesSeen \cup {next_gid} /\ next_gid \notin DOMAIN CirclesSeen
      BY <2>10 DEF CirclesSeen
    <3>3. CirclesSeen' = [x \in DOMAIN CirclesSeen \cup {next_gid} |->
                            IF x = next_gid THEN Service!NewCircle(uid) ELSE CirclesSeen[x]]
      <4>1. CirclesSeen' = [s \in DOMAIN CirclesSeen' |-> Circle(groups[s])']
        BY DEF CirclesSeen
      <4>2. \A s \in DOMAIN CirclesSeen : s \in DOMAIN groups /\ CirclesSeen[s] = Circle(groups[s])
        BY DEF CirclesSeen
      <4>3. \A s \in DOMAIN CirclesSeen : Circle(groups[s])' = CirclesSeen[s]
        BY <2>11, <4>2
      <4>. HIDE DEF CirclesSeen
      <4>. QED  BY <3>0, <3>1, <3>2, <4>1, <4>3
    <3>4. AnswerSeen' = Service!Granted(next_gid, 0, 0, << >>)
      BY <2>1, <2>12, GrantSeen DEF Codes
    <3>5. UsersSeen' = UsersSeen
      BY <2>1 DEF UsersSeen
    <3>6. Service!Create(uid, next_gid)
      BY <2>1, <3>2, <3>3, <3>4, <3>5, PeopleFound DEF Service!Create, Service!Appears
    <3>. QED  BY <2>9, <3>6 DEF Service!Next, Gids
  <2>13. CASE ~alloc
    <3>0. PICK m : m = next_gid
      OBVIOUS
    <3>1. Circle(groups[m])' = Service!Abandoned
      <4>1. groups'[m] = n
        BY <2>10, <2>13, <3>0
      <4>2. [i \in DOMAIN n.posts |-> n.posts[i].author] = << >>
        BY <2>4
      <4>3. thread'[n.idg] = << >>
        BY <2>4, <2>7, <2>9
      <4>4. (IF delivery' < 18 /\ n.named THEN {n.admin_id} ELSE n.mem) = {}
        BY <2>4
      <4>5. Circle(groups[m])' =
              [admin |-> n.admin_id, address |-> n.named, closed |-> n.closed,
               members |-> IF delivery' < 18 /\ n.named THEN {n.admin_id} ELSE n.mem,
               invited |-> n.pend, thread |-> thread'[n.idg],
               topics |-> [i \in DOMAIN n.posts |-> n.posts[i].author]]
        BY <4>1, Zenon DEF Circle
      <4>6. Circle(groups[m])' =
              [admin |-> 0, address |-> FALSE, closed |-> FALSE, members |-> {},
               invited |-> {}, thread |-> << >>, topics |-> << >>]
        BY <2>4, <4>2, <4>3, <4>4, <4>5, Zenon
      <4>. QED  BY <4>6, AbandonedShape
    <3>. HIDE DEF Circle
    <3>2. DOMAIN CirclesSeen' = DOMAIN CirclesSeen \cup {next_gid} /\ next_gid \notin DOMAIN CirclesSeen
      BY <2>10 DEF CirclesSeen
    <3>3. CirclesSeen' = [x \in DOMAIN CirclesSeen \cup {next_gid} |->
                            IF x = next_gid THEN Service!Abandoned ELSE CirclesSeen[x]]
      <4>1. CirclesSeen' = [s \in DOMAIN CirclesSeen' |-> Circle(groups[s])']
        BY DEF CirclesSeen
      <4>2. \A s \in DOMAIN CirclesSeen : s \in DOMAIN groups /\ CirclesSeen[s] = Circle(groups[s])
        BY DEF CirclesSeen
      <4>3. \A s \in DOMAIN CirclesSeen : Circle(groups[s])' = CirclesSeen[s]
        BY <2>11, <4>2
      <4>. HIDE DEF CirclesSeen
      <4>. QED  BY <3>0, <3>1, <3>2, <4>1, <4>3
    <3>4. AnswerSeen' = Service!Refusal /\ UsersSeen' = UsersSeen
      BY <2>1, <2>13, ErrSeen DEF UsersSeen
    <3>5. Service!Abandon(next_gid)
      BY <2>1, <3>2, <3>3, <3>4 DEF Service!Abandon, Service!Appears
    <3>. QED  BY <2>9, <3>5 DEF Service!Next, Gids
  <2>. QED  BY <2>9, <2>12, <2>13
<1>. QED  BY <1>1, <1>2

\* The authors of a group's billets, as the topics of its circle.
LEMMA Topics ==
    ASSUME NEW g \in Group, NEW t
    PROVE  /\ View(g, t).topics \in Seq(Nat) /\ Len(View(g, t).topics) = Len(g.posts)
           /\ \A i \in DOMAIN g.posts : View(g, t).topics[i] = g.posts[i].author
<1>1. g.posts \in Seq(Post)
  BY DEF Group
<1>2. \A i \in DOMAIN g.posts : g.posts[i].author \in Nat
  <2>1. \A i \in DOMAIN g.posts : g.posts[i] \in Post
    BY <1>1
  <2>. QED  BY <2>1 DEF Post
<1>3. DOMAIN g.posts = 1 .. Len(g.posts) /\ Len(g.posts) \in Nat
  BY <1>1
<1>. QED  BY <1>2, <1>3 DEF View

\* A step that does not touch the billets of a group keeps the topics of its circle.
LEMMA SameTopics ==
    ASSUME NEW g, NEW h, NEW t, h.posts = g.posts
    PROVE  View(h, t) = [admin |-> h.admin_id, address |-> h.named, closed |-> h.closed, members |-> h.mem,
                        invited |-> h.pend, thread |-> t, topics |-> View(g, t).topics]
  BY DEF View

\* The updates of the lists of a group, seen on its circle.
Edited(g, c, m, i, t) == [admin |-> g.admin_id, address |-> g.named, closed |-> c, members |-> m, invited |-> i,
                          thread |-> t, topics |-> View(g, t).topics]

LEMMA EditedFields ==
    \A g, t, c, m, i : Edited(g, c, m, i, t) =
        [admin |-> g.admin_id, address |-> g.named, closed |-> c, members |-> m, invited |-> i,
         thread |-> t, topics |-> View(g, t).topics]
  BY DEF Edited

LEMMA SeenAsEdited ==
    \A g, t, h : h.posts = g.posts /\ h.named = g.named /\ h.admin_id = g.admin_id =>
                    View(h, t) = Edited(g, h.closed, h.mem, h.pend, t)
  BY SameTopics DEF Edited

LEMMA ViewFields ==
    \A g, t : View(g, t).members = g.mem /\ View(g, t).invited = g.pend
  BY DEF View

LEMMA EditInvited ==
    \A g, t, i : [View(g, t) EXCEPT !.invited = i] = Edited(g, g.closed, g.mem, i, t)
<1>. SUFFICES ASSUME NEW g, NEW t, NEW i
              PROVE  [View(g, t) EXCEPT !.invited = i] = Edited(g, g.closed, g.mem, i, t)
  OBVIOUS
<1>1. View(g, t) = Edited(g, g.closed, g.mem, g.pend, t)
  BY SeenAsEdited
<1>. DEFINE tp == View(g, t).topics
<1>. HIDE DEF tp
<1>2. View(g, t) = [admin |-> g.admin_id, address |-> g.named, closed |-> g.closed, members |-> g.mem,
                   invited |-> g.pend, thread |-> t, topics |-> tp]
  BY <1>1 DEF Edited, tp
<1>3. Edited(g, g.closed, g.mem, i, t) = [admin |-> g.admin_id, address |-> g.named, closed |-> g.closed, members |-> g.mem,
                   invited |-> i, thread |-> t, topics |-> tp]
  BY DEF Edited, tp
<1>. QED  BY <1>2, <1>3

LEMMA EditMembers ==
    \A g, t, m : [View(g, t) EXCEPT !.members = m] = Edited(g, g.closed, m, g.pend, t)
<1>. SUFFICES ASSUME NEW g, NEW t, NEW m
              PROVE  [View(g, t) EXCEPT !.members = m] = Edited(g, g.closed, m, g.pend, t)
  OBVIOUS
<1>1. View(g, t) = Edited(g, g.closed, g.mem, g.pend, t)
  BY SeenAsEdited
<1>. DEFINE tp == View(g, t).topics
<1>. HIDE DEF tp
<1>2. View(g, t) = [admin |-> g.admin_id, address |-> g.named, closed |-> g.closed, members |-> g.mem,
                   invited |-> g.pend, thread |-> t, topics |-> tp]
  BY <1>1 DEF Edited, tp
<1>3. Edited(g, g.closed, m, g.pend, t) = [admin |-> g.admin_id, address |-> g.named, closed |-> g.closed, members |-> m,
                   invited |-> g.pend, thread |-> t, topics |-> tp]
  BY DEF Edited, tp
<1>. QED  BY <1>2, <1>3

LEMMA EditClosed ==
    \A g, t, c : [View(g, t) EXCEPT !.closed = c] = Edited(g, c, g.mem, g.pend, t)
<1>. SUFFICES ASSUME NEW g, NEW t, NEW c
              PROVE  [View(g, t) EXCEPT !.closed = c] = Edited(g, c, g.mem, g.pend, t)
  OBVIOUS
<1>1. View(g, t) = Edited(g, g.closed, g.mem, g.pend, t)
  BY SeenAsEdited
<1>. DEFINE tp == View(g, t).topics
<1>. HIDE DEF tp
<1>2. View(g, t) = [admin |-> g.admin_id, address |-> g.named, closed |-> g.closed, members |-> g.mem,
                   invited |-> g.pend, thread |-> t, topics |-> tp]
  BY <1>1 DEF Edited, tp
<1>3. Edited(g, c, g.mem, g.pend, t) = [admin |-> g.admin_id, address |-> g.named, closed |-> c, members |-> g.mem,
                   invited |-> g.pend, thread |-> t, topics |-> tp]
  BY DEF Edited, tp
<1>. QED  BY <1>2, <1>3

LEMMA PendingAdded ==
    \A g \in Group : \A t, new :
        View(group_add_pending(g, new), t) = [View(g, t) EXCEPT !.invited = @ \cup new]
<1>. SUFFICES ASSUME NEW g \in Group, NEW t, NEW new
              PROVE  View(group_add_pending(g, new), t) = [View(g, t) EXCEPT !.invited = @ \cup new]
  OBVIOUS
<1>. DEFINE h == group_add_pending(g, new)
<1>1. /\ h.posts = g.posts /\ h.named = g.named /\ h.admin_id = g.admin_id /\ h.closed = g.closed
      /\ h.mem = g.mem /\ h.pend = g.pend \cup new
  BY DEF group_add_pending, Group
<1>. HIDE DEF h
<1>2. View(h, t) = Edited(g, g.closed, g.mem, g.pend \cup new, t)
  BY <1>1, SeenAsEdited, Zenon
<1>3. [View(g, t) EXCEPT !.invited = View(g, t).invited \cup new] =
        Edited(g, g.closed, g.mem, View(g, t).invited \cup new, t)
  BY EditInvited, Zenon
<1>. QED  BY <1>2, <1>3, ViewFields, Zenon DEF h

LEMMA PendingRemoved ==
    \A g \in Group : \A uid, t :
        View(group_remove_pending(g, uid), t) = [View(g, t) EXCEPT !.invited = @ \ {uid}]
<1>. SUFFICES ASSUME NEW g \in Group, NEW t, NEW uid
              PROVE  View(group_remove_pending(g, uid), t) = [View(g, t) EXCEPT !.invited = @ \ {uid}]
  OBVIOUS
<1>. DEFINE h == group_remove_pending(g, uid)
<1>1. /\ h.posts = g.posts /\ h.named = g.named /\ h.admin_id = g.admin_id /\ h.closed = g.closed
      /\ h.mem = g.mem /\ h.pend = g.pend \ {uid}
  BY DEF group_remove_pending, Group
<1>. HIDE DEF h
<1>2. View(h, t) = Edited(g, g.closed, g.mem, g.pend \ {uid}, t)
  BY <1>1, SeenAsEdited, Zenon
<1>3. [View(g, t) EXCEPT !.invited = View(g, t).invited \ {uid}] =
        Edited(g, g.closed, g.mem, View(g, t).invited \ {uid}, t)
  BY EditInvited, Zenon
<1>. QED  BY <1>2, <1>3, ViewFields, Zenon DEF h

LEMMA MemberAdded ==
    \A g \in Group : \A uid, t :
        View(group_add_member(group_remove_pending(g, uid), uid), t) =
            [[View(g, t) EXCEPT !.invited = @ \ {uid}]
                EXCEPT !.members = View(g, t).members \cup {uid}]
<1>. SUFFICES ASSUME NEW g \in Group, NEW t, NEW uid
              PROVE  View(group_add_member(group_remove_pending(g, uid), uid), t) =
                       [[View(g, t) EXCEPT !.invited = @ \ {uid}]
                           EXCEPT !.members = View(g, t).members \cup {uid}]
  OBVIOUS
<1>. DEFINE h == group_add_member(group_remove_pending(g, uid), uid)
<1>1. /\ h.posts = g.posts /\ h.named = g.named /\ h.admin_id = g.admin_id /\ h.closed = g.closed
      /\ h.mem = g.mem \cup {uid} /\ h.pend = g.pend \ {uid}
  BY DEF group_add_member, group_remove_pending, Group
<1>. HIDE DEF h
<1>2. View(h, t) = Edited(g, g.closed, g.mem \cup {uid}, g.pend \ {uid}, t)
  BY <1>1, SeenAsEdited, Zenon
<1>. DEFINE c == [View(g, t) EXCEPT !.invited = View(g, t).invited \ {uid}]
<1>3. c = Edited(g, g.closed, g.mem, g.pend \ {uid}, t)
  <2>1. c = Edited(g, g.closed, g.mem, View(g, t).invited \ {uid}, t)
    BY EditInvited, Zenon
  <2>. QED  BY <2>1, ViewFields, Zenon
<1>. HIDE DEF c
<1>4. [c EXCEPT !.members = View(g, t).members \cup {uid}] =
        Edited(g, g.closed, View(g, t).members \cup {uid}, g.pend \ {uid}, t)
  <2>. DEFINE m == View(g, t).members \cup {uid}
              i == g.pend \ {uid}
              tp == View(g, t).topics
  <2>. HIDE DEF m, i, tp
  <2>1. c = [admin |-> g.admin_id, address |-> g.named, closed |-> g.closed, members |-> g.mem, invited |-> i,
             thread |-> t, topics |-> tp]
    BY <1>3 DEF Edited, i, tp
  <2>2. Edited(g, g.closed, m, i, t) = [admin |-> g.admin_id, address |-> g.named, closed |-> g.closed, members |-> m,
             invited |-> i, thread |-> t, topics |-> tp]
    BY DEF Edited, tp
  <2>3. [c EXCEPT !.members = m] = Edited(g, g.closed, m, i, t)
    BY <2>1, <2>2
  <2>. QED  BY <2>3 DEF m, i
<1>5. View(h, t) = [c EXCEPT !.members = View(g, t).members \cup {uid}]
  BY <1>2, <1>4, ViewFields, Zenon
<1>. QED  BY <1>5, Zenon DEF h, c

LEMMA MemberRemoved ==
    \A g \in Group : \A uid, t :
        View(group_remove_member(g, uid), t) = [View(g, t) EXCEPT !.members = @ \ {uid}]
<1>. SUFFICES ASSUME NEW g \in Group, NEW t, NEW uid
              PROVE  View(group_remove_member(g, uid), t) = [View(g, t) EXCEPT !.members = @ \ {uid}]
  OBVIOUS
<1>. DEFINE h == group_remove_member(g, uid)
<1>1. /\ h.posts = g.posts /\ h.named = g.named /\ h.admin_id = g.admin_id /\ h.closed = g.closed
      /\ h.mem = g.mem \ {uid} /\ h.pend = g.pend
  BY DEF group_remove_member, Group
<1>. HIDE DEF h
<1>2. View(h, t) = Edited(g, g.closed, g.mem \ {uid}, g.pend, t)
  BY <1>1, SeenAsEdited, Zenon
<1>3. [View(g, t) EXCEPT !.members = View(g, t).members \ {uid}] =
        Edited(g, g.closed, View(g, t).members \ {uid}, g.pend, t)
  BY EditMembers, Zenon
<1>. QED  BY <1>2, <1>3, ViewFields, Zenon DEF h

LEMMA CircleClosed ==
    \A g \in Group : \A t : View(close_group(g), t) = [View(g, t) EXCEPT !.closed = TRUE]
<1>. SUFFICES ASSUME NEW g \in Group, NEW t
              PROVE  View(close_group(g), t) = [View(g, t) EXCEPT !.closed = TRUE]
  OBVIOUS
<1>. DEFINE h == close_group(g)
<1>1. /\ h.posts = g.posts /\ h.named = g.named /\ h.admin_id = g.admin_id /\ h.closed = TRUE
      /\ h.mem = g.mem /\ h.pend = g.pend
  BY DEF close_group, Group
<1>. HIDE DEF h
<1>2. View(h, t) = Edited(g, h.closed, h.mem, h.pend, t)
  BY <1>1, SeenAsEdited, Zenon
<1>3. View(h, t) = Edited(g, TRUE, g.mem, g.pend, t)
  BY <1>1, <1>2, Zenon
<1>4. [View(g, t) EXCEPT !.closed = TRUE] = Edited(g, TRUE, g.mem, g.pend, t)
  BY EditClosed, Zenon
<1>. QED  BY <1>3, <1>4, Zenon DEF h

\* Registered people are finitely many.
LEMMA PeopleFinite ==
    ASSUME CInv, NEW S \in SUBSET UsersSeen
    PROVE  IsFiniteSet(S) /\ Cardinality(S) \in Nat /\ S \subseteq Nat
<1>1. UsersSeen \subseteq 1 .. MAX_USERS /\ MAX_USERS \in Nat
  BY TableSizes DEF CInv, TypeOK, InSlots, UsersSeen
<1>2. IsFiniteSet(1 .. MAX_USERS)
  BY <1>1, FS_Interval
<1>3. IsFiniteSet(S)
  BY <1>1, <1>2, FS_Subset
<1>. QED  BY <1>1, <1>3, FS_CardinalityType

\* A step that changes the lists of a group, or closes it.
LEMMA ListsStep ==
    ASSUME CInv, delivery >= 18, NEW s \in DOMAIN groups, NEW h \in Group,
           h.idg = groups[s].idg, h.posts = groups[s].posts,
           h.next_billet = groups[s].next_billet, h.feed = groups[s].feed,
           h.mem \subseteq UsersSeen, h.pend \subseteq UsersSeen, Cardinality(h.pend) =< MAX_GM,
           Update(s, h), delivery' = delivery, thread' = thread,
           reply' \in Reply, sent' \subseteq Datagram
    PROVE  CInv' /\ Service!Becomes(s, View(h, thread[s]))
<1>. DEFINE g == groups[s]
            t == thread[s]
<1>1. s \in Gids /\ g \in Group /\ g.idg = s /\ t \in Seq(FeedItem) /\ Good(g, t, delivery, UsersSeen)
  BY EntryFacts
<1>2. thread' = [thread EXCEPT ![s] = t]
  BY <1>1 DEF CInv
<1>3. Numbered(Shown(h, t)) /\ Unbroken(Shown(h, t))
  <2>. HIDE DEF g, t
  <2>1. Numbered(Shown(g, t)) /\ Unbroken(Shown(g, t))
    BY <1>1 DEF Good
  <2>. QED  BY <1>1, <2>1, ShownFields, SameSound DEF g
<1>4. Good(h, t, delivery, UsersSeen)
  BY <1>1, <1>3 DEF Good
<1>. HIDE DEF t
<1>5. CInv'
  BY <1>1, <1>2, <1>4, ReplaceKeeps
<1>6. Service!Becomes(s, View(h, t))
  BY <1>1, <1>2, ReplaceSeen
<1>. QED  BY <1>5, <1>6 DEF t

\* Numbers of which one comes with all those below it.
LEMMA Prefix ==
    ASSUME NEW n \in Nat, NEW S \in SUBSET (1 .. n), \A k \in S : 1 .. k \subseteq S
    PROVE  \E m \in 0 .. n : S = 1 .. m
<1>. DEFINE R == OpToRel(<, Nat)
            T == {x \in Nat : x + 1 \notin S}
<1>1. IsWellFoundedOn(R, Nat)
  BY NatLessThanWellFounded
<1>2. \A a, b \in Nat : <<a, b>> \in R <=> a < b
  BY DEF OpToRel
<1>. HIDE DEF R
<1>3. n \in T /\ T \in SUBSET Nat
  OBVIOUS
<1>4. PICK m \in T : \A y \in T : ~(<<y, m>> \in R)
  <2>. HIDE DEF T
  <2>. QED  BY <1>1, <1>3, WFMin
<1>5. m \in Nat /\ m + 1 \notin S /\ \A y \in Nat : y < m => y + 1 \in S
  BY <1>2, <1>4
<1>6. m =< n
  BY <1>2, <1>3, <1>4, <1>5
<1>7. ASSUME NEW k \in 1 .. m PROVE k \in S
  <2>1. k - 1 \in Nat /\ k - 1 < m /\ (k - 1) + 1 = k
    BY <1>5
  <2>. QED  BY <1>5, <2>1
<1>8. ASSUME NEW k \in S PROVE k \in 1 .. m
  <2>1. m + 1 \notin 1 .. k
    BY <1>5
  <2>. QED  BY <1>5, <2>1
<1>9. m \in 0 .. n
  BY <1>5, <1>6
<1>10. S = 1 .. m
  BY <1>7, <1>8, Zenon
<1>. HIDE DEF T
<1>. QED  BY <1>9, <1>10

\* The invitees a list of invitations has room for: all of them, or as many as fill it.
Fits(pend, inv, done) ==
    {k \in done : Cardinality(pend \cup {inv[i] : i \in 1 .. k}) =< MAX_GM}
Kept(pend, inv, done) == pend \cup {inv[k] : k \in Fits(pend, inv, done)}

LEMMA Fitting ==
    ASSUME CInv, NEW pend \in SUBSET UsersSeen, Cardinality(pend) =< MAX_GM,
           NEW n \in Nat, NEW inv, NEW done \in SUBSET (1 .. n),
           \A k \in done : 1 .. k \subseteq done, \A k \in done : inv[k] \in UsersSeen
    PROVE  /\ Cardinality(Kept(pend, inv, done)) =< MAX_GM
           /\ Fits(pend, inv, done) = done \/ Cardinality(Kept(pend, inv, done)) = MAX_GM
<1>. DEFINE P(k) == pend \cup {inv[i] : i \in 1 .. k}
            fits == Fits(pend, inv, done)
<1>. USE DEF Fits
<1>0. MAX_GM \in Nat
  BY ListSizes
<1>1. ASSUME NEW k \in Nat, 1 .. k \subseteq done
      PROVE  P(k) \subseteq UsersSeen /\ IsFiniteSet(P(k)) /\ Cardinality(P(k)) \in Nat
  <2>1. P(k) \subseteq UsersSeen
    BY <1>1
  <2>. HIDE DEF P
  <2>. QED  BY <2>1, PeopleFinite
<1>2. \A k \in fits : 1 .. k \subseteq fits
  <2>. SUFFICES ASSUME NEW k \in fits, NEW j \in 1 .. k PROVE j \in fits
    OBVIOUS
  <2>1. k \in done /\ k \in Nat /\ 1 .. k \subseteq done /\ j \in done /\ Cardinality(P(k)) =< MAX_GM
    OBVIOUS
  <2>2. P(j) \subseteq P(k)
    BY <2>1
  <2>3. IsFiniteSet(P(k)) /\ Cardinality(P(k)) \in Nat /\ Cardinality(P(j)) \in Nat
    <3>1. j \in Nat /\ 1 .. j \subseteq done
      BY <2>1
    <3>. HIDE DEF P
    <3>. QED  BY <1>1, <2>1, <3>1
  <2>4. Cardinality(P(j)) =< Cardinality(P(k))
    <3>. HIDE DEF P
    <3>. QED  BY <2>2, <2>3, FS_Subset
  <2>5. Cardinality(P(j)) =< MAX_GM
    BY <1>0, <2>1, <2>3, <2>4
  <2>. QED  BY <2>1, <2>5
<1>3. fits \subseteq done
  OBVIOUS
<1>4. PICK m \in 0 .. n : fits = 1 .. m
  <2>. QED  BY <1>2, <1>3, Prefix
<1>5. PICK d \in 0 .. n : done = 1 .. d
  BY Prefix
<1>6. m \in Nat /\ d \in Nat /\ m =< d
  <2>1. m \in Nat /\ d \in Nat /\ (m = 0 \/ m \in 1 .. m)
    OBVIOUS
  <2>2. m \in 1 .. m => m \in 1 .. d
    BY <1>3, <1>4, <1>5
  <2>. QED  BY <2>1, <2>2
<1>7. Kept(pend, inv, done) = P(m)
  BY <1>4 DEF Kept
<1>8. Cardinality(P(m)) =< MAX_GM /\ Cardinality(P(m)) \in Nat /\ IsFiniteSet(P(m))
  <2>1. CASE m = 0
    <3>1. P(m) = pend
      BY <2>1
    <3>. QED  BY <3>1, PeopleFinite
  <2>2. CASE m # 0
    <3>1. m \in 1 .. m
      BY <1>6, <2>2
    <3>2. m \in fits
      BY <1>4, <3>1
    <3>3. 1 .. m \subseteq done /\ Cardinality(P(m)) =< MAX_GM
      BY <1>3, <1>4, <3>2
    <3>. HIDE DEF P
    <3>. QED  BY <1>1, <1>6, <3>3
  <2>. QED  BY <2>1, <2>2
<1>9. ASSUME m # d PROVE Cardinality(P(m)) = MAX_GM
  <2>1. m + 1 \in done /\ m + 1 \notin fits
    <3>1. m + 1 \in 1 .. d /\ m + 1 \notin 1 .. m
      BY <1>6, <1>9
    <3>. QED  BY <1>4, <1>5, <3>1
  <2>2. P(m + 1) = P(m) \cup {inv[m + 1]}
    <3>1. 1 .. (m + 1) = (1 .. m) \cup {m + 1}
      BY <1>6
    <3>. QED  BY <3>1
  <2>3. ~(Cardinality(P(m + 1)) =< MAX_GM) /\ Cardinality(P(m + 1)) \in Nat
    <3>1. 1 .. (m + 1) \subseteq done
      BY <2>1
    <3>2. ~(Cardinality(P(m + 1)) =< MAX_GM)
      BY <2>1
    <3>. HIDE DEF P
    <3>3. m + 1 \in Nat
      BY <1>6
    <3>. QED  BY <1>1, <3>1, <3>2, <3>3
  <2>. HIDE DEF P
  <2>4. \/ Cardinality(P(m + 1)) = Cardinality(P(m))
        \/ Cardinality(P(m + 1)) = Cardinality(P(m)) + 1
    BY <1>8, <2>2, FS_AddElement
  <2>. QED  BY <1>0, <1>8, <2>3, <2>4
<1>10. m # d \/ fits = done
  BY <1>4, <1>5
<1>. HIDE DEF P, fits
<1>. QED  BY <1>7, <1>8, <1>9, <1>10 DEF fits

LEMMA InviteStep ==
    ASSUME CInv, Records, delivery' = delivery, delivery >= 18, NEW uid \in Callers,
           NEW idg \in Nat, NEW inv \in Invitations, handle_invite_19(uid, idg, inv)
    PROVE  CInv' /\ Service!Next
<1>0. uid \in Nat
  BY CallerNumbers
<1>1. CASE Refused(uid)
  BY <1>0, <1>1, RefusedStep
<1>2. CASE ~Refused(uid)
  <2>. DEFINE done == Invited(inv)
              all == {inv[k] : k \in done}
              fits(g) == {k \in done : Cardinality(g.pend \cup {inv[i] : i \in 1 .. k}) =< MAX_GM}
              kept(g) == {inv[k] : k \in fits(g)}
              h(g) == group_add_pending(g, kept(g))
  <2>1. PICK s \in AdminOf(uid, idg) :
          /\ Update(s, group_add_pending_GM(groups[s], inv, done))
          /\ reply' \in {send_ack(uid), send_err(uid)}
          /\ sent' = UNION {notif_udp_user(inv[k], "INV_UDP", idg) : k \in done}
    BY <1>2 DEF handle_invite_19
  <2>2. s \in find_group(idg) /\ groups[s].admin_id = uid
    BY <2>1 DEF AdminOf
  <2>. DEFINE g == groups[s]
              t == thread[s]
  <2>3. /\ s = idg /\ s \in DOMAIN groups /\ s \in Gids /\ g \in Group /\ g.idg = s
        /\ ~g.closed /\ g.admin_id = uid /\ Good(g, t, delivery, UsersSeen)
        /\ s \in DOMAIN CirclesSeen /\ CirclesSeen[s] = View(g, t)
    BY <2>2, Visible
  <2>4. PICK n \in Nat : /\ n \in 0 .. MaxInvitees /\ inv \in [1 .. n -> Callers]
                         /\ done \subseteq 1 .. n /\ \A k \in done : 1 .. k \subseteq done
                         /\ \A k \in done : inv[k] \in UsersSeen
    <3>1. PICK n \in 0 .. MaxInvitees : inv \in [1 .. n -> Callers]
      BY DEF Invitations
    <3>2. n \in Nat /\ DOMAIN inv = 1 .. n
      BY <3>1, Bounds
    <3>3. done = {k \in 1 .. n : \A i \in 1 .. k : find_user(inv[i])}
      BY <3>2 DEF Invited
    <3>. HIDE DEF done
    <3>4. \A k \in done : inv[k] \in UsersSeen
      <4>1. \A k \in done : k \in 1 .. k
        BY <3>2, <3>3
      <4>. QED  BY <3>3, <4>1, PeopleFound
    <3>5. \A k \in done : 1 .. k \subseteq done
      <4>. SUFFICES ASSUME NEW k \in done, NEW j \in 1 .. k PROVE j \in done
        OBVIOUS
      <4>1. j \in 1 .. n /\ 1 .. j \subseteq 1 .. k /\ \A i \in 1 .. k : find_user(inv[i])
        BY <3>2, <3>3
      <4>. QED  BY <3>3, <4>1
    <3>. QED  BY <3>1, <3>2, <3>3, <3>4, <3>5
  <2>5. group_add_pending_GM(g, inv, done) = h(g)
    <3>1. \A k : g.pend \cup ({inv[i] : i \in 1 .. k} \ g.pend) = g.pend \cup {inv[i] : i \in 1 .. k}
      OBVIOUS
    <3>2. {k \in done : Cardinality(g.pend \cup ({inv[i] : i \in 1 .. k} \ g.pend)) =< MAX_GM} = fits(g)
      BY <3>1
    <3>3. group_add_pending_GM(g, inv, done) =
            group_add_pending(g, {inv[k] : k \in {k \in done :
               Cardinality(g.pend \cup ({inv[i] : i \in 1 .. k} \ g.pend)) =< MAX_GM}})
      BY Zenon DEF group_add_pending_GM
    <3>. HIDE DEF g, fits, done
    <3>. QED  BY <3>2, <3>3
  <2>6. /\ all \subseteq UsersSeen /\ kept(g) \subseteq all
        /\ Cardinality(g.pend \cup kept(g)) =< MAX_GM
        /\ kept(g) = all \/ Cardinality(g.pend \cup kept(g)) = MAX_GM
    <3>1. g.pend \in SUBSET UsersSeen /\ Cardinality(g.pend) =< MAX_GM
      BY <2>3 DEF Good
    <3>2. g.pend \cup kept(g) = Kept(g.pend, inv, done) /\ fits(g) = Fits(g.pend, inv, done)
      BY DEF Kept, Fits
    <3>3. /\ Cardinality(Kept(g.pend, inv, done)) =< MAX_GM
          /\ Fits(g.pend, inv, done) = done \/ Cardinality(Kept(g.pend, inv, done)) = MAX_GM
      <4>. HIDE DEF done, g
      <4>1. /\ n \in Nat /\ done \in SUBSET (1 .. n) /\ \A k \in done : 1 .. k \subseteq done
            /\ \A k \in done : inv[k] \in UsersSeen
        BY <2>4
      <4>. QED  BY <3>1, <4>1, Fitting, Zenon
    <3>4. all \subseteq UsersSeen /\ kept(g) \subseteq all
      BY <2>4
    <3>5. fits(g) = done => kept(g) = all
      <4>. HIDE DEF done, fits
      <4>. QED  OBVIOUS
    <3>. HIDE DEF kept, fits, all
    <3>. QED  BY <3>2, <3>3, <3>4, <3>5
  <2>7. /\ h(g) \in Group /\ h(g).idg = g.idg /\ h(g).posts = g.posts
        /\ h(g).next_billet = g.next_billet /\ h(g).feed = g.feed /\ h(g).mem = g.mem
        /\ h(g).pend = g.pend \cup kept(g)
    <3>. DEFINE new == kept(g)
    <3>1. new \subseteq Nat
      BY <2>6, PeopleFinite
    <3>. HIDE DEF new, g
    <3>2. LET x == group_add_pending(g, new)
          IN  /\ x \in Group /\ x.named = g.named /\ x.idg = g.idg /\ x.posts = g.posts
              /\ x.next_billet = g.next_billet /\ x.feed = g.feed /\ x.mem = g.mem
              /\ x.pend = g.pend \cup new
      BY <2>3, <3>1 DEF group_add_pending, Group
    <3>. QED  BY <2>3, <3>2 DEF new
  <2>8. thread' = thread
    <3>1. reply'.code \notin {"POST_OK", "REPLY_OK"}
      BY <2>1, AnswerCode DEF send_ack, send_err
    <3>. QED  BY <3>1, Unrecorded
  <2>9. reply' \in Reply /\ sent' \subseteq Datagram
    <3>1. reply' \in Reply
      BY <1>0, <2>1, ReplyTypes DEF Codes
    <3>2. \A k \in done : inv[k] \in Nat
      BY <2>4, CallerNumbers
    <3>3. \A k \in done : notif_udp_user(inv[k], "INV_UDP", idg) \subseteq Datagram
      BY <3>2, NotifTypes, <2>3 DEF Notifs
    <3>. QED  BY <2>1, <3>1, <3>3
  <2>. DEFINE new == kept(g)
              x == h(g)
  <2>10. CInv' /\ Service!Becomes(s, View(x, t))
    <3>1. x.mem \subseteq UsersSeen /\ x.pend \subseteq UsersSeen /\ Cardinality(x.pend) =< MAX_GM
      <4>. HIDE DEF h, kept
      <4>. QED  BY <2>3, <2>6, <2>7 DEF Good
    <3>2. Update(s, x)
      BY <2>1, <2>5
    <3>. HIDE DEF h, x
    <3>. QED  BY <2>3, <2>7, <2>8, <2>9, <3>1, <3>2, ListsStep DEF x
  <2>11. View(x, t) = [CirclesSeen[s] EXCEPT !.invited = @ \cup new]
    <3>1. View(x, t) = [View(g, t) EXCEPT !.invited = @ \cup new]
      <4>. HIDE DEF g, t, x, kept, new
      <4>1. View(group_add_pending(g, new), t) = [View(g, t) EXCEPT !.invited = @ \cup new]
        BY <2>3, PendingAdded, Zenon
      <4>. QED  BY <4>1 DEF x, h, new
    <3>. HIDE DEF x, new, g, t
    <3>. QED  BY <2>3, <3>1, Zenon
  <2>12. sent' = Service!ToEach("INV_UDP", s, all)
    BY <2>1, <2>3 DEF Service!ToEach, notif_udp_user
  <2>13. AnswerSeen' \in {Service!Done, Service!Refusal}
    <3>1. CASE reply' = send_ack(uid)
      BY <3>1, AckSeen
    <3>2. CASE reply' = send_err(uid)
      BY <3>2, ErrSeen
    <3>. QED  BY <2>1, <3>1, <3>2
  <2>14. Service!RunBy(uid, s) /\ CirclesSeen[s].invited = g.pend
    <3>1. CirclesSeen[s].admin = uid /\ ~CirclesSeen[s].closed /\ CirclesSeen[s].invited = g.pend
      BY <2>3 DEF View
    <3>. QED  BY <2>3, <3>1 DEF Service!RunBy
  <2>. HIDE DEF x, all, new, g, t
  <2>15. CASE new = all
    <3>1. Service!Invite(s, all)
      BY <2>6, <2>10, <2>11, <2>12, <2>13, <2>14, <2>15, CountSame DEF Service!Invite, new
    <3>. QED  BY <2>3, <2>6, <2>10, <2>14, <3>1, InSeen DEF Service!In
  <2>16. CASE new # all
    <3>1. Service!InviteToFull(s, all, new)
      BY <2>6, <2>10, <2>11, <2>12, <2>13, <2>14, <2>16, CountSame DEF Service!InviteToFull, new
    <3>2. new \in SUBSET all
      BY <2>6 DEF new
    <3>. QED  BY <2>3, <2>6, <2>10, <2>14, <3>1, <3>2, InSeen DEF Service!In
  <2>. QED  BY <2>15, <2>16
<1>. QED  BY <1>1, <1>2

\* Someone whose request is not refused takes an invitation off the list.
LEMMA PendingLess ==
    ASSUME CInv, NEW pend \in SUBSET UsersSeen, Cardinality(pend) =< MAX_GM, NEW uid
    PROVE  pend \ {uid} \subseteq UsersSeen /\ Cardinality(pend \ {uid}) =< MAX_GM
<1>1. IsFiniteSet(pend) /\ Cardinality(pend) \in Nat /\ Cardinality(pend \ {uid}) \in Nat
  BY PeopleFinite
<1>2. Cardinality(pend \ {uid}) =< Cardinality(pend)
  BY <1>1, FS_Subset
<1>. QED  BY <1>1, <1>2, ListSizes

LEMMA DeclineStep ==
    ASSUME CInv, Records, delivery' = delivery, delivery >= 18, NEW uid \in Callers,
           NEW idg \in Nat, decline(uid, idg)
    PROVE  CInv' /\ Service!Next
<1>0. uid \in Nat
  BY CallerNumbers
<1>1. CASE Refused(uid)
  BY <1>0, <1>1, RefusedStep
<1>2. CASE ~Refused(uid)
  <2>1. PICK s \in PendingOf(uid, idg) :
          /\ Update(s, group_remove_pending(groups[s], uid))
          /\ reply' = send_ack(uid) /\ sent' = {}
    BY <1>2 DEF decline
  <2>2. s \in find_group(idg) /\ uid \in groups[s].pend
    BY <2>1 DEF PendingOf
  <2>. DEFINE g == groups[s]
              t == thread[s]
              h == group_remove_pending(g, uid)
  <2>3. /\ s = idg /\ s \in DOMAIN groups /\ g \in Group /\ g.idg = s
        /\ ~g.closed /\ uid \in g.pend /\ Good(g, t, delivery, UsersSeen)
        /\ s \in DOMAIN CirclesSeen /\ CirclesSeen[s] = View(g, t)
    BY <2>2, Visible
  <2>4. /\ h \in Group /\ h.named = g.named /\ h.idg = g.idg /\ h.posts = g.posts
        /\ h.next_billet = g.next_billet /\ h.feed = g.feed /\ h.mem = g.mem
        /\ h.pend = g.pend \ {uid}
    BY <2>3 DEF group_remove_pending, Group
  <2>5. thread' = thread
    BY <2>1, AnswerCode, Unrecorded DEF send_ack
  <2>6. reply' \in Reply /\ sent' \subseteq Datagram
    BY <1>0, <2>1, ReplyTypes DEF Codes
  <2>7. h.mem \subseteq UsersSeen /\ h.pend \subseteq UsersSeen /\ Cardinality(h.pend) =< MAX_GM
    <3>1. g.mem \subseteq UsersSeen /\ g.pend \in SUBSET UsersSeen /\ Cardinality(g.pend) =< MAX_GM
      BY <2>3 DEF Good
    <3>. HIDE DEF h, g
    <3>. QED  BY <2>4, <3>1, PendingLess
  <2>8. Update(s, h)
    BY <2>1
  <2>9. View(h, t) = [View(g, t) EXCEPT !.invited = @ \ {uid}]
    <3>. HIDE DEF g, t, h
    <3>1. g \in Group /\ uid \in Nat
      BY <1>0, <2>3
    <3>2. View(group_remove_pending(g, uid), t) = [View(g, t) EXCEPT !.invited = @ \ {uid}]
      BY <3>1, PendingRemoved, Zenon
    <3>. QED  BY <3>2 DEF h
  <2>. HIDE DEF h
  <2>10. CInv' /\ Service!Becomes(s, View(h, t))
    BY <2>3, <2>4, <2>5, <2>6, <2>7, <2>8, ListsStep
  <2>. HIDE DEF t, g
  <2>11. Service!InvitedTo(uid, s)
    <3>1. ~CirclesSeen[s].closed /\ uid \in CirclesSeen[s].invited
      BY <2>3 DEF View
    <3>. QED  BY <2>3, <3>1 DEF Service!InvitedTo
  <2>12. View(h, t) = [CirclesSeen[s] EXCEPT !.invited = @ \ {uid}]
    BY <2>3, <2>9, Zenon
  <2>13. Service!Decline(uid, s)
    BY <2>1, <2>10, <2>11, <2>12, AckSeen DEF Service!Decline
  <2>. QED  BY <2>3, <2>10, <2>13, InSeen DEF Service!In
<1>. QED  BY <1>1, <1>2

LEMMA LeaveStepShown ==
    ASSUME CInv, Records, delivery' = delivery, delivery >= 18, NEW uid \in Callers,
           NEW idg \in Nat, leave(uid, idg)
    PROVE  CInv' /\ Service!Next
<1>0. uid \in Nat
  BY CallerNumbers
<1>1. CASE Refused(uid)
  BY <1>0, <1>1, RefusedStep
<1>2. CASE ~Refused(uid)
  <2>1. PICK s \in MemberOf(uid, idg) :
          LET admin == groups[s].admin_id = uid
          IN  /\ Update(s, IF admin THEN close_group(groups[s])
                                    ELSE group_remove_member(groups[s], uid))
              /\ reply' = send_ack(uid)
              /\ sent' = notif_mcast(groups[s], IF admin THEN "CLOSE" ELSE "LEAVE")
    BY <1>2 DEF leave
  <2>2. s \in find_group(idg) /\ uid \in groups[s].mem
    BY <2>1 DEF MemberOf
  <2>. DEFINE g == groups[s]
              t == thread[s]
  <2>3. /\ s = idg /\ s \in DOMAIN groups /\ g \in Group /\ g.idg = s
        /\ ~g.closed /\ uid \in g.mem /\ Good(g, t, delivery, UsersSeen)
        /\ s \in DOMAIN CirclesSeen /\ CirclesSeen[s] = View(g, t)
    BY <2>2, Visible
  <2>4. thread' = thread
    BY <2>1, AnswerCode, Unrecorded DEF send_ack
  <2>5. reply' \in Reply /\ sent' \subseteq Datagram
    <3>1. sent' = notif_mcast(g, "CLOSE") \/ sent' = notif_mcast(g, "LEAVE")
      BY <2>1
    <3>. QED  BY <1>0, <2>1, <2>3, <3>1, ReplyTypes, NotifTypes DEF Codes, Notifs
  <2>6. Service!OpenTo(uid, s) /\ (Service!RunBy(uid, s) <=> g.admin_id = uid)
    <3>1. /\ ~CirclesSeen[s].closed /\ uid \in CirclesSeen[s].members
          /\ CirclesSeen[s].admin = g.admin_id
      BY <2>3 DEF View
    <3>. QED  BY <2>3, <3>1 DEF Service!OpenTo, Service!RunBy
  <2>7. /\ g.mem \subseteq UsersSeen /\ g.pend \subseteq UsersSeen /\ Cardinality(g.pend) =< MAX_GM
    BY <2>3 DEF Good
  <2>8. CASE g.admin_id = uid
    <3>. DEFINE h == close_group(g)
    <3>1. /\ h \in Group /\ h.named = g.named /\ h.idg = g.idg /\ h.posts = g.posts
          /\ h.next_billet = g.next_billet /\ h.feed = g.feed /\ h.mem = g.mem /\ h.pend = g.pend
      BY <2>3 DEF close_group, Group
    <3>2. Update(s, h)
      BY <2>1, <2>8
    <3>3. View(h, t) = [View(g, t) EXCEPT !.closed = TRUE]
      <4>. HIDE DEF g, t, h
      <4>1. View(close_group(g), t) = [View(g, t) EXCEPT !.closed = TRUE]
        BY <2>3, CircleClosed, Zenon
      <4>. QED  BY <4>1 DEF h
    <3>4. sent' = Service!ToCircle("CLOSE", s)
      BY <2>1, <2>3, <2>8, ToCircleSeen
    <3>. HIDE DEF h
    <3>5. CInv' /\ Service!Becomes(s, View(h, t))
      BY <2>3, <2>4, <2>5, <2>7, <3>1, <3>2, ListsStep
    <3>. HIDE DEF g, t
    <3>6. View(h, t) = [CirclesSeen[s] EXCEPT !.closed = TRUE]
      BY <2>3, <3>3, Zenon
    <3>7. Service!Close(uid, s)
      BY <2>1, <2>6, <2>8, <3>4, <3>5, <3>6, AckSeen DEF Service!Close
    <3>. QED  BY <2>3, <3>5, <3>7, InSeen DEF Service!In
  <2>9. CASE g.admin_id # uid
    <3>. DEFINE h == group_remove_member(g, uid)
    <3>1. /\ h \in Group /\ h.named = g.named /\ h.idg = g.idg /\ h.posts = g.posts
          /\ h.next_billet = g.next_billet /\ h.feed = g.feed /\ h.mem = g.mem \ {uid}
          /\ h.pend = g.pend
      BY <2>3 DEF group_remove_member, Group
    <3>2. Update(s, h)
      BY <2>1, <2>9
    <3>3. View(h, t) = [View(g, t) EXCEPT !.members = @ \ {uid}]
      <4>. HIDE DEF g, t, h
      <4>1. g \in Group /\ uid \in Nat
        BY <1>0, <2>3
      <4>2. View(group_remove_member(g, uid), t) = [View(g, t) EXCEPT !.members = @ \ {uid}]
        BY <4>1, MemberRemoved, Zenon
      <4>. QED  BY <4>2 DEF h
    <3>4. sent' = Service!ToCircle("LEAVE", s)
      BY <2>1, <2>3, <2>9, ToCircleSeen
    <3>. HIDE DEF h
    <3>5. CInv' /\ Service!Becomes(s, View(h, t))
      <4>1. h.mem \subseteq UsersSeen /\ h.pend \subseteq UsersSeen /\ Cardinality(h.pend) =< MAX_GM
        BY <2>7, <3>1
      <4>. QED  BY <2>3, <2>4, <2>5, <3>1, <3>2, <4>1, ListsStep
    <3>. HIDE DEF g, t
    <3>6. View(h, t) = [CirclesSeen[s] EXCEPT !.members = @ \ {uid}]
      BY <2>3, <3>3, Zenon
    <3>7. Service!Leave(uid, s)
      BY <2>1, <2>6, <2>9, <3>4, <3>5, <3>6, AckSeen DEF Service!Leave
    <3>. QED  BY <2>3, <3>5, <3>7, InSeen DEF Service!In
  <2>. QED  BY <2>8, <2>9
<1>. QED  BY <1>1, <1>2

LEMMA AcceptStep ==
    ASSUME CInv, Records, delivery' = delivery, delivery >= 18, NEW uid \in Callers,
           NEW idg \in Nat, NEW an \in 0 .. 2, handle_inv_ans_21(uid, idg, an)
    PROVE  CInv' /\ Service!Next
<1>0. uid \in Nat
  BY CallerNumbers
<1>1. CASE Refused(uid)
  BY <1>0, <1>1, RefusedStep
<1>2. CASE decline(uid, idg) \/ leave(uid, idg)
  BY <1>2, DeclineStep, LeaveStepShown
<1>3. CASE ~Refused(uid) /\ ~decline(uid, idg) /\ ~leave(uid, idg)
  <2>. DEFINE h(s) == group_add_member_GM(group_remove_pending(groups[s], uid), uid)
              listed(s) == \A m \in h(s).mem : find_user(m)
  <2>1. PICK s \in PendingOf(uid, idg) :
          /\ Update(s, h(s))
          /\ reply' = IF listed(s) THEN Answer(uid, "JOIN_OK", idg, 0, 0) ELSE send_err(uid)
          /\ sent' = IF listed(s) THEN notif_mcast(h(s), "JOIN") ELSE {}
    BY <1>3 DEF handle_inv_ans_21
  <2>2. s \in find_group(idg) /\ uid \in groups[s].pend
    BY <2>1 DEF PendingOf
  <2>. DEFINE g == groups[s]
              t == thread[s]
              g1 == group_remove_pending(g, uid)
              g2 == group_add_member(g1, uid)
              x == h(s)
              full == ~(uid \in g.mem \/ Cardinality(g.mem) < MAX_GM)
  <2>3. /\ s = idg /\ s \in DOMAIN groups /\ g \in Group /\ g.idg = s
        /\ ~g.closed /\ uid \in g.pend /\ Good(g, t, delivery, UsersSeen)
        /\ s \in DOMAIN CirclesSeen /\ CirclesSeen[s] = View(g, t)
    BY <2>2, Visible
  <2>4. /\ g1 \in Group /\ g1.named = g.named /\ g1.idg = g.idg /\ g1.posts = g.posts
        /\ g1.next_billet = g.next_billet /\ g1.feed = g.feed /\ g1.mem = g.mem
        /\ g1.pend = g.pend \ {uid}
    BY <2>3 DEF group_remove_pending, Group
  <2>5. /\ g2 \in Group /\ g2.named = g.named /\ g2.idg = g.idg /\ g2.posts = g.posts
        /\ g2.next_billet = g.next_billet /\ g2.feed = g.feed /\ g2.mem = g.mem \cup {uid}
        /\ g2.pend = g.pend \ {uid}
    <3>. HIDE DEF g1, g
    <3>. QED  BY <1>0, <2>4 DEF group_add_member, Group
  <2>6. x = IF full THEN g1 ELSE g2
    BY <2>4 DEF group_add_member_GM
  <2>7. View(g1, t) = [View(g, t) EXCEPT !.invited = @ \ {uid}]
    <3>. HIDE DEF g, t, g1
    <3>1. View(group_remove_pending(g, uid), t) = [View(g, t) EXCEPT !.invited = @ \ {uid}]
      BY <2>3, PendingRemoved, Zenon
    <3>. QED  BY <3>1 DEF g1
  <2>8. View(g2, t) = [[View(g, t) EXCEPT !.invited = @ \ {uid}]
                          EXCEPT !.members = View(g, t).members \cup {uid}]
    <3>. HIDE DEF g, t, g2
    <3>1. View(group_add_member(group_remove_pending(g, uid), uid), t) =
            [[View(g, t) EXCEPT !.invited = @ \ {uid}]
                EXCEPT !.members = View(g, t).members \cup {uid}]
      BY <2>3, MemberAdded, Zenon
    <3>. QED  BY <3>1 DEF g2, g1
  <2>9. uid \in g.mem => View(g2, t) = View(g1, t)
    <3>1. /\ g2.admin_id = g.admin_id /\ g2.closed = g.closed
          /\ g1.admin_id = g.admin_id /\ g1.closed = g.closed
      BY <2>3 DEF group_add_member, group_remove_pending, Group
    <3>. HIDE DEF g1, g2, g
    <3>2. /\ View(g2, t) = Edited(g, g.closed, g.mem \cup {uid}, g.pend \ {uid}, t)
          /\ View(g1, t) = Edited(g, g.closed, g.mem, g.pend \ {uid}, t)
      BY <2>4, <2>5, <3>1, SeenAsEdited
    <3>3. uid \in g.mem => g.mem \cup {uid} = g.mem
      OBVIOUS
    <3>. QED  BY <3>2, <3>3
  <2>10. /\ g.mem \subseteq UsersSeen /\ g.pend \in SUBSET UsersSeen
         /\ Cardinality(g.pend) =< MAX_GM
    BY <2>3 DEF Good
  <2>11. /\ x \in Group /\ x.named = g.named /\ x.idg = g.idg /\ x.posts = g.posts
         /\ x.next_billet = g.next_billet /\ x.feed = g.feed /\ x.pend = g.pend \ {uid}
         /\ x.mem \subseteq UsersSeen /\ x.pend \subseteq UsersSeen /\ Cardinality(x.pend) =< MAX_GM
    <3>. HIDE DEF x, g1, g2, g, full
    <3>1. g.pend \ {uid} \subseteq UsersSeen /\ Cardinality(g.pend \ {uid}) =< MAX_GM
      BY <2>10, PendingLess
    <3>2. uid \in UsersSeen
      BY <2>3, <2>10
    <3>. QED  BY <2>4, <2>5, <2>6, <2>10, <3>1, <3>2
  <2>12. listed(s)
    <3>. HIDE DEF h
    <3>. QED  BY <2>11, PeopleFound
  <2>13. reply' = Answer(uid, "JOIN_OK", s, 0, 0) /\ sent' = notif_mcast(x, "JOIN") /\ Update(s, x)
    <3>. HIDE DEF h, listed
    <3>. QED  BY <2>1, <2>3, <2>12
  <2>. HIDE DEF x, g1, g2, full, h, listed
  <2>14. thread' = thread
    BY <2>13, AnswerCode, Unrecorded
  <2>15. reply' \in Reply /\ sent' \subseteq Datagram
    <3>1. s \in Nat
      BY <2>3
    <3>. QED  BY <1>0, <2>11, <2>13, <3>1, ReplyTypes, NotifTypes DEF Codes, Notifs
  <2>16. CInv' /\ Service!Becomes(s, View(x, t))
    BY <2>3, <2>11, <2>13, <2>14, <2>15, ListsStep
  <2>17. AnswerSeen' = Service!Granted(s, 0, 0, << >>)
    BY <2>13, GrantSeen DEF Codes
  <2>18. sent' = Service!ToCircle("JOIN", s)
    <3>1. sent' = notif_mcast(g, "JOIN")
      BY <2>11, <2>13 DEF notif_mcast
    <3>. QED  BY <2>3, <3>1, ToCircleSeen
  <2>. HIDE DEF t, g
  <2>19. Service!InvitedTo(uid, s) /\ CirclesSeen[s].members = g.mem
    <3>1. ~CirclesSeen[s].closed /\ uid \in CirclesSeen[s].invited /\ CirclesSeen[s].members = g.mem
      BY <2>3 DEF View
    <3>. QED  BY <2>3, <3>1 DEF Service!InvitedTo
  <2>20. Cardinality(g.mem) \in Nat /\ MAX_GM \in Nat
    BY <2>10, PeopleFinite, ListSizes
  <2>21. CASE Cardinality(g.mem) < MAX_GM
    <3>1. x = g2
      BY <2>6, <2>21 DEF full
    <3>. DEFINE c == CirclesSeen[s]
    <3>2. View(x, t) = [[c EXCEPT !.invited = @ \ {uid}] EXCEPT !.members = c.members \cup {uid}]
      BY <2>3, <2>8, <3>1, Zenon
    <3>3. [c EXCEPT !.invited = @ \ {uid}, !.members = @ \cup {uid}] =
            [[c EXCEPT !.invited = @ \ {uid}] EXCEPT !.members = c.members \cup {uid}]
      <4>. HIDE DEF c
      <4>. DEFINE i == c.invited \ {uid}
                  m == c.members \cup {uid}
      <4>. HIDE DEF i, m
      <4>1. [c EXCEPT !.invited = i, !.members = m] = [[c EXCEPT !.invited = i] EXCEPT !.members = m]
        OBVIOUS
      <4>. QED  BY <4>1 DEF i, m
    <3>4. View(x, t) = [CirclesSeen[s] EXCEPT !.invited = @ \ {uid}, !.members = @ \cup {uid}]
      BY <3>2, <3>3
    <3>5. Service!Join(uid, s)
      BY <2>16, <2>17, <2>18, <2>19, <2>21, <3>4, CountSame DEF Service!Join
    <3>. QED  BY <2>3, <2>16, <3>5, InSeen DEF Service!In
  <2>22. CASE ~(Cardinality(g.mem) < MAX_GM)
    <3>1. View(x, t) = View(g1, t)
      BY <2>6, <2>9, <2>22 DEF full
    <3>2. View(x, t) = [CirclesSeen[s] EXCEPT !.invited = @ \ {uid}]
      BY <2>3, <2>7, <3>1, Zenon
    <3>3. Cardinality(g.mem) >= MAX_GM
      BY <2>20, <2>22
    <3>4. Service!JoinFull(uid, s)
      BY <2>16, <2>17, <2>18, <2>19, <3>2, <3>3, CountSame DEF Service!JoinFull
    <3>. QED  BY <2>3, <2>16, <3>4, InSeen DEF Service!In
  <2>. QED  BY <2>21, <2>22
<1>4. handle_inv_ans_21(uid, idg, an)
  OBVIOUS
<1>. QED  BY <1>1, <1>2, <1>3, Zenon

(***************************************************************************)
(* Writing in a thread.                                                    *)
(***************************************************************************)
\* A step that writes in a group, and in its thread.
LEMMA WriteStep ==
    ASSUME CInv, delivery >= 18, NEW s \in DOMAIN groups, NEW h \in Group,
           h.idg = groups[s].idg, h.mem = groups[s].mem, h.pend = groups[s].pend,
           NEW u \in Seq(FeedItem), Numbered(Shown(h, u)), Unbroken(Shown(h, u)),
           h.feed = IF delivery >= 26 THEN u ELSE << >>,
           Update(s, h), delivery' = delivery, thread' = [thread EXCEPT ![s] = u],
           reply' \in Reply, sent' \subseteq Datagram
    PROVE  CInv' /\ Service!Becomes(s, View(h, u))
<1>1. groups[s].idg = s /\ Good(groups[s], thread[s], delivery, UsersSeen)
  BY EntryFacts
<1>2. Good(h, u, delivery, UsersSeen)
  BY <1>1 DEF Good
<1>3. CInv'
  BY <1>1, <1>2, ReplaceKeeps
<1>4. Service!Becomes(s, View(h, u))
  BY <1>1, ReplaceSeen
<1>. QED  BY <1>3, <1>4

\* The fields of a group with one more billet, and of one with one more reply counted.
LEMMA PostedFields ==
    ASSUME NEW g \in Group, NEW uid \in Nat
    PROVE  LET h == NewPost(g, uid)
           IN  /\ h \in Group /\ h.idg = g.idg /\ h.named = g.named /\ h.admin_id = g.admin_id
               /\ h.closed = g.closed /\ h.mem = g.mem /\ h.pend = g.pend /\ h.feed = g.feed
               /\ h.next_billet = g.next_billet + 1
               /\ h.posts = Append(g.posts, [numb |-> g.next_billet, author |-> uid, next_reply |-> 0])
<1>1. NewPost(g, uid) = PostedBillet(uid, g)
  BY DEF NewPost, PostedBillet
<1>2. NewPost(g, uid) \in Group
  BY <1>1, PostedTypes
<1>. QED  BY <1>2 DEF NewPost, Group

LEMMA PushedFields ==
    ASSUME NEW g \in Group, NEW item \in FeedItem
    PROVE  LET h == feed_push(g, item)
           IN  /\ h \in Group /\ h.idg = g.idg /\ h.named = g.named /\ h.admin_id = g.admin_id
               /\ h.closed = g.closed /\ h.mem = g.mem /\ h.pend = g.pend
               /\ h.feed = Append(g.feed, item)
               /\ h.next_billet = g.next_billet /\ h.posts = g.posts
<1>1. Append(g.feed, item) \in Seq(FeedItem)
  BY AppendFacts DEF Group
<1>. QED  BY <1>1 DEF feed_push, Group

LEMMA CountedFields ==
    ASSUME NEW g \in Group, NEW i \in DOMAIN g.posts
    PROVE  LET h == Counted(g, i)
           IN  /\ h \in Group /\ h.idg = g.idg /\ h.named = g.named /\ h.admin_id = g.admin_id
               /\ h.closed = g.closed /\ h.mem = g.mem /\ h.pend = g.pend /\ h.feed = g.feed
               /\ h.next_billet = g.next_billet /\ DOMAIN h.posts = DOMAIN g.posts
               /\ \A p \in DOMAIN g.posts : h.posts[p].author = g.posts[p].author
<1>. DEFINE h == CountedReply(g, i)
<1>1. /\ h.idg = g.idg /\ h.named = g.named /\ h.next_billet = g.next_billet
      /\ h.admin_id = g.admin_id /\ h.closed = g.closed /\ h.mem = g.mem /\ h.pend = g.pend
      /\ h.feed = g.feed /\ h \in Group
      /\ h.posts = [g.posts EXCEPT ![i].next_reply = g.posts[i].next_reply + 1]
  BY RepliedTypes DEF CountedReply, Group
<1>2. /\ DOMAIN h.posts = DOMAIN g.posts
      /\ \A p \in DOMAIN g.posts : h.posts[p].author = g.posts[p].author
  <2>1. g.posts \in Seq(Post)
    BY DEF Group
  <2>2. \A p \in DOMAIN g.posts : g.posts[p] \in Post
    BY <2>1
  <2>. HIDE DEF h
  <2>. QED  BY <1>1, <2>1, <2>2 DEF Post
<1>3. Counted(g, i) = h
  BY CountedSame
<1>. HIDE DEF h
<1>. QED  BY <1>1, <1>2, <1>3

\* A post appends its author to the topics of the circle, and its item to the thread.
LEMMA PostedView ==
    ASSUME NEW g \in Group, NEW uid \in Nat, NEW t, NEW item, NEW h \in Group,
           h.posts = NewPost(g, uid).posts, h.named = g.named,
           h.admin_id = g.admin_id, h.closed = g.closed,
           h.mem = g.mem, h.pend = g.pend
    PROVE  View(h, Append(t, item)) = Service!WithTopic(View(g, t), uid, item)
<1>. DEFINE po == [numb |-> g.next_billet, author |-> uid, next_reply |-> 0]
            top == Append(View(g, t).topics, uid)
            u == Append(t, item)
<1>1. po.author = uid /\ po \in Post
  BY DEF Post, Group
<1>2. h.posts = Append(g.posts, po)
  BY PostedFields
<1>. HIDE DEF po
<1>3. View(h, u).topics = top
  <2>1. g.posts \in Seq(Post) /\ h.posts \in Seq(Post)
    BY DEF Group
  <2>2. /\ Len(h.posts) = Len(g.posts) + 1 /\ h.posts[Len(g.posts) + 1].author = uid
        /\ \A i \in DOMAIN g.posts : h.posts[i] = g.posts[i]
        /\ DOMAIN h.posts = DOMAIN g.posts \cup {Len(g.posts) + 1}
        /\ DOMAIN g.posts = 1 .. Len(g.posts) /\ Len(g.posts) \in Nat
    BY <1>1, <1>2, <2>1, AppendFacts
  <2>. HIDE DEF u
  <2>3. /\ View(h, u).topics \in Seq(Nat) /\ Len(View(h, u).topics) = Len(g.posts) + 1
        /\ \A i \in DOMAIN h.posts : View(h, u).topics[i] = h.posts[i].author
    BY <2>2, Topics
  <2>4. /\ View(g, t).topics \in Seq(Nat) /\ Len(View(g, t).topics) = Len(g.posts)
        /\ \A i \in DOMAIN g.posts : View(g, t).topics[i] = g.posts[i].author
    BY Topics
  <2>5. /\ top \in Seq(Nat) /\ Len(top) = Len(g.posts) + 1 /\ top[Len(g.posts) + 1] = uid
        /\ \A i \in 1 .. Len(g.posts) : top[i] = View(g, t).topics[i]
    BY <2>2, <2>4
  <2>. DEFINE n == Len(g.posts)
              a == View(h, u).topics
  <2>. HIDE DEF top
  <2>6. ASSUME NEW i \in 1 .. n PROVE a[i] = top[i]
    <3>1. i \in DOMAIN g.posts /\ i \in DOMAIN h.posts
      BY <2>2
    <3>2. a[i] = h.posts[i].author /\ h.posts[i] = g.posts[i]
      BY <2>2, <2>3, <3>1
    <3>. HIDE DEF a
    <3>. QED  BY <2>4, <2>5, <3>1, <3>2
  <2>7. a[n + 1] = top[n + 1]
    BY <2>2, <2>3, <2>5
  <2>8. a \in Seq(Nat) /\ Len(a) = n + 1 /\ top \in Seq(Nat) /\ Len(top) = n + 1 /\ n \in Nat
    BY <2>2, <2>3, <2>5
  <2>. HIDE DEF n, a
  <2>9. \A i \in 1 .. n + 1 : a[i] = top[i]
    BY <2>6, <2>7, <2>8
  <2>10. a = top
    BY <2>8, <2>9
  <2>. QED  BY <2>10 DEF a
<1>. HIDE DEF top
<1>4. View(h, u) = [admin |-> g.admin_id, address |-> g.named, closed |-> g.closed, members |-> g.mem,
                    invited |-> g.pend, thread |-> u, topics |-> top]
  <2>1. View(h, u) = [admin |-> h.admin_id, address |-> h.named, closed |-> h.closed, members |-> h.mem,
                      invited |-> h.pend, thread |-> u, topics |-> View(h, u).topics]
    BY DEF View
  <2>. QED  BY <1>3, <2>1, Zenon
<1>. HIDE DEF u
<1>5. [View(g, t) EXCEPT !.topics = top, !.thread = u] =
        [admin |-> g.admin_id, address |-> g.named, closed |-> g.closed, members |-> g.mem,
         invited |-> g.pend, thread |-> u, topics |-> top]
  <2>. DEFINE c == [View(g, t) EXCEPT !.topics = top]
              top0 == View(g, t).topics
  <2>0. View(g, t) = [admin |-> g.admin_id, address |-> g.named, closed |-> g.closed, members |-> g.mem,
                      invited |-> g.pend, thread |-> t, topics |-> top0]
    BY DEF View
  <2>. HIDE DEF top0
  <2>1. c = [admin |-> g.admin_id, address |-> g.named, closed |-> g.closed, members |-> g.mem,
             invited |-> g.pend, thread |-> t, topics |-> top]
    BY <2>0
  <2>2. [View(g, t) EXCEPT !.topics = top, !.thread = u] = [c EXCEPT !.thread = u]
    OBVIOUS
  <2>. HIDE DEF c
  <2>. QED  BY <2>1, <2>2
<1>6. View(g, t).thread = t
  BY DEF View
<1>7. View(h, u) = [View(g, t) EXCEPT !.topics = top, !.thread = u]
  BY <1>4, <1>5
<1>8. Service!WithTopic(View(g, t), uid, item) = [View(g, t) EXCEPT !.topics = top, !.thread = u]
  <2>1. Append(View(g, t).thread, item) = u
    BY <1>6 DEF u
  <2>2. Service!WithTopic(View(g, t), uid, item) =
          [View(g, t) EXCEPT !.topics = Append(View(g, t).topics, uid),
                             !.thread = Append(View(g, t).thread, item)]
    BY DEF Service!WithTopic
  <2>. QED  BY <2>1, <2>2 DEF top
<1>. QED  BY <1>7, <1>8 DEF u

\* A reply appends its item to the thread.
LEMMA CountedView ==
    ASSUME NEW g \in Group, NEW i \in DOMAIN g.posts, NEW t, NEW item, NEW h \in Group,
           h.posts = Counted(g, i).posts, h.named = g.named,
           h.admin_id = g.admin_id, h.closed = g.closed,
           h.mem = g.mem, h.pend = g.pend
    PROVE  View(h, Append(t, item)) = Service!WithItem(View(g, t), item)
<1>. DEFINE top == View(g, t).topics
            u == Append(t, item)
<1>1. View(h, u).topics = top
  <2>1. /\ DOMAIN h.posts = DOMAIN g.posts
        /\ \A p \in DOMAIN g.posts : h.posts[p].author = g.posts[p].author
    BY CountedFields
  <2>2. /\ View(h, u).topics = [p \in DOMAIN h.posts |-> h.posts[p].author]
        /\ top = [p \in DOMAIN g.posts |-> g.posts[p].author]
    BY DEF View
  <2>. HIDE DEF u, top
  <2>3. [p \in DOMAIN h.posts |-> h.posts[p].author] = [p \in DOMAIN g.posts |-> g.posts[p].author]
    BY <2>1
  <2>. QED  BY <2>2, <2>3
<1>2. View(g, t) = [admin |-> g.admin_id, address |-> g.named, closed |-> g.closed, members |-> g.mem,
                    invited |-> g.pend, thread |-> t, topics |-> top]
  BY DEF View
<1>3. View(h, u) = [admin |-> h.admin_id, address |-> h.named, closed |-> h.closed, members |-> h.mem,
                    invited |-> h.pend, thread |-> u, topics |-> View(h, u).topics]
  BY DEF View
<1>. HIDE DEF u, top
<1>4. View(h, u) = [admin |-> g.admin_id, address |-> g.named, closed |-> g.closed, members |-> g.mem,
                    invited |-> g.pend, thread |-> u, topics |-> top]
  BY <1>1, <1>3, Zenon
<1>5. [View(g, t) EXCEPT !.thread = u] = View(h, u) /\ View(g, t).thread = t
  BY <1>2, <1>4
<1>6. Service!WithItem(View(g, t), item) = [View(g, t) EXCEPT !.thread = Append(View(g, t).thread, item)]
  BY DEF Service!WithItem
<1>. QED  BY <1>5, <1>6 DEF u

\* What was acknowledged is written in the thread.
LEMMA Recorded ==
    ASSUME Records, reply'.code \in {"POST_OK", "REPLY_OK"}, NEW s, reply'.idg = s,
           NEW u, u = Append(thread[s], Acknowledged(reply'))
    PROVE  thread' = [thread EXCEPT ![s] = u]
  BY Zenon DEF Records

LEMMA AcknowledgedAnswer ==
    \A uid, code, idg, numb, numr :
        Acknowledged(Answer(uid, code, idg, numb, numr))
            = [author |-> uid, numb |-> numb, numr |-> numr]
  BY DEF Acknowledged, Answer

\* A post that was kept.
LEMMA PostDone ==
    ASSUME CInv, Records, delivery' = delivery, delivery >= 24, NEW uid \in Callers,
           NEW idg \in Nat, NEW s \in MemberOf(uid, idg), NEW h,
           h = IF delivery >= 26
               THEN feed_push(NewPost(groups[s], uid), BilletItem(uid, groups[s]))
               ELSE NewPost(groups[s], uid),
           Update(s, h), Posted(uid, idg, groups[s])
    PROVE  CInv' /\ Service!Next
<1>. DEFINE g == groups[s]
            t == thread[s]
            item == BilletItem(uid, g)
            u == Append(t, item)
<1>1. /\ s = idg /\ s \in DOMAIN groups /\ g \in Group /\ g.idg = idg /\ uid \in Nat
      /\ ~g.closed /\ t \in Seq(FeedItem) /\ Good(g, t, delivery, UsersSeen)
      /\ s \in DOMAIN CirclesSeen /\ CirclesSeen[s] = View(g, t)
      /\ uid \in g.mem /\ delivery >= 18 /\ delivery \in 16 .. 33
  <2>1. s \in find_group(idg) /\ uid \in groups[s].mem
    BY DEF MemberOf
  <2>2. delivery \in 16 .. 33
    BY DEF CInv
  <2>3. delivery >= 18
    BY <2>2
  <2>. QED  BY <2>1, <2>2, <2>3, Visible
<1>2. Numbered(Shown(g, t)) /\ Unbroken(Shown(g, t)) /\ g.feed = IF delivery >= 26 THEN t ELSE << >>
  BY <1>1 DEF Good
<1>3. g.next_billet = Len(g.posts) /\ Len(g.posts) \in Nat
  BY <1>1, <1>2, ThreadNumbers
<1>4. thread' = [thread EXCEPT ![s] = u]
  <2>1. reply' = Answer(uid, "POST_OK", s, g.next_billet, 0)
    BY <1>1 DEF Posted
  <2>2. reply'.code = "POST_OK" /\ reply'.idg = s
    BY <2>1 DEF Answer
  <2>3. Acknowledged(reply') = item
    BY <2>1, AcknowledgedAnswer DEF BilletItem
  <2>4. u = Append(thread[s], Acknowledged(reply'))
    BY <2>3
  <2>. HIDE DEF u
  <2>. QED  BY <2>2, <2>4, Recorded
<1>5. /\ h \in Group /\ h.idg = g.idg /\ h.named = g.named /\ h.admin_id = g.admin_id
      /\ h.closed = g.closed /\ h.mem = g.mem /\ h.pend = g.pend
      /\ h.next_billet = g.next_billet + 1 /\ h.posts = NewPost(g, uid).posts
      /\ h.feed = IF delivery >= 26 THEN u ELSE << >>
  <2>. DEFINE n == NewPost(g, uid)
  <2>1. /\ n \in Group /\ n.idg = g.idg /\ n.named = g.named /\ n.admin_id = g.admin_id
        /\ n.closed = g.closed /\ n.mem = g.mem /\ n.pend = g.pend /\ n.feed = g.feed
        /\ n.next_billet = g.next_billet + 1
    BY <1>1, PostedFields
  <2>2. item \in FeedItem
    BY <1>1, PostedTypes
  <2>. HIDE DEF n, item, g, t
  <2>3. CASE delivery >= 26
    <3>1. h = feed_push(n, item)
      BY <2>3 DEF n, item, g
    <3>. QED  BY <1>2, <2>1, <2>2, <2>3, <3>1, PushedFields DEF n
  <2>4. CASE ~(delivery >= 26)
    <3>1. h = n
      BY <2>4 DEF n, g
    <3>. QED  BY <1>2, <2>1, <2>4, <3>1 DEF n
  <2>. QED  BY <2>3, <2>4
<1>6. u \in Seq(FeedItem) /\ Numbered(Shown(h, u)) /\ Unbroken(Shown(h, u))
  <2>. HIDE DEF g, t
  <2>. QED  BY <1>1, <1>2, <1>5, PostSound
<1>7. reply' \in Reply /\ sent' \subseteq Datagram
  BY <1>1, <1>3, ReplyTypes, NotifTypes DEF Posted, Codes, Notifs
<1>8. View(h, u) = Service!WithTopic(CirclesSeen[s], uid, item)
  <2>1. View(h, u) = Service!WithTopic(View(g, t), uid, item)
    <3>. HIDE DEF g, t, item
    <3>. QED  BY <1>1, <1>5, PostedView
  <2>. QED  BY <1>1, <2>1
<1>9. item = [author |-> uid, numb |-> Len(CirclesSeen[s].topics), numr |-> 0]
      /\ Len(CirclesSeen[s].topics) = g.next_billet
  BY <1>1, <1>3, Topics DEF BilletItem
<1>10. AnswerSeen' = Service!Granted(s, Len(CirclesSeen[s].topics), 0, << >>)
  BY <1>1, <1>9, GrantSeen DEF Posted, Codes
<1>11. sent' = Service!ToCircle("NEW_MSG", s)
  BY <1>1, ToCircleSeen DEF Posted
<1>12. Service!OpenTo(uid, s)
  BY <1>1 DEF Service!OpenTo, View
<1>. HIDE DEF item, u, t
<1>13. CInv' /\ Service!Becomes(s, View(h, u))
  BY <1>1, <1>4, <1>5, <1>6, <1>7, WriteStep
<1>. HIDE DEF g
<1>14. Service!Open(uid, s)
  BY <1>8, <1>9, <1>10, <1>11, <1>12, <1>13, Zenon DEF Service!Open
<1>. QED  BY <1>1, <1>13, <1>14, InSeen DEF Service!In

LEMMA PostStep ==
    ASSUME CInv, Records, delivery' = delivery, delivery >= 24, NEW uid \in Callers,
           NEW idg \in Nat, NEW alloc,
           handle_post_24(uid, idg, alloc) \/ handle_post_26(uid, idg, alloc)
    PROVE  CInv' /\ Service!Next
<1>0. uid \in Nat
  BY CallerNumbers
<1>1. CASE Refused(uid)
  BY <1>0, <1>1, RefusedStep
<1>2. ASSUME NEW s \in Postable(uid, idg), delivery < 26, Update(s, NewPost(groups[s], uid)),
             Posted(uid, idg, groups[s])
      PROVE  CInv' /\ Service!Next
  <2>1. s \in MemberOf(uid, idg) /\ ~(delivery >= 26)
    BY <1>2 DEF Postable, CInv
  <2>. QED  BY <1>2, <2>1, PostDone
<1>3. ASSUME NEW s \in Postable(uid, idg), delivery >= 26,
             Update(s, feed_push(NewPost(groups[s], uid), BilletItem(uid, groups[s]))),
             Posted(uid, idg, groups[s])
      PROVE  CInv' /\ Service!Next
  <2>1. s \in MemberOf(uid, idg)
    BY <1>3 DEF Postable
  <2>. QED  BY <1>3, <2>1, PostDone
<1>4. \/ Refused(uid)
      \/ \E s \in Postable(uid, idg) : /\ delivery < 26 /\ Update(s, NewPost(groups[s], uid))
                                       /\ Posted(uid, idg, groups[s])
      \/ \E s \in Postable(uid, idg) :
            /\ delivery >= 26
            /\ Update(s, feed_push(NewPost(groups[s], uid), BilletItem(uid, groups[s])))
            /\ Posted(uid, idg, groups[s])
  BY Zenon DEF handle_post_24, handle_post_26, BilletItem
<1>. QED  BY <1>1, <1>2, <1>3, <1>4, Zenon

\* A reply that was kept.
LEMMA ReplyDone ==
    ASSUME CInv, Records, delivery' = delivery, delivery >= 24, NEW uid \in Callers,
           NEW idg \in Nat, NEW numb \in Nat, NEW a \in Answerable(uid, idg, numb), NEW h,
           h = IF delivery >= 26
               THEN feed_push(Counted(groups[a[1]], a[2]), ReplyItem(uid, groups[a[1]], a[2]))
               ELSE Counted(groups[a[1]], a[2]),
           Update(a[1], h), Replied(uid, idg, groups[a[1]], a[2])
    PROVE  CInv' /\ Service!Next
<1>. DEFINE s == a[1]
            i == a[2]
            g == groups[s]
            t == thread[s]
            item == ReplyItem(uid, g, i)
            u == Append(t, item)
            numr == g.posts[i].next_reply + 1
            author == g.posts[i].author
            fetch == IF find_user(author) /\ author # uid
                     THEN notif_udp_user(author, "FETCH", idg) ELSE {}
<1>0. s \in MemberOf(uid, idg) /\ i \in find_post(g, numb) /\ g.posts[i].next_reply < MaxReplies
  BY DEF Answerable
<1>1. /\ s = idg /\ s \in DOMAIN groups /\ g \in Group /\ g.idg = idg /\ uid \in Nat
      /\ ~g.closed /\ t \in Seq(FeedItem) /\ Good(g, t, delivery, UsersSeen)
      /\ s \in DOMAIN CirclesSeen /\ CirclesSeen[s] = View(g, t)
      /\ uid \in g.mem /\ delivery >= 18 /\ delivery \in 16 .. 33
  <2>. HIDE DEF s, i
  <2>1. s \in find_group(idg) /\ uid \in groups[s].mem
    BY <1>0 DEF MemberOf
  <2>2. delivery \in 16 .. 33
    BY DEF CInv
  <2>3. delivery >= 18
    BY <2>2
  <2>. QED  BY <2>1, <2>2, <2>3, Visible
<1>2. Numbered(Shown(g, t)) /\ Unbroken(Shown(g, t)) /\ g.feed = IF delivery >= 26 THEN t ELSE << >>
  BY <1>1 DEF Good
<1>3. /\ i \in DOMAIN g.posts /\ i = numb + 1 /\ numb < Len(g.posts) /\ Len(g.posts) \in Nat
      /\ g.posts[i].numb = numb /\ author \in Nat /\ g.posts[i].next_reply \in Nat
      /\ numr \in Nat /\ numr > 0 /\ numr \in 1 .. MaxReplies
      /\ \A k \in DOMAIN t : t[k].numb = numb => t[k].numr < numr
  <2>1. i \in DOMAIN g.posts /\ g.posts[i].numb = numb
    BY <1>0 DEF find_post
  <2>. HIDE DEF s, t, g, i
  <2>2. /\ find_post(g, numb) = IF numb < Len(g.posts) THEN {numb + 1} ELSE {}
        /\ g.posts[i].author \in Nat /\ g.posts[i].next_reply \in Nat /\ Len(g.posts) \in Nat
    BY <1>1, <1>2, <2>1, ThreadNumbers
  <2>3. i = numb + 1 /\ numb < Len(g.posts)
    BY <1>0, <2>2
  <2>4. ASSUME NEW k \in DOMAIN t, t[k].numb = numb PROVE t[k].numr < numr
    <3>1. t[k].numr \in Nat /\ t[k].numr =< g.posts[t[k].numb + 1].next_reply
      BY <1>1, <1>2, ThreadNumbers
    <3>. QED  BY <2>2, <2>3, <2>4, <3>1
  <2>. QED  BY <1>0, <2>1, <2>2, <2>3, <2>4, Bounds
<1>4. item = [author |-> uid, numb |-> numb, numr |-> numr]
  BY <1>3 DEF ReplyItem
<1>5. thread' = [thread EXCEPT ![s] = u]
  <2>1. reply' = Answer(uid, "REPLY_OK", s, numb, numr)
    BY <1>1, <1>3 DEF Replied
  <2>2. reply'.code = "REPLY_OK" /\ reply'.idg = s
    BY <2>1 DEF Answer
  <2>3. Acknowledged(reply') = item
    BY <1>4, <2>1, AcknowledgedAnswer
  <2>4. u = Append(thread[s], Acknowledged(reply'))
    BY <2>3
  <2>. HIDE DEF u, s
  <2>. QED  BY <2>2, <2>4, Recorded
<1>6. /\ h \in Group /\ h.idg = g.idg /\ h.named = g.named /\ h.admin_id = g.admin_id
      /\ h.closed = g.closed /\ h.mem = g.mem /\ h.pend = g.pend
      /\ h.next_billet = g.next_billet /\ h.posts = Counted(g, i).posts
      /\ h.feed = IF delivery >= 26 THEN u ELSE << >>
  <2>. DEFINE n == Counted(g, i)
  <2>. HIDE DEF s, t, g, i
  <2>1. /\ n \in Group /\ n.idg = g.idg /\ n.named = g.named /\ n.admin_id = g.admin_id
        /\ n.closed = g.closed /\ n.mem = g.mem /\ n.pend = g.pend /\ n.feed = g.feed
        /\ n.next_billet = g.next_billet
    BY <1>1, <1>3, CountedFields
  <2>2. item \in FeedItem
    BY <1>1, <1>3, RepliedTypes
  <2>. HIDE DEF n, item
  <2>3. CASE delivery >= 26
    <3>1. h = feed_push(n, item)
      BY <2>3 DEF n, item, g, s, i
    <3>. QED  BY <1>2, <2>1, <2>2, <2>3, <3>1, PushedFields DEF n
  <2>4. CASE ~(delivery >= 26)
    <3>1. h = n
      BY <2>4 DEF n, g, s, i
    <3>. QED  BY <1>2, <2>1, <2>4, <3>1 DEF n
  <2>. QED  BY <2>3, <2>4
<1>7. u \in Seq(FeedItem) /\ Numbered(Shown(h, u)) /\ Unbroken(Shown(h, u))
  <2>. HIDE DEF g, t, s, i
  <2>. QED  BY <1>1, <1>2, <1>3, <1>6, ReplySound
<1>8. sent' = notif_mcast(g, "NEW_MSG") \cup fetch
  BY DEF Replied
<1>9. reply' \in Reply /\ sent' \subseteq Datagram
  <2>1. reply' = Answer(uid, "REPLY_OK", idg, numb, numr)
    BY <1>3 DEF Replied
  <2>2. notif_mcast(g, "NEW_MSG") \subseteq Datagram /\ fetch \subseteq Datagram
    <3>1. g \in Group /\ author \in Nat
      BY <1>1, <1>3
    <3>. HIDE DEF s, i, g, author
    <3>2. notif_mcast(g, "NEW_MSG") \subseteq Datagram
      BY <3>1, NotifTypes DEF Notifs
    <3>3. notif_udp_user(author, "FETCH", idg) \subseteq Datagram
      BY <3>1, NotifTypes DEF Notifs
    <3>. QED  BY <3>2, <3>3
  <2>. HIDE DEF numr, fetch
  <2>. QED  BY <1>1, <1>3, <1>8, <2>1, <2>2, ReplyTypes DEF Codes
<1>10. View(h, u) = Service!WithItem(CirclesSeen[s], item)
  <2>1. View(h, u) = Service!WithItem(View(g, t), item)
    <3>. HIDE DEF g, t, item, s, i
    <3>1. /\ g \in Group /\ i \in DOMAIN g.posts /\ h \in Group
          /\ h.posts = Counted(g, i).posts /\ h.named = g.named /\ h.admin_id = g.admin_id
          /\ h.closed = g.closed /\ h.mem = g.mem /\ h.pend = g.pend
      BY <1>1, <1>3, <1>6
    <3>. QED  BY <3>1, CountedView
  <2>. QED  BY <1>1, <2>1
<1>11. AnswerSeen' = Service!Granted(s, numb, numr, << >>)
  BY <1>1, <1>3, GrantSeen DEF Replied, Codes
<1>12. /\ CirclesSeen[s].topics[numb + 1] = author /\ Len(CirclesSeen[s].topics) = Len(g.posts)
       /\ CirclesSeen[s].thread = t
  <2>. HIDE DEF s, i, g, t
  <2>1. View(g, t).thread = t
    BY DEF View
  <2>. QED  BY <1>1, <1>3, <2>1, Topics
<1>13. Service!OpenTo(uid, s)
  BY <1>1 DEF Service!OpenTo, View
<1>. HIDE DEF item
<1>14. Service!Openers(s, << item >>) = {author}
  <2>1. item.numb = numb
    BY <1>4
  <2>. HIDE DEF author, s
  <2>. QED  BY <1>12, <2>1 DEF Service!Openers
<1>15. sent' = Service!ToCircle("NEW_MSG", s) \cup Service!Told(uid, s, << item >>)
  <2>1. notif_mcast(g, "NEW_MSG") = Service!ToCircle("NEW_MSG", s)
    BY <1>1, ToCircleSeen
  <2>. HIDE DEF author, s
  <2>2. fetch = Service!Told(uid, s, << item >>)
    BY <1>1, <1>14, PeopleFound DEF notif_udp_user, Service!Told, Service!ToEach
  <2>. HIDE DEF fetch
  <2>. QED  BY <1>8, <2>1, <2>2
<1>. HIDE DEF u, t, s, i, numr, author
<1>16. CInv' /\ Service!Becomes(s, View(h, u))
  <2>1. Update(s, h)
    BY DEF s
  <2>. QED  BY <1>1, <1>5, <1>6, <1>7, <1>9, <2>1, WriteStep
<1>. HIDE DEF g
<1>17. \A k \in DOMAIN CirclesSeen[s].thread :
          CirclesSeen[s].thread[k].numb = numb => CirclesSeen[s].thread[k].numr < numr
  BY <1>3, <1>12
<1>18. numb < Len(CirclesSeen[s].topics) /\ numr > 0 /\ numb \in 0 .. Len(CirclesSeen[s].topics) - 1
  BY <1>3, <1>12
<1>19. Service!Reply(uid, s, numb, numr)
  BY <1>4, <1>10, <1>11, <1>13, <1>15, <1>16, <1>17, <1>18, Zenon DEF Service!Reply
<1>. QED  BY <1>1, <1>3, <1>16, <1>18, <1>19, InSeen DEF Service!In

LEMMA ReplyStep ==
    ASSUME CInv, Records, delivery' = delivery, delivery >= 24, NEW uid \in Callers,
           NEW idg \in Nat, NEW numb \in Nat, NEW alloc,
           handle_reply_25(uid, idg, numb) \/ handle_reply_26(uid, idg, numb, alloc)
    PROVE  CInv' /\ Service!Next
<1>0. uid \in Nat
  BY CallerNumbers
<1>. DEFINE numr(a) == groups[a[1]].posts[a[2]].next_reply + 1
            pushed(a) == feed_push(Counted(groups[a[1]], a[2]),
                                   [author |-> uid, numb |-> numb, numr |-> numr(a)])
<1>1. ASSUME NEW a \in Answerable(uid, idg, numb)
      PROVE  /\ a[1] \in DOMAIN groups /\ groups[a[1]] \in Group
             /\ a[2] \in DOMAIN groups[a[1]].posts
             /\ ReplyItem(uid, groups[a[1]], a[2]) = [author |-> uid, numb |-> numb, numr |-> numr(a)]
  <2>1. a[1] \in MemberOf(uid, idg) /\ a[2] \in find_post(groups[a[1]], numb)
    BY <1>1 DEF Answerable
  <2>2. a[1] \in DOMAIN groups /\ groups[a[1]] \in Group
    BY <2>1, EntryFacts DEF MemberOf, find_group
  <2>3. a[2] \in DOMAIN groups[a[1]].posts /\ groups[a[1]].posts[a[2]].numb = numb
    BY <2>1 DEF find_post
  <2>. QED  BY <2>2, <2>3 DEF ReplyItem
<1>2. CASE Refused(uid)
  BY <1>0, <1>2, RefusedStep
<1>3. ASSUME NEW a \in Answerable(uid, idg, numb), delivery < 26,
             Update(a[1], Counted(groups[a[1]], a[2])), Replied(uid, idg, groups[a[1]], a[2])
      PROVE  CInv' /\ Service!Next
  <2>1. ~(delivery >= 26)
    BY <1>3 DEF CInv
  <2>. QED  BY <1>3, <2>1, ReplyDone
<1>4. ASSUME NEW a \in Answerable(uid, idg, numb), delivery >= 26,
             Update(a[1], pushed(a)), Replied(uid, idg, groups[a[1]], a[2])
      PROVE  CInv' /\ Service!Next
  <2>1. Update(a[1], feed_push(Counted(groups[a[1]], a[2]), ReplyItem(uid, groups[a[1]], a[2])))
    BY <1>1, <1>4
  <2>. QED  BY <1>4, <2>1, ReplyDone
<1>5. ASSUME NEW a \in Answerable(uid, idg, numb),
             Update(a[1], Uncounted(Counted(groups[a[1]], a[2]), a[2])),
             reply' = send_err(uid), sent' = {}
      PROVE  CInv' /\ Service!Next
  <2>1. Update(a[1], groups[a[1]])
    BY <1>1, <1>5, CountedSame
  <2>2. [groups EXCEPT ![a[1]] = groups[a[1]]] = groups
    <3>1. groups \in Seq(Group)
      BY DEF CInv, TypeOK
    <3>. QED  BY <1>1, <3>1
  <2>3. Refused(uid)
    BY <1>5, <2>1, <2>2 DEF Refused, Update, TablesUnchanged
  <2>. QED  BY <1>0, <2>3, RefusedStep
<1>6. \/ Refused(uid)
      \/ \E a \in Answerable(uid, idg, numb) :
            /\ delivery < 26 /\ Update(a[1], Counted(groups[a[1]], a[2]))
            /\ Replied(uid, idg, groups[a[1]], a[2])
      \/ \E a \in Answerable(uid, idg, numb) :
            delivery >= 26 /\ Update(a[1], pushed(a)) /\ Replied(uid, idg, groups[a[1]], a[2])
      \/ \E a \in Answerable(uid, idg, numb) :
            /\ Update(a[1], Uncounted(Counted(groups[a[1]], a[2]), a[2]))
            /\ reply' = send_err(uid) /\ sent' = {}
  BY Zenon DEF handle_reply_25, handle_reply_26
<1>. HIDE DEF pushed
<1>. QED  BY <1>2, <1>3, <1>4, <1>5, <1>6, Zenon

LEMMA FeedStepShown ==
    ASSUME CInv, Records, delivery' = delivery, delivery >= 26, NEW uid \in Callers,
           NEW idg \in Nat, NEW numb \in Nat, NEW numr \in Nat, NEW alloc,
           handle_feed_26(uid, idg, numb, numr, alloc)
    PROVE  CInv' /\ Service!Next
<1>0. uid \in Nat
  BY CallerNumbers
<1>1. CASE Refused(uid)
  BY <1>0, <1>1, RefusedStep
<1>2. CASE ~Refused(uid)
  <2>1. PICK s, i :
          /\ s \in MemberOf(uid, idg) /\ i \in From(groups[s], numb, numr)
          /\ TablesUnchanged
          /\ reply' = [Answer(uid, "FEED_OK", idg, 0, 0) EXCEPT !.items = After(groups[s], i)]
          /\ sent' = Fetches(groups[s], uid, After(groups[s], i))
    BY <1>2 DEF handle_feed_26
  <2>. DEFINE g == groups[s]
              t == thread[s]
              items == After(g, i)
  <2>2. /\ s = idg /\ s \in DOMAIN groups /\ g \in Group /\ g.idg = idg
        /\ ~g.closed /\ t \in Seq(FeedItem) /\ Good(g, t, delivery, UsersSeen)
        /\ s \in DOMAIN CirclesSeen /\ CirclesSeen[s] = View(g, t)
        /\ uid \in g.mem /\ delivery >= 18
    <3>1. s \in find_group(idg) /\ uid \in groups[s].mem
      BY <2>1 DEF MemberOf
    <3>2. delivery >= 18
      BY DEF CInv
    <3>. QED  BY <3>1, <3>2, Visible
  <2>3. Numbered(Shown(g, t)) /\ g.feed = t
    BY <2>2 DEF Good
  <2>4. i \in 0 .. Len(t) /\ items = SubSeq(t, i + 1, Len(t)) /\ CirclesSeen[s].thread = t
    <3>1. i = 0 \/ i \in DOMAIN t
      BY <2>1, <2>3 DEF From, feed_index_after
    <3>2. CirclesSeen[s].thread = t
      BY <2>2 DEF View
    <3>3. items = SubSeq(t, i + 1, Len(t))
      BY <2>3 DEF After
    <3>. HIDE DEF t
    <3>. QED  BY <2>2, <3>1, <3>2, <3>3
  <2>. HIDE DEF items, t, g
  <2>5. items \in Seq(FeedItem) /\ \A k \in DOMAIN items : i + k \in DOMAIN t /\ items[k] = t[i + k]
    <3>1. items \in Seq(FeedItem) /\ Len(items) = Len(t) - i
      BY <2>2, <2>4
    <3>2. ASSUME NEW k \in DOMAIN items PROVE i + k \in DOMAIN t /\ items[k] = t[i + k]
      <4>1. k \in 1 .. Len(t) - i
        BY <2>2, <2>4, <3>1
      <4>. QED  BY <2>2, <2>4, <4>1
    <3>. QED  BY <3>1, <3>2
  <2>6. /\ reply'.code = "FEED_OK" /\ reply'.idg = s /\ reply'.numb = 0 /\ reply'.numr = 0
        /\ reply'.items = items /\ reply' \in Reply
    <3>1. reply' = [to |-> uid, code |-> "FEED_OK", idg |-> idg, numb |-> 0, numr |-> 0,
                    items |-> items]
      BY <2>1 DEF Answer, items, g
    <3>. QED  BY <1>0, <2>2, <2>5, <3>1 DEF Reply, Codes
  <2>7. thread' = thread
    BY <2>6, Unrecorded
  <2>8. AnswerSeen' = Service!Granted(s, 0, 0, items)
    <3>1. (reply'.code \notin {"NONE", "ERR"}) = TRUE
      BY <2>6
    <3>. QED  BY <2>6, <3>1, Zenon DEF AnswerSeen, Service!Granted
  <2>9. \A k \in DOMAIN items :
          /\ items[k].numb \in Nat /\ items[k].numb < Len(g.posts)
          /\ find_post(g, items[k].numb) = {items[k].numb + 1}
          /\ CirclesSeen[s].topics[items[k].numb + 1] = g.posts[items[k].numb + 1].author
          /\ g.posts[items[k].numb + 1].author \in Nat
    <3>. TAKE k \in DOMAIN items
    <3>1. /\ items[k].numb \in Nat /\ items[k].numb < Len(g.posts)
          /\ DOMAIN g.posts = 1 .. Len(g.posts) /\ Len(g.posts) \in Nat
      BY <2>2, <2>3, <2>5, ThreadNumbers
    <3>2. items[k].numb + 1 \in DOMAIN g.posts
      BY <3>1
    <3>3. /\ find_post(g, items[k].numb) = {items[k].numb + 1}
          /\ g.posts[items[k].numb + 1].author \in Nat
      BY <2>2, <2>3, <3>1, <3>2, ThreadNumbers
    <3>4. View(g, t).topics[items[k].numb + 1] = g.posts[items[k].numb + 1].author
      BY <2>2, <3>2, Topics
    <3>. QED  BY <2>2, <3>1, <3>3, <3>4, Zenon
  <2>10. sent' = Service!Told(uid, s, items) /\ sent' \subseteq Datagram
    <3>. DEFINE authors == {g.posts[p].author :
                              p \in UNION {find_post(g, items[k].numb) : k \in DOMAIN items}}
    <3>1. authors = Service!Openers(s, items)
      <4>. DEFINE opens(k, a) == \E p \in find_post(g, items[k].numb) : a = g.posts[p].author
      <4>1. \A a : a \in authors <=> \E k \in DOMAIN items : opens(k, a)
        OBVIOUS
      <4>. HIDE DEF authors
      <4>2. ASSUME NEW k \in DOMAIN items, NEW a
            PROVE  opens(k, a) <=> a = CirclesSeen[s].topics[items[k].numb + 1]
        BY <2>9
      <4>. HIDE DEF opens
      <4>3. \A a : a \in authors <=>
                     \E k \in DOMAIN items : a = CirclesSeen[s].topics[items[k].numb + 1]
        BY <4>1, <4>2
      <4>. QED  BY <4>3 DEF Service!Openers
    <3>2. sent' = UNION {notif_udp_user(a, "FETCH", g.idg) :
                           a \in {b \in authors : b # uid /\ find_user(b)}}
      BY <2>1 DEF Fetches, items, g
    <3>3. authors \subseteq Nat
      <4>1. ASSUME NEW k \in DOMAIN items, NEW p \in find_post(g, items[k].numb)
            PROVE  g.posts[p].author \in Nat
        BY <2>9
      <4>. QED  BY <4>1
    <3>. HIDE DEF authors
    <3>4. {b \in authors : b # uid /\ find_user(b)} = (authors \cap UsersSeen) \ {uid}
      BY PeopleFound
    <3>5. sent' = Service!Told(uid, s, items)
      BY <2>2, <3>1, <3>2, <3>4 DEF notif_udp_user, Service!Told, Service!ToEach
    <3>6. \A b \in authors : notif_udp_user(b, "FETCH", g.idg) \subseteq Datagram
      BY <2>2, <3>3, NotifTypes DEF Notifs
    <3>. QED  BY <3>2, <3>5, <3>6
  <2>11. CInv'
    BY <2>1, <2>6, <2>7, <2>10, SameKeeps
  <2>12. Service!Same
    BY <2>1, <2>7, SameSeen DEF Service!Same
  <2>13. Service!OpenTo(uid, s)
    BY <2>2 DEF Service!OpenTo, View
  <2>14. Service!Read(uid, s, i)
    BY <2>4, <2>8, <2>10, <2>12, <2>13 DEF Service!Read
  <2>. QED  BY <2>2, <2>4, <2>11, <2>14, InSeen DEF Service!In
<1>. QED  BY <1>1, <1>2

(***************************************************************************)
(* The theorems.                                                           *)
(***************************************************************************)
\* A command is handled by the deliveries that know it.
LEMMA CommandStep ==
    ASSUME CInv, Records, delivery' = delivery, NEW cmd \in Known(delivery), NEW uid \in Callers,
           Command(cmd, uid)
    PROVE  CInv' /\ Service!Next
<1>0. /\ delivery \in 16 .. 33 /\ Gids \subseteq Nat /\ Billets \subseteq Nat
      /\ 0 .. MaxReplies \subseteq Nat /\ Alloc \subseteq BOOLEAN
      /\ \A alloc \in Alloc : alloc \/ AllocMayFail
  <2>1. Gids \subseteq Nat /\ Billets \subseteq Nat /\ 0 .. MaxReplies \subseteq Nat
    BY TableSizes, Bounds DEF Gids, Billets
  <2>2. Alloc \subseteq BOOLEAN /\ \A alloc \in Alloc : alloc \/ AllocMayFail
    BY Zenon DEF Alloc
  <2>. QED  BY <2>1, <2>2 DEF CInv
<1>1. /\ cmd \in {"invite", "listinv", "ans", "listmem"} => delivery >= 18
      /\ cmd \in {"post", "reply"} => delivery >= 24
      /\ cmd = "feed" => delivery >= 26
  BY <1>0 DEF Known
<1>2. ASSUME handle_list_inv_20(uid) PROVE CInv' /\ Service!Next
  BY <1>2, ListStep
<1>3. ASSUME NEW idg \in {0} \cup Gids, handle_list_mem_23(uid, idg) PROVE CInv' /\ Service!Next
  BY <1>0, <1>3, ListStep
<1>4. ASSUME NEW alloc \in Alloc, handle_new_group_tcp(uid, alloc) PROVE CInv' /\ Service!Next
  BY <1>0, <1>4, NewGroupStepShown
<1>5. ASSUME NEW idg \in Gids, NEW inv \in Invitations, delivery >= 18, handle_invite_19(uid, idg, inv)
      PROVE  CInv' /\ Service!Next
  BY <1>0, <1>5, InviteStep
<1>6. ASSUME NEW idg \in Gids, NEW an \in 0 .. 2, delivery >= 18, handle_inv_ans_21(uid, idg, an)
      PROVE  CInv' /\ Service!Next
  BY <1>0, <1>6, AcceptStep
<1>7. ASSUME NEW idg \in Gids, NEW alloc, delivery >= 24,
             handle_post_24(uid, idg, alloc) \/ handle_post_26(uid, idg, alloc)
      PROVE  CInv' /\ Service!Next
  BY <1>0, <1>7, PostStep
<1>8. ASSUME NEW idg \in Gids, NEW numb \in Billets, NEW alloc, delivery >= 24,
             handle_reply_25(uid, idg, numb) \/ handle_reply_26(uid, idg, numb, alloc)
      PROVE  CInv' /\ Service!Next
  BY <1>0, <1>8, ReplyStep
<1>9. ASSUME NEW idg \in Gids, NEW numb \in Billets, NEW numr \in 0 .. MaxReplies, NEW alloc,
             delivery >= 26, handle_feed_26(uid, idg, numb, numr, alloc)
      PROVE  CInv' /\ Service!Next
  BY <1>0, <1>9, FeedStepShown
<1>10. CASE cmd = "listinv"
  BY <1>10, <1>2 DEF Command
<1>11. CASE cmd = "listmem"
  BY <1>11, <1>3 DEF Command
<1>12. CASE cmd = "newgroup"
  BY <1>12, <1>4 DEF Command
<1>13. CASE cmd = "invite"
  BY <1>1, <1>13, <1>5 DEF Command
<1>14. CASE cmd = "ans"
  BY <1>1, <1>14, <1>6 DEF Command
<1>15. CASE cmd = "post"
  BY <1>1, <1>15, <1>7 DEF Command
<1>16. CASE cmd = "reply"
  BY <1>1, <1>16, <1>8 DEF Command
<1>17. CASE cmd = "feed"
  BY <1>1, <1>17, <1>9 DEF Command
<1>18. CASE cmd = "reg"
  BY <1>18 DEF Command
<1>. QED  BY <1>10, <1>11, <1>12, <1>13, <1>14, <1>15, <1>16, <1>17, <1>18 DEF Known

\* Each step of a delivery keeps the invariant, and is a request of the service.
LEMMA DeliveryStep ==
    ASSUME CInv, ServiceNext
    PROVE  CInv' /\ Service!Next
<1>1. Records /\ delivery' = delivery /\ delivery \in 16 .. 33
  BY DEF ServiceNext, ChronoNext, CInv
<1>2. PICK c \in Clients, cmd \in Commands :
        \/ Refused(0)
        \/ /\ Asks(c, cmd)
           /\ handle_reg_codereq_1 \/ \E uid \in Callers : Command(cmd, uid)
  BY CommandsSent, Zenon DEF ServiceNext, ChronoNext, Unserved, Unknown, NotHandled
<1>3. CASE Refused(0)
  BY <1>1, <1>3, RefusedStep
<1>4. CASE handle_reg_codereq_1
  BY <1>1, <1>4, RegStep
<1>5. ASSUME NEW uid \in Callers, Asks(c, cmd), Command(cmd, uid) PROVE CInv' /\ Service!Next
  <2>1. cmd \in Known(delivery)
    BY <1>1, <1>5, Asked, Delivered
  <2>. QED  BY <1>1, <1>5, <2>1, CommandStep
<1>. QED  BY <1>2, <1>3, <1>4, <1>5

LEMMA SameService == UNCHANGED service_vars => UNCHANGED Service!vars
  BY DEF service_vars, chrono_vars, vars, Service!vars, UsersSeen, CirclesSeen, Circle, AnswerSeen

LEMMA NextCInv == CInv /\ [ServiceNext]_service_vars => CInv'
<1>1. ASSUME CInv, UNCHANGED service_vars PROVE CInv'
  <2>1. /\ users' = users /\ groups' = groups /\ next_uid' = next_uid /\ next_gid' = next_gid
        /\ reply' = reply /\ sent' = sent /\ delivery' = delivery /\ thread' = thread
    BY <1>1 DEF service_vars, chrono_vars, vars
  <2>2. TablesUnchanged /\ reply' \in Reply /\ sent' \subseteq Datagram
    BY <1>1, <2>1 DEF TablesUnchanged, CInv, TypeOK
  <2>. QED  BY <1>1, <2>1, <2>2, SameKeeps
<1>. QED  BY <1>1, DeliveryStep

LEMMA ThreadInvariant == ServiceSpec => []CInv
  BY InitCInv, NextCInv, PTL DEF ServiceSpec

LEMMA InitSeen == ServiceInit => Service!Init
<1>. SUFFICES ASSUME ServiceInit PROVE Service!Init
  OBVIOUS
<1>1. DOMAIN users = {} /\ DOMAIN groups = {} /\ sent = {}
  BY DEF ServiceInit, ChronoInit, Init
<1>2. UsersSeen = {}
  BY <1>1 DEF UsersSeen
<1>3. CirclesSeen = << >>
  BY <1>1 DEF CirclesSeen
<1>4. AnswerSeen = Service!Refusal
  <2>1. /\ (reply.code \notin {"NONE", "ERR"}) = FALSE /\ reply.idg = 0 /\ reply.numb = 0
        /\ reply.numr = 0 /\ reply.items = << >>
    BY DEF ServiceInit, ChronoInit, Init, Answer
  <2>. QED  BY <2>1, Zenon DEF AnswerSeen, Service!Refusal
<1>. QED  BY <1>1, <1>2, <1>3, <1>4 DEF Service!Init

\* Whatever a delivery serves, it serves as the last server does: it implements the same
\* service, for every delivery and every size of its tables and lists.
THEOREM DeliveriesImplementTheService == ServiceSpec => DeliveriesImplementService
<1>1. CInv /\ [ServiceNext]_service_vars => [Service!Next]_Service!vars
  BY DeliveryStep, SameService
<1>. QED  BY <1>1, ThreadInvariant, InitSeen, PTL
          DEF ServiceSpec, DeliveriesImplementService, Service!Spec

\* From delivery 26 on the feed is the thread: what was answered OK, in order, and
\* nothing else, whatever allocation failed.
THEOREM FeedAlwaysAcknowledged == ServiceSpec => []FeedIsAcknowledged
<1>1. CInv => FeedIsAcknowledged
  BY EntryFacts DEF FeedIsAcknowledged, Good
<1>. QED  BY <1>1, ThreadInvariant, PTL

\* From delivery 26 on a billet recorded, and a reply counted, is in the feed.
THEOREM NothingAlwaysNumberedInVain == ServiceSpec => []NothingNumberedInVain
<1>1. ASSUME CInv, delivery >= 26, NEW s \in DOMAIN groups
      PROVE  /\ groups[s].next_billet = Len(groups[s].posts)
             /\ \A i \in DOMAIN groups[s].posts : \A r \in 0 .. groups[s].posts[i].next_reply :
                   feed_index_after(groups[s], i - 1, r) # {}
  <2>. DEFINE g == groups[s]
              v == Shown(g, thread[s])
  <2>1. /\ g \in Group /\ thread[s] \in Seq(FeedItem) /\ Numbered(v) /\ Unbroken(v)
        /\ g.feed = thread[s]
    BY <1>1, EntryFacts DEF Good
  <2>2. v.posts = g.posts /\ v.next_billet = g.next_billet /\ v.feed = g.feed
    BY <2>1, ShownFields
  <2>. HIDE DEF v, g
  <2>3. Numbered(g) /\ Unbroken(g)
    BY <2>1, <2>2, SameSound
  <2>. QED  BY <2>3 DEF Numbered, Unbroken, g
<1>2. CInv => NothingNumberedInVain
  BY <1>1 DEF NothingNumberedInVain
<1>. QED  BY <1>2, ThreadInvariant, PTL

================================================================================
