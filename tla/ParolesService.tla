---------------------------- MODULE ParolesService ----------------------------
(***************************************************************************)
(* What paroles promises to the people who use it, whatever tables the     *)
(* server keeps: people, circles of people, a thread in each circle, and   *)
(* for every request an answer and a set of announcements.                 *)
(*                                                                         *)
(* A circle has one administrator and any number of members and invited    *)
(* people.  Its thread is the sequence of the items its members wrote; an  *)
(* item (numb, 0) opens topic numb, and an item (numb, numr) answers it.   *)
(* ParolesServerService shows how the tables of the server implement this. *)
(*                                                                         *)
(* A creation that is refused may leave a circle behind.  It has no        *)
(* members, no address to announce anything at, and no administrator, or   *)
(* rather Nobody: whoever manages to ask something as Nobody may invite    *)
(* people into it, and it works like another for those who accept.         *)
(***************************************************************************)
EXTENDS Integers, Sequences, FiniteSets

CONSTANTS
    People,         \* whoever may ask something, registered or not
    Nobody,         \* whom nobody is registered as
    CircleNumbers,  \* the numbers circles may be given
    ReplyNumbers,   \* the numbers answers to a topic may be given
    Capacity        \* the people a circle has room for, as members or as invited

VARIABLES
    registered,     \* the people who have an account
    circles,        \* circle number -> circle, closed ones included
    answer,         \* what the last request was answered
    told            \* what the last request announced

vars == <<registered, circles, answer, told>>

(***************************************************************************)
(* Answers and announcements                                               *)
(***************************************************************************)
Granted(c, numb, numr, items) ==
    [granted |-> TRUE, idg |-> c, numb |-> numb, numr |-> numr, items |-> items]
Refusal == [granted |-> FALSE, idg |-> 0, numb |-> 0, numr |-> 0, items |-> << >>]
Done == Granted(0, 0, 0, << >>)

ToCircle(code, c) ==
    IF circles[c].address THEN {[code |-> code, idg |-> c, to |-> 0]} ELSE {}
ToEach(code, c, people) == {[code |-> code, idg |-> c, to |-> p] : p \in people}

(***************************************************************************)
(* A circle                                                                *)
(***************************************************************************)
NewCircle(p) == [admin |-> p, address |-> TRUE, closed |-> FALSE, members |-> {p},
                 invited |-> {}, topics |-> << >>, thread |-> << >>]
Abandoned == [NewCircle(Nobody) EXCEPT !.address = FALSE, !.members = {}]

OpenTo(p, c) == c \in DOMAIN circles /\ ~circles[c].closed /\ p \in circles[c].members
InvitedTo(p, c) == c \in DOMAIN circles /\ ~circles[c].closed /\ p \in circles[c].invited
RunBy(p, c) == c \in DOMAIN circles /\ ~circles[c].closed /\ circles[c].admin = p

\* The people who opened the topics of some items, and are told when somebody else
\* answers or reads them.
Openers(c, items) == {circles[c].topics[items[k].numb + 1] : k \in DOMAIN items}
Told(p, c, items) == ToEach("FETCH", c, (Openers(c, items) \cap registered) \ {p})

\* A circle with one more item, which answers a topic (WithItem), or which p wrote and
\* which opens one (WithTopic).
WithItem(circle, item) == [circle EXCEPT !.thread = Append(@, item)]
WithTopic(circle, p, item) ==
    [circle EXCEPT !.topics = Append(@, p), !.thread = Append(@, item)]

Becomes(c, circle) == circles' = [circles EXCEPT ![c] = circle] /\ UNCHANGED registered
Same == UNCHANGED <<registered, circles>>

(***************************************************************************)
(* What people do                                                          *)
(***************************************************************************)
Register(p) ==
    /\ p \notin registered
    /\ registered' = registered \cup {p}
    /\ answer' = Done /\ told' = {}
    /\ UNCHANGED circles

Appears(c, circle) ==
    /\ c \notin DOMAIN circles
    /\ circles' = [x \in DOMAIN circles \cup {c} |-> IF x = c THEN circle ELSE circles[x]]
    /\ told' = {}
    /\ UNCHANGED registered

Create(p, c) ==
    p \in registered /\ Appears(c, NewCircle(p)) /\ answer' = Granted(c, 0, 0, << >>)

\* A creation that could not be completed.
Abandon(c) == Appears(c, Abandoned) /\ answer' = Refusal

\* A request that may be refused after part of it was done: the people invited by
\* the administrator before the first unknown one stay invited, and have been told.
Invite(c, people) ==
    /\ people \subseteq registered /\ Cardinality(circles[c].invited \cup people) =< Capacity
    /\ Becomes(c, [circles[c] EXCEPT !.invited = @ \cup people])
    /\ answer' \in {Done, Refusal} /\ told' = ToEach("INV_UDP", c, people)

Decline(p, c) ==
    /\ InvitedTo(p, c)
    /\ Becomes(c, [circles[c] EXCEPT !.invited = @ \ {p}])
    /\ answer' = Done /\ told' = {}

Join(p, c) ==
    /\ InvitedTo(p, c) /\ Cardinality(circles[c].members) < Capacity
    /\ Becomes(c, [circles[c] EXCEPT !.invited = @ \ {p}, !.members = @ \cup {p}])
    /\ answer' = Granted(c, 0, 0, << >>) /\ told' = ToCircle("JOIN", c)

\* A full circle keeps only some of the people invited, and of those who join none: they
\* are answered, and announced, as if they were in.
InviteToFull(c, people, kept) ==
    /\ kept \subseteq people /\ people \subseteq registered
    /\ Cardinality(circles[c].invited \cup kept) = Capacity
    /\ Becomes(c, [circles[c] EXCEPT !.invited = @ \cup kept])
    /\ answer' \in {Done, Refusal} /\ told' = ToEach("INV_UDP", c, people)

JoinFull(p, c) ==
    /\ InvitedTo(p, c) /\ Cardinality(circles[c].members) >= Capacity
    /\ Becomes(c, [circles[c] EXCEPT !.invited = @ \ {p}])
    /\ answer' = Granted(c, 0, 0, << >>) /\ told' = ToCircle("JOIN", c)

Leave(p, c) ==
    /\ OpenTo(p, c) /\ ~RunBy(p, c)
    /\ Becomes(c, [circles[c] EXCEPT !.members = @ \ {p}])
    /\ answer' = Done /\ told' = ToCircle("LEAVE", c)

Close(p, c) ==
    /\ OpenTo(p, c) /\ RunBy(p, c)
    /\ Becomes(c, [circles[c] EXCEPT !.closed = TRUE])
    /\ answer' = Done /\ told' = ToCircle("CLOSE", c)

\* A new topic takes the next number, which the answer carries.
Open(p, c) ==
    LET numb == Len(circles[c].topics)
        item == [author |-> p, numb |-> numb, numr |-> 0]
    IN  /\ OpenTo(p, c)
        /\ Becomes(c, WithTopic(circles[c], p, item))
        /\ answer' = Granted(c, numb, 0, << >>) /\ told' = ToCircle("NEW_MSG", c)

\* A post that could not be kept: it may still use up its number.
Lose(p, c) ==
    /\ OpenTo(p, c)
    /\ Becomes(c, [circles[c] EXCEPT !.topics = Append(@, p)])
    /\ answer' = Refusal /\ told' = {}

\* An answer to a topic is numbered past the earlier ones.
Reply(p, c, numb, numr) ==
    LET item == [author |-> p, numb |-> numb, numr |-> numr]
    IN  /\ OpenTo(p, c) /\ numb < Len(circles[c].topics) /\ numr > 0
        /\ \A k \in DOMAIN circles[c].thread :
              circles[c].thread[k].numb = numb => circles[c].thread[k].numr < numr
        /\ Becomes(c, WithItem(circles[c], item))
        /\ answer' = Granted(c, numb, numr, << >>)
        /\ told' = ToCircle("NEW_MSG", c) \cup Told(p, c, <<item>>)

\* A member is shown everything after an item of the thread, or all of it.
Read(p, c, k) ==
    LET items == SubSeq(circles[c].thread, k + 1, Len(circles[c].thread))
    IN  /\ OpenTo(p, c) /\ k \in 0 .. Len(circles[c].thread)
        /\ Same
        /\ answer' = Granted(c, 0, 0, items) /\ told' = Told(p, c, items)

\* The lists of people and of circles, which this specification does not show.
Consult == Same /\ answer' = Granted(answer'.idg, 0, 0, << >>) /\ told' = {}

Refuse == Same /\ answer' = Refusal /\ told' = {}

(***************************************************************************)
(* Specification                                                           *)
(***************************************************************************)
Init == /\ registered = {} /\ circles = << >>
        /\ answer = Refusal /\ told = {}

In(p, c) ==
    \/ /\ RunBy(p, c)
       /\ \E people \in SUBSET registered :
            \/ Invite(c, people)
            \/ \E kept \in SUBSET people : InviteToFull(c, people, kept)
    \/ Decline(p, c) \/ Join(p, c) \/ JoinFull(p, c) \/ Leave(p, c) \/ Close(p, c)
    \/ Open(p, c) \/ Lose(p, c)
    \/ \E numb \in 0 .. Len(circles[c].topics) - 1, numr \in ReplyNumbers :
          Reply(p, c, numb, numr)
    \/ \E k \in 0 .. Len(circles[c].thread) : Read(p, c, k)

Next == \/ Consult \/ Refuse
        \/ \E p \in People : \/ Register(p)
                             \/ \E c \in CircleNumbers : Create(p, c) \/ Abandon(c)
                             \/ \E c \in DOMAIN circles : In(p, c)

Spec == Init /\ [][Next]_vars
================================================================================
