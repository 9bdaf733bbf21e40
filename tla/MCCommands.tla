------------------------------- MODULE MCCommands -------------------------------
(* ParolesCommands with two people and bytes below 3: see MCCommands.cfg. *)
EXTENDS ParolesCommands

\* The datagrams a line of which some listener would print and some property looks at.
Noticed == {d \in net : /\ d.code \in {"NEW_MSG", "FETCH", "CLOSE"}
                        /\ d.idg = IDG /\ d.to \in {ALL} \cup Listeners}

\* What somebody had been told matters to the command that asks for the feed.
Seen(p) == IF person[p].cmd.code = "FEED" THEN person[p] ELSE [person[p] EXCEPT !.knew = 0]

\* What the next steps and the properties depend on: reply and sent are outputs of the
\* last request.
State == <<users, groups, next_uid, next_gid, queue, Noticed, texts, ear,
           [p \in People |-> Seen(p)]>>
================================================================================
