--------------------------------- MODULE MCAuth ---------------------------------
(***************************************************************************)
(* ParolesAuth with a few processes (MCAuth*.cfg), and a statement of the  *)
(* project's documents about NUM.                                          *)
(***************************************************************************)
EXTENDS ParolesAuth, TLC

Symmetry == Permutations(Procs) \cup Permutations(Keys)

\* docs/checklist_projet_PR6.md:218: NUM starts at 0 and grows by one at each new
\* authenticated connection.  So, when no command is running, the number the client
\* will use next is the number of connections the server has accepted.
NumCountsConnections ==
    backlog = << >> /\ (\A p \in Procs : proc[p].pc = "idle") =>
        \A u \in DOMAIN users : file[u] = users[u].auth_nonce
================================================================================
