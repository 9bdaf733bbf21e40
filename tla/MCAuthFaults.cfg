\* Timeouts, killed processes and a restart of the server.
SPECIFICATION Spec
CONSTANTS
    Procs = {p1, p2}
    Keys = {k1, k2}
    None = None
    MAX_USERS = 1
    Timeouts = TRUE
    Kills = TRUE
    MaxRestarts = 1
    MaxNum = 2
    MaxBacklog = 3
SYMMETRY Symmetry
INVARIANTS
    SessionOwned SingleWriter FileBehind
