\* One user, timeouts: the documented meaning of NUM.
SPECIFICATION Spec
CONSTANTS
    Procs = {p1, p2}
    Keys = {k1}
    None = None
    MAX_USERS = 1
    Timeouts = TRUE
    Kills = FALSE
    MaxRestarts = 0
    MaxNum = 2
    MaxBacklog = 2
INVARIANTS
    NumCountsConnections
