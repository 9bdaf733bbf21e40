\* Three processes, no fault: the numbers stay in step and every command ends.
SPECIFICATION FairSpec
CONSTANTS
    Procs = {p1, p2, p3}
    Keys = {k1}
    None = None
    MAX_USERS = 1
    Timeouts = FALSE
    Kills = FALSE
    MaxRestarts = 0
    MaxNum = 2
    MaxBacklog = 3
INVARIANTS
    TypeOK InSync
PROPERTIES
    CommandsEnd
