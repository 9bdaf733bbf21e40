\* Two people, texts that fit and texts that are cut, commands given up at any time.
SPECIFICATION CommandsSpec
CONSTANTS
    MAX_USERS = 2
    MAX_GROUPS = 2
    UDP_PORTS = 2
    MCAST_PORTS = 2
    Callers = {1, 2}
    SigningKey = FALSE
    AllocMayFail = FALSE
    MaxBillets = 3
    MaxReplies = 3
    MaxInvitees = 1
    BYTE = 3
    MAX_NB = 2
    RESP = 40
    NEWGROUP_MSG = 8
    INVITE_MSG = 21
    People = {1, 2}
    None = None
    Listeners = {2}
    Hosts = {1}
    Lengths = {1, 9}
    BACKLOG = 2
    MaxRuns = 2
VIEW State
INVARIANTS
    CommandsTypeOK RequestsUnderstood WritingsAccounted LastWordStands
    PagesTrue NumberTrue HeardTrue AnnouncedIsRead
