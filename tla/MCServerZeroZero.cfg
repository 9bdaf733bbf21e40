\* The documented meaning of FEED from (0,0).
SPECIFICATION Spec
CONSTANTS
    MAX_USERS = 1
    MAX_GROUPS = 1
    UDP_PORTS = 1
    MCAST_PORTS = 1
    Callers = {1}
    SigningKey = FALSE
    AllocMayFail = FALSE
    MaxBillets = 2
    MaxReplies = 1
    MaxInvitees = 1
VIEW Tables
PROPERTIES
    ZeroZeroIsWholeFeed
