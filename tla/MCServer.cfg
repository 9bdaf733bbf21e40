\* Clear TCP, no authentication: two users and someone who never registers, around two
\* groups, malloc that may fail.
SPECIFICATION Spec
CONSTANTS
    MAX_USERS = 2
    MAX_GROUPS = 2
    UDP_PORTS = 2
    MCAST_PORTS = 2
    Callers = {1, 2, 3}
    SigningKey = FALSE
    AllocMayFail = TRUE
    MaxBillets = 1
    MaxReplies = 0
    MaxInvitees = 2
VIEW Tables
INVARIANTS
    IdsNameOneEntry PortsDistinct MembersRegistered GhostInert
PROPERTIES
    HistoryKept ErrorsHarmless ImplementsService OwnDecisions ChangesAnnounced
