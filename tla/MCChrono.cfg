\* Each delivered server, asked by the first and the last client: three people around one
\* group with room for two, somebody who says he is 0, and memory that may run out.
SPECIFICATION ServiceSpec
CONSTANTS
    Deliveries = {16, 17, 18, 19, 20, 21, 22, 23, 24, 25, 26, 27, 28, 29, 30, 31, 32, 33}
    Clients = {16, 33}
    MAX_USERS = 3
    MAX_GROUPS = 1
    MAX_GM = 2
    MAX_POSTS_PER_GROUP = 1
    UDP_PORTS = 3
    MCAST_PORTS = 1
    Callers = {0, 1, 2, 3}
    SigningKey = FALSE
    AllocMayFail = TRUE
    MaxBillets = 1
    MaxReplies = 1
    MaxInvitees = 2
VIEW Tables
INVARIANTS
    ClientsServed NothingNumberedInVain FeedIsAcknowledged
PROPERTIES
    DeliveriesImplementService ExitTellsOutcome
\* A server that has crashed serves nobody.
CHECK_DEADLOCK FALSE
