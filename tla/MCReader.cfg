\* One group, two members who write a longer thread (two billets, two replies to each),
\* and the second one reads it.
SPECIFICATION ReaderSpec
CONSTANTS
    MAX_USERS = 2
    MAX_GROUPS = 1
    UDP_PORTS = 2
    MCAST_PORTS = 1
    Callers = {1, 2}
    SigningKey = TRUE
    AllocMayFail = FALSE
    MaxBillets = 2
    MaxReplies = 2
    MaxInvitees = 1
    Readers = {2}
    IDG = 1
VIEW Tables
INVARIANTS
    TypeOK FeedNumbered FeedComplete ReadInOrder
PROPERTIES
    DatagramsAddressed
