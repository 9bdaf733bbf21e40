\* An answer larger than the socket buffers, to a client that leaves.
SPECIFICATION Spec
CONSTANTS
    Clients = {c1, c2}
    TLS = FALSE
    SigningKey = FALSE
    ClientsLeave = TRUE
    BODY = 1
    REPLY = 4
    SOCKBUF = 2
CHECK_DEADLOCK FALSE
INVARIANTS
    ServerAlive
