\* Clear TCP, authenticated sessions, answers that fit in the socket buffers.
SPECIFICATION Spec
CONSTANTS
    Clients = {c1, c2}
    TLS = FALSE
    SigningKey = TRUE
    ClientsLeave = TRUE
    BODY = 2
    REPLY = 2
    SOCKBUF = 2
CHECK_DEADLOCK FALSE
INVARIANTS
    TypeOK WholeReads ServerAlive
PROPERTIES
    ConnectionsClose Answered
