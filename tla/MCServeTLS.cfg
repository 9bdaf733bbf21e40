\* TLS and clients that stay: the documented absence of endless waits.
SPECIFICATION Spec
CONSTANTS
    Clients = {c1, c2}
    TLS = TRUE
    SigningKey = FALSE
    ClientsLeave = FALSE
    BODY = 1
    REPLY = 1
    SOCKBUF = 2
CHECK_DEADLOCK FALSE
PROPERTIES
    ConnectionsClose
