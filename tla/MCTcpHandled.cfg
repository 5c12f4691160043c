SPECIFICATION TcpFairSpec
CONSTANTS
    c1 = c1
    c2 = c2
    Clients <- MCClients
    Readers <- MCReaders
    MaxDescriptor = 2
    Nobody = Nobody
PROPERTY
    EveryClientHandled
CHECK_DEADLOCK FALSE
