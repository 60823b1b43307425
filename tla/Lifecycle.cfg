SPECIFICATION FairSpec
CONSTANTS
    client = client
    server = server
    Client = client
    Server = server
    Talkers = {server}
    MaxCreated = 1
    MaxConnections <- MCConnections
    MaxPktNum <- MCPktNum
CHECK_DEADLOCK FALSE
INVARIANTS
    LifecycleTypeOK
    IdentifiersAgree
    ClosedForAReason
PROPERTIES
    PromiseSpec
    ClosingEnds
    HandshakeCompletes
