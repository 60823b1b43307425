SPECIFICATION StreamSpec
CONSTANTS
    client = client
    server = server
    nostream = nostream
    Client = client
    Server = server
    OnceFrame <- StreamFrame
    RepeatFrame <- LimitFrame
    NoAckFrame <- MCNone
    Ping <- MCPing
    MaxPktNum <- MCThreeAndTwo
    MaxProbes = 0
    StreamID <- MCOneStream
    NoStream = nostream
    MAX_PACKET_DATA_LENGTH = 3
    MAX_STREAM_OFFSET = 20
    MAX_CONNECTION_SIZE = 3
    MAX_STREAM_NUM = 10
    BlockedTries = 1
    BlockedExtra = 1
    Sizes <- MCSizesThree
    Fins <- MCNoFin
    MaxStreams <- MCClientOne
    MaxSubmitted <- MCClientSix
    MaxRequests <- MCOne
    MaxCredits <- MCOne
    MaxField = 16
INVARIANTS
    ConnectionLimitIsGranted
    NeverOverLimit
