SPECIFICATION StreamSpec
CONSTANTS
    client = client
    server = server
    nostream = nostream
    Client = client
    Server = server
    OnceFrame <- StreamFrame
    RepeatFrame <- LimitFrame
    NoAckFrame <- MCNone
    Ping <- MCPing
    MaxPktNum <- MCTwoAndOne
    MaxProbes = 0
    StreamID <- MCTwoStreams
    NoStream = nostream
    MAX_PACKET_DATA_LENGTH = 1
    MAX_STREAM_OFFSET = 5
    MAX_CONNECTION_SIZE = 10
    MAX_STREAM_NUM = 10
    BlockedTries = 1
    BlockedExtra = 1
    Sizes <- MCSizesOne
    Fins <- MCNoFin
    MaxStreams <- MCClientTwo
    MaxSubmitted <- MCOne
    MaxRequests <- MCOne
    MaxCredits <- MCOne
    MaxField = 10
INVARIANTS
    EveryStreamHasDefaults
