SPECIFICATION StreamFairSpec
CONSTANTS
    client = client
    server = server
    nostream = nostream
    Client = client
    Server = server
    OnceFrame <- StreamFrame
    RepeatFrame <- LimitFrame
    NoAckFrame <- MCNone
    Ping <- MCPing
    MaxPktNum <- MCOneAndTwo
    MaxProbes = 0
    StreamID <- MCServerStream
    NoStream = nostream
    MAX_PACKET_DATA_LENGTH = 1
    MAX_STREAM_OFFSET = 5
    MAX_CONNECTION_SIZE = 10
    MAX_STREAM_NUM = 10
    BlockedTries = 1
    BlockedExtra = 1
    Sizes <- MCSizesOne
    Fins <- MCFinOnly
    MaxStreams <- MCServerOne
    MaxSubmitted <- MCServerOne
    MaxRequests <- MCOne
    MaxCredits <- MCOne
    MaxField = 12
PROPERTIES
    EverythingDelivered
    FinArrives
