SPECIFICATION StreamSpec
CONSTANTS
    client = client
    server = server
    nostream = nostream
    Client = client
    Server = server
    OnceFrame <- StreamFrame
    RepeatFrame <- LimitFrame
    NoAckFrame <- MCNone
    Ping <- MCPing
    MaxPktNum <- MCClientThree
    MaxProbes = 0
    StreamID <- MCOneStream
    NoStream = nostream
    MAX_PACKET_DATA_LENGTH = 1
    MAX_STREAM_OFFSET = 10
    MAX_CONNECTION_SIZE = 10
    MAX_STREAM_NUM = 10
    BlockedTries = 1
    BlockedExtra = 1
    Sizes <- MCSizesOneTwo
    Fins <- MCFins
    MaxStreams <- MCClientOne
    MaxSubmitted <- MCClientThree
    MaxRequests <- MCZero
    MaxCredits <- MCZero
    MaxField = 10
INVARIANTS
    FinTruth
