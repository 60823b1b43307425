SPECIFICATION ClosingSpec
CONSTANTS
    client = client
    server = server
    nostream = nostream
    Client = client
    Server = server
    OnceFrame <- MCWithReset
    RepeatFrame <- LimitFrame
    NoAckFrame <- MCNone
    Ping <- MCPing
    MaxPktNum <- MCTwoAndTwo
    MaxProbes = 0
    StreamID <- MCTwoStreams
    NoStream = nostream
    MAX_PACKET_DATA_LENGTH = 2
    MAX_STREAM_OFFSET = 10
    MAX_CONNECTION_SIZE = 20
    MAX_STREAM_NUM = 10
    BlockedTries = 0
    BlockedExtra = 1
    Sizes <- MCSizesOne
    Fins <- MCNoFin
    MaxStreams <- MCClientTwo
    MaxSubmitted <- MCOne
    MaxRequests <- MCOne
    MaxCredits <- MCOne
    MaxField = 12
INVARIANTS
    ClosingTypeOK
    EndToldOnce
    FinalSizeIsSent
    UnsentFollowsSent
    RecordedIsKept
