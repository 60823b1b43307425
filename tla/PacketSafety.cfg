SPECIFICATION Spec
CONSTANTS
    client = client
    server = server
    data = data
    limit = limit
    notice = notice
    ping = ping
    Client = client
    Server = server
    OnceFrame <- MCOnceFrame
    RepeatFrame <- MCRepeatFrame
    NoAckFrame <- MCNoAckFrame
    Ping = ping
    MaxPktNum <- MCThreeAndNone
    MaxProbes = 2
INVARIANTS
    PacketInv
    TypeOK
    QueueMatchesToSend
    AckedWasReceived
    NothingForgotten
    AckedStaysAcked
    HandledOnce
