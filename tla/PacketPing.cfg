SPECIFICATION FairSpec
CONSTANTS
    client = client
    server = server
    data = data
    limit = limit
    notice = notice
    ping = ping
    Client = client
    Server = server
    OnceFrame <- MCDataOnly
    RepeatFrame <- MCNone
    NoAckFrame <- MCNone
    Ping = ping
    MaxPktNum <- MCTwoAndNone
    MaxProbes = 1
PROPERTIES
    EveryNeedACKSettles
