SPECIFICATION FairSpec
CONSTANTS
    Kinds = {"data", "notice"}
    Lengths = {2}
    PingLength = 1
    MAX_PACKET_LENGTH = 2
    InitialWindow = 2
    Threshold = 3
    BeyondWindow = 1
    PTO = 0
    ClockBits = 16
    MaxPktNum = 2
    MaxPings = 1
INVARIANTS
    RecoveryTypeOK
    WindowIsEarned
    WindowIsBounded
    InFlightIsCounted
PROPERTIES
    QueuedIsSent
    EverythingIsSent
    UnackedIsRetransmitted
