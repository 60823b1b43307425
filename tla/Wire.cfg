SPECIFICATION WireSpec
CONSTANTS
    MaxNumber = 4
    Frames <- MCFrames
    Delays = {63}
    PktNums = {62, 256}
    MaxFrames = 2
INVARIANTS
    RepresentsNumbers
    PacketRoundTrip
    LengthsAgree
