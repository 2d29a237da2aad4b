\* Every kind of bridge; three units in either direction, a packet of two.
SPECIFICATION FairSpec
CHECK_DEADLOCK FALSE   \* a session that has ended stops
CONSTANTS
    Kinds = {"packets", "tunnel", "relay", "tcp"}
    Length = 3
    PacketEnds = {2}
    ReadMax = 2
    Window = 1
INVARIANTS
    LogMatchesStreams
    EofDeliversAll
PROPERTY HangupEndsSession
