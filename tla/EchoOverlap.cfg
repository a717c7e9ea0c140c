SPECIFICATION FairSpec
CONSTANTS
    Clients = {c1}
    Lengths = {2}
    Outstanding = 2
    EarlyClose = FALSE
    Room = TRUE
    Depth = 4
    MaxPackets = 2
PROPERTY PacketsAreEchoed
CHECK_DEADLOCK FALSE
