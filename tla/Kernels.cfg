SPECIFICATION MCSpec
CONSTANTS
    UseConn = 2
    PkgWords = 2
    ExpWords = 4
    Depth = 2
    MaxRefusals = 1
    Clients = {p1, p2}
    Lan = lan
    Wan = wan
    IperfConns = 3
    IperfWords = 2
    IperfRoom = 1
    IperfRefusals = 1
    MaxRuns = 2
    Addresses = {1, 2}
    Fixed = 9
    DhcpDepth = 2
    MaxTries = 3
    MaxFaults = 1
    MaxToggles = 1
    MaxTaken = 1
INVARIANTS SumsAreExact EchoIsOwn NothingIsLeft EachPacketIsItself AddressIsGranted
PROPERTIES AllComeToAnEnd
CHECK_DEADLOCK FALSE
