SPECIFICATION MCSpec
CONSTANTS
    MaxSessions = 2
    MaxRetries = 1
    Interval <- MCInterval
    TimerDepth = 1
    Sessions = {0, 1}
    EventDepth = 1
    CountDepth = 1
    CountSpace = 3
    AckDelay = 1
    MaxEdge = 2
    Strays = TRUE
    Silent = {0}
    ScanSessions = 3
    ScanTime = 2
    ScanDepth = 1
    MaxScanSets = 2
    Byte = 2
    Owners = {0}
    NoPort = none
    PortDepth = 1
    ListenPorts = {1}
    WirePorts = {1, 2}
INVARIANTS AnswersInOrder ListenIsSeen MCTypeOK CountersAgree UnackedIsTimed ProbeIsTimed
PROPERTIES ChecksAreAnswered MCSilentPeerIsGivenUp TimersFire
