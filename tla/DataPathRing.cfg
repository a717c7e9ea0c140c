SPECIFICATION MCSpec
CONSTANTS
    Sessions = {0, 1}
    BufferSize = 4
    First = 3
    MSS = 2
    PushDepth = 1
    Window <- MCWindow
    Lengths = {2, 3}
    MaxBytes = 6
    MaxRetransmits = 1
    NoReply = none
    Foreign = foreign
    RxSessions = {1, 2}
    RxBuilds = {"memory"}
    RxBuffer = 6
    RxAccess = 3
    RxFifo = 2
    RxMargin = 0
    RxNotes = 1
    RxFirst = 4
    RxDepth = 1
    Cuts <- MCCuts
    Strays <- MCPort
    MaxArrivals = 4
INVARIANTS SegmentsAreOriginal
CHECK_DEADLOCK FALSE
