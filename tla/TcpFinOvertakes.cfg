SPECIFICATION FairSpec
CONSTANTS
    Openers = {"A"}
    Listeners = {"B"}
    Senders = {"A"}
    Closers = {"A"}
    Gentle = FALSE
    RxMayFill = {}
    StartOpen = TRUE
    Long = {"retransmit", "abort", "close"}
    MaxData = 1
    Retries = 2
    DupAcks = 3
    Network = {"lose", "duplicate", "reorder"}
    MaxFaults = 0
    SeqSpace = 16
    FirstIsn = 13
INVARIANTS CloseIsOrderly
CHECK_DEADLOCK FALSE
