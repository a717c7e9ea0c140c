SPECIFICATION FairSpec
CONSTANTS
    Openers = {"A"}
    Listeners = {"B"}
    Senders = {}
    Closers = {"A"}
    Gentle = FALSE
    RxMayFill = {}
    StartOpen = TRUE
    Long = {"retransmit", "abort", "close"}
    MaxData = 1
    Retries = 2
    DupAcks = 3
    Network = {"lose", "duplicate", "reorder"}
    MaxFaults = 1
    SeqSpace = 16
    FirstIsn = 13
INVARIANTS StreamIsPrefix
CHECK_DEADLOCK FALSE
