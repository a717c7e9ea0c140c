SPECIFICATION MCSpec
CONSTANTS
    Openers = {"A"}
    Listeners = {"B"}
    Senders = {"A"}
    Closers = {}
    Gentle = FALSE
    RxMayFill = {"B"}
    StartOpen = FALSE
    Long = {"retransmit", "abort", "close"}
    MaxData = 2
    Retries = 2
    DupAcks = 1
    Network = {"lose", "duplicate", "reorder"}
    MaxFaults = 2
    SeqSpace = 16
    FirstIsn = 10
INVARIANTS EndsAgree AnsweredOnce StoredAsAsked AckedIsAccepted  EachRowIsInOnePlace
PROPERTIES ImplementsByteStream ImplementsQueues
CHECK_DEADLOCK FALSE
