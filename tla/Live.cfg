SPECIFICATION MCSpec
CONSTANTS
    MaxSessions = 1
    Tuples = {t1, t2}
    None = none
    InsertMayFail = FALSE
    Depth = 1
    SomeSession = s1
PROPERTIES
    RequestsAreServed IdsComeBack
    ConnectionAdvances
CHECK_DEADLOCK FALSE
