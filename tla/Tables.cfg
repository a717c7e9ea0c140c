SPECIFICATION MCSpec
CONSTANTS
    Sessions = {s1, s2}
    NoSession = none
    NoState = nostate
    States <- MCStates
    Depth = 1
    RelDepth = 1
    MaxSessions = 2
    Tuples = {t1, t2}
    None = none
    InsertMayFail = TRUE
SYMMETRY MCSymmetry
INVARIANTS
    ProtocolInv EveryIdInOnePlace CamIsExact LiveSessionsAreFound
PROPERTIES
    ImplementsAtomic LookupsAreCurrent
CHECK_DEADLOCK FALSE
