CONSTANTS
    None = None
    Tabs = {t1}
    Calls = {c1, c2, c3}
    Tokens = {g1, g2}
    IdleLimit = 2
    Timeout = 2
    HastyUser = FALSE
SPECIFICATION Spec
SYMMETRY Symmetry
CHECK_DEADLOCK FALSE
INVARIANTS
    TypeOK
    UnattendedBounded
    BusyIsBacked
PROPERTY
    LockEndsSession
