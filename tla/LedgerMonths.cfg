SPECIFICATION Spec
CONSTANTS
    None = None
    Templates = {t1}
    Expenses = {e1, e2, e3, e4}
    LastMonth = 3
    Tabs = {tab1}
    Loads = {l1}
    Operations <- AllOperations
    SinglesMax = 1
    Overlapping = FALSE
    Failures = FALSE
SYMMETRY Symmetry
INVARIANTS TypeOK DateInPeriod SettledInTerm SkippedStaysSkipped ShownOnce
PROPERTIES ShownIsComplete SaveDoesItAll
CHECK_DEADLOCK FALSE
