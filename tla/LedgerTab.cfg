SPECIFICATION Spec
CONSTANTS
    None = None
    Templates = {t1}
    Expenses = {e1, e2}
    LastMonth = 2
    Tabs = {tab1}
    Loads = {l1, l2}
    Operations <- LoadedOperations
    SinglesMax = 0
    Overlapping = TRUE
    Failures = FALSE
SYMMETRY Symmetry
INVARIANTS NoDoubleCount ShowsSelectedMonth SkippedStaysSkipped ShownOnce
CHECK_DEADLOCK FALSE
