SPECIFICATION Spec
CONSTANTS
    None = None
    Templates = {t1}
    Expenses = {e1}
    LastMonth = 2
    Tabs = {tab1, tab2}
    Loads = {l1, l2}
    Operations <- RaceOperations
    SinglesMax = 1
    Overlapping = FALSE
    Failures = FALSE
SYMMETRY Symmetry
INVARIANT DateInPeriod
CHECK_DEADLOCK FALSE
