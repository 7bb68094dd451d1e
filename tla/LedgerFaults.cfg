SPECIFICATION FairSpec
CONSTANTS
    None = None
    Templates = {t1, t2}
    Expenses = {e1}
    LastMonth = 1
    Tabs = {tab1}
    Loads = {l1}
    Operations <- FaultOperations
    SinglesMax = 1
    Overlapping = FALSE
    Failures = TRUE
INVARIANTS OneTemplatePerForm SpinnerIsBacked
PROPERTIES LoadsEnd SavesEnd
CHECK_DEADLOCK FALSE
