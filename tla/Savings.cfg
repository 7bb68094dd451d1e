SPECIFICATION Spec
CONSTANTS
    None = None
    Corrupt = Corrupt
    n1 = n1
    sav = sav
    inv = inv
    etc = etc
    Fixed <- FixedCodes
    SavingsCode = sav
    InvestmentCode = inv
    CategoryNames = {g1, g2}
    Names = {n1}
    Amounts = {1}
    LastId = 6
    Contributions <- OneEach
    Tabs = {t1}
    Databases <- ManyDatabases
    MaxSaves = 2
    MaxFaults = 1
INVARIANTS TypeOK ShownIsSaved WorthIsKept
PROPERTIES BasesKept  BudgetNotLost
