SPECIFICATION Spec
CONSTANTS
    None = None
    Calls = {c1}
    s1 = s1  s2 = s2  x1 = x1
    Sites = {s1, s2}
    Secrets = {x1}
    Labels = {l1}
    Tabs = {t1}
    Titles = {p1}
    Terms = {p2}
    Fields = {f1}
    MaxFields = 2
    MaxCalls = 2
    LastBirth = 2
    Bodies <- Contents
    Backups <- NoBackups
INVARIANTS TypeOK ShownIsCurrent NothingHidden
PROPERTIES NoDraftLost BusyEnds
