SPECIFICATION Spec
CONSTANTS
    None = None
    Calls = {c1, c2}
    s1 = s1  s2 = s2  x1 = x1  x2 = x2  l1 = l1  l2 = l2  b1 = b1  b2 = b2
    Sites = {s1, s2}
    Secrets = {x1, x2}
    Labels = {l1, l2}
    Bodies = {b1, b2}
    LastBirth = 1
    Queries <- AllQueries
SYMMETRY Symmetry
CHECK_DEADLOCK FALSE
INVARIANTS TypeOK EverySecretHasItsSite
PROPERTY ActsAtOnce
