SPECIFICATION CatalogSpec
CONSTANTS
    None = None
    c1 = c1  c2 = c2  p1 = p1  p2 = p2  l1 = l1  l2 = l2
    r1 = r1  r2 = r2  k1 = k1  k2 = k2
    Chat = {c1}
    Project = {p1}
    Listing = {l1, l2}
    Budgets <- OnlyNone
    SearchBudgets <- CheckFails
    RebuildBudgets = {}
    TokenBudgets = {}
    ProfileBudgets = {}
INVARIANT
    ServedIsStored
CHECK_DEADLOCK FALSE
