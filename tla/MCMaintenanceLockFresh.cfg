SPECIFICATION Spec
CONSTANTS
    t1 = t1
    t2 = t2
    t3 = t3
    h1 = h1
    h2 = h2
    h3 = h3
    s1 = s1
    s2 = s2
    s3 = s3
    Handles = {h1, h2, h3}
    Stores = {s1, s2, s3}
    StoreOf <- ThreeStores
    StaleAfter = 1
    Leftovers = {NoLock}
    NoLock = NoLock
    Garbage = Garbage
    Nobody = Nobody
    Callers = {t1, t2, t3}
    HandleOf <- ThreeHandles
    MaxTime = 0
    MaxCrashes = 0
    FsFaults = FALSE
PROPERTIES
    FreshLockSkips
