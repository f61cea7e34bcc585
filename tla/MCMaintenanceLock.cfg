SPECIFICATION FairSpec
CONSTANTS
    t1 = t1
    t2 = t2
    t3 = t3
    h1 = h1
    h2 = h2
    h3 = h3
    s1 = s1
    s2 = s2
    s3 = s3
    Handles = {h1, h2}
    Stores = {s1, s2}
    StoreOf <- TwoStores
    StaleAfter = 0
    Leftovers = {NoLock, Garbage}
    NoLock = NoLock
    Garbage = Garbage
    Nobody = Nobody
    Callers = {t1, t2}
    HandleOf <- TwoHandles
    MaxTime = 1
    MaxCrashes = 1
    FsFaults = TRUE
INVARIANTS
    LockTypeOK
    ExclusiveUntilBroken
    BreaksOnlyWhatExpired
    ReleaseNeedsItsToken
PROPERTIES
    MaintenanceComesBack
