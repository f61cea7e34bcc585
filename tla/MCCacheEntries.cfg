SPECIFICATION Spec
CONSTANTS
    t1 = t1
    t2 = t2
    h1 = h1
    h2 = h2
    s1 = s1
    s2 = s2
    Absent = Absent
    Corrupt = Corrupt
    Nobody = Nobody
    Callers = {t1, t2}
    Handles = {h1, h2}
    Stores = {s1, s2}
    HandleOf <- TwoHandles
    StoreOf <- TwoStores
    Keys = {1}
    Payloads = {"a", "b"}
    Ceiling = 0
    Workload = {"get", "put", "evict_rejected", "flush", "usage", "maintain"}
    FsFaults = TRUE
    MaxPins = 0
    MaxNext = 2
    MaxDamage = 1
    MaxRestarts = 1
INVARIANTS
    CacheTypeOK
    AnswersArePublished
