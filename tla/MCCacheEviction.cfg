SPECIFICATION Spec
CONSTANTS
    t1 = t1
    t2 = t2
    h1 = h1
    h2 = h2
    s1 = s1
    s2 = s2
    Absent = Absent
    Corrupt = Corrupt
    Nobody = Nobody
    Callers = {t1, t2}
    Handles = {h1, h2}
    Stores = {s1}
    HandleOf <- TwoHandles
    StoreOf <- SharedStore
    Keys = {1, 2}
    Payloads = {"a"}
    Ceiling = 1
    Workload = {"put", "maintain"}
    FsFaults = FALSE
    MaxPins = 2
    MaxNext = 3
    MaxDamage = 0
    MaxRestarts = 0
INVARIANTS
    PassMeetsTheCeiling
PROPERTIES
    PinnedThroughoutSurvives
