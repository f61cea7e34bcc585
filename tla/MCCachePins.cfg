SPECIFICATION Spec
CONSTANTS
    t1 = t1
    t2 = t2
    h1 = h1
    h2 = h2
    s1 = s1
    s2 = s2
    Absent = Absent
    Corrupt = Corrupt
    Nobody = Nobody
    Callers = {t1}
    Handles = {h1}
    Stores = {s1}
    HandleOf <- SoleCaller
    StoreOf <- OneStore
    Keys = {1}
    Payloads = {"a"}
    Ceiling = 0
    Workload = {"put", "maintain"}
    FsFaults = FALSE
    MaxPins = 1
    MaxNext = 3
    MaxDamage = 0
    MaxRestarts = 0
PROPERTIES
    LivePinsHold
