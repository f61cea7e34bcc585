SPECIFICATION RecencySpec
CONSTANTS
    t1 = t1
    h1 = h1
    s1 = s1
    Absent = Absent
    Corrupt = Corrupt
    Nobody = Nobody
    Callers = {t1}
    Handles = {h1}
    Stores = {s1}
    HandleOf <- SoleHandle
    StoreOf <- SoleStore
    Keys = {1, 2, 3}
    Payloads = {"a"}
    Ceiling = 1
    Workload = {"get", "put", "flush", "usage", "maintain"}
    FsFaults = FALSE
    MaxPins = 1
    MaxNext = 4
    MaxDamage = 1
    MaxRestarts = 1
PROPERTIES
    LeastRecentFirst
