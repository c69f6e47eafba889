SPECIFICATION HealthSpec
CONSTANTS
    a = a a1 = a1 p1 = p1
    Keys = {a}
    Descriptors = {a1}
    KeyOf <- MCKeyOf
    AddrOf <- MCAddrOf
    Initial = {a1}
    Registries <- MCRegistries
    Sups = {s1, s2}
    Nobody = Nobody
    BackoffMax = 2
    Disturbed = {p1}
    MaxReloads = 0
INVARIANT HealthReflectsServing
CHECK_DEADLOCK FALSE
