SPECIFICATION FairSpec
CONSTANTS
    a = a c = c a1 = a1 a2 = a2 c1 = c1 p1 = p1 p2 = p2
    Keys = {a, c}
    Descriptors = {a1, a2, c1}
    KeyOf <- MCKeyOf
    AddrOf <- MCAddrOf
    Initial <- MCInitial
    Registries <- MCRegistries
    Sups = {s1, s2, s3}
    Nobody = Nobody
    BackoffMax = 1
    Disturbed = {p1}
    MaxReloads = 1
INVARIANTS OneSupervisorPerCamera Reconciled StoppedClean CountersExact
PROPERTIES ReloadKeepsCameras CameraComesBack ReloadCompletes ShutdownCompletes
CHECK_DEADLOCK FALSE
