CONSTANTS
    Cameras = {1, 2}
    Base = 1
    MaxPort = 2
    Gap = 0
    BaseName <- MCBaseName
    Alias <- MCAlias
    Secrets = {t1, t2}
    FailuresMax = 1
SPECIFICATION FairSpec
INVARIANT
    DistinctPlaces
    InStep
PROPERTY
    AddressKept
    RequestServed
