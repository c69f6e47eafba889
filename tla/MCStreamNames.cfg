CONSTANTS
    Cameras = {1, 2}
    Base = 1
    MaxPort = 2
    Gap = 0
    BaseName <- MCVM65
    Alias <- MCAlias
    Secrets = {t1}
    FailuresMax = 1
SPECIFICATION Spec
INVARIANT
    PlaysOwnCamera
