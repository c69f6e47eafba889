SPECIFICATION FairSpec
CONSTANTS
    Conns = {c1, c2}
    NoConn = NoConn
    MaxSessions = 0
    DialRetries = 1
    UseCooldown = TRUE
    UseBudget = FALSE
    UseIdle = TRUE
    OwnerCloses = FALSE
    ContextEnds = TRUE
    PriorRefusals = 1
    MaxRefusals = 1
PROPERTIES DialEnds LostPeerFreesSlot ShutdownDrains
CHECK_DEADLOCK FALSE
