SPECIFICATION Spec
CONSTANTS
    Conns = {c1, c2}
    NoConn = NoConn
    MaxSessions = 2
    DialRetries = 0
    UseCooldown = FALSE
    UseBudget = FALSE
    UseIdle = TRUE
    OwnerCloses = TRUE
    ContextEnds = TRUE
    PriorRefusals = 0
    MaxRefusals = 0
INVARIANT CloseTearsDownClients
CHECK_DEADLOCK FALSE
