SPECIFICATION Spec
CONSTANTS
    Conns = {c1, c2, c3}
    NoConn = NoConn
    MaxSessions = 2
    DialRetries = 0
    UseCooldown = TRUE
    UseBudget = TRUE
    UseIdle = TRUE
    OwnerCloses = TRUE
    ContextEnds = FALSE
    PriorRefusals = 0
    MaxRefusals = 3
SYMMETRY Symmetry
INVARIANTS SlotAccounting ServeReturnsClean OneRefusalPerCooldown
    SharedAnswerIsAnothers
PROPERTIES PoolSpec GateSpec
CHECK_DEADLOCK FALSE
