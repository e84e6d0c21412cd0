SPECIFICATION Spec
CONSTANTS
    router = router
    a1 = a1
    a2 = a2
    dead = dead
    Card <- MCCard
    NoCard = NoCard
    AgentName = {"router", "a", "dead"}
    AgentUrl = {"u0", "u1", "u2", "u3"}
    Name <- MCName
    Url <- MCUrl
    InitialCard = router
    Unusable = {dead}
    Call = {c1, c2}
    MaxDepth = 3
    MaxPolls = 1
    Sequential = TRUE
INVARIANTS
    TypeOK
    RequestsBounded
    RejectedIsAccurate
    NeverBackToRejecter
PROPERTIES
    TimeoutOnlyAfterLimit
    SelfRedirectIsReal
    ResponderIsKept
    EveryStepCounts
    EveryCallEnds
