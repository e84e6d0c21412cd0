SPECIFICATION ConversationSpec
CONSTANTS
    router = router
    a1 = a1
    a2 = a2
    Card <- MCCard
    NoCard = NoCard
    AgentName = {"router", "a", "b"}
    AgentUrl = {"u0", "u1", "u2"}
    Name <- MCName
    Url <- MCUrl
    InitialCard = router
    Unusable = {}
    Router = {router}
    Call = {c1, c2}
    MaxDepth = 1
    MaxPolls = 1
    Sequential = FALSE
INVARIANTS
    SystemTypeOK
    ProtocolKept
PROPERTIES
    RepliesAreAnswers
    TimeoutIsDue
    EveryCallEnds
