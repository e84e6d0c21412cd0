SPECIFICATION Spec
CONSTANTS
    t1 = t1
    t2 = t2
    t3 = t3
    chat = chat
    other = other
    None = None
    Turn <- MCTurn
    Conversation = {chat, other}
    Of <- MCOf
    Server = {m1, m2}
    Router = {t2}
    Shared = TRUE
    Waits = "nothing"
    WritesFail = TRUE
    Lasting = {m1}
    MaxChanges = 1
INVARIANTS
    EndsOnce
    ToolsWereGranted
    FilesStayInside
PROPERTIES
    EveryTaskIsFinal
    KeepsProtocol
