SPECIFICATION Spec
CONSTANTS
    t1 = t1
    t2 = t2
    t3 = t3
    chat = chat
    other = other
    None = None
    Turn <- MCTurn
    Conversation = {chat, other}
    Of <- MCOneChat
    Server = {m1}
    Router = {}
    Shared = TRUE
    Waits = "final"
    WritesFail = FALSE
    Lasting = {}
    MaxChanges = 2
INVARIANTS
    SentOnce
