SPECIFICATION Spec
CONSTANTS
    old = old
    new = new
    Inst = {old}
    AgentName = {"agent"}
    Name <- MCOneName
    NoCard = NoCard
    Absent = Absent
    Interval = 1
    Ttl = 3
    Skew <- MCNoSkew
    CallTimeout = 1
    Drivers = {"dynamodb"}
    EnforceTtl = TRUE
    MaxStrays <- MCNoStrays
    Horizon = 4
PROPERTIES
    UpGetsListed
