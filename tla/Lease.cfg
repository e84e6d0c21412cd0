SPECIFICATION Spec
CONSTANTS
    old = old
    new = new
    Inst = {old, new}
    AgentName = {"agent"}
    Name <- MCName
    NoCard = NoCard
    Absent = Absent
    Interval = 1
    Ttl = 3
    Skew <- MCSkew
    CallTimeout = 6
    Drivers = {"memory", "dynamodb"}
    EnforceTtl = TRUE
    MaxStrays <- MCStrays
    Horizon = 5
INVARIANTS
    TypeOK
    LeaseBound
    
PROPERTIES
    FoundAgain
