SPECIFICATION Spec
CONSTANTS
    Given <- MCGiven
    NoName = NoName
    ToolBlock <- MCToolBlock
    PlainBlock <- MCPlainBlock
    MaxBlocks = 4
    MaxResults = 2
    MaxTurns = 2
INVARIANTS
    TypeOK
    NoneMissed
    NamesAsDeclared
    MadeNamesDiffer
    LastOfNameArrives
