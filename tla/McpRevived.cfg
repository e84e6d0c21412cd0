SPECIFICATION Spec
CONSTANTS
    Server = {s1, s2}
    Registered = {s1}
    Agent = {a1, a2}
    Worker = {w1, w2}
    None = None
    Drivers = {"memory", "dynamodb"}
SYMMETRY MCSymmetry
INVARIANTS
    RevokedForGood
