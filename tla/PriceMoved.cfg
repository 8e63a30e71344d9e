SPECIFICATION Spec
CONSTANTS
    Explored = {"priceTemplates"}
    a = a
    b = b
    Ids <- Both
    SeedIds <- TwoRows
    None = None
    Waiting = Waiting
    Failed = Failed
    Done = Done
    MaxKeys = 3
    MaxCalls = 2
    MaxClicks = 2
INVARIANT SavedPriceIsMoved
CHECK_DEADLOCK FALSE
