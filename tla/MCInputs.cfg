SPECIFICATION InputsSpec
CONSTANTS
    MaxActions = 3
    ActionIds = {1, 2, 3}
    MaxOptions = 3
INVARIANTS
    OnlyFirstInsertAccepted
    SentResponseMatchesLoop
    LastOneCounts
    PlmnHoldsItsDigits
    CellBelongsToItsNode
CHECK_DEADLOCK FALSE
