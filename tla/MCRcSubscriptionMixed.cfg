SPECIFICATION Spec
CONSTANTS
    MaxActions = 2
    ActionIds = {1, 2, 3}
INVARIANTS
    MixedRequestIsAnswered
CHECK_DEADLOCK FALSE
