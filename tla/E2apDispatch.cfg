SPECIFICATION Spec
CONSTANTS
    FunctionId = {0, 1, 2}
    MaxIds = 2
INVARIANTS
    TypeOK
    AnnouncedIsServed
    CalledForItsFunction
    UpdatesAreRegistered
CHECK_DEADLOCK FALSE
