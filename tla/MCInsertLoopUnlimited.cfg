SPECIFICATION FairSpec
CONSTANTS
    MaxLoop = 2
    simA = simA
    simB = simB
    http = http
    Sim <- MCOneSim
    FirstSim = simA
    Handler <- MCHandler
    Request <- MCOneRequest
    Num2Send = 0
    MaxCpid = 3
    SeqSpace = 2
INVARIANTS
    LoopsTakeTurns
PROPERTIES
    ImplementsStream
    StopFreesLock
CHECK_DEADLOCK FALSE
