SPECIFICATION FairSpec
CONSTANTS
    MaxLoop = 1
    simA = simA
    simB = simB
    http = http
    Sim <- MCOneSim
    FirstSim = simA
    Handler <- MCNoHandler
    Request <- MCOneRequest
    Num2Send = 0
    MaxCpid = 1
    SeqSpace = 2
PROPERTIES
    DeletedStaysDeleted
CHECK_DEADLOCK FALSE
