SPECIFICATION Spec
CONSTANTS
    MaxLoop = 1
    simA = simA
    simB = simB
    http = http
    Sim <- MCTwoSims
    FirstSim = simA
    Handler <- MCHandler
    Request <- MCAllRequests
    Num2Send = 1
    MaxCpid = 1
    SeqSpace = 2
INVARIANTS
    Inv
CHECK_DEADLOCK FALSE
