SPECIFICATION Spec
CONSTANTS
    MaxLoop = 1
    simA = simA
    simB = simB
    http = http
    Sim <- MCOneSim
    FirstSim = simA
    Handler <- MCNoHandler
    Request <- MCOneRequest
    Num2Send = 2
    MaxCpid = 2
    SeqSpace = 2
PROPERTIES
    ReportIsGenerated
CHECK_DEADLOCK FALSE
