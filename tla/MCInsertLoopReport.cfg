SPECIFICATION FairSpec
CONSTANTS
    MaxLoop = 2
    simA = simA
    simB = simB
    http = http
    Sim <- MCOneSim
    FirstSim = simA
    Handler <- MCHandler
    Request <- MCOneRequest
    Num2Send = 2
    MaxCpid = 3
    SeqSpace = 2
INVARIANTS
    TypeOK
    OneLoopInside
    OneNumberedStream
    SentMapFollowsWire
    SamplesWereSent
    OverrunBounded
    QuotaKept
PROPERTIES
    FinishedReportIsComplete
    LoopsFinish
CHECK_DEADLOCK FALSE
