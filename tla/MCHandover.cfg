SPECIFICATION FairSpec
CONSTANTS
    h1 = h1
    h2 = h2
    thread = thread
    Handler = {h1, h2}
    Main = thread
    MaxSim = 3
    Endpoint <- MCEndpoint
    FirstEndpoint <- MCFirst
INVARIANTS
    TypeOK
    VectorHoldsAll
    AnsweredForItsEndpoint
PROPERTIES
    KnownEndpointIsReused
    ReusesWhatIsRun
    SignalStopsAll
CHECK_DEADLOCK FALSE
