SPECIFICATION FairSpec
CONSTANTS
    simA = simA
    simB = simB
    simC = simC
    NoSim = NoSim
    Sim <- MCOneSim
    FirstSim = simA
    SetupAttempts = 3
    PeerMessage = {"setupSuccess", "setupFailure", "setupRequest", "removalResponse", "serviceQuery"}
    PeerEnding = {"eof", "broken"}
    MaxInbox = 1
    MaxAddresses = 2
INVARIANTS
    LateRequestsBounded
PROPERTIES
    StartupEnds
    HelperEnds
    StartedListenerEnds
CHECK_DEADLOCK FALSE
