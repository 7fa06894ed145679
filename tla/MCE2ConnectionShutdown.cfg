SPECIFICATION FairSpec
CONSTANTS
    simA = simA
    simB = simB
    simC = simC
    NoSim = NoSim
    Sim <- MCOneSim
    FirstSim = simA
    SetupAttempts = 3
    PeerMessage = {"setupSuccess"}
    PeerEnding = {"eof", "broken"}
    MaxInbox = 1
    MaxAddresses = 2
PROPERTIES
    ShutdownCompletes
CHECK_DEADLOCK FALSE
