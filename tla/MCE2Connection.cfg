SPECIFICATION Spec
CONSTANTS
    simA = simA
    simB = simB
    simC = simC
    NoSim = NoSim
    Sim <- MCThreeSims
    FirstSim = simA
    SetupAttempts = 0
    PeerMessage = {}
    PeerEnding = {"eof"}
    MaxInbox = 1
    MaxAddresses = 1
SYMMETRY MCHandovers
CONSTRAINT MCThreeUntilSigterm
INVARIANTS
    TypeOK
    OpenAssociationKeepsDescriptor
    DeletedSimsAreQuiet
    OnlyStaleDescriptorsStray
    OnlyAThirdTakes
    OnlyAConnectDisarms
PROPERTIES
    ImplementsAssociation
CHECK_DEADLOCK FALSE
