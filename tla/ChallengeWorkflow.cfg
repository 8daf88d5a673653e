\* A challenge at any point of its life, and what seven actors do next.
SPECIFICATION Spec
CONSTANTS
    u1 = u1
    u2 = u2
    NoUniversity = NoUniversity
    Universities = {u1, u2}
    Actors <- MCActors
    Submitter <- Citizen
    Tiers = {"PANCHAYAT", "DISTRICT"}
    Capacity = 1
    InitialStatuses <- AnyStatus
    MaxVersion = 5
    MaxAllocations = 2
    MaxProjects = 2
INVARIANTS
    TypeOK
    HistoryTellsStatus
    VersionIdentifiesChallenge
    OneOffer
    DeploymentTested
