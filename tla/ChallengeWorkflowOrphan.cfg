\* Does a rejected creation leave no project?
SPECIFICATION Spec
CONSTANTS
    u1 = u1
    u2 = u2
    NoUniversity = NoUniversity
    Universities = {u1, u2}
    Actors <- MCActors
    Submitter <- Citizen
    Tiers = {"PANCHAYAT", "DISTRICT"}
    Capacity = 1
    InitialStatuses = {"VALIDATED"}
    MaxVersion = 4
    MaxAllocations = 2
    MaxProjects = 2
PROPERTY RejectedCreationLeavesNothing
