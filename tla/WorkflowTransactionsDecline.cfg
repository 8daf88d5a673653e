\* A decline is sent again while the challenge is assigned anew.
SPECIFICATION Spec
CONSTANTS
    r1 = r1
    r2 = r2
    resolved = resolved
    triaged = triaged
    project = project
    Nobody = Nobody
    Requests = {r1, r2}
    Challenges <- MCChallenges
    Projects <- MCProjects
    Stages <- MCStages
    Allocated = {triaged}
    Plans <- AllocationPlans
    InitialState <- DeclinedInitialState
PROPERTY DeclineReverts
