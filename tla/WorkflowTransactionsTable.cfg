\* Two officers decide the same challenge at once.
SPECIFICATION Spec
CONSTANTS
    r1 = r1
    r2 = r2
    resolved = resolved
    triaged = triaged
    project = project
    Nobody = Nobody
    Requests = {r1, r2}
    Challenges <- MCChallenges
    Projects <- MCProjects
    Stages <- MCStages
    Allocated = {}
    Plans <- OperationPlans
    InitialState <- MCInitialState
PROPERTY CommittedChangesFollowTable
