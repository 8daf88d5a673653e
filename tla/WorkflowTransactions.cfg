\* Two concurrent requests on a resolved challenge, its project and a challenge in triage.
SPECIFICATION FairSpec
CONSTANTS
    r1 = r1
    r2 = r2
    resolved = resolved
    triaged = triaged
    project = project
    Nobody = Nobody
    Requests = {r1, r2}
    Challenges <- MCChallenges
    Projects <- MCProjects
    Stages <- MCStages
    Allocated = {}
    Plans <- OperationPlans
    InitialState <- MCInitialState
INVARIANTS
    TypeOK
    LedgerUnbroken
    LedgerTellsStatus
    ConflictHasWinner
PROPERTIES
    ImplementsAuditTrail
    EveryRequestEnds
