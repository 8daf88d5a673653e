\* A plan of one milestone and room for another, two planners, two people at work.
SPECIFICATION Spec
CONSTANTS
    p1 = p1
    p2 = p2
    w1 = w1
    w2 = w2
    Planners = {p1, p2}
    Workers = {w1, w2}
    Sessions = {p1, p2, w1, w2}
    InitialPlan <- MCPlan
    Weights <- MCWeights
    NewWeights <- MCNewWeights
    MaxMilestones = 2
SYMMETRY Symmetry
INVARIANTS
    TypeOK
    SubmittedHasEvidence
    PlanWithinTotal
    LockedPlanComplete
    ProgressOfApproved
CONSTRAINT FewAtOnce
CHECK_DEADLOCK FALSE
