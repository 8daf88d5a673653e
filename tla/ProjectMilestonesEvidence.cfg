\* One person at work: a milestone is approved that never had evidence.
SPECIFICATION Spec
CONSTANTS
    p1 = p1
    p2 = p2
    w1 = w1
    w2 = w2
    Planners = {p1}
    Workers = {w1}
    Sessions = {p1, w1}
    InitialPlan <- MCPlan
    Weights <- MCWeights
    NewWeights <- MCNewWeights
    MaxMilestones = 2
INVARIANT ProgressIsEvidenceBacked
