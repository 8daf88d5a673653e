\* An offer from its start, a line that waits for a milestone and one that does not, two requests at once.
SPECIFICATION LedgerSpec
CONSTANTS
    linked = linked
    free = free
    r1 = r1
    r2 = r2
    Sessions = {r1, r2}
    Lines = {linked, free}
    Linked = {linked}
    InitialAgreement = "NOT_OFFERED"
SYMMETRY Symmetry
INVARIANTS
    FundingFollowsAcceptance
    ReleaseConditions
