\* The bounds of ChallengeSubmission.cfg.
SPECIFICATION Spec
CONSTANTS
    k1 = k1
    o1 = o1
    r1 = r1
    r2 = r2
    r3 = r3
    u1 = u1
    Drafts = {k1}
    Objects = {o1}
    Reporters <- MCReporters
    Uploaders = {u1}
    Sessions <- MCSessions
    MaxEdits = 1
    MaxChallenges = 2
SYMMETRY MCSymmetry
INVARIANTS
    LastSavedReported
