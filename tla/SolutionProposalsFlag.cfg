\* A rejection overtaken by an approval.
SPECIFICATION Spec
CONSTANTS
    a1 = a1
    a2 = a2
    r1 = r1
    r2 = r2
    Authors = {a1}
    Reviewers = {r1, r2}
    MaxProposals = 2
INVARIANT FlagMirrorsStatus
