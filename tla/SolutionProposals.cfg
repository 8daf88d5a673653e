\* Versions of two authors at once, two reviewers at once, and an officer who moves the challenge.
SPECIFICATION Spec
CONSTANTS
    a1 = a1
    a2 = a2
    r1 = r1
    r2 = r2
    Authors = {a1, a2}
    Reviewers = {r1, r2}
    MaxProposals = 3
SYMMETRY Symmetry
CONSTRAINT FewAtOnce
INVARIANTS
    TypeOK
    SignedOff
    NewestIsCurrent
