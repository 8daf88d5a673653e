\* Two devices and two resets, two requests at once; three sessions, so that one token can be rotated twice; two codes of two attempts.
SPECIFICATION Spec
CONSTANTS
    d1 = d1
    d2 = d2
    r1 = r1
    r2 = r2
    Sessions <- MCSessions
    Devices <- MCDevices
    Resetters <- MCResetters
    MaxAttempts = 2
    MaxSessions = 3
    MaxCodes = 2
    MaxChanges = 2
SYMMETRY MCSymmetry
CONSTRAINT FewAtOnce
\* An erased account is done with once its codes are.
CHECK_DEADLOCK FALSE
INVARIANTS
    TypeOK
    OneLivePerLogin
    ChangesSpendCodes
