\* The instance of ProjectClosure.cfg: who sets the status of the metric a project is closed on.
SPECIFICATION Spec
CONSTANTS
    line = line
    owner = owner
    partner = partner
    o1 = o1
    o2 = o2
    nobody = nobody
    desk = desk
    s1 = s1
    s2 = s2
    c1 = c1
    Sessions = {desk, s1, s2, c1}
    Desks = {desk}
    Signers = {s1, s2}
    Closers = {c1}
    Lines = {line}
    Linked = {}
    InitialAgreement = "COMPLETED"
    Parties = {owner, partner}
    Owner = owner
    Officials = {o1, o2}
    NoOne = nobody
SYMMETRY Symmetry
CONSTRAINT TwoAtOnce
INVARIANT MetricsVerifiedByOthers
