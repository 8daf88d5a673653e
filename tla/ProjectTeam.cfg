\* Two students and a mentor, two managers and two answers, two requests at once.
SPECIFICATION TeamSpec
CONSTANTS
    anu = anu
    ravi = ravi
    rao = rao
    nobody = nobody
    m1 = m1
    m2 = m2
    i1 = i1
    i2 = i2
    Students = {anu, ravi}
    Faculty = {rao}
    Nobody = nobody
    Invited <- MCInvited
    Managers = {m1, m2}
    Sessions = {m1, m2, i1, i2}
    Invitees = {i1, i2}
    MaxInvitations = 3
    MaxMembers = 2
    MaxTasks = 1
SYMMETRY Symmetry
CONSTRAINT FewAtOnce
INVARIANTS
    TeamTypeOK
    MembersConsented
    OneMemberPerInvitation
    LeaversRecorded
