\* A worker with two jobs in its batch, and an administrator: do all jobs settle?
SPECIFICATION FairSpec
CONSTANTS
    w1 = w1
    w2 = w2
    reporter = reporter
    admin = admin
    officer = officer
    Jobs = {1, 2}
    Workers = {w1}
    Enqueuers = {}
    Admins = {admin}
    Officers = {}
    JobOf <- NoJobOf
    Priorities = {"MEDIUM"}
    Reported = "MEDIUM"
    Overrides = {}
    MaxRetries = 2
    Limit = 2
    SlowWorkers = FALSE
    MaxCrashes = 1
    MaxManual = 2
PROPERTY EveryJobSettles
CHECK_DEADLOCK FALSE
