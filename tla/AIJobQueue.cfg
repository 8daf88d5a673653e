\* Two workers, the reporter of a job and officers who override its priority and move its challenge; timeouts.
SPECIFICATION QueueSpec
CONSTANTS
    w1 = w1
    w2 = w2
    reporter = reporter
    admin = admin
    officer = officer
    Jobs = {1}
    Workers = {w1, w2}
    Enqueuers = {reporter}
    Admins = {}
    Officers = {officer}
    JobOf <- MCJobOf
    Priorities = {"MEDIUM", "HIGH"}
    Reported = "MEDIUM"
    Overrides = {"MEDIUM", "URGENT"}
    MaxRetries = 2
    Limit = 1
    SlowWorkers = TRUE
    MaxCrashes = 0
    MaxManual = 2
SYMMETRY Symmetry
INVARIANT FinishedAnalysed
PROPERTY OverridesStand
CHECK_DEADLOCK FALSE
