\* Two workers, one crash, no running job timed out: is a job processed twice at once?
SPECIFICATION QueueSpec
CONSTANTS
    w1 = w1
    w2 = w2
    reporter = reporter
    admin = admin
    officer = officer
    Jobs = {1}
    Workers = {w1, w2}
    Enqueuers = {}
    Admins = {}
    Officers = {}
    JobOf <- NoJobOf
    Priorities = {"MEDIUM"}
    Reported = "MEDIUM"
    Overrides = {}
    MaxRetries = 3
    Limit = 1
    SlowWorkers = FALSE
    MaxCrashes = 1
    MaxManual = 0
INVARIANT ExclusiveProcessing
CHECK_DEADLOCK FALSE
