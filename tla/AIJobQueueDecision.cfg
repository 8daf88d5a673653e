\* Is a decided challenge moved by an analysis?
SPECIFICATION QueueSpec
CONSTANTS
    w1 = w1
    w2 = w2
    reporter = reporter
    admin = admin
    officer = officer
    Jobs = {1}
    Workers = {w1, w2}
    Enqueuers = {}
    Admins = {}
    Officers = {}
    JobOf <- NoJobOf
    Priorities = {"MEDIUM"}
    Reported = "MEDIUM"
    Overrides = {}
    MaxRetries = 3
    Limit = 2
    SlowWorkers = TRUE
    MaxCrashes = 0
    MaxManual = 1
PROPERTY DecisionsStand
CHECK_DEADLOCK FALSE
