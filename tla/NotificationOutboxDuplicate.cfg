\* Two requests: is a message dispatched twice?
SPECIFICATION Spec
CONSTANTS
    w1 = w1
    w2 = w2
    s1 = s1
    s2 = s2
    Items = {1}
    Malformed = {}
    Emails = {}
    Workers = {}
    Senders = {s1, s2}
    MaxRetries = 3
    Limit = 1
    MaxCrashes = 0
INVARIANT NoDuplicateDispatch
CHECK_DEADLOCK FALSE
