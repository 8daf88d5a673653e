\* Two messages, one of them to a malformed recipient, with two requests and a worker.
SPECIFICATION FairSpec
CONSTANTS
    w1 = w1
    w2 = w2
    s1 = s1
    s2 = s2
    Items = {1, 2}
    Malformed = {2}
    Emails = {1}
    Workers = {w1}
    Senders = {s1, s2}
    MaxRetries = 2
    Limit = 2
    MaxCrashes = 1
PROPERTY ClaimsEnd
INVARIANTS
    TypeOK
    SentWasAccepted
CHECK_DEADLOCK FALSE
