\* One half-hourly event delivered twice: two executions at a time, each run up to twice.
SPECIFICATION MCSpec
CONSTANTS
    e1 = e1  e2 = e2  good = good  bad = bad  NoData = NoData
    Events = {e1}
    Schedule <- HalfHourly
    Payloads = {good}
    Malformed = {}
    MaxDeliveries = 2
    MaxAttempts = 2
    MaxSends = 2
    MaxDay = 0
    SleepSuffices = TRUE
    DedupForgets = FALSE
CHECK_DEADLOCK FALSE
INVARIANTS UniqueRowId CreatorNotRefused
