\* One twice-a-day event, delivered once, run up to twice, across two midnights.
SPECIFICATION MCSpec
CONSTANTS
    e1 = e1  e2 = e2  good = good  bad = bad  NoData = NoData
    Events = {e1}
    Schedule <- TwiceADay
    Payloads = {good}
    Malformed = {}
    MaxDeliveries = 1
    MaxAttempts = 2
    MaxSends = 2
    MaxDay = 2
    SleepSuffices = TRUE
    DedupForgets = FALSE
CHECK_DEADLOCK FALSE
INVARIANTS OneDatePerInvocation TypeOK
PROPERTIES ImplementsRawLog ImplementsInsertCalls
