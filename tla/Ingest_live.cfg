\* One half-hourly event and one of an unknown schedule, up to three attempts each.
SPECIFICATION MCLiveSpec
CONSTANTS
    e1 = e1  e2 = e2  good = good  bad = bad  NoData = NoData
    Events = {e1, e2}
    Schedule <- OneUnknown
    Payloads = {good}
    Malformed = {}
    MaxDeliveries = 1
    MaxAttempts = 3
    MaxSends = 2
    MaxDay = 0
    SleepSuffices = TRUE
    DedupForgets = FALSE
CHECK_DEADLOCK FALSE
PROPERTIES EventEnds
