\* The twice-a-day event when neither the sleep nor the insertIds can be relied on.
SPECIFICATION MCSpec
CONSTANTS
    e1 = e1  e2 = e2  good = good  bad = bad  NoData = NoData
    Events = {e1}
    Schedule <- TwiceADay
    Payloads = {good, bad}
    Malformed = {bad}
    MaxDeliveries = 1
    MaxAttempts = 2
    MaxSends = 2
    MaxDay = 0
    SleepSuffices = FALSE
    DedupForgets = TRUE
CHECK_DEADLOCK FALSE
INVARIANTS LoggedOutcomeIsTrue LoadsInOrder DuplicateHasCause
