\* One task a day for two days, with fairness.
SPECIFICATION LiveSpec
CONSTANTS
    MaxDay = 2
    MaxTasks = 1
    Threads = 2
CHECK_DEADLOCK FALSE
PROPERTIES FreshOrMailed
