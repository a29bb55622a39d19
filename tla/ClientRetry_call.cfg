\* One call, in an execution that ends before the retries do, or after.
SPECIFICATION LiveSpec
CONSTANTS
    Initial = 1  Maximum = 2  Multiplier = 2
    RetryTimeout = 4
    Limit = 6
    MaxRefresh = 2
    GrantTries = 3
    Delay = 2
    Memory = 6
    MaxSends = 4
CHECK_DEADLOCK FALSE
INVARIANTS TypeOK StoredOnce NeverOutOfRetries
PROPERTIES RetriesStartInTime CallEnds ImplementsInsertCalls
