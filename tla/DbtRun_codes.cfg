\* One task: which exit codes are mailed.
SPECIFICATION Spec
CONSTANTS
    MaxDay = 1
    MaxTasks = 1
    Threads = 4
CHECK_DEADLOCK FALSE
INVARIANTS MailMeansExitOne
