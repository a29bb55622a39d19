\* Two tasks on one day.
SPECIFICATION Spec
CONSTANTS
    MaxDay = 1
    MaxTasks = 2
    Threads = 4
CHECK_DEADLOCK FALSE
INVARIANTS TypeOK GreenMeansFresh OthersAreBuilt
