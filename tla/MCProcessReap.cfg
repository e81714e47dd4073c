CONSTANTS
    MaxProcess = 2
    MaxThread = 2
    WaitFilters <- AllWait
    Cloners = {1}
    Executors = {}
    GroupExiters = {}
    Killed = {}
SPECIFICATION Spec
INVARIANTS AssertionsHold
CHECK_DEADLOCK FALSE
