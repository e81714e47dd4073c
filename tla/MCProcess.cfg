CONSTANTS
    MaxProcess = 3
    MaxThread = 2
    WaitFilters <- MainWaits
    Cloners = {1}
    Executors = {1}
    GroupExiters = {1}
    Killed = {1}
SPECIFICATION FairSpec
INVARIANTS ProcessesConsistent NoMissedExit
PROPERTIES WaitReturns
CHECK_DEADLOCK FALSE
