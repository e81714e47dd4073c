CONSTANTS
    MThreads = {1, 2, 3}
    MPrograms <- MCMPrograms
    RWThreads = {1, 2, 3}
    RWPrograms <- MCRWPrograms
    I32Max = 3
SPECIFICATION Spec
INVARIANTS
    MutexCorrect
    RwLockCorrect
    ExecExact
    VforkGroupsRobustExact
    SettingsExact
PROPERTY TasksProgress
CHECK_DEADLOCK FALSE
