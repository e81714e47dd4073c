\* Two processes, three threads, five pages, default chunks of two.
CONSTANTS
    p1 = p1
    p2 = p2
    t1 = t1
    t2 = t2
    t3 = t3
    NoThread = NoThread
    NumPages = 5
    DefaultSize = 2
    Processes = {p1, p2}
    Threads = {t1, t2, t3}
    ProcessOf <- TwoProcesses
    StartSizes <- Start
    Scenarios <- Programs
    CanExit = {p1}
    MaxStale = 5
SPECIFICATION Spec
\* When all calls have been made and the processes have exited nothing is left to do.
CHECK_DEADLOCK FALSE
INVARIANTS
    SpaceDivided
    AnswersTrue
PROPERTIES
    ContentsKept
    ImplementsAddressSpaces
