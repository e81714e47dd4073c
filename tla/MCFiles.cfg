SPECIFICATION Spec
CONSTANTS
    FThreads = {"t1", "t2"}
    FPrograms <- TablePrograms
    Files = {"stdin", "stdout", "f", "g", "p"}
    NoFile = NoFile
    MaxFds = 6
INVARIANTS
    OpenFilesExact
    LocksExact
    FileSystemsExact
    PathsExact
CHECK_DEADLOCK FALSE
