CONSTANTS
    Stems <- MCStems
    Words = {"pdf"}
    NoExtension = "NoExtension"
    LogsStem = "_logs"
    Files <- MCFiles
    Dir = "DIR"
    Busy = {"f3"}
    InitFS <- MCInitFS
    MaxCounter = 3
SPECIFICATION Spec

INVARIANT FilesKept
INVARIANT OrganizedOnDone
PROPERTY Termination
CHECK_DEADLOCK FALSE
