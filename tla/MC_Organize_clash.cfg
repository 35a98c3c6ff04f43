CONSTANTS
    Stems <- MCStems
    Words = {"pdf"}
    NoExtension = "NoExtension"
    LogsStem = "_logs"
    Files <- MCClashFiles
    Dir = "DIR"
    Busy = {"f3"}
    InitFS <- MCClashFS
    MaxCounter = 3
SPECIFICATION Spec

CHECK_DEADLOCK FALSE
INVARIANT OrganizeCompletes
