CONSTANTS
    E1 = E1
    E2 = E2
    Star = Star
    NoResult = NoResult
    Files <- MCFiles
    Ext <- MCExt
    Patterns <- MCPatterns
    MaxWorkers = 2
SPECIFICATION Spec
 
PROPERTY Termination
PROPERTY BackupJobRefined
CHECK_DEADLOCK FALSE
