CONSTANTS
    Dirs <- MCDirs
    Entries <- MCEntries
    Parent <- MCParent
    Kind <- MCKind
    Target <- MCTarget
    Unreadable <- MCUnreadable
    Root = "r"
SPECIFICATION Spec

INVARIANT NoDirTwice
INVARIANT WalkExact
PROPERTY Termination
CHECK_DEADLOCK FALSE
