CONSTANTS
    D1 = D1
    D2 = D2
    R = R
    S = S
    NoFile = NoFile
    NoPath = NoPath
    Dirs <- MCDirs
    Entries <- MCEntries
    Parent <- MCParent
    Kind <- MCKind
    Target <- MCTarget
    LinkTo <- MCLinkTo
    Content <- MCContent
    Digests = {D1, D2}
    Unreadable = {}
    Root = R
    T = T
    T1 = T1
    T2 = T2
    BaseName <- MCBaseName
    TargetDir = T
    TargetInit <- MCTargetInit
    Dangling = {T2}
    MaxCounter = 3
SPECIFICATION Spec
INVARIANT GroupsExact
INVARIANT MovedKept
CHECK_DEADLOCK FALSE
