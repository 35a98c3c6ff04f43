CONSTANTS
    R = R
    A = A
    L = L
    X = X
    I = I
    NoFile = NoFile
    NoResult = NoResult
    Dirs <- MCDirs
    Entries <- MCEntries
    Parent <- MCParent
    Kind <- MCKind
    Target <- MCTarget
    LinkTo <- MCLinkTo
    Roots <- MCRoots
    InitMode <- MCInitMode
    Denied = {8}
SPECIFICATION Spec
INVARIANT ChmodConfined
CHECK_DEADLOCK FALSE
