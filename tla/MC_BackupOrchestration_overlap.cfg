CONSTANTS
    Docs = Docs
    Photos = Photos
    U1Docs = U1Docs
    U2Docs = U2Docs
    U1Photos = U1Photos
    Names = {Docs, Photos}
    Paths = {U1Docs, U2Docs, U1Photos}
    Sources <- MCSources
    MaxTriggers = 2
SPECIFICATION Spec
INVARIANT OneOperationAtATime
CHECK_DEADLOCK FALSE
