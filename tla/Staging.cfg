SPECIFICATION Spec
CONSTANTS
    c1 = c1
    c2 = c2
    p1 = p1
    p2 = p2
    None = None
    Extends <- McExtends
    Procs <- McProcs
    Paths <- McPaths
    Objects <- McObjects
    Key <- McKey
    Contents <- McContents
    Starts <- McStarts
    Ops <- McOps
    Writes <- McWrites
    PeerEdits <- McPeerEdits
    StagedRetries = 2
    MaxOps = 3
    MaxOthers = 1
INVARIANTS TypeOK StagedIsIntent ClashesAreCaught StatusPredictsCommit StagedMoveIsMove RestoreFillsTheGaps
PROPERTIES   PromoteKeepsBytes
CHECK_DEADLOCK FALSE
