SPECIFICATION FairSpec
CONSTANTS
    p = p
    q = q
    third = third
    w1 = w1
    w2 = w2
    main = main
    feature = feature
    dev = dev
    r = r
    m = m
    f = f
    Fresh = {x, y, z, u}
    Clients = {p, q}
    Workspaces = {w1, w2}
    Branches = {main, dev}
    Commits <- MCCommits
    WorkspaceOf <- Separate
    Main = main
    None = None
    Absent = Absent
    NoSnap = NoSnap
    InitHead <- Diverged
    InitParents <- MCParents
    InitAnc <- MCAnc
    InitSnapshots <- OldSnapshots
    Ops = {"staged", "mutate", "merge", "delete", "branch"}
    StagedRetries = 2
    MaxOps = 2
INVARIANTS SnapshotCoversOwnMoves StagedConflictMeansRaces
PROPERTIES OpFinishes UsesRefCas
CHECK_DEADLOCK FALSE
