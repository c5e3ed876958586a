SPECIFICATION Spec
CONSTANTS
    p = p
    q = q
    third = third
    w1 = w1
    w2 = w2
    main = main
    feature = feature
    dev = dev
    r = r
    m = m
    f = f
    Fresh = {x, y, z}
    Clients = {p, q, third}
    Workspaces = {w1, w2}
    Branches = {main, dev}
    Commits <- MCCommits
    WorkspaceOf <- Mixed
    Main = main
    None = None
    Absent = Absent
    NoSnap = NoSnap
    InitHead <- Behind
    InitParents <- MCParents
    InitAnc <- MCAnc
    InitSnapshots <- NoSnapshots
    Ops = {"commit", "staged", "import", "mutate", "promote", "merge", "reset", "branch", "delete", "checkout"}
    StagedRetries = 2
    MaxOps = 2
SYMMETRY MixedSymmetry
INVARIANTS TypeOK SnapshotWasHead 
PROPERTIES NonMergeMovesAdvance MutationBuiltOnParent
CHECK_DEADLOCK FALSE
