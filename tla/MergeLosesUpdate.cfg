SPECIFICATION Spec
CONSTANTS
    p = p
    q = q
    third = third
    w1 = w1
    w2 = w2
    main = main
    feature = feature
    dev = dev
    r = r
    m = m
    f = f
    Fresh = {x, y}
    Clients = {p, q}
    Workspaces = {w1, w2}
    Branches = {main}
    Commits <- MCCommits
    WorkspaceOf <- Separate
    Main = main
    None = None
    Absent = Absent
    NoSnap = NoSnap
    InitHead <- Diverged
    InitParents <- MCParents
    InitAnc <- MCAnc
    InitSnapshots <- NoSnapshots
    Ops = {"merge", "mutate"}
    StagedRetries = 1
    MaxOps = 2
PROPERTIES NoLostUpdate
CHECK_DEADLOCK FALSE
