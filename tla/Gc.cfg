SPECIFICATION Spec
CONSTANTS
    v = v
    w = w
    main = main
    dev = dev
    k0 = k0
    k1 = k1
    k2 = k2
    k3 = k3
    t0 = t0
    t1 = t1
    t2 = t2
    b0 = b0
    b1 = b1
    Writers = {v, w}
    Branches = {main, dev}
    Commits = {k0, k1, k2, k3}
    Trees = {t0, t1, t2}
    Blobs = {b0, b1}
    None = None
    Missing = Missing
    Parents <- MCParents
    TreeOf <- MCTreeOf
    BlobsOf <- MCBlobsOf
    InitHead <- MCHead
    Grace = 1
    BatchSize = 2
    Settings <- MCSettings
INVARIANTS HeadsClosed 
PROPERTIES LiveDataIsKept
CHECK_DEADLOCK FALSE
