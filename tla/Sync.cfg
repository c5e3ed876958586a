SPECIFICATION Spec
CONSTANTS
    a = a
    b = b
    r = r
    a1 = a1
    a2 = a2
    a3 = a3
    b1 = b1
    m = m
    tr = tr
    ta = ta
    tb = tb
    tm = tm
    x = x
    y = y
    Clones = {a, b}
    Remote = Remote
    Commits = {r, a1, a2, a3, b1, m}
    Trees = {tr, ta, tb, tm}
    Blobs = {x, y}
    None = None
    NoSnap = NoSnap
    Parents <- MCParents
    TreeOf <- MCTreeOf
    BlobsOf <- MCBlobsOf
    Author <- MCAuthor
    InitCommit = r
    MaxTransfers = 3
INVARIANTS  SuccessMeansDelivered
PROPERTIES RemoteFastForwards
CHECK_DEADLOCK FALSE
