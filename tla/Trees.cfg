SPECIFICATION Spec
CONSTANTS
    main = main
    topic = topic
    c0 = c0
    c1 = c1
    c2 = c2
    None = None
    MaxEntries = 2
    Extends <- MCExtends
    Branches = {main, topic}
    Paths <- MCPaths
    StartFiles <- MCStart
    Changes <- MCChanges
    Works <- MCWorks
    MaxEdits = 3
SYMMETRY Symmetric
INVARIANTS TypeOK TreesHoldTheFiles ReadsAgree MergeIsSound
PROPERTIES EditsShareTheRest
CHECK_DEADLOCK FALSE
