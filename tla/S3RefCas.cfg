SPECIFICATION Spec
CONSTANTS
    Clients = {p, q}
    Branches = {main, dev}
    Commits = {c1, c2}
    None = None
    Absent = Absent
    ETagsServed = FALSE
    ResponsesLost = TRUE
PROPERTIES ConflictHasCause ImplementsRefCas
