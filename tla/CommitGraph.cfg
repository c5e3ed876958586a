SPECIFICATION Spec
CONSTANTS
    Size = 4
    Commits <- MCCommits
    Histories <- MCHistories
    NoGeneration = NoGeneration
    None = None
INVARIANTS AncestryIsExact BaseIsBest BaseWalkIsShort ListingIsComplete RaisesOnlyOnGaps
