SPECIFICATION FairSpec
CONSTANTS
    r1 = r1
    r2 = r2
    q1 = q1
    q2 = q2
    low = low
    high = high
    NoCut = NoCut
    NoRunId = NoRunId
    Runs <- TwoRuns
    Requests <- TwoRequests
    Sites <- ApiAndAgent
    Cuts <- TwoCuts
    Scaled = TRUE
INVARIANTS BundlesAreWhole SameViewSameBundle
PROPERTIES LoadsRecover
