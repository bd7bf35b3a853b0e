SPECIFICATION FairSpec
CONSTANTS
    w1 = w1
    w2 = w2
    r1 = r1
    s1 = s1
    s2 = s2
    EdgeWakes <- OneWake
    RegionalWakes <- NoWakes
    Sleeps <- OneSleep
    Threshold = 2
    LambdaSpan = 1
    Environment <- Overlap
    MaxFailures = 0
PROPERTIES VisitorsAreServed
