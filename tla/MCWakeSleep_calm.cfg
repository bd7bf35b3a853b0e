SPECIFICATION FairSpec
CONSTANTS
    w1 = w1
    w2 = w2
    r1 = r1
    s1 = s1
    s2 = s2
    EdgeWakes <- TwoWakes
    RegionalWakes <- NoWakes
    Sleeps <- TwoSleeps
    Threshold = 2
    LambdaSpan = 1
    Environment <- Unseeded
    MaxFailures = 0
INVARIANTS StatusMatchesPower
PROPERTIES SleepsOnlyWhenIdle IdleCostsNothing VisitorsAreServed
