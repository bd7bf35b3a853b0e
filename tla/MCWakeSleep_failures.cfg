SPECIFICATION FairSpec
CONSTANTS
    w1 = w1
    w2 = w2
    r1 = r1
    s1 = s1
    s2 = s2
    EdgeWakes <- OneWake
    RegionalWakes <- OneRegional
    Sleeps <- OneSleep
    Threshold = 3
    LambdaSpan = 1
    Environment <- Everything
    MaxFailures = 2
INVARIANTS SleepTakesServicesDown
PROPERTIES AwakeIsPutToSleep
