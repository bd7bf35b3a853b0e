SPECIFICATION FairSpec
CONSTANTS
    AdHoc = ad_hoc
    acme = acme
    enel = enel
    ad_hoc = ad_hoc
    Identifiers <- MCIdentifiers
    MaxRetries = 5
    ToolRetries = 3
    RecursionLimit = 25
CHECK_DEADLOCK FALSE
INVARIANTS
    ShownAnswerWasJudged
    EveryCompanyAccounted
    StaysWithinRecursionLimit
PROPERTIES
    FollowsPolicy
