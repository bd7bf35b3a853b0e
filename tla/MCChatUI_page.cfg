SPECIFICATION UISpec
CONSTANTS
    r1 = r1
    r2 = r2
    r3 = r3
    s1 = s1
    s2 = s2
    Requests <- MCRequests
    Sessions <- MCSessions
SYMMETRY MCSymmetry
INVARIANTS
    HistoriesMatchTurns
    AnswersBelongToActive
    AgentKnowsWhatIsShown
    PatientUsersAreSerial
PROPERTIES
    KeepsPromise
