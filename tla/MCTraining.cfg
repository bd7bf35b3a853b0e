SPECIFICATION Spec
CONSTANTS
    l1 = l1
    l2 = l2
    a = a
    b = b
    Launches <- TwoLaunches
    Selections <- AllOrServed
    ModelConfigs <- TwoFamilies
    Marts <- TwoBuilds
    Served = "xgboost_model"
    Rows <- EveryRow
    NTestMonths = 2
    NSplits = 2
INVARIANTS TemporalIsolation EachRowIsCountedOnce ThresholdIsItsOwn ColumnsAgree
PROPERTIES ImplementsRegistry
CHECK_DEADLOCK FALSE
