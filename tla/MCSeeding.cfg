SPECIFICATION Spec

CONSTANTS
    Null = Null
    NarrowLimit = 3
    WideLimit = 5
    IntegerLimit = 5
    MeterWidth = 5
    FormWidth = 6
    TextWidth = 37
    AddressWidth = 15
    FirstActivation = 0
    FirstFiscalYear = 1
    Vats = {v1, v2}
    NumCompanies = 2
    Years = {1, 2}
    StartYears = {1}
    EndYear = 2
    LastMonth = 1
    MonthsPerYear = 2
    FirstOf <- MCFirstOf
    LastOf <- MCLastOf
    Clocks <- MCClocks
    DueIn = 2
    PaidAfter = {4}
    FailedAfter = {2}
    ResolvedAfter = {1}
    Scores = {1, 5}
    Hours = {1}
    Amounts = {2}
    Taxes = {1}
    Powers <- MCPowers
    MeterLengths <- MCMeterLengths
    PayMethods = {"direct_debit"}
    Records <- MCRecords

SYMMETRY Symmetry

INVARIANTS
    RipeRunsAreNotRefused
    PaidIffSettled
    BilledWhileActive
    AcceptedRowsInsert
    StoredRowsRead
