SPECIFICATION Spec
CONSTANTS
    c1 = c1
    c2 = c2
    k1 = k1
    i1 = i1
    a = a
    b = b
    Companies <- TwoCompanies
    Contracts <- OneContract
    Invoices <- OneInvoice
    Owner <- ByC1
    BilledTo <- OnK1
    Founded <- FoundedApart
    Values <- TwoValues
    Days <- MonthsAndMidFebruary
    MonthStarts <- Months
    BillingDays <- FirstDay
    Terms <- Simulated
    Window = 120
    DefaultDays = 90
    MaxChanges = 1
    MaxPayments = 1
    MaxBuilds = 2
INVARIANTS FactGrain FactHasNoGaps SuccessCanBeTrusted DefaultsAreLabelled
PROPERTIES LabelsStand
SYMMETRY Alike
CHECK_DEADLOCK FALSE
