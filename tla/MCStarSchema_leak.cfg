SPECIFICATION Spec
CONSTANTS
    c1 = c1
    c2 = c2
    k1 = k1
    i1 = i1
    a = a
    b = b
    Companies <- OneCompany
    Contracts <- OneContract
    Invoices <- OneInvoice
    Owner <- ByC1
    BilledTo <- OnK1
    Founded <- FoundedFirst
    Values <- TwoValues
    Days <- Months
    MonthStarts <- Months
    BillingDays <- Months
    Terms <- Simulated
    Window = 120
    DefaultDays = 90
    MaxChanges = 0
    MaxPayments = 1
    MaxBuilds = 2
INVARIANTS DebtReflectsItsDate
CHECK_DEADLOCK FALSE
