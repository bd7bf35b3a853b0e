------------------------------ MODULE OltpRules ------------------------------
(***************************************************************************)
(* The two layers that judge a row before the OLTP tables hold it: the     *)
(* Pydantic Create schemas (schemas/database) and the constraints of the   *)
(* tables (database/models.py) under SQL's three-valued logic.             *)
(*                                                                         *)
(* Amounts are integers of cents, days integers, and an instant is a day   *)
(* with a time within it, in UTC.  Of a text a row keeps what a rule looks *)
(* at: its length, and whether it has the form a pattern asks for.         *)
(***************************************************************************)
EXTENDS Integers

CONSTANTS
    Null,           \* None in Python, NULL in SQL
    NarrowLimit,    \* NUMERIC(10, 2) holds cents below this in absolute value
    WideLimit,      \* NUMERIC(15, 2)
    IntegerLimit,   \* INTEGER
    MeterWidth,     \* the columns' widths: gas_meter_class,
    FormWidth,      \*   legal_form,
    TextWidth,      \*   office regions and transaction references,
    AddressWidth,   \*   and what the schema allows an IP address
    FirstActivation,  \* 2000-01-01
    FirstFiscalYear   \* 2000

ASSUME RulesAssumption ==
    /\ Null \notin Int
    /\ {NarrowLimit, WideLimit, IntegerLimit} \subseteq Nat
    /\ {MeterWidth, FormWidth, TextWidth, AddressWidth} \subseteq Nat
    /\ FirstActivation \in Int
    /\ FirstFiscalYear \in Nat

-----------------------------------------------------------------------------
(* Instants *)

Instants == [day : Int, time : Nat]

Earlier(a, b) == a.day < b.day \/ (a.day = b.day /\ a.time < b.time)

-----------------------------------------------------------------------------
(* SQL: a comparison with NULL is unknown, and a CHECK only fails if false. *)

Sql(b) == IF b THEN "true" ELSE "false"

SqlLeq(a, b) == IF Null \in {a, b} THEN "unknown" ELSE Sql(a <= b)
SqlLess(a, b) == IF Null \in {a, b} THEN "unknown" ELSE Sql(a < b)
SqlNotAfter(a, b) == IF Null \in {a, b} THEN "unknown" ELSE Sql(~ Earlier(b, a))
SqlIn(a, S) == IF a = Null THEN "unknown" ELSE Sql(a \in S)
SqlDiffers(a, b) == IF Null \in {a, b} THEN "unknown" ELSE Sql(a # b)
SqlOr(p, q) == IF "true" \in {p, q} THEN "true"
               ELSE IF "unknown" \in {p, q} THEN "unknown" ELSE "false"

(* A row is inserted if no CHECK is false. *)
Pass(checks) == "false" \notin checks

NotNull(row, columns) == \A c \in columns : row[c] # Null
FitsText(x, width) == x # Null => x.length <= width
FitsNumeric(x, limit) == x # Null => -limit < x /\ x < limit

-----------------------------------------------------------------------------
(* The closed vocabularies: Literal types in schemas/database/types.py ... *)

Literals ==
    [sector |-> {"manufacturing", "chemical_heavy_industry", "services",
                 "commerce", "food_beverage", "agriculture", "construction",
                 "tech", "hospitality", "healthcare", "transportation",
                 "utilities"},
     commodity |-> {"electricity", "gas"},
     market |-> {"regulated", "deregulated"},
     level |-> {"low", "medium", "high"},
     contract |-> {"active", "suspended", "terminated"},
     invoice |-> {"unpaid", "paid", "overdue", "cancelled"},
     method |-> {"direct_debit", "bank_transfer", "credit_card",
                 "postal_bulletin", "cash"},
     payment |-> {"pending", "completed", "failed", "refunded"},
     category |-> {"billing", "technical", "onboarding", "commercial"},
     device |-> {"desktop", "mobile", "tablet", "api"}]

(* ... and the IN lists of the CHECK constraints in database/models.py. *)
Listed ==
    [sector |-> {"manufacturing", "chemical_heavy_industry", "services",
                 "commerce", "food_beverage", "agriculture", "construction",
                 "tech", "hospitality", "healthcare", "transportation",
                 "utilities"},
     commodity |-> {"electricity", "gas"},
     market |-> {"regulated", "deregulated"},
     level |-> {"low", "medium", "high"},
     contract |-> {"active", "suspended", "terminated"},
     invoice |-> {"unpaid", "paid", "overdue", "cancelled"},
     method |-> {"direct_debit", "bank_transfer", "credit_card",
                 "postal_bulletin", "cash"},
     payment |-> {"pending", "completed", "failed", "refunded"},
     category |-> {"billing", "technical", "onboarding", "commercial"},
     device |-> {"desktop", "mobile", "tablet", "api"}]

(* What a row keeps of a text. *)
Text == [length : Nat]
VatText == [length : Nat, digits : BOOLEAN]
MeterText == [prefix : BOOLEAN, digits : BOOLEAN, length : Nat]
AddressText == [length : Nat, inet : BOOLEAN]

ASSUME NullAssumption ==
    /\ Null \notin Instants
    /\ Null # "legal name"
    /\ Null \notin Text \cup VatText \cup MeterText \cup AddressText
    /\ \A f \in DOMAIN Literals : Null \notin Literals[f]

(* Field types shared by several schemas. *)
FinancialAmount(x) == x \in Int /\ -WideLimit < x /\ x < WideLimit
FinancialAmountGeZero(x) == FinancialAmount(x) /\ x >= 0
Quantity(x) == x = Null \/ (x \in Int /\ 0 <= x /\ x < NarrowLimit)
MaxLength(x, width) == x # Null /\ x.length <= width

-----------------------------------------------------------------------------
(* companies *)

(* CompanyCreate; today is the UTC date (validate_not_future_date). *)
ValidCompany(r, today) ==
    /\ r.vat # Null /\ r.vat.length = 11 /\ r.vat.digits
    /\ r.name # Null
    /\ MaxLength(r.form, FormWidth)
    /\ r.sector \in Literals.sector
    /\ r.region = Null \/ MaxLength(r.region, TextWidth)
    /\ r.founded \in Int /\ r.founded <= today

(* currentDate is CURRENT_DATE, in the time zone of the session. *)
InsertsCompany(r, currentDate) ==
    /\ NotNull(r, {"vat", "name", "form", "sector", "founded"})
    /\ FitsText(r.vat, 11)
    /\ FitsText(r.form, FormWidth)
    /\ FitsText(r.region, TextWidth)
    /\ Pass({SqlIn(r.sector, Listed.sector), SqlLeq(r.founded, currentDate)})

-----------------------------------------------------------------------------
(* energy_contracts *)

ElectricityContractConstraints(r) ==
    r.commodity = "electricity" =>
        /\ r.voltage # Null /\ r.power # Null
        /\ r.pressure = Null /\ r.meter = Null

GasContractConstraints(r) ==
    r.commodity = "gas" =>
        /\ r.pressure # Null /\ r.meter # Null
        /\ r.voltage = Null /\ r.power = Null

(* Mutant: a contract may end on the day it begins. *)
TerminationNotBeforeActivation(r) ==
    r.termination # Null => r.termination >= r.activation

TerminationAfterActivation(r) ==
    r.termination # Null => r.termination > r.activation

TerminationDateOnTerminatedContract(r) ==
    r.status = "terminated" => r.termination # Null

ValidContract(r) ==
    /\ r.commodity \in Literals.commodity
    /\ r.market \in Literals.market
    /\ r.voltage \in Literals.level \cup {Null}
    /\ r.pressure \in Literals.level \cup {Null}
    /\ r.power = Null \/ (r.power \in Int /\ 0 < r.power /\ r.power < NarrowLimit)
    /\ r.meter = Null \/ (r.meter.prefix /\ r.meter.digits)
    /\ r.activation \in Int /\ r.activation >= FirstActivation
    /\ r.termination = Null \/ r.termination \in Int
    /\ r.status \in Literals.contract
    /\ ElectricityContractConstraints(r)
    /\ GasContractConstraints(r)
    /\ TerminationAfterActivation(r)
    /\ TerminationDateOnTerminatedContract(r)

ContractChecks(r) ==
    {SqlIn(r.commodity, Listed.commodity),
     SqlIn(r.market, Listed.market),
     SqlIn(r.voltage, Listed.level),
     SqlIn(r.pressure, Listed.level),
     SqlOr(Sql(r.power = Null), SqlLess(0, r.power)),
     IF r.meter = Null THEN "unknown" ELSE Sql(r.meter.prefix),
     SqlOr(SqlDiffers(r.commodity, "electricity"),
           Sql(r.voltage # Null /\ r.power # Null)),
     SqlOr(SqlDiffers(r.commodity, "gas"),
           Sql(r.pressure # Null /\ r.meter # Null)),
     SqlOr(SqlDiffers(r.commodity, "gas"),
           Sql(r.voltage = Null /\ r.power = Null)),
     SqlOr(SqlDiffers(r.commodity, "electricity"),
           Sql(r.pressure = Null /\ r.meter = Null)),
     SqlLess(r.activation, r.termination),
     SqlLeq(FirstActivation, r.activation),
     SqlOr(SqlDiffers(r.status, "terminated"), Sql(r.termination # Null)),
     SqlIn(r.status, Listed.contract)}

InsertsContract(r) ==
    /\ NotNull(r, {"commodity", "market", "activation", "status"})
    /\ FitsNumeric(r.power, NarrowLimit)
    /\ FitsText(r.meter, MeterWidth)
    /\ Pass(ContractChecks(r))

-----------------------------------------------------------------------------
(* financial_statements *)

ValidStatement(r) ==
    /\ r.year \in Int /\ r.year >= FirstFiscalYear
    /\ \A f \in {"revenue", "debt", "cash", "capital"} :
           FinancialAmountGeZero(r[f])
    /\ \A f \in {"income", "ebitda"} : FinancialAmount(r[f])

InsertsStatement(r) ==
    /\ NotNull(r, {"year", "revenue", "debt", "cash", "capital", "income", "ebitda"})
    /\ r.year < IntegerLimit
    /\ \A f \in {"revenue", "debt", "cash", "capital", "income", "ebitda"} :
           FitsNumeric(r[f], WideLimit)
    /\ Pass({SqlLeq(FirstFiscalYear, r.year)} \cup
            {SqlLeq(0, r[f]) : f \in {"revenue", "capital", "debt", "cash"}})

-----------------------------------------------------------------------------
(* invoices *)

ElectricityInvoiceConstraints(r) ==
    r.commodity = "electricity" => r.kwh # Null /\ r.scm = Null

GasInvoiceConstraints(r) ==
    r.commodity = "gas" => r.scm # Null /\ r.kwh = Null

AmountIntegrity(r) == r.net + r.tax = r.total

DueDateAfterIssueDate(r) == r.due >= r.issue

ValidInvoice(r) ==
    /\ r.commodity \in Literals.commodity
    /\ Quantity(r.kwh) /\ Quantity(r.scm)
    /\ \A f \in {"net", "tax", "total"} : FinancialAmountGeZero(r[f])
    /\ r.issue \in Int /\ r.due \in Int
    /\ r.status \in Literals.invoice
    /\ ElectricityInvoiceConstraints(r)
    /\ GasInvoiceConstraints(r)
    /\ AmountIntegrity(r)
    /\ DueDateAfterIssueDate(r)

(* Mutant: the database does not check the taxes. *)
InvoiceChecksButTax(r) ==
    {SqlLeq(r.issue, r.due),
     Sql(r.total = r.net + r.tax),
     SqlIn(r.status, Listed.invoice),
     SqlIn(r.commodity, Listed.commodity),
     SqlLeq(0, r.net),
     SqlOr(Sql(r.kwh = Null), SqlLeq(0, r.kwh)),
     SqlOr(Sql(r.scm = Null), SqlLeq(0, r.scm)),
     SqlOr(SqlDiffers(r.commodity, "electricity"),
           Sql(r.kwh # Null /\ r.scm = Null)),
     SqlOr(SqlDiffers(r.commodity, "gas"),
           Sql(r.scm # Null /\ r.kwh = Null))}

InvoiceChecks(r) ==
    {SqlLeq(r.issue, r.due),
     Sql(r.total = r.net + r.tax),      \* amounts are NOT NULL, and exact
     SqlIn(r.status, Listed.invoice),
     SqlIn(r.commodity, Listed.commodity),
     SqlLeq(0, r.net),
     SqlLeq(0, r.tax),
     SqlOr(Sql(r.kwh = Null), SqlLeq(0, r.kwh)),
     SqlOr(Sql(r.scm = Null), SqlLeq(0, r.scm)),
     SqlOr(SqlDiffers(r.commodity, "electricity"),
           Sql(r.kwh # Null /\ r.scm = Null)),
     SqlOr(SqlDiffers(r.commodity, "gas"),
           Sql(r.scm # Null /\ r.kwh = Null))}

InsertsInvoice(r) ==
    /\ NotNull(r, {"commodity", "net", "tax", "total", "issue", "due", "status"})
    /\ \A f \in {"kwh", "scm"} : FitsNumeric(r[f], NarrowLimit)
    /\ \A f \in {"net", "tax", "total"} : FitsNumeric(r[f], WideLimit)
    /\ Pass(InvoiceChecks(r))

-----------------------------------------------------------------------------
(* payments *)

ValidPayment(r, today) ==
    /\ FinancialAmount(r.amount) /\ r.amount > 0
    /\ r.method \in Literals.method
    /\ r.reference = Null \/ MaxLength(r.reference, TextWidth)
    /\ r.status \in Literals.payment
    /\ r.date \in Int /\ r.date <= today

InsertsPayment(r, currentDate) ==
    /\ NotNull(r, {"date", "amount", "method", "status"})
    /\ FitsNumeric(r.amount, WideLimit)
    /\ FitsText(r.reference, TextWidth)
    /\ Pass({SqlIn(r.method, Listed.method), SqlIn(r.status, Listed.payment),
             SqlLess(0, r.amount), SqlLeq(r.date, currentDate)})

-----------------------------------------------------------------------------
(* crm_support_tickets *)

ResolutionAfterCreation(r) ==
    r.resolved # Null => ~ Earlier(r.resolved, r.created)

(* A score of 0 is falsy, but SatisfactionScore does not admit it. *)
FeedbackValidation(r) ==
    ~ (r.score # Null /\ r.score # 0 /\ r.resolved = Null)

ValidTicket(r, now) ==
    /\ r.category \in Literals.category
    /\ r.created \in Instants
    /\ r.resolved \in Instants \cup {Null}
    /\ r.score = Null \/ r.score \in 1 .. 5
    /\ ~ Earlier(now, r.created)
    /\ ResolutionAfterCreation(r)
    /\ FeedbackValidation(r)

InsertsTicket(r, currentTimestamp) ==
    /\ NotNull(r, {"category", "created"})
    /\ Pass({SqlNotAfter(r.created, r.resolved),
             IF r.score = Null THEN "unknown" ELSE Sql(1 <= r.score /\ r.score <= 5),
             SqlOr(Sql(r.resolved # Null), Sql(r.score = Null)),
             SqlIn(r.category, Listed.category),
             SqlNotAfter(r.created, currentTimestamp)})

-----------------------------------------------------------------------------
(* user_web_logins *)

ValidLogin(r, now) ==
    /\ r.user \in Int /\ r.user > 0
    /\ r.at \in Instants /\ ~ Earlier(now, r.at)
    /\ MaxLength(r.address, AddressWidth)
    /\ r.device \in Literals.device

(* INET accepts addresses only. *)
InsertsLogin(r, currentTimestamp) ==
    /\ NotNull(r, {"user", "at", "address", "device"})
    /\ r.address.inet
    /\ Pass({SqlIn(r.device, Listed.device), SqlNotAfter(r.at, currentTimestamp)})

-----------------------------------------------------------------------------
(* What a row of each table can hold: in every column, NULL or a value of the
   column's type. *)

Columns(table) ==
    LET texts == {Null} \cup STRING
        formed == {Null} \cup Text
        numbers == {Null} \cup Int
        instants == {Null} \cup Instants
    IN  CASE table = "companies" ->
                 [vat : {Null} \cup VatText, name : texts, form : formed,
                  sector : texts, region : formed, founded : numbers]
          [] table = "energy_contracts" ->
                 [commodity : texts, market : texts, voltage : texts,
                  pressure : texts, power : numbers, meter : {Null} \cup MeterText,
                  activation : numbers, termination : numbers, status : texts]
          [] table = "financial_statements" ->
                 [year : numbers, revenue : numbers, debt : numbers, cash : numbers,
                  capital : numbers, income : numbers, ebitda : numbers]
          [] table = "invoices" ->
                 [commodity : texts, kwh : numbers, scm : numbers, net : numbers,
                  tax : numbers, total : numbers, issue : numbers, due : numbers,
                  status : texts]
          [] table = "payments" ->
                 [date : numbers, amount : numbers, method : texts,
                  reference : formed, status : texts]
          [] table = "crm_support_tickets" ->
                 [category : texts, created : instants, resolved : instants,
                  score : numbers]
          [] table = "user_web_logins" ->
                 [user : numbers, at : instants, address : {Null} \cup AddressText,
                  device : texts]

-----------------------------------------------------------------------------
(* The two layers as a whole.  `now` is the instant of the validation, in
   UTC; CURRENT_DATE and CURRENT_TIMESTAMP are those of the transaction. *)

Tables == {"companies", "energy_contracts", "financial_statements", "invoices",
           "payments", "crm_support_tickets", "user_web_logins"}

Validates(table, r, now) ==
    CASE table = "companies" -> ValidCompany(r, now.day)
      [] table = "energy_contracts" -> ValidContract(r)
      [] table = "financial_statements" -> ValidStatement(r)
      [] table = "invoices" -> ValidInvoice(r)
      [] table = "payments" -> ValidPayment(r, now.day)
      [] table = "crm_support_tickets" -> ValidTicket(r, now)
      [] table = "user_web_logins" -> ValidLogin(r, now)

Inserts(table, r, currentDate, currentTimestamp) ==
    CASE table = "companies" -> InsertsCompany(r, currentDate)
      [] table = "energy_contracts" -> InsertsContract(r)
      [] table = "financial_statements" -> InsertsStatement(r)
      [] table = "invoices" -> InsertsInvoice(r)
      [] table = "payments" -> InsertsPayment(r, currentDate)
      [] table = "crm_support_tickets" -> InsertsTicket(r, currentTimestamp)
      [] table = "user_web_logins" -> InsertsLogin(r, currentTimestamp)
=============================================================================
