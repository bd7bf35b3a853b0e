---------------------------- MODULE SeedingProofs ----------------------------
(* What holds of the seeding and of the rules on rows, whatever the calendar,
   the draws, the widths of the columns and the number of companies. *)
EXTENDS Seeding, FiniteSetTheorems, TLAPS

-----------------------------------------------------------------------------
(* What a schema accepts, its table does, table by table *)

LEMMA Vocabularies ==
    /\ Literals = Listed
    /\ Null \notin Literals.sector
    /\ Null \notin Literals.commodity
    /\ Null \notin Literals.market
    /\ Null \notin Literals.level
    /\ Null \notin Literals.contract
    /\ Null \notin Literals.invoice
    /\ Null \notin Literals.method
    /\ Null \notin Literals.payment
    /\ Null \notin Literals.category
    /\ Null \notin Literals.device
BY NullAssumption DEF Literals, Listed

LEMMA CompanyInserts ==
    ASSUME NEW r, NEW today \in Int, NEW date \in Int, today <= date,
           ValidCompany(r, today)
    PROVE  InsertsCompany(r, date)
<1>1. NotNull(r, {"vat", "name", "form", "sector", "founded"})
  BY RulesAssumption, Vocabularies DEF ValidCompany, MaxLength, NotNull
<1>2. /\ FitsText(r.vat, 11)
      /\ FitsText(r.form, FormWidth)
      /\ FitsText(r.region, TextWidth)
  BY DEF ValidCompany, FitsText, MaxLength
<1>3. Pass({SqlIn(r.sector, Listed.sector), SqlLeq(r.founded, date)})
  BY Vocabularies DEF ValidCompany, Pass, SqlIn, SqlLeq, Sql
<1>4. QED
  BY <1>1, <1>2, <1>3 DEF InsertsCompany

LEMMA ContractInserts ==
    ASSUME NEW r, ValidContract(r), r.meter # Null => r.meter.length <= MeterWidth
    PROVE  InsertsContract(r)
<1>1. NotNull(r, {"commodity", "market", "activation", "status"})
  BY RulesAssumption, Vocabularies DEF ValidContract, NotNull
<1>2. FitsNumeric(r.power, NarrowLimit) /\ FitsText(r.meter, MeterWidth)
  BY RulesAssumption DEF ValidContract, FitsNumeric, FitsText
<1>3. /\ SqlIn(r.commodity, Listed.commodity) # "false"
      /\ SqlIn(r.market, Listed.market) # "false"
      /\ SqlIn(r.voltage, Listed.level) # "false"
      /\ SqlIn(r.pressure, Listed.level) # "false"
      /\ SqlIn(r.status, Listed.contract) # "false"
  BY Vocabularies DEF ValidContract, SqlIn, Sql
<1>4. /\ SqlOr(Sql(r.power = Null), SqlLess(0, r.power)) # "false"
      /\ (IF r.meter = Null THEN "unknown" ELSE Sql(r.meter.prefix)) # "false"
  BY RulesAssumption DEF ValidContract, SqlOr, SqlLess, Sql
<1>5. /\ SqlOr(SqlDiffers(r.commodity, "electricity"),
               Sql(r.voltage # Null /\ r.power # Null)) # "false"
      /\ SqlOr(SqlDiffers(r.commodity, "electricity"),
               Sql(r.pressure = Null /\ r.meter = Null)) # "false"
  BY DEF ValidContract, ElectricityContractConstraints, SqlOr, SqlDiffers, Sql
<1>6. /\ SqlOr(SqlDiffers(r.commodity, "gas"),
               Sql(r.pressure # Null /\ r.meter # Null)) # "false"
      /\ SqlOr(SqlDiffers(r.commodity, "gas"),
               Sql(r.voltage = Null /\ r.power = Null)) # "false"
  BY DEF ValidContract, GasContractConstraints, SqlOr, SqlDiffers, Sql
<1>7. /\ SqlLess(r.activation, r.termination) # "false"
      /\ SqlLeq(FirstActivation, r.activation) # "false"
      /\ SqlOr(SqlDiffers(r.status, "terminated"), Sql(r.termination # Null)) # "false"
  BY RulesAssumption
     DEF ValidContract, TerminationAfterActivation,
         TerminationDateOnTerminatedContract, SqlLess, SqlLeq, SqlOr, SqlDiffers, Sql
<1>8. Pass(ContractChecks(r))
  BY <1>3, <1>4, <1>5, <1>6, <1>7 DEF Pass, ContractChecks
<1>9. QED
  BY <1>1, <1>2, <1>8 DEF InsertsContract

LEMMA StatementInserts ==
    ASSUME NEW r, ValidStatement(r), r.year < IntegerLimit
    PROVE  InsertsStatement(r)
BY RulesAssumption
   DEF ValidStatement, InsertsStatement, FinancialAmount, FinancialAmountGeZero,
       NotNull, FitsNumeric, Pass, SqlLeq, Sql

LEMMA InvoiceInserts ==
    ASSUME NEW r, ValidInvoice(r)
    PROVE  InsertsInvoice(r)
<1>1. /\ r.net \in Int /\ r.tax \in Int /\ r.total \in Int
      /\ r.net >= 0 /\ r.tax >= 0
      /\ \A f \in {"net", "tax", "total"} : FitsNumeric(r[f], WideLimit)
  BY DEF ValidInvoice, FinancialAmountGeZero, FinancialAmount, FitsNumeric
<1>2. \A f \in {"kwh", "scm"} : FitsNumeric(r[f], NarrowLimit)
  BY RulesAssumption DEF ValidInvoice, Quantity, FitsNumeric
<1>3. NotNull(r, {"commodity", "net", "tax", "total", "issue", "due", "status"})
  BY <1>1, RulesAssumption, Vocabularies DEF ValidInvoice, NotNull
<1>4. /\ SqlLeq(r.issue, r.due) # "false"
      /\ Sql(r.total = r.net + r.tax) # "false"
      /\ SqlLeq(0, r.net) # "false"
      /\ SqlLeq(0, r.tax) # "false"
  BY <1>1 DEF ValidInvoice, DueDateAfterIssueDate, AmountIntegrity, SqlLeq, Sql
<1>5. /\ SqlIn(r.status, Listed.invoice) # "false"
      /\ SqlIn(r.commodity, Listed.commodity) # "false"
  BY Vocabularies DEF ValidInvoice, SqlIn, Sql
<1>6. /\ SqlOr(Sql(r.kwh = Null), SqlLeq(0, r.kwh)) # "false"
      /\ SqlOr(Sql(r.scm = Null), SqlLeq(0, r.scm)) # "false"
  BY DEF ValidInvoice, Quantity, SqlOr, SqlLeq, Sql
<1>7. /\ SqlOr(SqlDiffers(r.commodity, "electricity"),
               Sql(r.kwh # Null /\ r.scm = Null)) # "false"
      /\ SqlOr(SqlDiffers(r.commodity, "gas"),
               Sql(r.scm # Null /\ r.kwh = Null)) # "false"
  BY DEF ValidInvoice, ElectricityInvoiceConstraints, GasInvoiceConstraints, SqlOr,
         SqlDiffers, Sql
<1>8. Pass(InvoiceChecks(r))
  BY <1>4, <1>5, <1>6, <1>7 DEF Pass, InvoiceChecks
<1>9. QED
  BY <1>1, <1>2, <1>3, <1>8 DEF InsertsInvoice

LEMMA PaymentInserts ==
    ASSUME NEW r, NEW today \in Int, NEW date \in Int, today <= date,
           ValidPayment(r, today)
    PROVE  InsertsPayment(r, date)
<1>1. NotNull(r, {"date", "amount", "method", "status"})
  BY RulesAssumption, Vocabularies DEF ValidPayment, FinancialAmount, NotNull
<1>2. FitsNumeric(r.amount, WideLimit) /\ FitsText(r.reference, TextWidth)
  BY DEF ValidPayment, FinancialAmount, FitsNumeric, FitsText, MaxLength
<1>3. /\ SqlIn(r.method, Listed.method) # "false"
      /\ SqlIn(r.status, Listed.payment) # "false"
      /\ SqlLess(0, r.amount) # "false"
      /\ SqlLeq(r.date, date) # "false"
  BY Vocabularies DEF ValidPayment, FinancialAmount, SqlIn, SqlLess, SqlLeq, Sql
<1>4. QED
  BY <1>1, <1>2, <1>3 DEF InsertsPayment, Pass

LEMMA EarlierLaws ==
    ASSUME NEW a \in Instants, NEW b \in Instants, NEW c \in Instants,
           ~ Earlier(b, a), ~ Earlier(c, b)
    PROVE  ~ Earlier(c, a)
BY DEF Instants, Earlier

LEMMA TicketInserts ==
    ASSUME NEW r, NEW now \in Instants, NEW ts \in Instants, ~ Earlier(ts, now),
           ValidTicket(r, now)
    PROVE  InsertsTicket(r, ts)
<1>1. ~ Earlier(ts, r.created)
  BY EarlierLaws DEF ValidTicket
<1>2. NotNull(r, {"category", "created"})
  BY NullAssumption, Vocabularies DEF ValidTicket, NotNull
<1>3. r.score # Null => r.score \in 1 .. 5 /\ r.resolved # Null
  BY DEF ValidTicket, FeedbackValidation
<1>4. /\ SqlNotAfter(r.created, r.resolved) # "false"
      /\ SqlNotAfter(r.created, ts) # "false"
      /\ SqlIn(r.category, Listed.category) # "false"
  BY <1>1, Vocabularies DEF ValidTicket, ResolutionAfterCreation, SqlNotAfter, SqlIn, Sql
<1>5. /\ (IF r.score = Null THEN "unknown"
          ELSE Sql(1 <= r.score /\ r.score <= 5)) # "false"
      /\ SqlOr(Sql(r.resolved # Null), Sql(r.score = Null)) # "false"
  BY <1>3 DEF SqlOr, Sql
<1>6. QED
  BY <1>2, <1>4, <1>5 DEF InsertsTicket, Pass

LEMMA LoginInserts ==
    ASSUME NEW r, NEW now \in Instants, NEW ts \in Instants, ~ Earlier(ts, now),
           ValidLogin(r, now), r.address.inet
    PROVE  InsertsLogin(r, ts)
<1>1. ~ Earlier(ts, r.at)
  BY EarlierLaws DEF ValidLogin
<1>2. NotNull(r, {"user", "at", "address", "device"})
  BY RulesAssumption, NullAssumption, Vocabularies DEF ValidLogin, MaxLength, NotNull
<1>3. /\ SqlIn(r.device, Listed.device) # "false"
      /\ SqlNotAfter(r.at, ts) # "false"
  BY <1>1, Vocabularies DEF ValidLogin, SqlIn, SqlNotAfter, Sql
<1>4. QED
  BY <1>2, <1>3 DEF InsertsLogin, Pass

LEMMA AcceptedInserts ==
    ASSUME NEW t \in Tables, NEW r, NEW now \in Instants, NEW date \in Int,
           NEW ts \in Instants, now.day <= date, ~ Earlier(ts, now),
           Validates(t, r, now), FitsColumns(t, r)
    PROVE  Inserts(t, r, date, ts)
<1>1. now.day \in Int
  BY DEF Instants
<1>2. CASE t = "companies"
  BY <1>1, <1>2, CompanyInserts DEF Validates, Inserts
<1>3. CASE t = "energy_contracts"
  BY <1>3, ContractInserts DEF Validates, Inserts, FitsColumns
<1>4. CASE t = "financial_statements"
  BY <1>4, StatementInserts DEF Validates, Inserts, FitsColumns
<1>5. CASE t = "invoices"
  BY <1>5, InvoiceInserts DEF Validates, Inserts
<1>6. CASE t = "payments"
  BY <1>1, <1>6, PaymentInserts DEF Validates, Inserts
<1>7. CASE t = "crm_support_tickets"
  BY <1>7, TicketInserts DEF Validates, Inserts
<1>8. CASE t = "user_web_logins"
  BY <1>8, LoginInserts DEF Validates, Inserts, FitsColumns, ValidLogin, MaxLength
<1>9. QED
  BY <1>2, <1>3, <1>4, <1>5, <1>6, <1>7, <1>8 DEF Tables

-----------------------------------------------------------------------------
(* Ripe clocks: everything simulated lies in the past of all of them *)

(* An instant by which everything the simulation draws has happened. *)
Late(t) == t \in Instants /\ clock.today <= t.day

Simulated(y, m) ==
    /\ y \in Years /\ m \in Months /\ y <= EndYear
    /\ y = EndYear => m <= LastMonth

LEMMA SimulatedIsPast ==
    ASSUME NEW y, NEW m, Simulated(y, m), Ripe, clock \in Clock
    PROVE  /\ FirstOf[y][m] \in Int /\ LastOf[y][m] \in Int
           /\ FirstOf[y][m] < clock.today
           /\ LastOf[y][m] < clock.today \/ clock.today <= LastOf[y][m]
           /\ clock.today <= LastOf[y][m] => y = EndYear /\ m = LastMonth
<1>1. /\ EndYear \in Years /\ LastMonth \in Months /\ clock.today \in Int
      /\ y \in Nat /\ EndYear \in Nat /\ m \in Nat /\ LastMonth \in Nat
  BY SeedingAssumption DEF Simulated, Clock, Months
<1>2. /\ FirstOf[y][m] \in Int /\ LastOf[y][m] \in Int
      /\ FirstOf[EndYear][LastMonth] \in Int
      /\ FirstOf[y][m] < LastOf[y][m]
  BY <1>1, CalendarAssumption DEF Simulated
<1>3. CASE y = EndYear /\ m = LastMonth
  BY <1>1, <1>2, <1>3 DEF Ripe
<1>4. CASE y < EndYear \/ (y = EndYear /\ m < LastMonth)
  <2>1. LastOf[y][m] < FirstOf[EndYear][LastMonth]
    BY <1>1, <1>4, CalendarAssumption DEF Simulated
  <2>2. QED
    BY <1>1, <1>2, <2>1 DEF Ripe
<1>5. QED
  BY <1>1, <1>3, <1>4 DEF Simulated

(* The days that are drawn lie before today, and there is one. *)
LEMMA DrawnDaysArePast ==
    ASSUME Simulated(year, month), Ripe, clock \in Clock
    PROVE  /\ MaxDay \in Int /\ MaxDay > 1
           /\ \A d \in 1 .. MaxDay - 1, h \in Hours :
                  /\ Stamp(d, h) \in Instants
                  /\ \A t \in Instants : clock.today <= t.day => ~ Earlier(t, Stamp(d, h))
<1> DEFINE first == FirstOf[year][month]
           last == LastOf[year][month]
<1>1. /\ first \in Int /\ last \in Int /\ first < clock.today /\ clock.today \in Int
      /\ first < last
  BY SimulatedIsPast, CalendarAssumption DEF Clock, Simulated
<1>2. /\ MaxDay = IF clock.today <= last THEN clock.today - first + 1
                  ELSE last - first + 1
  BY <1>1 DEF MaxDay
<1>3. MaxDay \in Int /\ MaxDay > 1
  BY <1>1, <1>2
<1>4. ASSUME NEW d \in 1 .. MaxDay - 1, NEW h \in Hours
      PROVE  /\ Stamp(d, h) \in Instants
             /\ \A t \in Instants : clock.today <= t.day => ~ Earlier(t, Stamp(d, h))
  <2>1. first + d - 1 \in Int /\ first + d - 1 < clock.today
    BY <1>1, <1>2, <1>3
  <2>2. Stamp(d, h) = [day |-> first + d - 1, time |-> h] /\ h \in Nat
    BY SeedingAssumption DEF Stamp
  <2>3. QED
    BY <1>1, <2>1, <2>2 DEF Instants, Earlier
<1>5. QED
  BY <1>3, <1>4

-----------------------------------------------------------------------------
(* With ripe clocks each row that is drawn is accepted *)

LEMMA RipeClocks ==
    ASSUME Ripe, clock \in Clock
    PROVE  /\ Late(clock.now) /\ Late(clock.currentTimestamp)
           /\ clock.today \in Int
           /\ clock.currentDate \in Int /\ clock.today <= clock.currentDate
           /\ clock.now.day \in Int /\ clock.today <= clock.now.day
BY DEF Ripe, Clock, Late, Instants

LEMMA CompanyAccepted ==
    ASSUME NEW y \in StartYears, Ripe, clock \in Clock
    PROVE  /\ Validates("companies", CompanyRow(y), clock.now)
           /\ Inserts("companies", CompanyRow(y), clock.currentDate, clock.currentTimestamp)
<1>1. Simulated(y, 1)
  BY SeedingAssumption DEF Simulated, Months
<1>2. FirstOf[y][1] \in Int /\ FirstOf[y][1] < clock.today
  BY <1>1, SimulatedIsPast
<1>3. ASSUME NEW d \in Int, clock.today <= d
      PROVE  ValidCompany(CompanyRow(y), d)
  <2> DEFINE r == CompanyRow(y)
             vat == [length |-> 11, digits |-> TRUE]
             form == [length |-> 6]
             region == [length |-> 21]
  <2>1. vat \in VatText /\ form \in Text /\ region \in Text
    BY DEF VatText, Text
  <2>2. vat # Null /\ form # Null /\ region # Null
    BY <2>1, NullAssumption
  <2>3. /\ vat.length = 11 /\ vat.digits = TRUE
        /\ form.length = 6 /\ region.length = 21
    OBVIOUS
  <2>4. /\ r.vat = vat /\ r.form = form /\ r.region = region
        /\ r.name = "legal name" /\ r.sector = "services"
        /\ r.founded = FirstOf[y][1]
    BY DEF CompanyRow
  <2>5. FormWidth \in Nat /\ TextWidth \in Nat /\ 6 <= FormWidth /\ 21 <= TextWidth
    BY RulesAssumption, DrawsAssumption
  <2>6. r.name # Null
    BY <2>4, NullAssumption
  <2>7. r.sector \in Literals.sector
    BY <2>4 DEF Literals
  <2> HIDE DEF r, vat, form, region
  <2>8. clock.today \in Int
    BY RipeClocks
  <2>9. FirstOf[y][1] <= d
    BY <1>2, <1>3, <2>8
  <2>10. r.founded = FirstOf[y][1]
    BY <2>4
  <2>11. r.founded \in Int /\ r.founded <= d
    BY <1>2, <2>9, <2>10
  <2>12. MaxLength(r.form, FormWidth) /\ MaxLength(r.region, TextWidth)
    BY <2>2, <2>3, <2>4, <2>5 DEF MaxLength
  <2>13. r.vat # Null /\ r.vat.length = 11 /\ r.vat.digits
    BY <2>2, <2>3, <2>4
  <2>14. ValidCompany(r, d)
    BY <2>6, <2>7, <2>11, <2>12, <2>13 DEF ValidCompany
  <2>15. QED
    BY <2>14 DEF r
<1>4. QED
  BY <1>3, RipeClocks, CompanyInserts DEF Validates, Inserts

LEMMA StatementAccepted ==
    ASSUME NEW y \in Nat, y >= FirstFiscalYear, y <= EndYear,
           NEW a \in Amounts, NEW loss \in BOOLEAN
    PROVE  /\ Validates("financial_statements", StatementRow(y, a, loss), clock.now)
           /\ Inserts("financial_statements", StatementRow(y, a, loss),
                      clock.currentDate, clock.currentTimestamp)
<1> DEFINE r == StatementRow(y, a, loss)
<1>1. /\ a \in Int /\ 0 < a /\ a < WideLimit /\ WideLimit \in Int
      /\ -WideLimit < a /\ -WideLimit < -a /\ -a < WideLimit /\ -a \in Int
  BY DrawsAssumption, RulesAssumption
<1>2. /\ r.year = y
      /\ \A f \in {"revenue", "debt", "cash", "capital"} : r[f] = a
      /\ \A f \in {"income", "ebitda"} : r[f] \in {a, -a}
  BY DEF StatementRow
<1>3. ValidStatement(r)
  BY <1>1, <1>2, SeedingAssumption, RulesAssumption
     DEF ValidStatement, FinancialAmount, FinancialAmountGeZero
<1>4. r.year < IntegerLimit
  BY <1>2, SeedingAssumption, RulesAssumption
<1>5. QED
  BY <1>3, <1>4, StatementInserts DEF Validates, Inserts

(* The contracts of the company being generated. *)
ContractRecords ==
    [commodity : Commodities, market : {"deregulated"},
     voltage : Literals.level \cup {Null}, power : Int \cup {Null},
     pressure : Literals.level \cup {Null},
     meter : [prefix : {TRUE}, digits : {TRUE}, length : Nat] \cup {Null},
     activation : Int, termination : Int \cup {Null}, status : Literals.contract]

Supplied(c, k) ==
    /\ k \in ContractRecords
    /\ k.commodity = c
    /\ k.activation = FirstOf[founded][1]
    /\ k.termination = Null
    /\ k.status \in {"active", "suspended"}
    /\ ValidContract(k)
    /\ InsertsContract(k)

LEMMA ContractAccepted ==
    ASSUME NEW c \in Commodities, NEW y \in StartYears, NEW size \in Sizes,
           NEW power \in Powers[size], NEW meter \in MeterLengths[size],
           NEW k, k = ContractRow(c, y, size, power, meter)
    PROVE  /\ k \in ContractRecords
           /\ k.commodity = c /\ k.activation = FirstOf[y][1]
           /\ k.termination = Null /\ k.status = "active"
           /\ ValidContract(k)
           /\ InsertsContract(k)
<1>1. /\ power \in Int /\ 0 < power /\ power < NarrowLimit
      /\ meter \in Nat /\ meter <= MeterWidth
  BY DrawsAssumption, RulesAssumption
<1>2. Level(size) \in Literals.level
  BY DEF Level, Sizes, Literals
<1>3. FirstOf[y][1] \in Int /\ FirstOf[y][1] >= FirstActivation
  BY SeedingAssumption, CalendarAssumption DEF Months
<1>4. /\ k \in ContractRecords
      /\ k.commodity = c /\ k.activation = FirstOf[y][1]
      /\ k.termination = Null /\ k.status = "active"
  BY <1>1, <1>2, <1>3 DEF ContractRow, ContractRecords, Literals
<1>5. /\ k.market = "deregulated"
      /\ k.power # Null => k.power \in Int /\ 0 < k.power /\ k.power < NarrowLimit
      /\ k.meter # Null => k.meter.prefix /\ k.meter.digits /\ k.meter.length <= MeterWidth
      /\ c = "electricity" => k.voltage # Null /\ k.power # Null
                              /\ k.pressure = Null /\ k.meter = Null
      /\ c = "gas" => k.pressure # Null /\ k.voltage = Null /\ k.power = Null
  BY <1>1, <1>2, RulesAssumption, Vocabularies DEF ContractRow, Commodities
<1>6. c = "gas" => k.meter # Null
  <2>1. [prefix |-> TRUE, digits |-> TRUE, length |-> meter] \in MeterText
    BY <1>1 DEF MeterText
  <2>2. c = "gas" => k.meter = [prefix |-> TRUE, digits |-> TRUE, length |-> meter]
    BY DEF ContractRow
  <2>3. QED
    BY <2>1, <2>2, NullAssumption
<1>7. ValidContract(k)
  BY <1>3, <1>4, <1>5, <1>6
     DEF ValidContract, ElectricityContractConstraints, GasContractConstraints,
         TerminationAfterActivation, TerminationDateOnTerminatedContract,
         ContractRecords, Commodities, Literals
<1>8. QED
  BY <1>4, <1>5, <1>7, ContractInserts

(* Updates leave a contract that its table accepts. *)
LEMMA UpdatesAccepted ==
    ASSUME NEW c \in Commodities, NEW k, Supplied(c, k)
    PROVE  /\ \A margin : Supplied(c, Restated(k, margin))
           /\ \A day \in Int : day > FirstOf[founded][1] =>
                  InsertsContract([k EXCEPT !.status = "terminated", !.termination = day])
<1>1. k \in ContractRecords /\ k.meter # Null => k.meter.length <= MeterWidth
  BY DEF Supplied, InsertsContract, FitsText
<1>2. ASSUME NEW s \in {"active", "suspended"}
      PROVE  Supplied(c, [k EXCEPT !.status = s])
  <2> DEFINE n == [k EXCEPT !.status = s]
  <2>1. /\ n \in ContractRecords /\ n.status = s
        /\ n.commodity = k.commodity /\ n.market = k.market /\ n.voltage = k.voltage
        /\ n.power = k.power /\ n.pressure = k.pressure /\ n.meter = k.meter
        /\ n.activation = k.activation /\ n.termination = k.termination
    BY DEF Supplied, ContractRecords, Literals
  <2> HIDE DEF n
  <2>2. ValidContract(n)
    BY <2>1 DEF Supplied, ValidContract, ElectricityContractConstraints,
       GasContractConstraints, TerminationAfterActivation,
       TerminationDateOnTerminatedContract, Literals
  <2>3. InsertsContract(n)
    BY <1>1, <2>1, <2>2, ContractInserts DEF Supplied
  <2>4. QED
    BY <2>1, <2>2, <2>3 DEF Supplied, n
<1>3. ASSUME NEW margin
      PROVE  Supplied(c, Restated(k, margin))
  BY <1>2 DEF Restated, Supplied
<1>4. ASSUME NEW day \in Int, day > FirstOf[founded][1]
      PROVE  InsertsContract([k EXCEPT !.status = "terminated", !.termination = day])
  <2> DEFINE n == [k EXCEPT !.status = "terminated", !.termination = day]
  <2>1. /\ n.status = "terminated" /\ n.termination = day
        /\ n.commodity = k.commodity /\ n.market = k.market /\ n.voltage = k.voltage
        /\ n.power = k.power /\ n.pressure = k.pressure /\ n.meter = k.meter
        /\ n.activation = k.activation
    BY DEF Supplied, ContractRecords
  <2>2. day # Null
    BY RulesAssumption
  <2> HIDE DEF n
  <2>3. ValidContract(n)
    BY <1>4, <2>1, <2>2 DEF Supplied, ValidContract, ElectricityContractConstraints,
       GasContractConstraints, TerminationAfterActivation,
       TerminationDateOnTerminatedContract, Literals
  <2>4. QED
    BY <1>1, <2>1, <2>3, ContractInserts DEF Supplied, n
<1>5. QED
  BY <1>3, <1>4

(* The dice as corrected today: paid means paid by today. *)
LEMMA CorrectedOutcomes ==
    ASSUME NEW drawn \in Outcomes, NEW issue \in Int, clock.today \in Int,
           NEW o, o = AsOfToday(drawn, issue)
    PROVE  /\ o.status \in {"paid", "unpaid", "overdue"}
           /\ o.status = "paid" <=> o.behavior = "completed"
           /\ o.behavior = "completed" => o.days # Null
           /\ o.days # Null => o.days \in Nat /\ issue + o.days <= clock.today
<1>1. CASE drawn \in [behavior : {"completed"}, status : {"paid"}, days : PaidAfter]
  <2>1. /\ drawn.behavior = "completed" /\ drawn.status = "paid"
        /\ drawn.days \in Nat /\ drawn.days # Null
    BY <1>1, DrawsAssumption, RulesAssumption
  <2>2. CASE issue + drawn.days > clock.today
    BY <2>1, <2>2 DEF AsOfToday
  <2>3. CASE ~ (issue + drawn.days > clock.today)
    BY <2>1, <2>3 DEF AsOfToday
  <2>4. QED
    BY <2>2, <2>3
<1>2. CASE drawn \in [behavior : {"failed"}, status : {"unpaid"}, days : FailedAfter]
  <2>1. /\ drawn.behavior = "failed" /\ drawn.status = "unpaid"
        /\ drawn.days \in Nat /\ drawn.days # Null
    BY <1>2, DrawsAssumption, RulesAssumption
  <2>2. CASE issue + drawn.days > clock.today
    <3>1. o = [drawn EXCEPT !.days = Null]
      BY <2>1, <2>2 DEF AsOfToday
    <3>2. o.behavior = "failed" /\ o.status = "unpaid" /\ o.days = Null
      BY <1>2, <2>1, <3>1
    <3>3. QED
      BY <3>2
  <2>3. CASE ~ (issue + drawn.days > clock.today)
    BY <2>1, <2>3 DEF AsOfToday
  <2>4. QED
    BY <2>2, <2>3
<1>3. CASE drawn \in [behavior : {"unpaid"}, status : {"overdue"}, days : {Null}]
  BY <1>3 DEF AsOfToday
<1>4. QED
  BY <1>1, <1>2, <1>3 DEF Outcomes

LEMMA InvoiceAccepted ==
    ASSUME NEW c \in Commodities, NEW used \in Amounts, NEW net \in Amounts,
           NEW tax \in Taxes, FirstOf[year][month] \in Int, NEW o,
           o.status \in {"paid", "unpaid", "overdue"},
           NEW i, i = InvoiceRow(c, used, net, tax, o)
    PROVE  /\ i.total \in Int /\ 0 < i.total /\ i.total < WideLimit
           /\ Validates("invoices", i, clock.now)
           /\ Inserts("invoices", i, clock.currentDate, clock.currentTimestamp)
<1>1. /\ i.commodity = c /\ i.net = net /\ i.tax = tax /\ i.total = net + tax
      /\ i.kwh = IF c = "electricity" THEN used ELSE Null
      /\ i.scm = IF c = "gas" THEN used ELSE Null
      /\ i.issue = FirstOf[year][month] /\ i.due = FirstOf[year][month] + DueIn
      /\ i.status = o.status
  BY DEF InvoiceRow
<1>2. /\ used \in Int /\ 0 < used /\ used < NarrowLimit /\ used # Null
      /\ net \in Int /\ 0 < net /\ net < WideLimit
      /\ tax \in Int /\ 0 <= tax /\ tax < WideLimit /\ net + tax < WideLimit
      /\ WideLimit \in Nat /\ DueIn \in Nat
  BY DrawsAssumption, RulesAssumption
<1>3. /\ i.net \in Int /\ 0 <= i.net /\ i.net < WideLimit /\ -WideLimit < i.net
      /\ i.tax \in Int /\ 0 <= i.tax /\ i.tax < WideLimit /\ -WideLimit < i.tax
      /\ i.total \in Int /\ 0 < i.total /\ i.total < WideLimit /\ -WideLimit < i.total
      /\ i.issue \in Int /\ i.due \in Int /\ i.due >= i.issue
  BY <1>1, <1>2
<1>4. i.commodity \in Literals.commodity /\ i.status \in Literals.invoice
  BY <1>1 DEF Literals, Commodities
<1>5. /\ Quantity(i.kwh) /\ Quantity(i.scm)
      /\ ElectricityInvoiceConstraints(i) /\ GasInvoiceConstraints(i)
  BY <1>1, <1>2 DEF Quantity, ElectricityInvoiceConstraints, GasInvoiceConstraints,
     Commodities
<1>6. \A f \in {"net", "tax", "total"} : FinancialAmountGeZero(i[f])
  BY <1>3 DEF FinancialAmountGeZero, FinancialAmount
<1>7. AmountIntegrity(i) /\ DueDateAfterIssueDate(i)
  BY <1>1, <1>3 DEF AmountIntegrity, DueDateAfterIssueDate
<1>8. ValidInvoice(i)
  BY <1>3, <1>4, <1>5, <1>6, <1>7 DEF ValidInvoice
<1>9. QED
  BY <1>3, <1>8, InvoiceInserts DEF Validates, Inserts

LEMMA PaymentAccepted ==
    ASSUME Ripe, clock \in Clock, NEW i, i.issue \in Int,
           i.total \in Int, 0 < i.total, i.total < WideLimit,
           NEW o, NEW method \in PayMethods,
           o.days # Null => o.days \in Nat /\ i.issue + o.days <= clock.today,
           NEW p \in PaymentsOf(i, o, method)
    PROVE  /\ Validates("payments", p, clock.now)
           /\ Inserts("payments", p, clock.currentDate, clock.currentTimestamp)
<1>1. /\ o.days # Null
      /\ p.date = i.issue + o.days /\ p.amount = i.total /\ p.method = method
      /\ p.reference = [length |-> 37] /\ p.status \in {"completed", "failed"}
  BY DEF PaymentsOf
<1>2. p.date \in Int /\ p.date <= clock.today
  BY <1>1
<1>3. MaxLength(p.reference, TextWidth)
  <2>1. [length |-> 37] \in Text
    BY DEF Text
  <2>2. [length |-> 37].length = 37
    OBVIOUS
  <2>3. TextWidth \in Nat /\ 37 <= TextWidth
    BY RulesAssumption, DrawsAssumption
  <2>4. QED
    BY <1>1, <2>1, <2>2, <2>3, NullAssumption DEF MaxLength
<1>4. p.method \in Literals.method /\ p.status \in Literals.payment
  BY <1>1, DrawsAssumption DEF Literals
<1>5. FinancialAmount(p.amount) /\ p.amount > 0
  BY <1>1, RulesAssumption DEF FinancialAmount
<1>6. ASSUME NEW d \in Int, clock.today <= d
      PROVE  ValidPayment(p, d)
  <2>1. clock.today \in Int
    BY RipeClocks
  <2>2. p.date <= d
    BY <1>2, <1>6, <2>1
  <2>3. QED
    BY <1>2, <1>3, <1>4, <1>5, <2>2 DEF ValidPayment
<1>7. QED
  BY <1>6, RipeClocks, PaymentInserts DEF Validates, Inserts

LEMMA TicketAccepted ==
    ASSUME Simulated(year, month), Ripe, clock \in Clock,
           NEW tickets \in Tickets, NEW r \in tickets
    PROVE  /\ Validates("crm_support_tickets", r, clock.now)
           /\ Inserts("crm_support_tickets", r, clock.currentDate, clock.currentTimestamp)
<1>1. PICK d \in 1 .. MaxDay - 1, h \in Hours :
          /\ r.category = "billing" /\ r.created = Stamp(d, h)
          /\ \/ r.resolved = Null /\ r.score = Null
             \/ \E k \in ResolvedAfter, s \in Scores :
                    r.resolved = Stamp(d + k, h) /\ r.score = s
  BY DEF Tickets
<1>2. /\ Stamp(d, h) \in Instants
      /\ \A t \in Instants : clock.today <= t.day => ~ Earlier(t, Stamp(d, h))
  BY DrawnDaysArePast
<1>3. /\ r.resolved = Null \/ (r.resolved \in Instants /\ ~ Earlier(r.resolved, r.created))
      /\ r.score = Null \/ (r.score \in 1 .. 5 /\ r.resolved # Null)
  <2>1. CASE r.resolved = Null /\ r.score = Null
    BY <2>1
  <2>2. CASE \E k \in ResolvedAfter, s \in Scores :
                 r.resolved = Stamp(d + k, h) /\ r.score = s
    <3>1. PICK k \in ResolvedAfter, s \in Scores :
              r.resolved = Stamp(d + k, h) /\ r.score = s
      BY <2>2
    <3>2. k \in Nat /\ s \in 1 .. 5 /\ h \in Nat
      BY DrawsAssumption, SeedingAssumption
    <3>3. FirstOf[year][month] \in Int /\ d \in Int
      BY SimulatedIsPast, DrawnDaysArePast
    <3>4. /\ Stamp(d + k, h) \in Instants
          /\ ~ Earlier(Stamp(d + k, h), Stamp(d, h))
      BY <3>2, <3>3 DEF Stamp, Instants, Earlier
    <3>5. QED
      BY <1>1, <3>1, <3>2, <3>4, NullAssumption
  <2>3. QED
    BY <1>1, <2>1, <2>2
<1>4. ASSUME NEW t \in Instants, clock.today <= t.day
      PROVE  ValidTicket(r, t)
  <2>1. ~ Earlier(t, r.created) /\ r.created \in Instants
    BY <1>1, <1>2, <1>4
  <2>2. r.category \in Literals.category
    BY <1>1 DEF Literals
  <2>3. QED
    BY <1>3, <2>1, <2>2
       DEF ValidTicket, ResolutionAfterCreation, FeedbackValidation
<1>5. clock.currentTimestamp \in Instants /\ ~ Earlier(clock.currentTimestamp, clock.currentTimestamp)
  BY RipeClocks DEF Late, Instants, Earlier
<1>6. QED
  BY <1>4, <1>5, RipeClocks, TicketInserts DEF Validates, Inserts, Late

LEMMA LoginAccepted ==
    ASSUME Simulated(year, month), Ripe, clock \in Clock, NEW r \in Logins
    PROVE  /\ Validates("user_web_logins", r, clock.now)
           /\ Inserts("user_web_logins", r, clock.currentDate, clock.currentTimestamp)
<1>1. PICK d \in 1 .. MaxDay - 1, h \in Hours :
          /\ r.user = 101 /\ r.at = Stamp(d, h) /\ r.device = "desktop"
          /\ r.address = [length |-> 15, inet |-> TRUE]
  <2>1. PICK d \in 1 .. MaxDay - 1, h \in Hours :
            r = [user |-> 101, at |-> Stamp(d, h), device |-> "desktop",
                 address |-> [length |-> 15, inet |-> TRUE]]
    BY DEF Logins
  <2>2. /\ r.user = 101 /\ r.at = Stamp(d, h) /\ r.device = "desktop"
        /\ r.address = [length |-> 15, inet |-> TRUE]
    BY <2>1
  <2>3. QED
    BY <2>2
<1>2. /\ Stamp(d, h) \in Instants
      /\ \A t \in Instants : clock.today <= t.day => ~ Earlier(t, Stamp(d, h))
  BY DrawnDaysArePast
<1>3. MaxLength(r.address, AddressWidth) /\ r.address.inet
  <2>1. [length |-> 15, inet |-> TRUE] \in AddressText
    BY DEF AddressText
  <2>2. r.address.length = 15 /\ r.address.inet
    BY <1>1
  <2>3. AddressWidth \in Nat /\ 15 <= AddressWidth
    BY RulesAssumption, DrawsAssumption
  <2>4. QED
    BY <1>1, <2>1, <2>2, <2>3, NullAssumption DEF MaxLength
<1>4. ASSUME NEW t \in Instants, clock.today <= t.day
      PROVE  ValidLogin(r, t)
  BY <1>1, <1>2, <1>3, <1>4 DEF ValidLogin, Literals
<1>5. clock.currentTimestamp \in Instants /\ ~ Earlier(clock.currentTimestamp, clock.currentTimestamp)
  BY RipeClocks DEF Late, Instants, Earlier
<1>6. QED
  BY <1>3, <1>4, <1>5, RipeClocks, LoginInserts DEF Validates, Inserts, Late

LEMMA Rejections ==
    ASSUME NEW new
    PROVE  /\ Rejection(new) \in {"none", "validation", "constraint"}
           /\ (\A n \in new : /\ Validates(n[1], n[2], clock.now)
                              /\ Inserts(n[1], n[2], clock.currentDate,
                                         clock.currentTimestamp))
              => Rejection(new) = "none"
BY DEF Rejection

-----------------------------------------------------------------------------
(* The inductive invariant *)

Looping == script \in {"year", "bill", "close"}

SessionInv ==
    /\ IsFiniteSet(pending)
    /\ Cardinality(pending) <= NumCompanies
    /\ pending \cap db = {}
    /\ script \in Ended => pending = {}

LoopInv ==
    /\ script = "year" => prev = IF year = founded THEN Null ELSE year - 1
    /\ script = "bill" => turn \in DOMAIN contracts /\ month <= LastBilled
    /\ script \in {"bill", "close"} =>
           /\ risk = IF year = founded THEN founded ELSE year - 1
           /\ \A c \in DOMAIN contracts : terminates[c] # Null => year = EndYear

ContractsInv ==
    /\ Looping => \A c \in DOMAIN contracts : Supplied(c, contracts[c])
    /\ ~ Looping => BilledUntilTermination

(* The ledger: one invoice of a contract in a month, which knows its payment. *)
Settles(p, i) ==
    /\ Key(p) = Key(i)
    /\ p.amount = i.total
    /\ p.status = "completed" <=> i.status = "paid"

BooksInv ==
    /\ \A i \in invoices : /\ i.issue = FirstOf[i.year][i.month]
                           /\ i.year = EndYear => i.month <= LastMonth
    /\ \A i, j \in invoices : Key(i) = Key(j) => i = j
    /\ \A p \in payments : /\ p.date <= clock.today
                           /\ \E i \in invoices : Settles(p, i) /\ i.issue <= p.date
    /\ \A i \in invoices : i.status = "paid" => \E p \in payments : Settles(p, i)

(* The months the loops have left behind. *)
Passed(y, m, c) ==
    \/ y < year
    \/ y = year /\ script = "close" /\ m <= LastBilled
    \/ /\ y = year /\ script = "bill"
       /\ m < month \/ (m = month /\ turn = "gas" /\ c = "electricity")

(* m comes before the termination chosen for c, if one was. *)
Supplies(c, m) == terminates[c] # Null => m < terminates[c]

(* Invoices are of months left behind; and of those, every month in which an
   active contract was supplied has one. *)
PositionInv ==
    /\ Looping =>
           \A i \in invoices :
               /\ i.commodity \in DOMAIN contracts
               /\ Passed(i.year, i.month, i.commodity)
               /\ i.year = year => Supplies(i.commodity, i.month)
    /\ script \in {"bill", "close"} =>
           \A c \in DOMAIN contracts, m \in Months :
               contracts[c].status = "active" /\ Passed(year, m, c) /\ Supplies(c, m) =>
                   \E i \in invoices :
                       Key(i) = [year |-> year, month |-> m, commodity |-> c]

IInv ==
    /\ TypeOK
    /\ RipeRunsAreNotRefused
    /\ SessionInv
    /\ LoopInv
    /\ ContractsInv
    /\ BooksInv
    /\ DrivenByLastYear
    /\ PositionInv

(* The arithmetic of the loops. *)
LEMMA Loops ==
    ASSUME TypeOK
    PROVE  /\ founded \in Years /\ founded \in Nat /\ EndYear \in Nat /\ founded < EndYear
           /\ year \in Years /\ year \in Nat /\ founded <= year /\ year <= EndYear
           /\ month \in Nat /\ 1 <= month /\ month <= MonthsPerYear
           /\ MonthsPerYear \in Nat /\ 1 <= MonthsPerYear
           /\ LastMonth \in Nat /\ 1 <= LastMonth /\ LastMonth <= MonthsPerYear
           /\ LastBilled \in Months /\ LastBilled \in Nat
           /\ Null \notin Int
BY SeedingAssumption, RulesAssumption DEF TypeOK, Months, LastBilled

(* An exception leaves nothing of the transaction. *)
LEMMA RaiseKeeps ==
    ASSUME IInv, NEW why \in {"range", "validation", "constraint", "unique", "other"},
           Raise(why), Ripe => why \notin {"range", "validation", "constraint"}
    PROVE  IInv' /\ db' = db
<1>1. TypeOK'
  BY DEF IInv, TypeOK, Raise, loop, driver, Running, Ended
<1>2. RipeRunsAreNotRefused'
  BY DEF Raise, RipeRunsAreNotRefused, Ripe
<1>3. SessionInv'
  <2>1. IsFiniteSet({}) /\ Cardinality({}) = 0 /\ NumCompanies \in Nat
    BY FS_EmptySet, SeedingAssumption
  <2>2. QED
    BY <2>1 DEF Raise, SessionInv
<1>4. LoopInv' /\ PositionInv'
  BY DEF Raise, LoopInv, PositionInv, Looping
<1>5. ContractsInv'
  BY DEF Raise, ContractsInv, Looping, BilledUntilTermination
<1>6. BooksInv' /\ DrivenByLastYear'
  BY DEF Raise, BooksInv, DrivenByLastYear
<1>7. QED
  BY <1>1, <1>2, <1>3, <1>4, <1>5, <1>6 DEF IInv, Raise

LEMMA InitInv == Init => IInv
<1> SUFFICES ASSUME Init PROVE IInv
  OBVIOUS
<1>1. TypeOK
  BY SeedingAssumption DEF Init, TypeOK, Running, Ended, Months, Commodities
<1>2. SessionInv
  BY FS_EmptySet, SeedingAssumption DEF Init, SessionInv
<1>3. RipeRunsAreNotRefused /\ LoopInv /\ ContractsInv /\ BooksInv
      /\ DrivenByLastYear /\ PositionInv
  BY DEF Init, RipeRunsAreNotRefused, LoopInv, ContractsInv, BooksInv,
     DrivenByLastYear, PositionInv, Looping, BilledUntilTermination
<1>4. QED
  BY <1>1, <1>2, <1>3 DEF IInv

LEMMA StartKeeps == IInv /\ Start => IInv' /\ db' = db
<1> SUFFICES ASSUME IInv, Start PROVE IInv' /\ db' = db
  OBVIOUS
<1>1. TypeOK'
  BY DEF IInv, Start, TypeOK, loop, driver, Running, Ended
<1>2. SessionInv'
  BY FS_EmptySet, SeedingAssumption DEF IInv, Start, SessionInv, Ended
<1>3. RipeRunsAreNotRefused' /\ LoopInv' /\ ContractsInv' /\ BooksInv'
      /\ DrivenByLastYear' /\ PositionInv'
  BY DEF Start, RipeRunsAreNotRefused, LoopInv, ContractsInv, BooksInv,
     DrivenByLastYear, PositionInv, Looping, BilledUntilTermination
<1>4. QED
  BY <1>1, <1>2, <1>3 DEF IInv, Start

LEMMA CommitKeeps == IInv /\ Commit => IInv'
<1> SUFFICES ASSUME IInv, Commit PROVE IInv'
  OBVIOUS
<1>1. TypeOK'
  BY DEF IInv, Commit, TypeOK, loop, rows, driver, Running, Ended
<1>2. SessionInv'
  BY FS_EmptySet, SeedingAssumption DEF Commit, SessionInv
<1>3. BilledUntilTermination'
  BY DEF IInv, ContractsInv, Looping, BilledUntilTermination, Commit, rows
<1>4. RipeRunsAreNotRefused' /\ LoopInv' /\ ContractsInv' /\ PositionInv'
  BY <1>3 DEF IInv, Commit, RipeRunsAreNotRefused, Ripe, LoopInv, ContractsInv,
     PositionInv, Looping
<1>5. BooksInv' /\ DrivenByLastYear'
  BY DEF IInv, Commit, BooksInv, Settles, Key, DrivenByLastYear, rows, driver
<1>6. QED
  BY <1>1, <1>2, <1>4, <1>5 DEF IInv

LEMMA BreakKeeps == IInv /\ Break => IInv' /\ db' = db
BY RaiseKeeps DEF Break

(* What GenerateCompany does with its draws. *)
Generated(vat, y, size, supplied, power, meter) ==
    LET new == [c \in supplied |-> ContractRow(c, y, size, power, meter)]
        why == Rejection({<<"companies", CompanyRow(y)>>} \cup
                         {<<"energy_contracts", new[c]>> : c \in supplied})
    IN  IF why # "none" THEN Raise(why)
        ELSE IF vat \in db \cup pending THEN Raise("unique")
        ELSE /\ script' = "year"
             /\ pending' = pending \cup {vat}
             /\ contracts' = new
             /\ invoices' = {}
             /\ payments' = {}
             /\ founded' = y
             /\ year' = y
             /\ prev' = Null
             /\ terminates' = [c \in supplied |-> Null]
             /\ UNCHANGED <<cause, clock, db, month, turn, risk>>

LEMMA GenerateKeeps == IInv /\ GenerateCompany => IInv' /\ db' = db
<1> SUFFICES ASSUME IInv, GenerateCompany PROVE IInv' /\ db' = db
  OBVIOUS
<1>1. PICK vat \in Vats, y \in StartYears, size \in Sizes,
           supplied \in {{"electricity"}, Commodities} :
      \E power \in Powers[size], meter \in MeterLengths[size] :
          Generated(vat, y, size, supplied, power, meter)
  BY DEF GenerateCompany, Generated
<1>2. PICK power \in Powers[size], meter \in MeterLengths[size] :
          Generated(vat, y, size, supplied, power, meter)
  BY <1>1
<1> DEFINE new == [c \in supplied |-> ContractRow(c, y, size, power, meter)]
           drafts == {<<"companies", CompanyRow(y)>>} \cup
                     {<<"energy_contracts", new[c]>> : c \in supplied}
<1>3. supplied \subseteq Commodities
  BY DEF Commodities
<1>4. \A c \in supplied :
          /\ new[c] \in ContractRecords
          /\ new[c].commodity = c /\ new[c].activation = FirstOf[y][1]
          /\ new[c].termination = Null /\ new[c].status = "active"
          /\ ValidContract(new[c])
          /\ InsertsContract(new[c])
  BY <1>3, ContractAccepted
<1>5. Ripe => Rejection(drafts) = "none"
  <2> SUFFICES ASSUME Ripe, NEW n \in drafts
               PROVE  /\ Validates(n[1], n[2], clock.now)
                      /\ Inserts(n[1], n[2], clock.currentDate, clock.currentTimestamp)
    BY Rejections
  <2>1. CASE n = <<"companies", CompanyRow(y)>>
    BY <2>1, CompanyAccepted, SeedingAssumption DEF IInv, TypeOK
  <2>2. CASE \E c \in supplied : n = <<"energy_contracts", new[c]>>
    BY <1>4, <2>2 DEF Validates, Inserts
  <2>3. QED
    BY <2>1, <2>2
<1>6. Rejection(drafts) \in {"none", "validation", "constraint"}
  BY Rejections
<1>7. CASE Rejection(drafts) # "none"
  BY <1>2, <1>5, <1>6, <1>7, RaiseKeeps DEF Generated
<1>8. CASE Rejection(drafts) = "none" /\ vat \in db \cup pending
  BY <1>2, <1>8, RaiseKeeps DEF Generated
<1>9. CASE Rejection(drafts) = "none" /\ vat \notin db \cup pending
  <2>1. /\ script = "next" /\ Cardinality(pending) < NumCompanies
        /\ script' = "year" /\ pending' = pending \cup {vat}
        /\ contracts' = new /\ invoices' = {} /\ payments' = {}
        /\ founded' = y /\ year' = y /\ prev' = Null
        /\ terminates' = [c \in supplied |-> Null]
        /\ UNCHANGED <<cause, clock, db, month, turn, risk>>
    BY <1>2, <1>9 DEF GenerateCompany, Generated
  <2>2. TypeOK'
    <3>1. y \in Nat /\ EndYear \in Nat /\ y \in y .. EndYear
      BY SeedingAssumption
    <3>2. pending' \subseteq Vats
      BY <2>1 DEF IInv, TypeOK
    <3>3. terminates' \in [DOMAIN contracts' -> 1 .. LastMonth \cup {Null}]
      BY <2>1
    <3>4. QED
      BY <2>1, <3>1, <3>2, <3>3 DEF IInv, TypeOK, Running, Ended
  <2>3. SessionInv'
    <3>1. IsFiniteSet(pending \cup {vat})
          /\ Cardinality(pending \cup {vat}) = Cardinality(pending) + 1
          /\ Cardinality(pending) \in Nat /\ NumCompanies \in Nat
      BY <1>9, FS_AddElement, FS_CardinalityType, SeedingAssumption DEF IInv, SessionInv
    <3>2. QED
      BY <1>9, <2>1, <3>1 DEF IInv, SessionInv, Ended
  <2>4. RipeRunsAreNotRefused' /\ LoopInv' /\ BooksInv' /\ DrivenByLastYear' /\ PositionInv'
    BY <2>1 DEF IInv, RipeRunsAreNotRefused, Ripe, LoopInv, BooksInv, DrivenByLastYear,
       PositionInv, Looping
  <2>5. ContractsInv'
    BY <1>4, <2>1 DEF ContractsInv, Looping, Supplied
  <2>6. QED
    BY <2>1, <2>2, <2>3, <2>4, <2>5 DEF IInv
<1>10. QED
  BY <1>7, <1>8, <1>9

LEMMA BeginYearKeeps == IInv /\ BeginYear => IInv' /\ db' = db
<1> SUFFICES ASSUME IInv, BeginYear PROVE IInv' /\ db' = db
  OBVIOUS
<1>1. PICK a \in Amounts, loss \in BOOLEAN, margin \in {"crisis", "weak", "healthy"} :
          LET why == Rejection({<<"financial_statements", StatementRow(year, a, loss)>>})
              restated == [c \in DOMAIN contracts |-> Restated(contracts[c], margin)]
          IN  IF why # "none" THEN Raise(why)
              ELSE IF Refused(restated) THEN Raise("constraint")
              ELSE /\ script' = "bill"
                   /\ contracts' = restated
                   /\ risk' = RiskDrivingYear
                   /\ month' = 1
                   /\ turn' = "electricity"
                   /\ terminates' \in [DOMAIN contracts ->
                          {Null} \cup (IF year = EndYear THEN 1 .. LastMonth ELSE {})]
                   /\ \A c \in DOMAIN contracts :
                          contracts[c].status = "terminated" => terminates'[c] = Null
                   /\ UNCHANGED <<cause, clock, db, pending, invoices, payments,
                                  founded, year, prev>>
  BY DEF BeginYear
<1> DEFINE drafts == {<<"financial_statements", StatementRow(year, a, loss)>>}
           restated == [c \in DOMAIN contracts |-> Restated(contracts[c], margin)]
<1>2. /\ script = "year" /\ TypeOK /\ DOMAIN contracts \in {{"electricity"}, Commodities}
      /\ terminates \in [DOMAIN contracts -> 1 .. LastMonth \cup {Null}]
  BY DEF BeginYear, IInv, TypeOK, Running
<1>3. DOMAIN contracts \subseteq Commodities /\ "electricity" \in DOMAIN contracts
  BY <1>2 DEF Commodities
<1>4. Rejection(drafts) = "none"
  <2>1. year \in Nat /\ year <= EndYear /\ year >= FirstFiscalYear
    BY <1>2, Loops, SeedingAssumption, RulesAssumption DEF TypeOK
  <2>2. QED
    BY <2>1, StatementAccepted, Rejections
<1>5. \A c \in DOMAIN contracts : Supplied(c, restated[c])
  BY <1>2, <1>3, UpdatesAccepted DEF IInv, ContractsInv, Looping
<1>6. ~ Refused(restated)
  BY <1>5 DEF Refused, Supplied
<1>7. /\ script' = "bill" /\ contracts' = restated /\ risk' = RiskDrivingYear
      /\ month' = 1 /\ turn' = "electricity"
      /\ terminates' \in [DOMAIN contracts ->
             {Null} \cup (IF year = EndYear THEN 1 .. LastMonth ELSE {})]
      /\ UNCHANGED <<cause, clock, db, pending, invoices, payments, founded, year, prev>>
  BY <1>1, <1>4, <1>6
<1>8. DOMAIN contracts' = DOMAIN contracts
  BY <1>7
<1>9. /\ prev = IF year = founded THEN Null ELSE year - 1
      /\ RiskDrivingYear = IF year = founded THEN founded ELSE year - 1
  BY <1>2, Loops DEF IInv, LoopInv, RiskDrivingYear
<1>10. TypeOK'
  <2>1. risk' \in Years /\ month' \in Months
    BY <1>2, <1>7, Loops, SeedingAssumption DEF TypeOK, RiskDrivingYear, Months
  <2>2. terminates' \in [DOMAIN contracts' -> 1 .. LastMonth \cup {Null}]
    BY <1>7, <1>8
  <2>3. turn' \in Commodities /\ script' \in Running \cup Ended
    BY <1>7 DEF Commodities, Running
  <2>4. QED
    BY <1>2, <1>7, <1>8, <2>1, <2>2, <2>3 DEF TypeOK
<1>11. SessionInv' /\ RipeRunsAreNotRefused' /\ BooksInv' /\ DrivenByLastYear'
  BY <1>7 DEF IInv, SessionInv, Ended, RipeRunsAreNotRefused, Ripe, BooksInv, Settles,
     Key, DrivenByLastYear
<1>12. LoopInv'
  <2>1. LastBilled' \in Nat /\ 1 <= LastBilled'
    BY <1>2, <1>7, Loops DEF LastBilled
  <2>2. \A c \in DOMAIN contracts : terminates'[c] # Null => year = EndYear
    BY <1>7
  <2>3. QED
    BY <1>3, <1>7, <1>8, <1>9, <2>1, <2>2 DEF LoopInv
<1>13. ContractsInv'
  BY <1>5, <1>7, <1>8 DEF ContractsInv, Looping, Supplied
<1>14. PositionInv'
  <2>1. \A i \in invoices : i.commodity \in DOMAIN contracts /\ i.year < year
    BY <1>2 DEF IInv, PositionInv, Looping, Passed
  <2>2. year \in Nat /\ \A i \in invoices : i.year \in Nat
    BY <1>2, Loops, SeedingAssumption DEF TypeOK, InvoiceKeys, Key
  <2>3. \A i \in invoices : Passed(i.year, i.month, i.commodity)' /\ i.year # year
    BY <1>7, <2>1, <2>2 DEF Passed
  <2>4. ASSUME NEW i \in invoices'
        PROVE  /\ i.commodity \in DOMAIN contracts'
               /\ Passed(i.year, i.month, i.commodity)'
               /\ i.year # year'
    BY <1>7, <1>8, <2>1, <2>3
  <2>5. script' = "bill" /\ year' = year
    BY <1>7
  <2>6. (Looping =>
             \A i \in invoices :
                 /\ i.commodity \in DOMAIN contracts
                 /\ Passed(i.year, i.month, i.commodity)
                 /\ i.year = year => Supplies(i.commodity, i.month))'
    BY <2>4
  <2>7. (script \in {"bill", "close"} =>
             \A c \in DOMAIN contracts, m \in Months : ~ Passed(year, m, c))'
    BY <1>7, <2>2, <2>5 DEF Passed, Months
  <2>8. QED
    BY <2>6, <2>7 DEF PositionInv
<1>15. QED
  BY <1>7, <1>10, <1>11, <1>12, <1>13, <1>14 DEF IInv

(* One step of the loops leaves one month of one commodity behind. *)
LEMMA AdvanceSteps ==
    ASSUME IInv, script = "bill", Advance,
           UNCHANGED <<contracts, founded, terminates, risk, prev>>
    PROVE  /\ script' \in {"bill", "close"} /\ year' = year
           /\ month' \in Months /\ turn' \in Commodities
           /\ LoopInv'
           /\ \A y \in Nat, m \in Months, c \in DOMAIN contracts :
                  Passed(y, m, c)' <=>
                      Passed(y, m, c) \/ (y = year /\ m = month /\ c = turn)
<1>1. /\ TypeOK /\ DOMAIN contracts \in {{"electricity"}, Commodities}
      /\ turn \in DOMAIN contracts /\ month <= LastBilled
      /\ risk = IF year = founded THEN founded ELSE year - 1
      /\ \A c \in DOMAIN contracts : terminates[c] # Null => year = EndYear
  BY DEF IInv, TypeOK, LoopInv, Running
<1>2. /\ year \in Nat /\ month \in Nat /\ 1 <= month
      /\ LastBilled \in Nat /\ MonthsPerYear \in Nat /\ LastBilled <= MonthsPerYear
  BY <1>1, Loops DEF Months
<1>3. DOMAIN contracts \subseteq {"electricity", "gas"} /\ "electricity" \in DOMAIN contracts
  BY <1>1 DEF Commodities
<1>4. year' = year
  BY DEF Advance, loop
<1>5. LastBilled' = LastBilled
  BY <1>4 DEF LastBilled
<1>6. CASE turn = "electricity" /\ "gas" \in DOMAIN contracts
  <2>1. turn' = "gas" /\ script' = "bill" /\ month' = month
    BY <1>6 DEF Advance
  <2>2. \A y \in Nat, m \in Months, c \in DOMAIN contracts :
            Passed(y, m, c)' <=>
                Passed(y, m, c) \/ (y = year /\ m = month /\ c = turn)
    BY <1>2, <1>3, <1>4, <1>6, <2>1 DEF Passed
  <2>3. QED
    BY <1>1, <1>4, <1>5, <1>6, <2>1, <2>2 DEF LoopInv, TypeOK, Commodities
<1>7. CASE ~ (turn = "electricity" /\ "gas" \in DOMAIN contracts)
  <2>1. \A c \in DOMAIN contracts :
            c = turn \/ (turn = "gas" /\ c = "electricity")
    BY <1>1, <1>3, <1>7
  <2>2. CASE month < LastBilled
    <3>1. turn' = "electricity" /\ script' = "bill" /\ month' = month + 1
      BY <1>7, <2>2 DEF Advance
    <3>2. \A y \in Nat, m \in Months, c \in DOMAIN contracts :
              Passed(y, m, c)' <=>
                  Passed(y, m, c) \/ (y = year /\ m = month /\ c = turn)
      BY <1>2, <1>4, <2>1, <3>1 DEF Passed, Months
    <3>3. month' \in Months /\ month' <= LastBilled'
      BY <1>2, <1>5, <2>2, <3>1 DEF Months
    <3>4. QED
      BY <1>1, <1>3, <1>4, <3>1, <3>2, <3>3 DEF LoopInv, Commodities
  <2>3. CASE ~ (month < LastBilled)
    <3>1. script' = "close" /\ month' = month /\ turn' = turn
      BY <1>7, <2>3 DEF Advance, loop
    <3>2. month = LastBilled
      BY <1>1, <1>2, <2>3
    <3>3. \A y \in Nat, m \in Months, c \in DOMAIN contracts :
              Passed(y, m, c)' <=>
                  Passed(y, m, c) \/ (y = year /\ m = month /\ c = turn)
      BY <1>2, <1>4, <1>5, <2>1, <3>1, <3>2 DEF Passed, Months
    <3>4. QED
      BY <1>1, <1>4, <3>1, <3>3 DEF LoopInv, TypeOK
  <2>4. QED
    BY <2>2, <2>3
<1>8. QED
  BY <1>6, <1>7

LEMMA SkipKeeps == IInv /\ SkipMonth => IInv' /\ db' = db
<1> SUFFICES ASSUME IInv, SkipMonth PROVE IInv' /\ db' = db
  OBVIOUS
<1>1. /\ script = "bill" /\ EffectiveStatus(turn) \in {"terminated", "suspended"} /\ Advance
      /\ UNCHANGED <<cause, clock, db, pending, contracts, invoices, payments,
                     founded, terminates, prev, risk>>
  BY DEF SkipMonth, rows, driver
<1>2. /\ script' \in {"bill", "close"} /\ year' = year
      /\ month' \in Months /\ turn' \in Commodities
      /\ LoopInv'
      /\ \A y \in Nat, m \in Months, c \in DOMAIN contracts :
             Passed(y, m, c)' <=>
                 Passed(y, m, c) \/ (y = year /\ m = month /\ c = turn)
  BY <1>1, AdvanceSteps
<1>3. TypeOK /\ turn \in DOMAIN contracts /\ year \in Nat /\ month \in Months
  BY <1>1, Loops DEF IInv, LoopInv, TypeOK
<1>4. TypeOK'
  BY <1>1, <1>2, <1>3 DEF TypeOK, Running, Ended
<1>5. SessionInv' /\ RipeRunsAreNotRefused' /\ BooksInv' /\ DrivenByLastYear'
  BY <1>1, <1>2 DEF IInv, SessionInv, Ended, RipeRunsAreNotRefused, Ripe, BooksInv,
     Settles, Key, DrivenByLastYear
<1>6. ContractsInv'
  BY <1>1, <1>2 DEF IInv, ContractsInv, Looping, Supplied
<1>7. (Looping =>
           \A i \in invoices :
               /\ i.commodity \in DOMAIN contracts
               /\ Passed(i.year, i.month, i.commodity)
               /\ i.year = year => Supplies(i.commodity, i.month))'
  <2>1. \A i \in invoices : i.year \in Nat /\ i.month \in Months
    BY <1>3, SeedingAssumption DEF TypeOK, InvoiceKeys, Key
  <2>2. \A i \in invoices :
            /\ i.commodity \in DOMAIN contracts
            /\ Passed(i.year, i.month, i.commodity)
            /\ i.year = year => Supplies(i.commodity, i.month)
    BY <1>1 DEF IInv, PositionInv, Looping
  <2>3. \A i \in invoices : Passed(i.year, i.month, i.commodity)'
    BY <1>2, <2>1, <2>2
  <2>4. QED
    BY <1>1, <1>2, <2>2, <2>3 DEF Supplies
<1>8. ~ (contracts[turn].status = "active" /\ Supplies(turn, month))
  <2>1. \A t \in Nat : month >= t => ~ (month < t)
    BY <1>3, Loops
  <2>2. terminates[turn] # Null => terminates[turn] \in Nat
    BY <1>1, <1>3, Loops DEF TypeOK, Running
  <2>3. QED
    BY <1>1, <2>1, <2>2 DEF EffectiveStatus, Supplies
<1>9. (script \in {"bill", "close"} =>
           \A c \in DOMAIN contracts, m \in Months :
               contracts[c].status = "active" /\ Passed(year, m, c) /\ Supplies(c, m) =>
                   \E i \in invoices :
                       Key(i) = [year |-> year, month |-> m, commodity |-> c])'
  <2> SUFFICES ASSUME NEW c \in DOMAIN contracts, NEW m \in Months,
                      contracts[c].status = "active", Passed(year, m, c)', Supplies(c, m)
               PROVE  \E i \in invoices :
                          Key(i) = [year |-> year, month |-> m, commodity |-> c]
    BY <1>1, <1>2 DEF Supplies, Key
  <2>1. \A y \in Nat : y = year =>
            (Passed(y, m, c)' <=> Passed(y, m, c) \/ (m = month /\ c = turn))
    BY <1>2
  <2>2. Passed(year, m, c)
    BY <1>2, <1>3, <1>8, <2>1
  <2>3. QED
    BY <1>1, <2>2 DEF IInv, PositionInv
<1>10. QED
  BY <1>1, <1>2, <1>4, <1>5, <1>6, <1>7, <1>9 DEF IInv, PositionInv

(* What a bill adds to the ledger keeps it consistent. *)
LEMMA LedgerKeeps ==
    ASSUME IInv, script = "bill",
           NEW used \in Amounts, NEW net \in Amounts, NEW tax \in Taxes,
           NEW drawn \in Outcomes, NEW method \in PayMethods,
           NEW o, o = AsOfToday(drawn, FirstOf[year][month]),
           NEW invoice, invoice = InvoiceRow(turn, used, net, tax, o),
           invoices' = invoices \cup {invoice},
           payments' = payments \cup PaymentsOf(invoice, o, method),
           clock' = clock
    PROVE  BooksInv'
<1>1. /\ TypeOK /\ turn \in DOMAIN contracts /\ month <= LastBilled
      /\ clock.today \in Int /\ year \in Nat /\ month \in Nat
      /\ FirstOf[year][month] \in Int
  <2>1. /\ TypeOK /\ turn \in DOMAIN contracts /\ month <= LastBilled
        /\ year \in Years /\ month \in Months /\ clock \in Clock
    BY Loops, SeedingAssumption DEF IInv, TypeOK, LoopInv
  <2>2. QED
    BY <2>1, Loops, CalendarAssumption DEF Clock
<1>2. /\ o.status = "paid" <=> o.behavior = "completed"
      /\ o.behavior = "completed" => o.days # Null
      /\ o.days # Null => o.days \in Nat /\ FirstOf[year][month] + o.days <= clock.today
  BY <1>1, CorrectedOutcomes
<1>3. /\ invoice.year = year /\ invoice.month = month /\ invoice.commodity = turn
      /\ invoice.issue = FirstOf[year][month] /\ invoice.status = o.status
  BY DEF InvoiceRow
<1>4. \A i \in invoices : Key(i) # Key(invoice)
  <2>1. ~ Passed(year, month, turn)
    BY <1>1 DEF Passed
  <2>2. \A i \in invoices : Passed(i.year, i.month, i.commodity)
    BY DEF IInv, PositionInv, Looping
  <2>3. QED
    BY <1>3, <2>1, <2>2 DEF Key
<1>5. year = EndYear => month <= LastMonth
  BY <1>1 DEF LastBilled
<1>6. \A p \in PaymentsOf(invoice, o, method) :
          /\ o.days # Null
          /\ Key(p) = Key(invoice) /\ p.amount = invoice.total
          /\ p.date = invoice.issue + o.days
          /\ p.status = IF o.behavior = "completed" THEN "completed" ELSE "failed"
  BY DEF PaymentsOf, Key
<1>7. \A p \in PaymentsOf(invoice, o, method) :
          /\ Settles(p, invoice) /\ p.date <= clock.today /\ invoice.issue <= p.date
  BY <1>1, <1>2, <1>3, <1>6 DEF Settles
<1>8. invoice.status = "paid" => \E p \in PaymentsOf(invoice, o, method) : TRUE
  BY <1>2, <1>3 DEF PaymentsOf
<1>9. (\A i \in invoices : /\ i.issue = FirstOf[i.year][i.month]
                           /\ i.year = EndYear => i.month <= LastMonth)'
  BY <1>3, <1>5 DEF IInv, BooksInv
<1>10. (\A i, j \in invoices : Key(i) = Key(j) => i = j)'
  <2>1. \A i, j \in invoices : Key(i) = Key(j) => i = j
    BY DEF IInv, BooksInv
  <2>2. QED
    BY <1>4, <2>1 DEF Key
<1>11. (\A p \in payments : /\ p.date <= clock.today
                            /\ \E i \in invoices : Settles(p, i) /\ i.issue <= p.date)'
  <2>1. \A p \in payments : /\ p.date <= clock.today
                            /\ \E i \in invoices : Settles(p, i) /\ i.issue <= p.date
    BY DEF IInv, BooksInv
  <2>2. \A p \in payments' : /\ p.date <= clock.today
                             /\ \E i \in invoices' : Settles(p, i) /\ i.issue <= p.date
    BY <1>7, <2>1
  <2>3. QED
    BY <2>2 DEF Settles, Key
<1>12. (\A i \in invoices : i.status = "paid" => \E p \in payments : Settles(p, i))'
  <2>1. \A i \in invoices : i.status = "paid" => \E p \in payments : Settles(p, i)
    BY DEF IInv, BooksInv
  <2>2. \A i \in invoices' : i.status = "paid" => \E p \in payments' : Settles(p, i)
    BY <1>7, <1>8, <2>1
  <2>3. QED
    BY <2>2 DEF Settles, Key
<1>13. QED
  BY <1>9, <1>10, <1>11, <1>12 DEF BooksInv

LEMMA BillKeeps == IInv /\ Bill => IInv' /\ db' = db
<1> SUFFICES ASSUME IInv, Bill PROVE IInv' /\ db' = db
  OBVIOUS
<1>1. /\ script = "bill" /\ EffectiveStatus(turn) \in {"active", "suspended"}
      /\ TypeOK /\ turn \in DOMAIN contracts /\ month <= LastBilled
      /\ clock \in Clock /\ Simulated(year, month)
      /\ year \in Nat /\ month \in Months /\ FirstOf[year][month] \in Int
      /\ turn \in Commodities /\ clock.today \in Int
  BY Loops, SeedingAssumption, CalendarAssumption
     DEF IInv, Bill, TypeOK, LoopInv, Clock, Simulated, LastBilled
<1>2. CASE MaxDay <= 1
  <2>1. Raise("range")
    BY <1>2 DEF Bill
  <2>2. ~ Ripe
    BY <1>1, <1>2, DrawnDaysArePast
  <2>3. QED
    BY <2>1, <2>2, RaiseKeeps
<1>3. CASE ~ (MaxDay <= 1)
  <2>1. PICK used \in Amounts, net \in Amounts, tax \in Taxes, drawn \in Outcomes,
             method \in PayMethods, tickets \in Tickets, login \in Logins :
            LET o == AsOfToday(drawn, FirstOf[year][month])
                invoice == InvoiceRow(turn, used, net, tax, o)
                paid == PaymentsOf(invoice, o, method)
                why == Rejection({<<"invoices", invoice>>, <<"user_web_logins", login>>} \cup
                                 ({"payments"} \X paid) \cup
                                 ({"crm_support_tickets"} \X tickets))
            IN  IF why # "none" THEN Raise(why)
                ELSE /\ invoices' = invoices \cup {invoice}
                     /\ payments' = payments \cup paid
                     /\ Advance
                     /\ UNCHANGED <<cause, clock, db, pending, contracts, driver>>
    BY <1>3 DEF Bill
  <2> DEFINE o == AsOfToday(drawn, FirstOf[year][month])
             invoice == InvoiceRow(turn, used, net, tax, o)
             paid == PaymentsOf(invoice, o, method)
             drafts == {<<"invoices", invoice>>, <<"user_web_logins", login>>} \cup
                       ({"payments"} \X paid) \cup ({"crm_support_tickets"} \X tickets)
  <2>2. /\ o.status \in {"paid", "unpaid", "overdue"}
        /\ o.days # Null => o.days \in Nat /\ FirstOf[year][month] + o.days <= clock.today
    BY <1>1, CorrectedOutcomes
  <2>3. /\ invoice.year = year /\ invoice.month = month /\ invoice.commodity = turn
        /\ invoice.issue = FirstOf[year][month] /\ invoice.risk = risk
    BY DEF InvoiceRow
  <2>4. Rejection(drafts) \in {"none", "validation", "constraint"}
    BY Rejections
  <2>5. Ripe => Rejection(drafts) = "none"
    <3> SUFFICES ASSUME Ripe, NEW n \in drafts
                 PROVE  /\ Validates(n[1], n[2], clock.now)
                        /\ Inserts(n[1], n[2], clock.currentDate, clock.currentTimestamp)
      BY Rejections
    <3>1. /\ invoice.total \in Int /\ 0 < invoice.total /\ invoice.total < WideLimit
          /\ Validates("invoices", invoice, clock.now)
          /\ Inserts("invoices", invoice, clock.currentDate, clock.currentTimestamp)
      BY <1>1, <2>2, InvoiceAccepted
    <3>2. CASE n = <<"invoices", invoice>>
      BY <3>1, <3>2
    <3>3. CASE n = <<"user_web_logins", login>>
      BY <1>1, <3>3, LoginAccepted
    <3>4. CASE n \in {"payments"} \X paid
      <4>1. n[1] = "payments" /\ n[2] \in paid
        BY <3>4
      <4> HIDE DEF o, invoice
      <4>2. QED
        BY <1>1, <2>2, <2>3, <3>1, <4>1, PaymentAccepted
    <3>5. CASE n \in {"crm_support_tickets"} \X tickets
      BY <1>1, <3>5, TicketAccepted
    <3>6. QED
      BY <3>2, <3>3, <3>4, <3>5
  <2>6. CASE Rejection(drafts) # "none"
    BY <2>1, <2>4, <2>5, <2>6, RaiseKeeps
  <2>7. CASE Rejection(drafts) = "none"
    <3>1. /\ invoices' = invoices \cup {invoice} /\ payments' = payments \cup paid
          /\ Advance
          /\ UNCHANGED <<cause, clock, db, pending, contracts, founded, terminates, prev, risk>>
      BY <2>1, <2>7 DEF driver
    <3> HIDE DEF invoice, drafts
    <3>2. /\ script' \in {"bill", "close"} /\ year' = year
          /\ month' \in Months /\ turn' \in Commodities
          /\ LoopInv'
          /\ \A y \in Nat, m \in Months, c \in DOMAIN contracts :
                 Passed(y, m, c)' <=>
                     Passed(y, m, c) \/ (y = year /\ m = month /\ c = turn)
      BY <1>1, <3>1, AdvanceSteps
    <3>3. TypeOK'
      <4>1. Key(invoice) \in InvoiceKeys
        BY <1>1, <2>3, Loops DEF Key, InvoiceKeys
      <4>2. \A p \in paid : Key(p) = Key(invoice)
        BY DEF PaymentsOf, Key
      <4>3. \A r \in invoices' \cup payments' : Key(r) \in InvoiceKeys
        BY <1>1, <3>1, <4>1, <4>2 DEF TypeOK
      <4>4. QED
        BY <1>1, <3>1, <3>2, <4>3 DEF TypeOK, Running, Ended, Key
    <3>4. SessionInv' /\ RipeRunsAreNotRefused'
      BY <3>1, <3>2 DEF IInv, SessionInv, Ended, RipeRunsAreNotRefused, Ripe
    <3>5. BooksInv'
      BY <1>1, <3>1, LedgerKeeps DEF invoice
    <3>6. DrivenByLastYear'
      BY <1>1, <2>3, <3>1 DEF IInv, LoopInv, DrivenByLastYear
    <3>7. ContractsInv'
      BY <1>1, <3>1, <3>2 DEF IInv, ContractsInv, Looping, Supplied
    <3>8. (Looping =>
               \A i \in invoices :
                   /\ i.commodity \in DOMAIN contracts
                   /\ Passed(i.year, i.month, i.commodity)
                   /\ i.year = year => Supplies(i.commodity, i.month))'
      <4>1. \A i \in invoices : i.year \in Nat /\ i.month \in Months
        BY <1>1, SeedingAssumption DEF TypeOK, InvoiceKeys, Key
      <4>2. \A i \in invoices :
                /\ i.commodity \in DOMAIN contracts
                /\ Passed(i.year, i.month, i.commodity)
                /\ i.year = year => Supplies(i.commodity, i.month)
        BY <1>1 DEF IInv, PositionInv, Looping
      <4>3. \A i \in invoices' : Passed(i.year, i.month, i.commodity)'
        BY <1>1, <2>3, <3>1, <3>2, <4>1, <4>2
      <4>4. Supplies(turn, month)
        <5>1. terminates[turn] # Null => terminates[turn] \in Nat
          BY <1>1, Loops DEF TypeOK, Running
        <5>2. terminates[turn] # Null => ~ (month >= terminates[turn])
          BY <1>1 DEF EffectiveStatus
        <5>3. QED
          BY <1>1, <5>1, <5>2, Loops DEF Supplies
      <4>5. QED
        BY <1>1, <2>3, <3>1, <3>2, <4>2, <4>3, <4>4 DEF Supplies
    <3>9. (script \in {"bill", "close"} =>
               \A c \in DOMAIN contracts, m \in Months :
                   contracts[c].status = "active" /\ Passed(year, m, c) /\ Supplies(c, m) =>
                       \E i \in invoices :
                           Key(i) = [year |-> year, month |-> m, commodity |-> c])'
      <4> SUFFICES ASSUME NEW c \in DOMAIN contracts, NEW m \in Months,
                          contracts[c].status = "active", Passed(year, m, c)', Supplies(c, m)
                   PROVE  \E i \in invoices' :
                              Key(i) = [year |-> year, month |-> m, commodity |-> c]
        BY <3>1, <3>2 DEF Supplies, Key
      <4>1. \A y \in Nat : y = year =>
                (Passed(y, m, c)' <=> Passed(y, m, c) \/ (m = month /\ c = turn))
        BY <3>2
      <4>2. CASE Passed(year, m, c)
        BY <1>1, <3>1, <4>2 DEF IInv, PositionInv
      <4>3. CASE m = month /\ c = turn
        BY <2>3, <3>1, <4>3 DEF Key
      <4>4. QED
        BY <1>1, <3>2, <4>1, <4>2, <4>3
    <3>10. QED
      BY <3>1, <3>2, <3>3, <3>4, <3>5, <3>6, <3>7, <3>8, <3>9 DEF IInv, PositionInv
  <2>8. QED
    BY <2>6, <2>7
<1>4. QED
  BY <1>2, <1>3

LEMMA CloseKeeps == IInv /\ CloseYear => IInv' /\ db' = db
<1> SUFFICES ASSUME IInv, CloseYear PROVE IInv' /\ db' = db
  OBVIOUS
<1> DEFINE updated == [c \in DOMAIN contracts |-> Terminated(c)]
<1>1. /\ script = "close" /\ TypeOK /\ DOMAIN contracts \in {{"electricity"}, Commodities}
      /\ terminates \in [DOMAIN contracts -> 1 .. LastMonth \cup {Null}]
      /\ DOMAIN contracts \subseteq Commodities
      /\ \A c \in DOMAIN contracts : Supplied(c, contracts[c])
      /\ \A c \in DOMAIN contracts : terminates[c] # Null => year = EndYear
  BY DEF CloseYear, IInv, TypeOK, LoopInv, ContractsInv, Looping, Running, Commodities
<1>2. ASSUME NEW c \in DOMAIN contracts, terminates[c] # Null
      PROVE  /\ terminates[c] \in Months
             /\ FirstOf[EndYear][terminates[c]] \in Int
             /\ \A y \in Years, m \in Months :
                    y < EndYear \/ (y = EndYear /\ m < terminates[c]) =>
                        FirstOf[y][m] < FirstOf[EndYear][terminates[c]]
  <2>1. terminates[c] \in Months /\ EndYear \in Years
    BY <1>1, <1>2, Loops, SeedingAssumption DEF Months
  <2>2. FirstOf[EndYear][terminates[c]] \in Int
    BY <2>1, CalendarAssumption
  <2>3. ASSUME NEW y \in Years, NEW m \in Months,
               y < EndYear \/ (y = EndYear /\ m < terminates[c])
        PROVE  FirstOf[y][m] < FirstOf[EndYear][terminates[c]]
    <3>1. FirstOf[y][m] \in Int /\ LastOf[y][m] \in Int /\ FirstOf[y][m] < LastOf[y][m]
      BY CalendarAssumption
    <3>2. LastOf[y][m] < FirstOf[EndYear][terminates[c]]
      BY <2>1, <2>3, CalendarAssumption
    <3>3. QED
      BY <2>2, <3>1, <3>2
  <2>4. QED
    BY <2>1, <2>2, <2>3
<1>3. ~ Refused(updated)
  <2> SUFFICES ASSUME NEW c \in DOMAIN contracts PROVE InsertsContract(Terminated(c))
    BY DEF Refused
  <2>1. CASE terminates[c] = Null
    BY <1>1, <2>1 DEF Terminated, Supplied
  <2>2. CASE terminates[c] # Null
    <3>1. 1 \in Months /\ founded \in Years /\ founded < EndYear
      BY <1>1, Loops DEF Months
    <3>2. FirstOf[EndYear][terminates[c]] > FirstOf[founded][1]
      BY <1>2, <2>2, <3>1, CalendarAssumption
    <3>3. QED
      BY <1>1, <1>2, <2>2, <3>2, UpdatesAccepted DEF Terminated
  <2>3. QED
    BY <2>1, <2>2
<1>4. /\ contracts' = updated /\ prev' = year
      /\ terminates' = [c \in DOMAIN contracts |-> Null]
      /\ \/ year < EndYear /\ script' = "year" /\ year' = year + 1
         \/ ~ (year < EndYear) /\ script' = "next" /\ year' = year
      /\ UNCHANGED <<cause, clock, db, pending, month, turn, invoices, payments,
                     founded, risk>>
  BY <1>3 DEF CloseYear
<1>5. DOMAIN contracts' = DOMAIN contracts
  BY <1>4
<1>6. TypeOK'
  <2>1. year' \in founded .. EndYear /\ prev' \in Years
    BY <1>1, <1>4, Loops DEF TypeOK
  <2>2. terminates' \in [DOMAIN contracts' -> 1 .. LastMonth \cup {Null}]
    BY <1>4, <1>5
  <2>3. script' \in Running \cup Ended
    BY <1>4 DEF Running
  <2>4. QED
    BY <1>1, <1>4, <1>5, <2>1, <2>2, <2>3 DEF TypeOK, Key
<1>7. SessionInv' /\ RipeRunsAreNotRefused' /\ BooksInv' /\ DrivenByLastYear'
  BY <1>1, <1>4 DEF IInv, SessionInv, Ended, RipeRunsAreNotRefused, Ripe, BooksInv,
     Settles, Key, DrivenByLastYear
<1>8. LoopInv'
  BY <1>1, <1>4, Loops DEF LoopInv
<1>9. \A i \in invoices :
          /\ i.commodity \in DOMAIN contracts
          /\ Passed(i.year, i.month, i.commodity)
          /\ i.year = year => Supplies(i.commodity, i.month)
          /\ i.issue = FirstOf[i.year][i.month]
          /\ i.year \in Years /\ i.year \in Nat /\ i.month \in Months
  BY <1>1, SeedingAssumption
     DEF IInv, PositionInv, BooksInv, Looping, TypeOK, InvoiceKeys, Key
<1>10. year \in Nat /\ EndYear \in Nat /\ year <= EndYear
  BY <1>1, Loops
<1>11. \A i \in invoices : i.year <= year
  BY <1>9, <1>10 DEF Passed
<1>12. CASE year < EndYear
  <2>1. script' = "year" /\ year' = year + 1
    BY <1>4, <1>12
  <2>2. ContractsInv'
    <3>1. ASSUME NEW c \in DOMAIN contracts
          PROVE  contracts'[c] = contracts[c]
      <4>1. year # EndYear
        BY <1>10, <1>12
      <4>2. terminates[c] = Null
        BY <1>1, <4>1
      <4>3. QED
        BY <1>4, <4>2 DEF Terminated
    <3>2. \A c \in DOMAIN contracts' : Supplied(c, contracts'[c])
      BY <1>1, <1>5, <3>1
    <3>3. QED
      BY <1>4, <2>1, <3>2 DEF ContractsInv, Looping, Supplied
  <2>3. PositionInv'
    <3>1. \A i \in invoices' : i.year < year'
      BY <1>4, <1>9, <1>10, <1>11, <2>1
    <3>2. \A i \in invoices' : ~ (i.year = year')
      BY <1>4, <1>9, <1>10, <2>1, <3>1
    <3>3. QED
      BY <1>4, <1>5, <1>9, <2>1, <3>1, <3>2 DEF PositionInv, Looping, Passed
  <2>4. QED
    BY <1>4, <1>6, <1>7, <1>8, <2>2, <2>3 DEF IInv
<1>13. CASE ~ (year < EndYear)
  <2>1. script' = "next" /\ year = EndYear
    BY <1>4, <1>10, <1>13
  <2>2. BilledUntilTermination'
    <3> SUFFICES ASSUME NEW c \in DOMAIN contracts
                 PROVE  /\ Terminated(c).status = "terminated"
                               <=> Terminated(c).termination # Null
                        /\ Terminated(c).termination # Null =>
                               \A i \in invoices :
                                   i.commodity = c => i.issue < Terminated(c).termination
      BY <1>4, <1>5 DEF BilledUntilTermination
    <3>1. CASE terminates[c] = Null
      BY <1>1, <3>1 DEF Terminated, Supplied
    <3>2. CASE terminates[c] # Null
      <4>1. contracts[c] \in ContractRecords
        BY <1>1 DEF Supplied
      <4>2. /\ Terminated(c).status = "terminated"
            /\ Terminated(c).termination = FirstOf[EndYear][terminates[c]]
        BY <3>2, <4>1 DEF Terminated, ContractRecords
      <4>3. Terminated(c).termination # Null
        BY <1>2, <3>2, <4>2, RulesAssumption
      <4>4. ASSUME NEW i \in invoices, i.commodity = c
            PROVE  i.issue < FirstOf[EndYear][terminates[c]]
        <5>1. i.year = EndYear => i.month < terminates[c]
          BY <1>9, <2>1, <3>2, <4>4 DEF Supplies
        <5>2. i.year < EndYear \/ i.year = EndYear
          BY <1>9, <1>10, <1>11, <2>1
        <5>3. QED
          BY <1>2, <1>9, <3>2, <5>1, <5>2
      <4>5. QED
        BY <4>2, <4>3, <4>4
    <3>3. QED
      BY <3>1, <3>2
  <2>3. ContractsInv' /\ PositionInv'
    BY <2>1, <2>2 DEF ContractsInv, PositionInv, Looping
  <2>4. QED
    BY <1>4, <1>6, <1>7, <1>8, <2>3 DEF IInv
<1>14. QED
  BY <1>12, <1>13

LEMMA StepsKeep == IInv /\ [Next]_vars => IInv'
<1> SUFFICES ASSUME IInv, [Next]_vars PROVE IInv'
  OBVIOUS
<1>1. CASE UNCHANGED vars
  BY <1>1 DEF vars, loop, rows, driver, IInv, TypeOK, RipeRunsAreNotRefused, Ripe,
     SessionInv, LoopInv, LastBilled, ContractsInv, Looping, Supplied,
     BilledUntilTermination, BooksInv, Settles, Key, DrivenByLastYear, PositionInv,
     Passed, Supplies
<1>2. CASE Next
  BY <1>2, StartKeeps, GenerateKeeps, BeginYearKeeps, SkipKeeps, BillKeeps, CloseKeeps,
     CommitKeeps, BreakKeeps DEF Next
<1>3. QED
  BY <1>1, <1>2

LEMMA Invariance == Spec => []IInv
<1>1. Init => IInv
  BY InitInv
<1>2. IInv /\ [Next]_vars => IInv'
  BY StepsKeep
<1>3. QED
  BY <1>1, <1>2, PTL DEF Spec

-----------------------------------------------------------------------------
(* Theorems *)

(* The loops never leave the calendar, and every row they write belongs to a
   year, a month and a contract of the company. *)
THEOREM TypeCorrect == Spec => []TypeOK
<1>1. IInv => TypeOK
  BY DEF IInv
<1>2. QED
  BY <1>1, Invariance, PTL

(* With ripe clocks, no row of generate_company_history is refused by Pydantic
   or by a constraint, whatever is drawn. *)
THEOREM RipeRunsSucceed == Spec => []RipeRunsAreNotRefused
<1>1. IInv => RipeRunsAreNotRefused
  BY DEF IInv
<1>2. QED
  BY <1>1, Invariance, PTL

(* An invoice is paid exactly if a completed payment of its total is recorded,
   despite the corrections of simulate_operational_telemetry. *)
THEOREM LedgerConsistent == Spec => []PaidIffSettled
<1>1. IInv => PaidIffSettled
  <2> SUFFICES ASSUME IInv PROVE PaidIffSettled
    OBVIOUS
  <2>1. ASSUME NEW i \in invoices, i.status = "paid"
        PROVE  \E p \in payments : /\ Key(p) = Key(i)
                                   /\ p.status = "completed"
                                   /\ p.amount = i.total
    BY <2>1 DEF IInv, BooksInv, Settles
  <2>2. ASSUME NEW i \in invoices, NEW p \in payments,
               Key(p) = Key(i), p.status = "completed"
        PROVE  i.status = "paid"
    <3>1. PICK j \in invoices : Settles(p, j)
      BY DEF IInv, BooksInv
    <3>2. Key(j) = Key(i)
      BY <2>2, <3>1 DEF Settles
    <3>3. j = i
      BY <3>2 DEF IInv, BooksInv
    <3>4. QED
      BY <2>2, <3>1, <3>3 DEF Settles
  <2>3. \A p \in payments :
            /\ p.date <= clock.today
            /\ \E i \in invoices : Key(i) = Key(p) /\ i.issue <= p.date
    BY DEF IInv, BooksInv, Settles
  <2>4. QED
    BY <2>1, <2>2, <2>3 DEF PaidIffSettled
<1>2. QED
  BY <1>1, Invariance, PTL

(* Terminations, written after the year has been billed, never fall before an
   invoice of their contract. *)
THEOREM TerminationsFollowBilling == Spec => []BilledUntilTermination
<1>1. IInv => BilledUntilTermination
  BY DEF IInv, ContractsInv, Supplied, BilledUntilTermination
<1>2. QED
  BY <1>1, Invariance, PTL

(* Every month of an active contract is billed once, and no month more. *)
THEOREM ActiveMonthsBilledOnce == Spec => []ActiveMonthsAreBilled
<1>1. IInv => ActiveMonthsAreBilled
  <2> SUFFICES ASSUME IInv, script = "close", NEW c \in DOMAIN contracts,
                      contracts[c].status = "active", NEW m \in Months
               PROVE  LET billed == {i \in invoices : Key(i) = [year |-> year, month |-> m, commodity |-> c]}
                          due == /\ year = EndYear => m <= LastMonth
                                 /\ terminates[c] # Null => m < terminates[c]
                      IN  /\ due <=> billed # {}
                          /\ \A i, j \in billed : i = j
    BY DEF ActiveMonthsAreBilled
  <2> DEFINE key == [year |-> year, month |-> m, commodity |-> c]
             billed == {i \in invoices : Key(i) = key}
             due == /\ year = EndYear => m <= LastMonth
                    /\ terminates[c] # Null => m < terminates[c]
  <2>1. TypeOK
    BY DEF IInv
  <2>2. \A i, j \in billed : i = j
    BY DEF IInv, BooksInv
  <2>3. Passed(year, m, c) <=> m <= LastBilled
    BY <2>1, Loops DEF Passed
  <2>4. m <= LastBilled <=> (year = EndYear => m <= LastMonth)
    BY <2>1, Loops DEF LastBilled, Months
  <2>5. due => billed # {}
    BY <2>3, <2>4 DEF IInv, PositionInv, Supplies
  <2>6. ASSUME NEW i \in billed
        PROVE  due
    <3>1. i.year = year /\ i.month = m /\ i.commodity = c
      BY DEF Key
    <3>2. QED
      BY <2>3, <2>4, <3>1 DEF IInv, PositionInv, Looping, Supplies
  <2>7. QED
    BY <2>2, <2>5, <2>6
<1>2. QED
  BY <1>1, Invariance, PTL

(* A contract is billed for the months in which it is active. *)
THEOREM BillingFollowsContracts == Spec => []BilledWhileActive
<1>1. BilledUntilTermination /\ ActiveMonthsAreBilled => BilledWhileActive
  BY DEF BilledWhileActive
<1>2. QED
  BY <1>1, TerminationsFollowBilling, ActiveMonthsBilledOnce, PTL

(* What is billed in a year follows the statement of the year before. *)
THEOREM RiskOfLastYear == Spec => []DrivenByLastYear
<1>1. IInv => DrivenByLastYear
  BY DEF IInv
<1>2. QED
  BY <1>1, Invariance, PTL

(* The database changes only by the whole of a run, whatever raises, and where. *)
THEOREM SeedingIsAtomic == Spec => AllOrNothing
<1>1. IInv /\ [Next]_vars =>
          [db' # db => /\ db \subseteq db'
                       /\ Cardinality(db' \ db) = NumCompanies]_vars
  <2> SUFFICES ASSUME IInv, Next, db' # db
               PROVE  db \subseteq db' /\ Cardinality(db' \ db) = NumCompanies
    OBVIOUS
  <2>1. Commit
    BY StartKeeps, GenerateKeeps, BeginYearKeeps, SkipKeeps, BillKeeps, CloseKeeps,
       BreakKeeps DEF Next
  <2>2. db' = db \cup pending /\ pending \cap db = {}
    BY <2>1 DEF Commit, IInv, SessionInv
  <2>3. Cardinality(pending) = NumCompanies
    BY <2>1, FS_CardinalityType, SeedingAssumption DEF Commit, IInv, SessionInv
  <2>4. db' \ db = pending
    BY <2>2
  <2>5. QED
    BY <2>2, <2>3, <2>4
<1>2. QED
  BY <1>1, Invariance, PTL DEF Spec, AllOrNothing

(* A row that Pydantic accepts by the time of the transaction breaks no
   constraint of its table, whatever its values and the widths of the columns. *)
THEOREM SchemasImplyConstraints == Spec => []AcceptedRowsInsert
<1>1. IInv => AcceptedRowsInsert
  <2> SUFFICES ASSUME IInv, NEW t \in Tables, NEW r \in Records[t],
                      Validates(t, r, clock.now), clock.now.day <= clock.currentDate,
                      ~ Earlier(clock.currentTimestamp, clock.now), FitsColumns(t, r)
               PROVE  Inserts(t, r, clock.currentDate, clock.currentTimestamp)
    BY DEF AcceptedRowsInsert
  <2>1. clock \in Clock
    BY SeedingAssumption DEF IInv, TypeOK
  <2>2. /\ clock.now \in Instants /\ clock.currentDate \in Int
        /\ clock.currentTimestamp \in Instants
    BY <2>1 DEF Clock
  <2>3. QED
    BY <2>2, AcceptedInserts
<1>2. QED
  BY <1>1, Invariance, PTL

-----------------------------------------------------------------------------
(* And what a table holds, its schema reads, table by table *)

\* A comparison in a CHECK that is not false, between two values, is true.
LEMMA NotFalse ==
    /\ \A a, S : SqlIn(a, S) # "false" /\ a # Null => a \in S
    /\ \A a, b \in Int : /\ SqlLeq(a, b) # "false" => a <= b
                         /\ SqlLess(a, b) # "false" => a < b
    /\ \A a, b : SqlNotAfter(a, b) # "false" /\ a # Null /\ b # Null => ~ Earlier(b, a)
    /\ \A a, b, c : SqlOr(SqlDiffers(a, b), Sql(c)) # "false" /\ a # Null /\ b # Null
                        => (a = b => c)
    /\ \A b, p : SqlOr(Sql(b), p) # "false" /\ ~b => p # "false"
  BY RulesAssumption DEF SqlIn, SqlLeq, SqlLess, SqlNotAfter, SqlDiffers, SqlOr, Sql

LEMMA CompanyReads ==
    ASSUME NEW r \in Columns("companies"), NEW date \in Int, NEW today \in Int,
           date <= today, InsertsCompany(r, date), WellFormed("companies", r)
    PROVE  ValidCompany(r, today)
<1>1. /\ r.founded \in Int /\ r.form # Null /\ r.sector # Null /\ r.name # Null
  BY DEF InsertsCompany, NotNull, Columns
<1>2. SqlIn(r.sector, Listed.sector) # "false" /\ SqlLeq(r.founded, date) # "false"
  BY DEF InsertsCompany, Pass
<1>3. r.sector \in Literals.sector /\ r.founded <= date
  BY <1>1, <1>2, NotFalse, Vocabularies
<1> QED
  BY <1>1, <1>3 DEF ValidCompany, InsertsCompany, WellFormed, FitsText, MaxLength

LEMMA ContractReads ==
    ASSUME NEW r \in Columns("energy_contracts"), InsertsContract(r),
           WellFormed("energy_contracts", r)
    PROVE  ValidContract(r)
<1>1. /\ r.commodity # Null /\ r.market # Null /\ r.status # Null /\ r.activation \in Int
      /\ r.power \in {Null} \cup Int /\ r.termination \in {Null} \cup Int
  BY DEF InsertsContract, NotNull, Columns
<1>2. Pass(ContractChecks(r)) /\ FitsNumeric(r.power, NarrowLimit)
  BY DEF InsertsContract
<1>3. /\ r.commodity \in Literals.commodity /\ r.market \in Literals.market
      /\ r.voltage \in Literals.level \cup {Null} /\ r.pressure \in Literals.level \cup {Null}
      /\ r.status \in Literals.contract
  <2>1. /\ SqlIn(r.commodity, Listed.commodity) # "false"
        /\ SqlIn(r.market, Listed.market) # "false"
        /\ SqlIn(r.voltage, Listed.level) # "false"
        /\ SqlIn(r.pressure, Listed.level) # "false"
        /\ SqlIn(r.status, Listed.contract) # "false"
    BY <1>2 DEF Pass, ContractChecks
  <2> QED
    BY <1>1, <2>1, NotFalse, Vocabularies
<1>4. r.power # Null => 0 < r.power /\ r.power < NarrowLimit
  <2>1. SqlOr(Sql(r.power = Null), SqlLess(0, r.power)) # "false"
    BY <1>2 DEF Pass, ContractChecks
  <2>2. r.power # Null => SqlLess(0, r.power) # "false"
    BY <2>1, NotFalse
  <2> QED
    BY <1>1, <1>2, <2>2, NotFalse DEF FitsNumeric
<1>5. r.meter # Null => r.meter.prefix /\ r.meter.digits
  <2>1. (IF r.meter = Null THEN "unknown" ELSE Sql(r.meter.prefix)) # "false"
    BY <1>2 DEF Pass, ContractChecks
  <2> QED
    BY <2>1 DEF Sql, WellFormed
<1>6. Null # "electricity" /\ Null # "gas" /\ Null # "terminated"
  BY Vocabularies DEF Literals
<1>7. ElectricityContractConstraints(r) /\ GasContractConstraints(r)
  <2>1. /\ SqlOr(SqlDiffers(r.commodity, "electricity"),
                 Sql(r.voltage # Null /\ r.power # Null)) # "false"
        /\ SqlOr(SqlDiffers(r.commodity, "electricity"),
                 Sql(r.pressure = Null /\ r.meter = Null)) # "false"
        /\ SqlOr(SqlDiffers(r.commodity, "gas"),
                 Sql(r.pressure # Null /\ r.meter # Null)) # "false"
        /\ SqlOr(SqlDiffers(r.commodity, "gas"),
                 Sql(r.voltage = Null /\ r.power = Null)) # "false"
    BY <1>2 DEF Pass, ContractChecks
  <2> QED
    BY <1>1, <1>6, <2>1 DEF ElectricityContractConstraints, GasContractConstraints,
        SqlOr, SqlDiffers, Sql
<1>8. /\ r.activation >= FirstActivation
      /\ TerminationAfterActivation(r) /\ TerminationDateOnTerminatedContract(r)
  <2>1. /\ SqlLess(r.activation, r.termination) # "false"
        /\ SqlLeq(FirstActivation, r.activation) # "false"
        /\ SqlOr(SqlDiffers(r.status, "terminated"), Sql(r.termination # Null)) # "false"
    BY <1>2 DEF Pass, ContractChecks
  <2>2. FirstActivation <= r.activation /\ (r.termination # Null => r.activation < r.termination)
    BY <1>1, <2>1, NotFalse, RulesAssumption
  <2>3. r.status = "terminated" => r.termination # Null
    BY <1>1, <1>6, <2>1 DEF SqlOr, SqlDiffers, Sql
  <2> QED
    BY <1>1, <2>2, <2>3, RulesAssumption
       DEF TerminationAfterActivation, TerminationDateOnTerminatedContract
<1> QED
  BY <1>1, <1>3, <1>4, <1>5, <1>7, <1>8 DEF ValidContract

LEMMA StatementReads ==
    ASSUME NEW r \in Columns("financial_statements"), InsertsStatement(r)
    PROVE  ValidStatement(r)
<1>1. /\ r.year \in Int
      /\ \A f \in {"revenue", "debt", "cash", "capital", "income", "ebitda"} :
             r[f] \in Int /\ -WideLimit < r[f] /\ r[f] < WideLimit
  BY DEF InsertsStatement, NotNull, Columns, FitsNumeric
<1>2. /\ SqlLeq(FirstFiscalYear, r.year) # "false"
      /\ \A f \in {"revenue", "capital", "debt", "cash"} : SqlLeq(0, r[f]) # "false"
  BY DEF InsertsStatement, Pass
<1>3. /\ FirstFiscalYear <= r.year
      /\ \A f \in {"revenue", "capital", "debt", "cash"} : 0 <= r[f]
  BY <1>1, <1>2, NotFalse, RulesAssumption
<1> QED
  BY <1>1, <1>3, RulesAssumption DEF ValidStatement, FinancialAmount, FinancialAmountGeZero

LEMMA InvoiceReads ==
    ASSUME NEW r \in Columns("invoices"), InsertsInvoice(r)
    PROVE  ValidInvoice(r)
<1>1. /\ \A f \in {"net", "tax", "total"} :
             r[f] \in Int /\ -WideLimit < r[f] /\ r[f] < WideLimit
      /\ r.issue \in Int /\ r.due \in Int /\ r.commodity # Null /\ r.status # Null
      /\ r.kwh \in {Null} \cup Int /\ r.scm \in {Null} \cup Int
  BY DEF InsertsInvoice, NotNull, Columns, FitsNumeric
<1>2. /\ Pass(InvoiceChecks(r))
      /\ FitsNumeric(r.kwh, NarrowLimit) /\ FitsNumeric(r.scm, NarrowLimit)
  BY DEF InsertsInvoice
<1>3. /\ r.issue <= r.due /\ r.total = r.net + r.tax /\ 0 <= r.net /\ 0 <= r.tax
      /\ r.status \in Literals.invoice /\ r.commodity \in Literals.commodity
  <2>1. /\ SqlLeq(r.issue, r.due) # "false" /\ Sql(r.total = r.net + r.tax) # "false"
        /\ SqlIn(r.status, Listed.invoice) # "false"
        /\ SqlIn(r.commodity, Listed.commodity) # "false"
        /\ SqlLeq(0, r.net) # "false" /\ SqlLeq(0, r.tax) # "false"
    BY <1>2 DEF Pass, InvoiceChecks
  <2>2. r.total = r.net + r.tax
    BY <2>1 DEF Sql
  <2> QED
    BY <1>1, <2>1, <2>2, NotFalse, Vocabularies
<1>4. Quantity(r.kwh) /\ Quantity(r.scm)
  <2>1. /\ SqlOr(Sql(r.kwh = Null), SqlLeq(0, r.kwh)) # "false"
        /\ SqlOr(Sql(r.scm = Null), SqlLeq(0, r.scm)) # "false"
    BY <1>2 DEF Pass, InvoiceChecks
  <2>2. /\ r.kwh # Null => SqlLeq(0, r.kwh) # "false"
        /\ r.scm # Null => SqlLeq(0, r.scm) # "false"
    BY <2>1, NotFalse
  <2> QED
    BY <1>1, <1>2, <2>2, NotFalse DEF Quantity, FitsNumeric
<1>5. ElectricityInvoiceConstraints(r) /\ GasInvoiceConstraints(r)
  <2>1. /\ SqlOr(SqlDiffers(r.commodity, "electricity"),
                 Sql(r.kwh # Null /\ r.scm = Null)) # "false"
        /\ SqlOr(SqlDiffers(r.commodity, "gas"),
                 Sql(r.scm # Null /\ r.kwh = Null)) # "false"
    BY <1>2 DEF Pass, InvoiceChecks
  <2>2. Null # "electricity" /\ Null # "gas"
    BY Vocabularies DEF Literals
  <2> QED
    BY <1>1, <2>1, <2>2 DEF ElectricityInvoiceConstraints, GasInvoiceConstraints,
        SqlOr, SqlDiffers, Sql
<1>6. \A f \in {"net", "tax", "total"} : FinancialAmountGeZero(r[f])
  BY <1>1, <1>3 DEF FinancialAmountGeZero, FinancialAmount
<1> QED
  BY <1>1, <1>3, <1>4, <1>5, <1>6 DEF ValidInvoice, AmountIntegrity, DueDateAfterIssueDate

LEMMA PaymentReads ==
    ASSUME NEW r \in Columns("payments"), NEW date \in Int, NEW today \in Int,
           date <= today, InsertsPayment(r, date)
    PROVE  ValidPayment(r, today)
<1>1. /\ r.date \in Int /\ r.amount \in Int /\ r.method # Null /\ r.status # Null
      /\ -WideLimit < r.amount /\ r.amount < WideLimit
  BY DEF InsertsPayment, NotNull, Columns, FitsNumeric
<1>2. /\ SqlIn(r.method, Listed.method) # "false" /\ SqlIn(r.status, Listed.payment) # "false"
      /\ SqlLess(0, r.amount) # "false" /\ SqlLeq(r.date, date) # "false"
  BY DEF InsertsPayment, Pass
<1>3. /\ r.method \in Literals.method /\ r.status \in Literals.payment
      /\ 0 < r.amount /\ r.date <= date
  BY <1>1, <1>2, NotFalse, Vocabularies
<1> QED
  BY <1>1, <1>3 DEF ValidPayment, InsertsPayment, FinancialAmount, FitsText, MaxLength

LEMMA TicketReads ==
    ASSUME NEW r \in Columns("crm_support_tickets"), NEW ts \in Instants,
           NEW now \in Instants, ~ Earlier(now, ts), InsertsTicket(r, ts)
    PROVE  ValidTicket(r, now)
<1>1. /\ r.category # Null /\ r.created \in Instants
      /\ r.resolved \in {Null} \cup Instants /\ r.score \in {Null} \cup Int
  BY DEF InsertsTicket, NotNull, Columns
<1>2. /\ SqlNotAfter(r.created, r.resolved) # "false"
      /\ (IF r.score = Null THEN "unknown" ELSE Sql(1 <= r.score /\ r.score <= 5)) # "false"
      /\ SqlOr(Sql(r.resolved # Null), Sql(r.score = Null)) # "false"
      /\ SqlIn(r.category, Listed.category) # "false"
      /\ SqlNotAfter(r.created, ts) # "false"
  BY DEF InsertsTicket, Pass
<1>3. Null \notin Instants
  BY NullAssumption
<1>4. /\ r.category \in Literals.category /\ ~ Earlier(ts, r.created)
      /\ r.resolved # Null => ~ Earlier(r.resolved, r.created)
  BY <1>1, <1>2, <1>3, NotFalse, Vocabularies
<1>5. r.score = Null \/ r.score \in 1 .. 5
  BY <1>1, <1>2 DEF Sql
<1>6. r.score # Null => r.resolved # Null
  BY <1>2 DEF SqlOr, Sql
<1>7. ~ Earlier(now, r.created)
  BY <1>1, <1>4, EarlierLaws
<1> QED
  BY <1>1, <1>4, <1>5, <1>6, <1>7 DEF ValidTicket, ResolutionAfterCreation, FeedbackValidation

LEMMA LoginReads ==
    ASSUME NEW r \in Columns("user_web_logins"), NEW ts \in Instants,
           NEW now \in Instants, ~ Earlier(now, ts), InsertsLogin(r, ts),
           WellFormed("user_web_logins", r)
    PROVE  ValidLogin(r, now)
<1>1. /\ r.user \in Int /\ r.at \in Instants /\ r.address # Null /\ r.device # Null
  BY DEF InsertsLogin, NotNull, Columns
<1>2. SqlIn(r.device, Listed.device) # "false" /\ SqlNotAfter(r.at, ts) # "false"
  BY DEF InsertsLogin, Pass
<1>3. Null \notin Instants
  BY NullAssumption
<1>4. r.device \in Literals.device /\ ~ Earlier(ts, r.at)
  BY <1>1, <1>2, <1>3, NotFalse, Vocabularies
<1>5. ~ Earlier(now, r.at)
  BY <1>1, <1>4, EarlierLaws
<1> QED
  BY <1>1, <1>4, <1>5 DEF ValidLogin, WellFormed, MaxLength

LEMMA StoredReads ==
    ASSUME NEW t \in Tables, NEW r \in Columns(t), NEW now \in Instants, NEW date \in Int,
           NEW ts \in Instants, date <= now.day, ~ Earlier(now, ts),
           Inserts(t, r, date, ts), WellFormed(t, r)
    PROVE  Validates(t, r, now)
<1>1. now.day \in Int
  BY DEF Instants
<1>2. CASE t = "companies"
  BY <1>1, <1>2, CompanyReads DEF Validates, Inserts
<1>3. CASE t = "energy_contracts"
  BY <1>3, ContractReads DEF Validates, Inserts
<1>4. CASE t = "financial_statements"
  BY <1>4, StatementReads DEF Validates, Inserts
<1>5. CASE t = "invoices"
  BY <1>5, InvoiceReads DEF Validates, Inserts
<1>6. CASE t = "payments"
  BY <1>1, <1>6, PaymentReads DEF Validates, Inserts
<1>7. CASE t = "crm_support_tickets"
  BY <1>7, TicketReads DEF Validates, Inserts
<1>8. CASE t = "user_web_logins"
  BY <1>8, LoginReads DEF Validates, Inserts
<1> QED
  BY <1>2, <1>3, <1>4, <1>5, <1>6, <1>7, <1>8 DEF Tables

(* A row of its columns' types that no constraint of its table refuses is read back
   by its Pydantic schema, at any later instant and whatever the widths of the columns,
   but for the forms of texts that only the schemas look at. *)
THEOREM ConstraintsImplySchemas == Spec => []StoredRowsRead
<1>1. IInv => StoredRowsRead
  <2> SUFFICES ASSUME IInv, NEW t \in Tables, NEW r \in Records[t], r \in Columns(t),
                      Inserts(t, r, clock.currentDate, clock.currentTimestamp),
                      clock.currentDate <= clock.now.day,
                      ~ Earlier(clock.now, clock.currentTimestamp), WellFormed(t, r)
               PROVE  Validates(t, r, clock.now)
    BY DEF StoredRowsRead
  <2>1. clock \in Clock
    BY SeedingAssumption DEF IInv, TypeOK
  <2>2. /\ clock.now \in Instants /\ clock.currentDate \in Int
        /\ clock.currentTimestamp \in Instants
    BY <2>1 DEF Clock
  <2>3. QED
    BY <2>2, StoredReads
<1>2. QED
  BY <1>1, Invariance, PTL
=============================================================================
