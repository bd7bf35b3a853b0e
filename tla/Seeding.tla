------------------------------- MODULE Seeding -------------------------------
(***************************************************************************)
(* simulation/seed.py: one transaction in which companies are generated    *)
(* with their contracts and, year by year and month by month, statements,  *)
(* invoices, payments, tickets and logins.  Every row is validated by its  *)
(* Pydantic schema and then judged by the constraints of its table         *)
(* (OltpRules); the first that is refused rolls everything back.           *)
(*                                                                         *)
(* The random draws are choices.  The rows kept are those of the company   *)
(* being generated, since no later one touches them, and of the telemetry  *)
(* only whether it is accepted.                                            *)
(***************************************************************************)
EXTENDS OltpRules, FiniteSets

CONSTANTS
    Vats,           \* VAT numbers a company may draw
    NumCompanies,   \* companies of one run
    Years,          \* the calendar's years,
    StartYears,     \* those in which a company may have been founded,
    EndYear,        \* and the last to be simulated: 2026,
    LastMonth,      \*   up to this month: 7
    MonthsPerYear,
    FirstOf,        \* the first and
    LastOf,         \*   the last day of each year's months
    Clocks,         \* what the clocks may say of a run; see Clock below
    DueIn,          \* 20: days from issue to due date
    PaidAfter,      \* 2..11 and 13..43: days from issue to payment
    FailedAfter,    \* 3..13: days from issue to a failed payment
    ResolvedAfter,  \* 1..11: days from the creation of a ticket
    Scores,         \* 1..5
    Hours,          \* times within a day at which telemetry is stamped
    Amounts, Taxes, \* cents and units on a statement or an invoice
    Powers,         \* committed power and
    MeterLengths,   \*   length of the meter class, by company size
    PayMethods,     \* direct_debit, bank_transfer, credit_card
    Records         \* rows on which the two layers are compared, by table

Commodities == {"electricity", "gas"}
Sizes == {"small", "medium", "large"}
Months == 1 .. MonthsPerYear

(* TODAY, fixed when the module is imported, in the process's time zone; the
   UTC instant of the first validation (later ones accept more); CURRENT_DATE
   and CURRENT_TIMESTAMP of the transaction. *)
Clock == [today : Int, now : Instants,
          currentDate : Int, currentTimestamp : Instants]

ASSUME SeedingAssumption ==
    /\ NumCompanies \in Nat \ {0}
    /\ Years \subseteq Nat
    /\ StartYears \subseteq Years
    /\ EndYear \in Years
    /\ MonthsPerYear \in Nat \ {0}
    /\ LastMonth \in Months
    /\ \A y \in StartYears : y >= FirstFiscalYear /\ y < EndYear /\ y .. EndYear \subseteq Years
    /\ EndYear < IntegerLimit
    /\ Clocks \subseteq Clock
    /\ Hours \subseteq Nat

ASSUME CalendarAssumption ==
    /\ FirstOf \in [Years -> [Months -> Int]]
    /\ LastOf \in [Years -> [Months -> Int]]
    /\ \A y \in Years, m \in Months : FirstOf[y][m] < LastOf[y][m]
    /\ \A y \in Years, m \in Months, z \in Years, n \in Months :
           y < z \/ (y = z /\ m < n) => LastOf[y][m] < FirstOf[z][n]
    /\ \A y \in StartYears : FirstOf[y][1] >= FirstActivation

ASSUME DrawsAssumption ==
    /\ DueIn \in Nat
    /\ (PaidAfter \cup FailedAfter \cup ResolvedAfter) \subseteq Nat
    /\ Scores \subseteq 1 .. 5
    /\ Amounts \subseteq 1 .. NarrowLimit - 1
    /\ Amounts \cup Taxes \subseteq 0 .. WideLimit - 1
    /\ \A a \in Amounts, t \in Taxes : a + t < WideLimit
    /\ Powers \in [Sizes -> SUBSET (1 .. NarrowLimit - 1)]
    /\ MeterLengths \in [Sizes -> SUBSET (1 .. MeterWidth)]
    /\ PayMethods \subseteq {"direct_debit", "bank_transfer", "credit_card"}
    /\ FormWidth >= 6 /\ TextWidth >= 37 /\ AddressWidth >= 15

VARIABLES
    script,      \* where run_seeding is
    cause,       \* why the last run failed, if it did
    clock,       \* the clocks of the run
    db,          \* the companies committed
    pending,     \* those of the open transaction, the last one being generated
    contracts,   \* db_contracts_map of that company
    founded,     \* its foundation year
    year, month, \* the loops over years and months
    turn,        \* the commodity whose month comes next
    terminates,  \* termination_month_by_commodity
    prev,        \* the year of prev_fin_data
    risk,        \* the year of risk_driving_fin_data
    invoices, payments

loop == <<year, month, turn>>
rows == <<contracts, invoices, payments>>
driver == <<founded, terminates, prev, risk>>
vars == <<script, cause, clock, db, pending, loop, rows, driver>>

Running == {"next", "year", "bill", "close"}
Ended == {"idle", "committed", "failed"}

-----------------------------------------------------------------------------
(* Rows, validation and insertion *)

(* What stops a set of new rows, each with its table: `validated` raises, or
   the flush does. *)
Rejection(new) ==
    IF \E n \in new : ~ Validates(n[1], n[2], clock.now) THEN "validation"
    ELSE IF \E n \in new : ~ Inserts(n[1], n[2], clock.currentDate, clock.currentTimestamp)
    THEN "constraint" ELSE "none"

(* An update of a row in the session is flushed without validation. *)
Refused(updated) ==
    \E c \in DOMAIN updated : ~ InsertsContract(updated[c])

(* The exception of run_seeding: rollback, and the script ends. *)
Raise(why) ==
    /\ script' = "failed"
    /\ cause' = why
    /\ pending' = {}
    /\ contracts' = <<>>
    /\ invoices' = {}
    /\ payments' = {}
    /\ UNCHANGED <<clock, db, loop, driver>>

CompanyRow(y) ==
    [vat |-> [length |-> 11, digits |-> TRUE], name |-> "legal name",
     form |-> [length |-> 6], sector |-> "services",
     region |-> [length |-> 21], founded |-> FirstOf[y][1]]

Level(size) ==
    CASE size = "small" -> "low" [] size = "medium" -> "medium" [] size = "large" -> "high"

ContractRow(c, y, size, power, meter) ==
    [commodity |-> c, market |-> "deregulated",
     voltage |-> IF c = "electricity" THEN Level(size) ELSE Null,
     power |-> IF c = "electricity" THEN power ELSE Null,
     pressure |-> IF c = "gas" THEN Level(size) ELSE Null,
     meter |-> IF c = "gas" THEN [prefix |-> TRUE, digits |-> TRUE, length |-> meter]
               ELSE Null,
     activation |-> FirstOf[y][1], termination |-> Null, status |-> "active"]

StatementRow(y, a, loss) ==
    [year |-> y, revenue |-> a, debt |-> a, cash |-> a, capital |-> a,
     income |-> IF loss THEN -a ELSE a, ebitda |-> IF loss THEN -a ELSE a]

-----------------------------------------------------------------------------
(* run_seeding and the beginning of generate_company_history *)

Start ==
    /\ script \in Ended
    /\ script' = "next"
    /\ cause' = "none"
    /\ clock' \in Clocks
    /\ contracts' = <<>>
    /\ invoices' = {}
    /\ payments' = {}
    /\ UNCHANGED <<db, pending, loop, driver>>

(* The company and its contracts; electricity always, gas by its sector. *)
GenerateCompany ==
    /\ script = "next"
    /\ Cardinality(pending) < NumCompanies
    /\ \E vat \in Vats, y \in StartYears, size \in Sizes,
          supplied \in {{"electricity"}, Commodities} :
       \E power \in Powers[size], meter \in MeterLengths[size] :
           LET new == [c \in supplied |-> ContractRow(c, y, size, power, meter)]
               why == Rejection({<<"companies", CompanyRow(y)>>} \cup
                                {<<"energy_contracts", new[c]>> : c \in supplied})
           IN  IF why # "none" THEN Raise(why)
               ELSE IF vat \in db \cup pending THEN Raise("unique")
               ELSE /\ script' = "year"
                    /\ pending' = pending \cup {vat}
                    /\ contracts' = new
                    /\ invoices' = {}
                    /\ payments' = {}
                    /\ founded' = y
                    /\ year' = y
                    /\ prev' = Null
                    /\ terminates' = [c \in supplied |-> Null]
                    /\ UNCHANGED <<cause, clock, db, month, turn, risk>>

-----------------------------------------------------------------------------
(* A year: its statement, the contracts' status, the months, terminations *)

(* The margin decides: below -0.07, above 0.04, or between. *)
Restated(k, margin) ==
    IF k.status = "terminated" THEN k
    ELSE IF margin = "crisis" THEN [k EXCEPT !.status = "suspended"]
    ELSE IF margin = "healthy" /\ k.status = "suspended" THEN [k EXCEPT !.status = "active"]
    ELSE k

RiskDrivingYear == IF prev # Null THEN prev ELSE year

BeginYear ==
    /\ script = "year"
    /\ \E a \in Amounts, loss \in BOOLEAN, margin \in {"crisis", "weak", "healthy"} :
           LET why == Rejection({<<"financial_statements", StatementRow(year, a, loss)>>})
               restated == [c \in DOMAIN contracts |-> Restated(contracts[c], margin)]
           IN  IF why # "none" THEN Raise(why)
               ELSE IF Refused(restated) THEN Raise("constraint")
               ELSE /\ script' = "bill"
                    /\ contracts' = restated
                    /\ risk' = RiskDrivingYear
                    /\ month' = 1
                    /\ turn' = "electricity"
                    /\ terminates' \in [DOMAIN contracts ->
                           {Null} \cup (IF year = EndYear THEN 1 .. LastMonth ELSE {})]
                    /\ \A c \in DOMAIN contracts :
                           contracts[c].status = "terminated" => terminates'[c] = Null
                    /\ UNCHANGED <<cause, clock, db, pending, invoices, payments,
                                   founded, year, prev>>

(* Mutant: the month of the termination is still billed. *)
EffectiveStatusOneMonthLate(c) ==
    IF terminates[c] # Null /\ month > terminates[c] THEN "terminated"
    ELSE contracts[c].status

EffectiveStatus(c) ==
    IF terminates[c] # Null /\ month >= terminates[c] THEN "terminated"
    ELSE contracts[c].status

LastBilled == IF year = EndYear THEN LastMonth ELSE MonthsPerYear

(* On to the other commodity, the next month, or the end of the year. *)
Advance ==
    IF turn = "electricity" /\ "gas" \in DOMAIN contracts
    THEN turn' = "gas" /\ UNCHANGED <<script, year, month>>
    ELSE IF month < LastBilled
    THEN turn' = "electricity" /\ month' = month + 1 /\ UNCHANGED <<script, year>>
    ELSE script' = "close" /\ UNCHANGED loop

(* simulate_operational_telemetry returns nothing: always for a terminated
   contract, most months for a suspended one. *)
SkipMonth ==
    /\ script = "bill"
    /\ EffectiveStatus(turn) \in {"terminated", "suspended"}
    /\ Advance
    /\ UNCHANGED <<cause, clock, db, pending, rows, driver>>

(* Mutant: days are drawn up to today itself. *)
MaxDayAfterToday ==
    LET first == FirstOf[year][month]
        last == LastOf[year][month]
    IN  IF first <= clock.today /\ clock.today <= last
        THEN clock.today - first + 2 ELSE last - first + 1

(* _max_day_for_month; the draws exclude the bound. *)
MaxDay ==
    LET first == FirstOf[year][month]
        last == LastOf[year][month]
    IN  IF first <= clock.today /\ clock.today <= last
        THEN clock.today - first + 1 ELSE last - first + 1

Stamp(d, h) == [day |-> FirstOf[year][month] + d - 1, time |-> h]

(* The roll of the dice, and its correction when the payment would be made
   after today. *)
Outcomes ==
    [behavior : {"completed"}, status : {"paid"}, days : PaidAfter] \cup
    [behavior : {"failed"}, status : {"unpaid"}, days : FailedAfter] \cup
    [behavior : {"unpaid"}, status : {"overdue"}, days : {Null}]

(* Mutant: only the days are corrected, and the invoice stays paid. *)
AsOfTodayButStatus(o, issue) ==
    IF o.days # Null /\ issue + o.days > clock.today
    THEN [o EXCEPT !.days = Null] ELSE o

AsOfToday(o, issue) ==
    IF o.days # Null /\ issue + o.days > clock.today
    THEN IF o.behavior = "completed"
         THEN [behavior |-> "unpaid", status |-> "overdue", days |-> Null]
         ELSE [o EXCEPT !.days = Null]
    ELSE o

InvoiceRow(c, used, net, tax, o) ==
    [year |-> year, month |-> month, risk |-> risk, commodity |-> c,
     kwh |-> IF c = "electricity" THEN used ELSE Null,
     scm |-> IF c = "gas" THEN used ELSE Null,
     net |-> net, tax |-> tax, total |-> net + tax,
     issue |-> FirstOf[year][month], due |-> FirstOf[year][month] + DueIn,
     status |-> o.status]

PaymentsOf(i, o, method) ==
    IF o.days = Null THEN {}
    ELSE {[year |-> i.year, month |-> i.month, commodity |-> i.commodity,
           date |-> i.issue + o.days, amount |-> i.total, method |-> method,
           reference |-> [length |-> 37],
           status |-> IF o.behavior = "completed" THEN "completed" ELSE "failed"]}

(* The tickets of a month: none, or one, resolved and scored or still open. *)
Tickets ==
    LET days == 1 .. MaxDay - 1
        ticket(d, h, resolved, score) ==
            [category |-> "billing", created |-> Stamp(d, h),
             resolved |-> resolved, score |-> score]
    IN  {{}} \cup
        {{ticket(d, h, Null, Null)} : d \in days, h \in Hours} \cup
        {{ticket(d, h, Stamp(d + k, h), s)} :
             d \in days, h \in Hours, k \in ResolvedAfter, s \in Scores}

Logins ==
    {[user |-> 101, at |-> Stamp(d, h), device |-> "desktop",
      address |-> [length |-> 15, inet |-> TRUE]] : d \in 1 .. MaxDay - 1, h \in Hours}

(* simulate_operational_telemetry and persist_billing_and_telemetry; the
   draw of a day from an empty range raises. *)
Bill ==
    /\ script = "bill"
    /\ EffectiveStatus(turn) \in {"active", "suspended"}
    /\ IF MaxDay <= 1 THEN Raise("range")
       ELSE \E used \in Amounts, net \in Amounts, tax \in Taxes, drawn \in Outcomes,
               method \in PayMethods, tickets \in Tickets, login \in Logins :
            LET o == AsOfToday(drawn, FirstOf[year][month])
                invoice == InvoiceRow(turn, used, net, tax, o)
                paid == PaymentsOf(invoice, o, method)
                why == Rejection({<<"invoices", invoice>>, <<"user_web_logins", login>>} \cup
                                 ({"payments"} \X paid) \cup
                                 ({"crm_support_tickets"} \X tickets))
            IN  IF why # "none" THEN Raise(why)
                ELSE /\ invoices' = invoices \cup {invoice}
                     /\ payments' = payments \cup paid
                     /\ Advance
                     /\ UNCHANGED <<cause, clock, db, pending, contracts, driver>>

(* Terminations are written once the year has been billed. *)
Terminated(c) ==
    IF terminates[c] = Null THEN contracts[c]
    ELSE [contracts[c] EXCEPT !.status = "terminated",
                              !.termination = FirstOf[EndYear][terminates[c]]]

CloseYear ==
    /\ script = "close"
    /\ LET updated == [c \in DOMAIN contracts |-> Terminated(c)]
       IN  IF Refused(updated) THEN Raise("constraint")
           ELSE /\ contracts' = updated
                /\ prev' = year
                /\ terminates' = [c \in DOMAIN contracts |-> Null]
                /\ IF year < EndYear
                   THEN script' = "year" /\ year' = year + 1
                   ELSE script' = "next" /\ UNCHANGED year
                /\ UNCHANGED <<cause, clock, db, pending, month, turn, invoices,
                               payments, founded, risk>>

-----------------------------------------------------------------------------
(* The end of run_seeding *)

Commit ==
    /\ script = "next"
    /\ Cardinality(pending) >= NumCompanies
    /\ db' = db \cup pending
    /\ pending' = {}
    /\ script' = "committed"
    /\ UNCHANGED <<cause, clock, loop, rows, driver>>

(* Anything else that goes wrong, such as a lost connection. *)
Break == script \in Running /\ Raise("other")

Init ==
    /\ script = "idle"
    /\ cause = "none"
    /\ clock \in Clocks
    /\ db = {}
    /\ pending = {}
    /\ contracts = <<>>
    /\ founded \in StartYears
    /\ year = founded
    /\ month = 1
    /\ turn = "electricity"
    /\ terminates = <<>>
    /\ prev = Null
    /\ risk = founded
    /\ invoices = {}
    /\ payments = {}

Next ==
    \/ Start \/ GenerateCompany \/ BeginYear \/ SkipMonth \/ Bill \/ CloseYear
    \/ Commit \/ Break

Spec == Init /\ [][Next]_vars

-----------------------------------------------------------------------------
(* Properties *)

InvoiceKeys == [year : Years, month : Months, commodity : Commodities]
Key(r) == [year |-> r.year, month |-> r.month, commodity |-> r.commodity]

(* The state is one the script can be in: its loops stay in the calendar, its
   rows belong to contracts of the company. *)
TypeOK ==
    /\ script \in Running \cup Ended
    /\ cause \in {"none", "range", "validation", "constraint", "unique", "other"}
    /\ clock \in Clocks
    /\ db \subseteq Vats
    /\ pending \subseteq Vats
    /\ founded \in StartYears
    /\ year \in founded .. EndYear
    /\ month \in Months
    /\ turn \in Commodities
    /\ prev \in Years \cup {Null}
    /\ risk \in Years
    /\ script \in Running \ {"next"} =>
           /\ DOMAIN contracts \in {{"electricity"}, Commodities}
           /\ terminates \in [DOMAIN contracts -> 1 .. LastMonth \cup {Null}]
    /\ \A r \in invoices \cup payments : Key(r) \in InvoiceKeys

(* The clocks with which the seed is meant to be run: at least the second day
   of the last simulated month, and neither UTC nor the database behind the
   process. *)
Ripe ==
    /\ clock.today > FirstOf[EndYear][LastMonth]
    /\ clock.today <= clock.now.day
    /\ clock.today <= clock.currentDate
    /\ clock.today <= clock.currentTimestamp.day

(* With such clocks nothing the simulation draws is refused, by Python, by
   Pydantic or by the database: no timestamp or payment in the future, no
   empty range, no contract ended before it began.  One refusal would cost
   the transaction of all companies. *)
RipeRunsAreNotRefused ==
    Ripe => cause \notin {"range", "validation", "constraint"}

(* The ledger is consistent although status, days and behaviour are corrected
   for payments still to come: an invoice is paid exactly if a completed
   payment of its whole amount is recorded, no other payment is completed, and
   no payment is later than today. *)
PaidIffSettled ==
    /\ \A i \in invoices :
           i.status = "paid" <=>
               \E p \in payments : /\ Key(p) = Key(i)
                                   /\ p.status = "completed"
                                   /\ p.amount = i.total
    /\ \A p \in payments :
           /\ p.date <= clock.today
           /\ \E i \in invoices : Key(i) = Key(p) /\ i.issue <= p.date

(* A contract is terminated exactly if it has a termination date, written after
   the whole year has been billed, and no invoice is issued on or after it. *)
BilledUntilTermination ==
    \A c \in DOMAIN contracts :
        /\ contracts[c].status = "terminated" <=> contracts[c].termination # Null
        /\ contracts[c].termination # Null =>
               \A i \in invoices :
                   i.commodity = c => i.issue < contracts[c].termination

(* At the end of a year an active contract has exactly one invoice for every
   simulated month before its termination, and none for another. *)
ActiveMonthsAreBilled ==
    script = "close" =>
        \A c \in DOMAIN contracts :
            contracts[c].status = "active" =>
                \A m \in Months :
                    LET billed == {i \in invoices : Key(i) = [year |-> year, month |-> m, commodity |-> c]}
                        due == /\ year = EndYear => m <= LastMonth
                               /\ terminates[c] # Null => m < terminates[c]
                    IN  /\ due <=> billed # {}
                        /\ \A i, j \in billed : i = j

(* A contract is billed for exactly the months in which it is active: although
   its end is decided before the months it has still to be billed for, and
   written after them. *)
BilledWhileActive == BilledUntilTermination /\ ActiveMonthsAreBilled

(* Behaviour follows the finances of the year before, so that what is billed in
   a year does not give away that year's statement; only a company's first year
   has nothing before it. *)
DrivenByLastYear ==
    \A i \in invoices :
        i.risk = IF i.year = founded THEN founded ELSE i.year - 1

(* The companies of a run are committed together or not at all: an exception
   at any point of any of them leaves the database as it was. *)
AllOrNothing ==
    [][db' # db => /\ db \subseteq db'
                   /\ Cardinality(db' \ db) = NumCompanies]_vars

-----------------------------------------------------------------------------
(* The two layers compared on any rows *)

(* What the schemas let through and the columns do not hold. *)
FitsColumns(table, r) ==
    /\ table = "energy_contracts" /\ r.meter # Null => r.meter.length <= MeterWidth
    /\ table = "financial_statements" => r.year < IntegerLimit
    /\ table = "user_web_logins" /\ r.address # Null => r.address.inet

(* What the columns hold and only the schemas look at: the forms of texts, and
   identifiers above 0. *)
WellFormed(table, r) ==
    /\ table = "companies" => r.vat # Null /\ r.vat.length = 11 /\ r.vat.digits
    /\ table = "energy_contracts" /\ r.meter # Null => r.meter.digits
    /\ table = "user_web_logins" => r.user > 0 /\ r.address.length <= AddressWidth

(* A row that its schema accepts by the time the transaction begins, in UTC and
   in the session's time zone, breaks no constraint of its table, provided it
   fits the columns where the schema does not ask. *)
AcceptedRowsInsert ==
    script = "idle" =>
        \A t \in Tables : \A r \in Records[t] :
            /\ Validates(t, r, clock.now)
            /\ clock.now.day <= clock.currentDate
            /\ ~ Earlier(clock.currentTimestamp, clock.now)
            /\ FitsColumns(t, r)
            => Inserts(t, r, clock.currentDate, clock.currentTimestamp)

(* A row of the columns' types that the constraints let in can be read back
   through the schema, by then: the CHECKs leave no gap under NULLs, but for the
   forms of texts. *)
StoredRowsRead ==
    script = "idle" =>
        \A t \in Tables : \A r \in Records[t] :
            /\ r \in Columns(t)
            /\ Inserts(t, r, clock.currentDate, clock.currentTimestamp)
            /\ clock.currentDate <= clock.now.day
            /\ ~ Earlier(clock.now, clock.currentTimestamp)
            /\ WellFormed(t, r)
            => Validates(t, r, clock.now)
=============================================================================
