---------------------------- MODULE StarSchema ----------------------------
(***************************************************************************)
(* The star schema that `dbt build` makes of the operational tables: two    *)
(* SCD-2 snapshots, the company/month spine, the company version and the    *)
(* trailing billing window as of each month, the insolvency label, and the  *)
(* two marts that training and inference read.                              *)
(*                                                                          *)
(* dbt runs the nodes of the project in dependency order and each model's   *)
(* tests right after it; what depends on a node that failed is skipped.     *)
(* One action is one node that leaves a table behind.  The other models are *)
(* views: they are operators, evaluated when a table is built from them.    *)
(*                                                                          *)
(* Days are real day numbers.  A row that SQL would return more than once   *)
(* carries the company version it comes from, so duplicates stay apart.     *)
(***************************************************************************)
EXTENDS Integers, FiniteSets

CONSTANTS
    Companies, Contracts, Invoices,
    Owner,          \* the company of each contract
    BilledTo,       \* the contract of each invoice
    Founded,        \* foundation_date of each company
    Values,         \* values of the columns in check_cols of a snapshot
    Days,           \* the days on which something happens
    MonthStarts,    \* those of them that are the first of a month
    BillingDays,    \* those of them on which invoices are issued
    Terms,          \* days from issue to due date
    Window,         \* 120: how far back the billing window looks
    DefaultDays,    \* 90: days past due that make a company insolvent
    MaxChanges,     \* bound: updates of tracked columns
    MaxPayments,    \* bound: completed payments of one invoice
    MaxBuilds       \* bound: runs of dbt build

Absent == "absent"  \* not in the operational table yet
Never == -1         \* SQL null in a date column

ASSUME DaysAssumption ==
    /\ Days \subseteq Nat
    /\ MonthStarts \subseteq Days
    /\ BillingDays \subseteq Days
    /\ Terms \subseteq Nat
    /\ Window \in Nat
    /\ DefaultDays \in Nat

ASSUME RelationsAssumption ==
    /\ Owner \in [Contracts -> Companies]
    /\ BilledTo \in [Invoices -> Contracts]
    /\ Founded \in [Companies -> Days]
    /\ Absent \notin Values

Nodes == {"companies_snapshot", "contracts_snapshot", "spine", "dim", "fact"}

VARIABLES
    today,
    company,            \* tracked columns of each company
    contract,           \* tracked columns of each contract
    due,                \* due date of each invoice
    paid,               \* dates of the completed payments of each invoice
    changes,            \* updates so far
    companyVersions,    \* companies_snapshot
    contractVersions,   \* energy_contracts_snapshot
    spine,              \* int_company_date_spine
    dim,                \* dim_companies
    fact,               \* fct_company_credit_profile
    build,              \* nodes the running dbt build has still to run
    result,             \* how the latest build went
    builtOn,            \* the day it started
    builds              \* builds started so far

oltp == <<company, contract, due, paid, changes>>
snapshots == <<companyVersions, contractVersions>>
marts == <<spine, dim, fact>>
vars == <<today, oltp, snapshots, marts, build, result, builtOn, builds>>

Version(Ids) ==
    [id : Ids, values : Values, from : Nat, to : Days \cup {Never}]

TypeOK ==
    /\ today \in Days
    /\ company \in [Companies -> Values \cup {Absent}]
    /\ contract \in [Contracts -> Values \cup {Absent}]
    /\ due \in [Invoices -> Nat \cup {Never}]
    /\ paid \in [Invoices -> SUBSET Days]
    /\ changes \in Nat
    /\ companyVersions \subseteq Version(Companies)
    /\ contractVersions \subseteq Version(Contracts)
    /\ spine \subseteq
           [company : Companies, date : MonthStarts, of : Version(Companies)]
    /\ dim \subseteq Version(Companies)
    /\ fact \subseteq
           [company : Companies, date : MonthStarts, of : Version(Companies),
            key : Nat, insolvent : BOOLEAN,
            debt : SUBSET (Invoices \X Version(Contracts))]
    /\ build \subseteq Nodes
    /\ result \in {"none", "running", "success", "error"}
    /\ builtOn \in Days \cup {Never}
    /\ builds \in Nat

Init ==
    /\ today \in Days
    /\ \A d \in Days : today <= d
    /\ company = [c \in Companies |-> Absent]
    /\ contract = [k \in Contracts |-> Absent]
    /\ due = [i \in Invoices |-> Never]
    /\ paid = [i \in Invoices |-> {}]
    /\ changes = 0
    /\ companyVersions = {}
    /\ contractVersions = {}
    /\ spine = {}
    /\ dim = {}
    /\ fact = {}
    /\ build = {}
    /\ result = "none"
    /\ builtOn = Never
    /\ builds = 0

(***************************************************************************)
(* The operational database.                                                *)
(***************************************************************************)

InsertCompany(c) ==
    /\ company[c] = Absent
    /\ Founded[c] <= today      \* past_foundation_date_constraint
    /\ \E x \in Values : company' = [company EXCEPT ![c] = x]
    /\ UNCHANGED <<contract, due, paid, changes>>

InsertContract(k) ==
    /\ contract[k] = Absent
    /\ company[Owner[k]] # Absent
    /\ \E x \in Values : contract' = [contract EXCEPT ![k] = x]
    /\ UNCHANGED <<company, due, paid, changes>>

UpdateCompany(c) ==
    /\ company[c] # Absent
    /\ changes < MaxChanges
    /\ \E x \in Values \ {company[c]} : company' = [company EXCEPT ![c] = x]
    /\ changes' = changes + 1
    /\ UNCHANGED <<contract, due, paid>>

UpdateContract(k) ==
    /\ contract[k] # Absent
    /\ changes < MaxChanges
    /\ \E x \in Values \ {contract[k]} : contract' = [contract EXCEPT ![k] = x]
    /\ changes' = changes + 1
    /\ UNCHANGED <<company, due, paid>>

IssueInvoice(i) ==
    /\ due[i] = Never
    /\ contract[BilledTo[i]] # Absent
    /\ today \in BillingDays
    /\ \E t \in Terms : due' = [due EXCEPT ![i] = today + t]
    /\ UNCHANGED <<company, contract, paid, changes>>

\* A payment that completes, recorded on its own date.  Pending, failed and
\* refunded payments are filtered out wherever payments are read.
CompletePayment(i) ==
    /\ due[i] # Never
    /\ Cardinality(paid[i]) < MaxPayments
    /\ paid' = [paid EXCEPT ![i] = @ \cup {today}]
    /\ UNCHANGED <<company, contract, due, changes>>

Operate ==
    /\ \/ \E c \in Companies : InsertCompany(c) \/ UpdateCompany(c)
       \/ \E k \in Contracts : InsertContract(k) \/ UpdateContract(k)
       \/ \E i \in Invoices : IssueInvoice(i) \/ CompletePayment(i)
    /\ UNCHANGED <<today, snapshots, marts, build, result, builtOn, builds>>

(***************************************************************************)
(* dbt snapshot, strategy check: a version whose tracked columns differ     *)
(* from the live row is closed now, and the live row opens a version.  The  *)
(* build that opens a version stands for its dbt_valid_from.                *)
(***************************************************************************)

Outdated(versions, live) ==
    {v \in versions : v.to = Never /\ v.values # live[v.id]}

Opened(versions, live) ==
    LET unchanged == versions \ Outdated(versions, live)
        missing == {x \in DOMAIN live : /\ live[x] # Absent
                                        /\ \A v \in unchanged : v.id = x => v.to # Never}
    IN  {[id |-> x, values |-> live[x], from |-> builds, to |-> Never] : x \in missing}

Closed(versions, live) ==
    {[v EXCEPT !.to = today] : v \in Outdated(versions, live)}

Snapshot(versions, live) ==
    (versions \ Outdated(versions, live)) \cup Closed(versions, live)
        \cup Opened(versions, live)

(***************************************************************************)
(* Views.  dbt_valid_to is an instant of its day and a snapshot_date is a   *)
(* midnight, so a version closed on day d still covers d.                   *)
(***************************************************************************)

Covers(v, d) == v.to = Never \/ d <= v.to

\* Mutant: the month is after foundation's.
AfterFoundationMonth(c, m) == \A n \in MonthStarts : n <= Founded[c] => n < m

\* date_trunc('month', foundation) <= m, for the first m of a month.
FromFoundationMonth(c, m) == \A n \in MonthStarts : n <= Founded[c] => n <= m

\* Mutant: the current month is not part of the spine.
SpineRowsToLastMonth ==
    LET rows == {p \in companyVersions \X MonthStarts :
                    /\ FromFoundationMonth(p[1].id, p[2])
                    /\ Covers(p[1], p[2])
                    /\ p[2] < today}
    IN  {[company |-> p[1].id, date |-> p[2], of |-> p[1]] : p \in rows}

\* int_company_date_spine.  Its source is distinct over company, foundation
\* date and dbt_valid_to, and no two versions of a company close together.
SpineRows ==
    LET rows == {p \in companyVersions \X MonthStarts :
                    /\ FromFoundationMonth(p[1].id, p[2])
                    /\ Covers(p[1], p[2])
                    /\ p[2] <= today}
    IN  {[company |-> p[1].id, date |-> p[2], of |-> p[1]] : p \in rows}

\* dbt_utils.unique_combination_of_columns(company_id, snapshot_date).
OneRowPerCompanyAndDate(table) ==
    \A r, q \in table : r.company = q.company /\ r.date = q.date => r = q

\* int_companies_scd_resolved: the version a spine row resolves to.
Resolves(r, v) ==
    /\ v.id = r.company
    /\ Founded[v.id] <= r.date
    /\ Covers(v, r.date)

\* Mutant: the window is as long as the default.
InShortWindow(i, d) == due[i] # Never /\ due[i] > d - DefaultDays /\ due[i] <= d

\* The window of int_billing_trailing_90d.
InWindow(i, d) == due[i] # Never /\ due[i] > d - Window /\ due[i] <= d

\* Mutant: an invoice that was paid is not late.
DaysPastDueIfUnpaid(i, d) == IF paid[i] = {} THEN {d - due[i]} ELSE {}

\* Its days_past_due, one value for each row of the left join on completed
\* payments; the floor at 0 is below every threshold.
DaysPastDue(i, d) ==
    IF paid[i] = {} THEN {d - due[i]} ELSE {p - due[i] : p \in paid[i]}

\* The inner join on contracts finds the versions the snapshot has.
Billed(c, i) ==
    /\ Owner[BilledTo[i]] = c
    /\ \E v \in contractVersions : v.id = BilledTo[i]

\* int_insolvency_label: max(days_past_due) >= 90.
IsInsolvent(c, d) ==
    \E i \in Invoices : /\ Billed(c, i)
                        /\ InWindow(i, d)
                        /\ \E n \in DaysPastDue(i, d) : n >= DefaultDays

\* total_outstanding_debt, known by the rows it adds up: the join repeats an
\* invoice for each version of its contract.
OutstandingDebt(c, d) ==
    {row \in Invoices \X contractVersions :
        /\ row[2].id = BilledTo[row[1]]
        /\ Owner[row[2].id] = c
        /\ InWindow(row[1], d)
        /\ paid[row[1]] = {}}

\* company_key is the hash of company_id and dbt_valid_from.
FactRow(r, v) ==
    [company |-> r.company, date |-> r.date, of |-> r.of, key |-> v.from,
     insolvent |-> IsInsolvent(r.company, r.date),
     debt |-> OutstandingDebt(r.company, r.date)]

FactRows ==
    {FactRow(p[1], p[2]) :
        p \in {q \in spine \X companyVersions : Resolves(q[1], q[2])}}

(***************************************************************************)
(* dbt build.                                                               *)
(***************************************************************************)

StartBuild ==
    /\ build = {}
    /\ builds < MaxBuilds
    /\ build' = Nodes
    /\ result' = "running"
    /\ builtOn' = today
    /\ builds' = builds + 1
    /\ UNCHANGED <<today, oltp, snapshots, marts>>

\* Mutant: the grain is not tested before the mart is built.
NothingDownstream(node) == {}

\* What selects from a node whose tests can fail.
Downstream(node) == IF node = "spine" THEN {"fact"} ELSE {}

\* A node is built and its tests run: a failure is the build's, and keeps what
\* is downstream from running.
Finish(node, pass) ==
    /\ build' = build \ ({node} \cup (IF pass THEN {} ELSE Downstream(node)))
    /\ result' = CASE ~pass -> "error"
                   [] pass /\ build = {node} /\ result = "running" -> "success"
                   [] OTHER -> result
    /\ UNCHANGED <<today, oltp, builtOn, builds>>

\* A node of the build may run once what it reads has run.
Ready(node, sources) == node \in build /\ build \cap sources = {}

SnapshotCompanies ==
    /\ Ready("companies_snapshot", {})
    /\ companyVersions' = Snapshot(companyVersions, company)
    /\ Finish("companies_snapshot", TRUE)
    /\ UNCHANGED <<contractVersions, marts>>

SnapshotContracts ==
    /\ Ready("contracts_snapshot", {})
    /\ contractVersions' = Snapshot(contractVersions, contract)
    /\ Finish("contracts_snapshot", TRUE)
    /\ UNCHANGED <<companyVersions, marts>>

\* The table is in place when its tests run.
BuildSpine ==
    /\ Ready("spine", {"companies_snapshot"})
    /\ spine' = SpineRows
    /\ Finish("spine", OneRowPerCompanyAndDate(SpineRows))
    /\ UNCHANGED <<snapshots, dim, fact>>

BuildDim ==
    /\ Ready("dim", {"companies_snapshot"})
    /\ dim' = companyVersions
    /\ Finish("dim", TRUE)
    /\ UNCHANGED <<snapshots, spine, fact>>

\* fct_no_dropped_spine_rows.  A company founded within a month fails it: its
\* first spine row is before its foundation and resolves to no version.
NoDroppedRows(rows) ==
    \A r \in spine : \E q \in rows : q.company = r.company /\ q.date = r.date

BuildFact ==
    /\ Ready("fact", {"spine", "contracts_snapshot"})
    /\ fact' = FactRows
    /\ Finish("fact", NoDroppedRows(FactRows))
    /\ UNCHANGED <<snapshots, spine, dim>>

\* A lost connection or an interrupt ends the build between two nodes; what
\* was built stays.
BuildBreaks ==
    /\ build # {}
    /\ build' = {}
    /\ result' = "error"
    /\ UNCHANGED <<today, oltp, snapshots, marts, builtOn, builds>>

\* A build ends on the day it started.
NextDay ==
    /\ build = {}
    /\ \E d \in Days : /\ d > today
                       /\ \A e \in Days : e > today => d <= e
                       /\ today' = d
    /\ UNCHANGED <<oltp, snapshots, marts, build, result, builtOn, builds>>

Next ==
    \/ Operate
    \/ StartBuild \/ SnapshotCompanies \/ SnapshotContracts
    \/ BuildSpine \/ BuildDim \/ BuildFact \/ BuildBreaks
    \/ NextDay

Spec == Init /\ [][Next]_vars

(***************************************************************************)
(* Properties.                                                              *)
(***************************************************************************)

\* The mart has one row for each company and date (marts/schema.yml:90),
\* although versions multiply the spine's rows: the spine's own test keeps a
\* multiplied spine from reaching the mart.
FactGrain == OneRowPerCompanyAndDate(fact)

\* A company's months in the mart have no gap behind them, back to its
\* foundation (the window functions and the temporal split rely on it).
FactHasNoGaps ==
    \A r \in fact, m \in MonthStarts :
        Founded[r.company] <= m /\ m <= r.date
            => \E q \in fact : q.company = r.company /\ q.date = m

\* A build that reports success has brought every company of the dimension up
\* to the month it ran in.
SuccessIsCurrent ==
    result = "success" =>
        \A v \in dim, m \in MonthStarts :
            Founded[v.id] <= m /\ m <= builtOn
                => \E r \in fact : r.company = v.id /\ r.date = m

\* After such a build every row's company_key is in dim_companies: the inner
\* join of training and inference (ml/dataset/loader.py) loses no row.
FactKeysResolve ==
    result = "success" =>
        \A r \in fact : \E v \in dim : v.id = r.company /\ v.from = r.key

\* A build that reports success can be used: whatever was written to the
\* operational tables while it ran, the mart and the dimension agree, and both
\* reach the month it ran in.
SuccessCanBeTrusted == SuccessIsCurrent /\ FactKeysResolve

\* No later build takes back that a company was insolvent at a date: late
\* payments lengthen the delay, they do not undo it.
LabelsStand ==
    [][\A r \in fact, q \in fact' :
          r.company = q.company /\ r.date = q.date /\ r.insolvent
              => q.insolvent]_vars

\* An invoice that nobody pays makes its company insolvent at some month of
\* the mart, once the mart is past the window.
DefaultsAreLabelled ==
    \A i \in Invoices :
        /\ due[i] # Never
        /\ paid[i] = {}
        /\ \E r \in fact : /\ r.company = Owner[BilledTo[i]]
                           /\ r.date >= due[i] + Window
        => \E r \in fact : r.company = Owner[BilledTo[i]] /\ r.insolvent

(***************************************************************************)
(* What the documentation says.                                             *)
(***************************************************************************)

\* README.md:683: "every feature reflects only information that was actually
\* available at the snapshot date".  An invoice of the window that was paid
\* after the date, or never, is debt at that date.
PaidLater(c, d) ==
    {i \in Invoices : /\ Owner[BilledTo[i]] = c
                      /\ InWindow(i, d)
                      /\ \A p \in paid[i] : p > d}

DebtReflectsItsDate ==
    \A r \in fact : \A i \in PaidLater(r.company, r.date) :
        \E row \in r.debt : row[1] = i
=============================================================================
