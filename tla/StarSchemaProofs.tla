------------------------- MODULE StarSchemaProofs -------------------------
(* Proofs about StarSchema, for any tables, days and numbers of builds. *)
EXTENDS StarSchema, TLAPS

USE DaysAssumption, RelationsAssumption DEF Never

(***************************************************************************)
(* The snapshot operators, for any table of versions.                       *)
(***************************************************************************)

\* A snapshot of well-typed versions is well typed.
LEMMA SnapshotType ==
    ASSUME NEW Ids, NEW versions \in SUBSET Version(Ids),
           NEW live \in [Ids -> Values \cup {Absent}],
           today \in Days, builds \in Nat
    PROVE  Snapshot(versions, live) \in SUBSET Version(Ids)
<1>1. Closed(versions, live) \subseteq Version(Ids)
  BY DEF Closed, Outdated, Version
<1>2. Opened(versions, live) \subseteq Version(Ids)
  BY DEF Opened, Version
<1> QED BY <1>1, <1>2 DEF Snapshot

\* What had a version keeps one.
LEMMA SnapshotKeeps ==
    ASSUME NEW Ids, NEW versions \in SUBSET Version(Ids), NEW live,
           NEW v \in versions
    PROVE  \E w \in Snapshot(versions, live) : w.id = v.id
<1>1. CASE v \in Outdated(versions, live)
  <2> DEFINE w == [v EXCEPT !.to = today]
  <2>1. w \in Closed(versions, live) BY <1>1 DEF Closed
  <2>2. w.id = v.id BY DEF Version
  <2> QED BY <2>1, <2>2 DEF Snapshot
<1>2. CASE v \notin Outdated(versions, live) BY <1>2 DEF Snapshot
<1> QED BY <1>1, <1>2

\* What is in the operational table has an open version afterwards.
LEMMA SnapshotOpens ==
    ASSUME NEW Ids, NEW versions \in SUBSET Version(Ids),
           NEW live \in [Ids -> Values \cup {Absent}],
           NEW x \in Ids, live[x] # Absent
    PROVE  \E w \in Snapshot(versions, live) : w.id = x /\ w.to = Never
<1> DEFINE unchanged == versions \ Outdated(versions, live)
<1>1. CASE \E v \in unchanged : v.id = x /\ v.to = Never
  BY <1>1 DEF Snapshot
<1>2. CASE \A v \in unchanged : v.id = x => v.to # Never
  <2> DEFINE w == [id |-> x, values |-> live[x], from |-> builds, to |-> Never]
  <2>1. w \in Opened(versions, live) BY <1>2 DEF Opened
  <2> QED BY <2>1 DEF Snapshot
<1> QED BY <1>1, <1>2

\* A snapshot adds no company that the operational table does not have.
LEMMA SnapshotIds ==
    ASSUME NEW Ids, NEW versions \in SUBSET Version(Ids), NEW live,
           NEW w \in Snapshot(versions, live)
    PROVE  \/ \E v \in versions : v.id = w.id
           \/ w.id \in DOMAIN live /\ live[w.id] # Absent
<1>1. CASE w \in Closed(versions, live)
  BY <1>1 DEF Closed, Outdated, Version
<1>2. CASE w \in Opened(versions, live) BY <1>2 DEF Opened
<1> QED BY <1>1, <1>2 DEF Snapshot

(***************************************************************************)
(* Types.                                                                   *)
(***************************************************************************)

LEMMA SpineType ==
    ASSUME TypeOK
    PROVE  SpineRows \subseteq
        [company : Companies, date : MonthStarts, of : Version(Companies)]
BY DEF TypeOK, SpineRows, Version

LEMMA FactType ==
    ASSUME TypeOK
    PROVE  FactRows \subseteq
           [company : Companies, date : MonthStarts, of : Version(Companies),
            key : Nat, insolvent : BOOLEAN,
            debt : SUBSET (Invoices \X Version(Contracts))]
<1> SUFFICES ASSUME NEW r \in spine, NEW v \in companyVersions
             PROVE  FactRow(r, v) \in
           [company : Companies, date : MonthStarts, of : Version(Companies),
            key : Nat, insolvent : BOOLEAN,
            debt : SUBSET (Invoices \X Version(Contracts))]
  BY DEF FactRows
<1>1. r \in [company : Companies, date : MonthStarts, of : Version(Companies)]
  BY DEF TypeOK
<1>2. v.from \in Nat BY DEF TypeOK, Version
<1>3. IsInsolvent(r.company, r.date) \in BOOLEAN BY DEF IsInsolvent
<1>4. OutstandingDebt(r.company, r.date) \subseteq Invoices \X Version(Contracts)
  BY DEF OutstandingDebt, TypeOK
<1> QED BY <1>1, <1>2, <1>3, <1>4 DEF FactRow

LEMMA TypeNext == TypeOK /\ [Next]_vars => TypeOK'
<1> SUFFICES ASSUME TypeOK, [Next]_vars PROVE TypeOK'
  OBVIOUS
<1> USE DEF oltp, snapshots, marts
<1>1. CASE Operate
  <2>1. UNCHANGED <<today, snapshots, marts, build, result, builtOn, builds>>
    BY <1>1 DEF Operate
  <2>2. /\ company' \in [Companies -> Values \cup {Absent}]
        /\ contract' \in [Contracts -> Values \cup {Absent}]
        /\ due' \in [Invoices -> Nat \cup {Never}]
        /\ paid' \in [Invoices -> SUBSET Days]
        /\ changes' \in Nat
    <3>1. ASSUME NEW c \in Companies, InsertCompany(c) \/ UpdateCompany(c)
          PROVE  <2>2!:
      BY <3>1 DEF TypeOK, InsertCompany, UpdateCompany
    <3>2. ASSUME NEW k \in Contracts, InsertContract(k) \/ UpdateContract(k)
          PROVE  <2>2!:
      BY <3>2 DEF TypeOK, InsertContract, UpdateContract
    <3>3. ASSUME NEW i \in Invoices, IssueInvoice(i)
          PROVE  <2>2!:
      BY <3>3 DEF TypeOK, IssueInvoice
    <3>4. ASSUME NEW i \in Invoices, CompletePayment(i)
          PROVE  <2>2!:
      BY <3>4 DEF TypeOK, CompletePayment
    <3> QED BY <1>1, <3>1, <3>2, <3>3, <3>4 DEF Operate
  <2> QED BY <2>1, <2>2 DEF TypeOK, Version
<1>2. CASE StartBuild
  BY <1>2 DEF TypeOK, StartBuild, Version, Nodes
<1>3. CASE SnapshotCompanies
  <2>1. companyVersions' \subseteq Version(Companies)
    BY <1>3, SnapshotType DEF SnapshotCompanies, TypeOK
  <2> QED BY <1>3, <2>1 DEF TypeOK, SnapshotCompanies, Finish, Version
<1>4. CASE SnapshotContracts
  <2>1. contractVersions' \subseteq Version(Contracts)
    BY <1>4, SnapshotType DEF SnapshotContracts, TypeOK
  <2> QED BY <1>4, <2>1 DEF TypeOK, SnapshotContracts, Finish, Version
<1>5. CASE BuildSpine
  BY <1>5, SpineType DEF TypeOK, BuildSpine, Finish, Version
<1>6. CASE BuildDim
  BY <1>6 DEF TypeOK, BuildDim, Finish, Version
<1>7. CASE BuildFact
  BY <1>7, FactType DEF TypeOK, BuildFact, Finish, Version
<1>8. CASE BuildBreaks
  BY <1>8 DEF TypeOK, BuildBreaks, Version
<1>9. CASE NextDay
  BY <1>9 DEF TypeOK, NextDay, Version
<1>10. CASE UNCHANGED vars
  BY <1>10 DEF TypeOK, vars, Version
<1> QED BY <1>1, <1>2, <1>3, <1>4, <1>5, <1>6, <1>7, <1>8, <1>9, <1>10 DEF Next

\* Every table and every marker of the build keeps its type.
THEOREM TypeCorrect == Spec => []TypeOK
<1>1. Init => TypeOK
  BY DEF Init, TypeOK
<1> QED BY <1>1, TypeNext, PTL DEF Spec

(***************************************************************************)
(* What holds in every state of a build.                                    *)
(***************************************************************************)

\* What has been built has its sources: a table made in this build was made
\* from this build's snapshots.
SourcesFirst ==
    /\ "spine" \notin build => "companies_snapshot" \notin build
    /\ "dim" \notin build => "companies_snapshot" \notin build
    /\ build # {} /\ "fact" \notin build => "spine" \notin build

\* No table reaches past today.
UpToToday ==
    /\ \A r \in spine : r.date <= today
    /\ \A r \in fact : r.date <= today

LEMMA BuildNext ==
    TypeOK /\ SourcesFirst /\ UpToToday /\ [Next]_vars
        => SourcesFirst' /\ UpToToday'
<1> SUFFICES ASSUME TypeOK, SourcesFirst, UpToToday, [Next]_vars
             PROVE  SourcesFirst' /\ UpToToday'
  OBVIOUS
<1> USE DEF oltp, snapshots, marts
<1>1. CASE Operate
  BY <1>1 DEF Operate, SourcesFirst, UpToToday
<1>2. CASE StartBuild
  BY <1>2 DEF StartBuild, SourcesFirst, UpToToday, Nodes
<1>3. CASE SnapshotCompanies
  BY <1>3 DEF SnapshotCompanies, Finish, Ready, SourcesFirst, UpToToday
<1>4. CASE SnapshotContracts
  BY <1>4 DEF SnapshotContracts, Finish, Ready, SourcesFirst, UpToToday
<1>5. CASE BuildSpine
  <2>1. \A r \in SpineRows : r.date <= today BY DEF SpineRows
  <2>2. UpToToday'
    BY <1>5, <2>1 DEF BuildSpine, Finish, UpToToday
  <2>3. SourcesFirst'
    BY <1>5 DEF BuildSpine, Finish, Ready, Downstream, SourcesFirst
  <2> QED BY <2>2, <2>3
<1>6. CASE BuildDim
  BY <1>6 DEF BuildDim, Finish, Ready, SourcesFirst, UpToToday
<1>7. CASE BuildFact
  <2>1. \A q \in FactRows : q.date <= today
    BY DEF FactRows, FactRow, UpToToday
  <2>2. UpToToday'
    BY <1>7, <2>1 DEF BuildFact, Finish, UpToToday
  <2>3. SourcesFirst'
    BY <1>7 DEF BuildFact, Finish, Ready, Downstream, SourcesFirst
  <2> QED BY <2>2, <2>3
<1>8. CASE BuildBreaks
  BY <1>8 DEF BuildBreaks, SourcesFirst, UpToToday
<1>9. CASE NextDay
  <2>1. today' \in Nat /\ today \in Nat /\ today < today'
    BY <1>9 DEF NextDay, TypeOK
  <2>2. \A r \in spine : r.date \in Nat BY DEF TypeOK
  <2>3. \A r \in fact : r.date \in Nat BY DEF TypeOK
  <2> QED BY <1>9, <2>1, <2>2, <2>3 DEF NextDay, SourcesFirst, UpToToday
<1>10. CASE UNCHANGED vars
  BY <1>10 DEF SourcesFirst, UpToToday, vars
<1> QED BY <1>1, <1>2, <1>3, <1>4, <1>5, <1>6, <1>7, <1>8, <1>9, <1>10 DEF Next

LEMMA BuildInvariant == Spec => [](SourcesFirst /\ UpToToday)
<1>1. Init => SourcesFirst /\ UpToToday
  BY DEF Init, SourcesFirst, UpToToday
<1> QED BY <1>1, TypeCorrect, BuildNext, PTL DEF Spec

\* Only two actions write what the rest of this module is about.
LEMMA OnlyBuildFact == [Next]_vars /\ fact' # fact => BuildFact
BY DEF Next, vars, Operate, StartBuild, SnapshotCompanies, SnapshotContracts,
       BuildSpine, BuildDim, BuildBreaks, NextDay, oltp, snapshots, marts

LEMMA OnlyBuildSpine == [Next]_vars /\ spine' # spine => BuildSpine
BY DEF Next, vars, Operate, StartBuild, SnapshotCompanies, SnapshotContracts,
       BuildDim, BuildFact, BuildBreaks, NextDay, oltp, snapshots, marts

LEMMA OnlySnapshotCompanies ==
    [Next]_vars /\ companyVersions' # companyVersions => SnapshotCompanies
BY DEF Next, vars, Operate, StartBuild, SnapshotContracts, BuildSpine,
       BuildDim, BuildFact, BuildBreaks, NextDay, oltp, snapshots, marts

LEMMA OnlySnapshotContracts ==
    [Next]_vars /\ contractVersions' # contractVersions => SnapshotContracts
BY DEF Next, vars, Operate, StartBuild, SnapshotCompanies, BuildSpine,
       BuildDim, BuildFact, BuildBreaks, NextDay, oltp, snapshots, marts

(***************************************************************************)
(* The grain of the mart.                                                   *)
(***************************************************************************)

RowOf(v, d) == [company |-> v.id, date |-> d, of |-> v]

\* While the mart waits for a spine that is there, that spine passed its test
\* and holds the row of every version that one of its rows resolves to.  So a
\* row that resolved to two versions would have been there twice.
SpineMatchesVersions ==
    "fact" \in build /\ "spine" \notin build =>
        /\ OneRowPerCompanyAndDate(spine)
        /\ \A r \in spine, v \in companyVersions :
               Resolves(r, v) => RowOf(v, r.date) \in spine

\* A version that covers today's months has a spine row for each of them.
LEMMA RowOfVersion ==
    ASSUME TypeOK, NEW v \in companyVersions, NEW m \in MonthStarts,
           Founded[v.id] <= m, m <= today, Covers(v, m)
    PROVE  RowOf(v, m) \in SpineRows
<1> DEFINE p == <<v, m>>
           rows == {q \in companyVersions \X MonthStarts :
                       /\ FromFoundationMonth(q[1].id, q[2])
                       /\ Covers(q[1], q[2])
                       /\ q[2] <= today}
<1>1. Founded[v.id] \in Nat /\ \A n \in MonthStarts : n \in Nat
  BY DEF TypeOK, Version
<1>2. FromFoundationMonth(v.id, m)
  BY <1>1 DEF FromFoundationMonth
<1>3. p \in companyVersions \X MonthStarts /\ p[1] = v /\ p[2] = m
  OBVIOUS
<1>4. p \in rows BY <1>2, <1>3
<1>5. RowOf(v, m) = [company |-> p[1].id, date |-> p[2], of |-> p[1]]
  BY <1>3 DEF RowOf
<1> HIDE DEF p
<1> QED BY <1>4, <1>5 DEF SpineRows

\* A fresh spine has the row of each version that its rows resolve to.
LEMMA SpineHasVersions ==
    ASSUME TypeOK, NEW r \in SpineRows, NEW v \in companyVersions, Resolves(r, v)
    PROVE  RowOf(v, r.date) \in SpineRows
<1>1. r.date \in MonthStarts /\ r.date <= today
  BY DEF SpineRows
<1>2. Founded[v.id] <= r.date /\ Covers(v, r.date) BY DEF Resolves
<1> QED BY <1>1, <1>2, RowOfVersion

LEMMA SpineMatchesNext ==
    TypeOK /\ SourcesFirst /\ SpineMatchesVersions /\ [Next]_vars
        => SpineMatchesVersions'
<1> SUFFICES ASSUME TypeOK, SourcesFirst, SpineMatchesVersions, [Next]_vars,
                    "fact" \in build', "spine" \notin build'
             PROVE  /\ OneRowPerCompanyAndDate(spine')
                    /\ \A r \in spine', v \in companyVersions' :
                           Resolves(r, v) => RowOf(v, r.date) \in spine'
  BY DEF SpineMatchesVersions, OneRowPerCompanyAndDate, Resolves, Covers, RowOf
<1> USE DEF oltp, snapshots, marts
<1>1. CASE BuildSpine
  <2>1. OneRowPerCompanyAndDate(SpineRows)
    BY <1>1 DEF BuildSpine, Finish, Downstream
  <2>2. spine' = SpineRows /\ companyVersions' = companyVersions
    BY <1>1 DEF BuildSpine
  <2> QED BY <2>1, <2>2, SpineHasVersions
<1>2. CASE ~BuildSpine
  <2>1. "fact" \in build /\ "spine" \notin build
    BY <1>2 DEF Next, vars, Operate, StartBuild, SnapshotCompanies,
                SnapshotContracts, BuildDim, BuildFact, BuildBreaks, NextDay,
                Finish, Nodes, Downstream, TypeOK
  <2>2. spine' = spine BY <1>2, OnlyBuildSpine
  <2>3. companyVersions' = companyVersions
    BY <2>1, OnlySnapshotCompanies DEF SnapshotCompanies, Ready, SourcesFirst
  <2> QED BY <2>1, <2>2, <2>3 DEF SpineMatchesVersions
<1> QED BY <1>1, <1>2

LEMMA SpineMatches == Spec => []SpineMatchesVersions
<1>1. Init => SpineMatchesVersions
  BY DEF Init, SpineMatchesVersions
<1> QED BY <1>1, TypeCorrect, BuildInvariant, SpineMatchesNext, PTL DEF Spec

\* Rows of such a spine resolve to one version each.
LEMMA FactRowsGrain ==
    ASSUME TypeOK, SpineMatchesVersions, "fact" \in build, "spine" \notin build
    PROVE  OneRowPerCompanyAndDate(FactRows)
<1> SUFFICES ASSUME NEW r \in spine, NEW v \in companyVersions, Resolves(r, v),
                    NEW q \in spine, NEW w \in companyVersions, Resolves(q, w),
                    r.company = q.company, r.date = q.date
             PROVE  FactRow(r, v) = FactRow(q, w)
  BY DEF OneRowPerCompanyAndDate, FactRows, FactRow
<1>1. r = q
  BY DEF SpineMatchesVersions, OneRowPerCompanyAndDate
<1>2. RowOf(v, r.date) \in spine /\ RowOf(w, r.date) \in spine
  BY <1>1 DEF SpineMatchesVersions
<1>3. v.id = w.id BY <1>1 DEF Resolves
<1>4. RowOf(v, r.date) = RowOf(w, r.date)
  BY <1>2, <1>3 DEF SpineMatchesVersions, OneRowPerCompanyAndDate, RowOf
<1>5. v = w BY <1>4 DEF RowOf
<1> QED BY <1>1, <1>5

\* The mart has one row for each company and date.
THEOREM OneFactPerCompanyAndDate == Spec => []FactGrain
<1>1. Init => FactGrain
  BY DEF Init, FactGrain, OneRowPerCompanyAndDate
<1>2. TypeOK /\ SpineMatchesVersions /\ FactGrain /\ [Next]_vars => FactGrain'
  <2> SUFFICES ASSUME TypeOK, SpineMatchesVersions, FactGrain, [Next]_vars,
                      fact' # fact
               PROVE  FactGrain'
    BY DEF FactGrain, OneRowPerCompanyAndDate
  <2>1. BuildFact BY OnlyBuildFact
  <2>2. "fact" \in build /\ "spine" \notin build /\ fact' = FactRows
    BY <2>1 DEF BuildFact, Ready
  <2> QED BY <2>2, FactRowsGrain DEF FactGrain, OneRowPerCompanyAndDate
<1> QED BY <1>1, <1>2, TypeCorrect, SpineMatches, PTL DEF Spec

(***************************************************************************)
(* The labels.                                                              *)
(***************************************************************************)

\* What a row says of insolvency can still be read off the operational tables
\* and the contract versions.
LabelsBacked ==
    \A r \in fact : r.insolvent => IsInsolvent(r.company, r.date)

\* An invoice that was late by DefaultDays at a date of the past stays so: a
\* payment made now is later still.
LEMMA PaymentsComeLater ==
    ASSUME TypeOK, NEW d \in Nat, d <= today,
           NEW i \in Invoices, NEW j \in Invoices, CompletePayment(j),
           InWindow(i, d), NEW n \in DaysPastDue(i, d), n >= DefaultDays
    PROVE  /\ InWindow(i, d)'
           /\ \E k \in DaysPastDue(i, d)' : k >= DefaultDays
<1>1. due' = due /\ InWindow(i, d)'
  BY DEF CompletePayment, InWindow
<1>2. due[i] \in Nat /\ today \in Nat /\ DefaultDays \in Nat
  BY DEF TypeOK, InWindow
<1>3. CASE i = j /\ paid[i] = {}
  <2>1. n = d - due[i] BY <1>3 DEF DaysPastDue
  <2>2. paid'[i] = {today}
    BY <1>3 DEF CompletePayment, TypeOK
  <2>3. today - due[i] \in DaysPastDue(i, d)'
    BY <1>1, <2>2 DEF DaysPastDue
  <2> QED BY <1>1, <1>2, <2>1, <2>3
<1>4. CASE paid[i] # {}
  <2>1. PICK p \in paid[i] : n = p - due[i] BY <1>4 DEF DaysPastDue
  <2>2. p \in paid'[i] BY <2>1 DEF CompletePayment, TypeOK
  <2>3. n \in DaysPastDue(i, d)'
    BY <1>1, <2>1, <2>2 DEF DaysPastDue
  <2> QED BY <1>1, <2>3
<1>5. CASE i # j
  <2>1. paid'[i] = paid[i] BY <1>5 DEF CompletePayment, TypeOK
  <2> QED BY <1>1, <2>1 DEF DaysPastDue
<1> QED BY <1>3, <1>4, <1>5

\* No step makes a company solvent at a date of the past.
LEMMA InsolvencyStands ==
    ASSUME TypeOK, [Next]_vars, NEW c, NEW d \in Nat, d <= today,
           IsInsolvent(c, d)
    PROVE  IsInsolvent(c, d)'
<1> USE DEF oltp, snapshots, marts
<1>1. PICK i \in Invoices : /\ Billed(c, i)
                            /\ InWindow(i, d)
                            /\ \E n \in DaysPastDue(i, d) : n >= DefaultDays
  BY DEF IsInsolvent
<1>2. Billed(c, i)'
  <2>1. CASE SnapshotContracts
    BY <1>1, <2>1, SnapshotKeeps DEF SnapshotContracts, Billed, TypeOK
  <2>2. CASE ~SnapshotContracts
    BY <1>1, <2>2, OnlySnapshotContracts DEF Billed
  <2> QED BY <2>1, <2>2
<1>3. InWindow(i, d)' /\ \E k \in DaysPastDue(i, d)' : k >= DefaultDays
  <2>1. CASE \E j \in Invoices : CompletePayment(j)
    BY <1>1, <2>1, PaymentsComeLater
  <2>2. CASE \E j \in Invoices : IssueInvoice(j)
    <3>1. PICK j \in Invoices : IssueInvoice(j) BY <2>2
    <3>2. due'[i] = due[i] /\ paid' = paid
      BY <1>1, <3>1 DEF IssueInvoice, InWindow, TypeOK
    <3> QED BY <1>1, <3>2 DEF InWindow, DaysPastDue
  <2>3. CASE due' = due /\ paid' = paid
    BY <1>1, <2>3 DEF InWindow, DaysPastDue
  <2>4. \/ \E j \in Invoices : CompletePayment(j) \/ IssueInvoice(j)
        \/ due' = due /\ paid' = paid
    BY DEF Next, vars, Operate, StartBuild, SnapshotCompanies,
           SnapshotContracts, BuildSpine, BuildDim, BuildFact, BuildBreaks,
           NextDay, Finish, InsertCompany, InsertContract, UpdateCompany,
           UpdateContract
  <2> QED BY <2>1, <2>2, <2>3, <2>4
<1> QED BY <1>2, <1>3 DEF IsInsolvent

LEMMA LabelsBackedNext ==
    TypeOK /\ UpToToday /\ LabelsBacked /\ [Next]_vars => LabelsBacked'
<1> SUFFICES ASSUME TypeOK, UpToToday, LabelsBacked, [Next]_vars,
                    NEW q \in fact', q.insolvent
             PROVE  IsInsolvent(q.company, q.date)'
  BY DEF LabelsBacked, IsInsolvent, Billed, InWindow, DaysPastDue
<1>1. IsInsolvent(q.company, q.date) /\ q.date \in Nat /\ q.date <= today
  <2>1. CASE q \in fact
    BY <2>1 DEF LabelsBacked, UpToToday, TypeOK
  <2>2. CASE q \notin fact
    <3>1. q \in FactRows
      BY <2>2, OnlyBuildFact DEF BuildFact
    <3>2. PICK r \in spine, v \in companyVersions : q = FactRow(r, v)
      BY <3>1 DEF FactRows
    <3> QED BY <3>2 DEF FactRow, UpToToday, TypeOK
  <2> QED BY <2>1, <2>2
<1> QED BY <1>1, InsolvencyStands

LEMMA LabelsAreBacked == Spec => []LabelsBacked
<1>1. Init => LabelsBacked BY DEF Init, LabelsBacked
<1> QED BY <1>1, TypeCorrect, BuildInvariant, LabelsBackedNext, PTL DEF Spec

\* No later build takes back that a company was insolvent at a date.
THEOREM LabelsAreFinal == Spec => LabelsStand
<1>1. TypeOK /\ FactGrain /\ LabelsBacked /\ [Next]_vars =>
        [\A r \in fact, q \in fact' :
            r.company = q.company /\ r.date = q.date /\ r.insolvent
                => q.insolvent]_vars
  <2> SUFFICES ASSUME TypeOK, FactGrain, LabelsBacked, [Next]_vars,
                      NEW r \in fact, NEW q \in fact',
                      r.company = q.company, r.date = q.date, r.insolvent
               PROVE  q.insolvent
    OBVIOUS
  <2>1. CASE fact' = fact
    BY <2>1 DEF FactGrain, OneRowPerCompanyAndDate
  <2>2. CASE fact' # fact
    <3>1. q \in FactRows BY <2>2, OnlyBuildFact DEF BuildFact
    <3>2. q.insolvent = IsInsolvent(q.company, q.date)
      BY <3>1 DEF FactRows, FactRow
    <3>3. IsInsolvent(q.company, q.date) BY DEF LabelsBacked
    <3> QED BY <3>2, <3>3
  <2> QED BY <2>1, <2>2
<1> QED BY <1>1, TypeCorrect, OneFactPerCompanyAndDate, LabelsAreBacked, PTL
        DEF Spec, LabelsStand

(***************************************************************************)
(* No gaps.                                                                 *)
(***************************************************************************)

\* Behind each row of the spine are the earlier months of its version.
SpineHasNoGaps ==
    \A r \in spine : \A m \in MonthStarts :
        Founded[r.company] <= m /\ m <= r.date
            => \E q \in spine : q.company = r.company /\ q.date = m

\* A version that covers a date covers every earlier one.
LEMMA CoversEarlier ==
    ASSUME NEW Ids, NEW v \in Version(Ids), NEW d \in Nat, NEW m \in Nat,
           m <= d, Covers(v, d)
    PROVE  Covers(v, m)
<1>1. v.to = Never \/ v.to \in Nat BY DEF Version
<1> QED BY <1>1 DEF Covers

LEMMA SpineGapsNext ==
    TypeOK /\ SpineHasNoGaps /\ [Next]_vars => SpineHasNoGaps'
<1> SUFFICES ASSUME TypeOK, [Next]_vars, spine' # spine
             PROVE  SpineHasNoGaps'
  BY DEF SpineHasNoGaps
<1>1. spine' = SpineRows BY OnlyBuildSpine DEF BuildSpine
<1> SUFFICES ASSUME NEW r \in SpineRows, NEW m \in MonthStarts,
                    Founded[r.company] <= m, m <= r.date
             PROVE  \E q \in SpineRows : q.company = r.company /\ q.date = m
  BY <1>1 DEF SpineHasNoGaps
<1>2. PICK v \in companyVersions, d \in MonthStarts :
          /\ r = [company |-> v.id, date |-> d, of |-> v]
          /\ Covers(v, d) /\ d <= today
  BY DEF SpineRows
<1>3. m \in Nat /\ d \in Nat /\ today \in Nat /\ v \in Version(Companies)
  BY DEF TypeOK
<1>4. RowOf(v, m) \in SpineRows
  BY <1>2, <1>3, CoversEarlier, RowOfVersion
<1> QED BY <1>2, <1>4 DEF RowOf

LEMMA RowOfMart ==
    ASSUME NEW r \in spine, NEW v \in companyVersions, Resolves(r, v)
    PROVE  FactRow(r, v) \in FactRows
<1> DEFINE p == <<r, v>>
<1>1. p \in spine \X companyVersions /\ p[1] = r /\ p[2] = v OBVIOUS
<1>2. p \in {q \in spine \X companyVersions : Resolves(q[1], q[2])}
  BY <1>1
<1>3. FactRow(r, v) = FactRow(p[1], p[2]) BY <1>1
<1> HIDE DEF p
<1> QED BY <1>2, <1>3 DEF FactRows

\* A row of a company's in the mart has the earlier months beside it.
LEMMA FactRowsNoGaps ==
    ASSUME TypeOK, SpineHasNoGaps, NEW q \in FactRows, NEW m \in MonthStarts,
           Founded[q.company] <= m, m <= q.date
    PROVE  \E p \in FactRows : p.company = q.company /\ p.date = m
<1>1. PICK r \in spine, v \in companyVersions : Resolves(r, v) /\ q = FactRow(r, v)
  BY DEF FactRows
<1>2. q.company = r.company /\ q.date = r.date BY <1>1 DEF FactRow
<1>3. PICK s \in spine : s.company = r.company /\ s.date = m
  BY <1>2 DEF SpineHasNoGaps
<1>4. m \in Nat /\ r.date \in Nat /\ v \in Version(Companies) BY DEF TypeOK
<1>5. Covers(v, m)
  BY <1>1, <1>2, <1>4, CoversEarlier DEF Resolves
<1>6. v.id = r.company BY <1>1 DEF Resolves
<1>7. Resolves(s, v)
  <2>1. Founded[v.id] <= s.date BY <1>2, <1>3, <1>6
  <2>2. v.id = s.company /\ Covers(v, s.date) BY <1>3, <1>5, <1>6
  <2> QED BY <2>1, <2>2 DEF Resolves
<1>8. FactRow(s, v) \in FactRows BY <1>7, RowOfMart
<1> QED BY <1>2, <1>3, <1>8 DEF FactRow

LEMMA SpineGaps == Spec => []SpineHasNoGaps
<1>1. Init => SpineHasNoGaps BY DEF Init, SpineHasNoGaps
<1> QED BY <1>1, TypeCorrect, SpineGapsNext, PTL DEF Spec

\* A company's months in the mart have no gap behind them.
THEOREM MonthsAreComplete == Spec => []FactHasNoGaps
<1>1. Init => FactHasNoGaps BY DEF Init, FactHasNoGaps
<1>2. TypeOK /\ SpineHasNoGaps /\ FactHasNoGaps /\ [Next]_vars => FactHasNoGaps'
  <2> SUFFICES ASSUME TypeOK, SpineHasNoGaps, [Next]_vars, fact' # fact
               PROVE  FactHasNoGaps'
    BY DEF FactHasNoGaps
  <2>1. fact' = FactRows BY OnlyBuildFact DEF BuildFact
  <2> QED BY <2>1, FactRowsNoGaps DEF FactHasNoGaps
<1> QED BY <1>1, <1>2, TypeCorrect, SpineGaps, PTL DEF Spec

(***************************************************************************)
(* What a successful build leaves behind.                                   *)
(***************************************************************************)

\* A build that has met no error has built its tables from the company
\* versions there are now.
BuildIsFresh ==
    /\ result = "running" => build # {}
    /\ result = "success" => build = {}
    /\ result \in {"running", "success"} /\ "dim" \notin build
           => dim = companyVersions
    /\ result \in {"running", "success"} /\ "fact" \notin build
           => \A r \in fact : \E v \in companyVersions :
                  v.id = r.company /\ v.from = r.key

LEMMA FreshNext ==
    TypeOK /\ SourcesFirst /\ BuildIsFresh /\ [Next]_vars => BuildIsFresh'
<1> SUFFICES ASSUME TypeOK, SourcesFirst, BuildIsFresh, [Next]_vars
             PROVE  BuildIsFresh'
  OBVIOUS
<1> USE DEF oltp, snapshots, marts
<1>1. CASE Operate
  BY <1>1 DEF Operate, BuildIsFresh
<1>2. CASE StartBuild
  BY <1>2 DEF StartBuild, BuildIsFresh, Nodes
<1>3. CASE SnapshotCompanies
  <2>1. "dim" \in build /\ "spine" \in build /\ build # {}
    BY <1>3 DEF SnapshotCompanies, Ready, SourcesFirst
  <2>2. "fact" \in build
    BY <2>1 DEF SourcesFirst
  <2> QED BY <1>3, <2>1, <2>2 DEF SnapshotCompanies, Finish, BuildIsFresh
<1>4. CASE SnapshotContracts
  BY <1>4 DEF SnapshotContracts, Finish, Ready, BuildIsFresh
<1>5. CASE BuildSpine
  BY <1>5 DEF BuildSpine, Finish, Ready, BuildIsFresh, Downstream
<1>6. CASE BuildDim
  BY <1>6 DEF BuildDim, Finish, Ready, BuildIsFresh
<1>7. CASE BuildFact
  <2>1. \A q \in FactRows : \E v \in companyVersions :
            v.id = q.company /\ v.from = q.key
    BY DEF FactRows, FactRow, Resolves
  <2> QED BY <1>7, <2>1 DEF BuildFact, Finish, Ready, BuildIsFresh, Downstream
<1>8. CASE BuildBreaks
  BY <1>8 DEF BuildBreaks, BuildIsFresh
<1>9. CASE NextDay
  BY <1>9 DEF NextDay, BuildIsFresh
<1>10. CASE UNCHANGED vars
  BY <1>10 DEF BuildIsFresh, vars
<1> QED BY <1>1, <1>2, <1>3, <1>4, <1>5, <1>6, <1>7, <1>8, <1>9, <1>10 DEF Next

LEMMA BuildsAreFresh == Spec => []BuildIsFresh
<1>1. Init => BuildIsFresh BY DEF Init, BuildIsFresh
<1> QED BY <1>1, TypeCorrect, BuildInvariant, FreshNext, PTL DEF Spec

\* After a successful build every row's company_key is in dim_companies.
THEOREM KeysResolve == Spec => []FactKeysResolve
<1>1. BuildIsFresh => FactKeysResolve
  BY DEF BuildIsFresh, FactKeysResolve
<1> QED BY <1>1, BuildsAreFresh, PTL

\* A build takes place on one day; every company with a version has an open
\* one, and whatever has a version is in the operational table.
VersionsAreLive ==
    /\ build # {} => builtOn = today
    /\ \A v \in companyVersions :
           /\ company[v.id] # Absent
           /\ \E w \in companyVersions : w.id = v.id /\ w.to = Never

LEMMA LiveNext ==
    TypeOK /\ VersionsAreLive /\ [Next]_vars => VersionsAreLive'
<1> SUFFICES ASSUME TypeOK, VersionsAreLive, [Next]_vars
             PROVE  VersionsAreLive'
  OBVIOUS
<1> USE DEF oltp, snapshots, marts
<1>1. CASE Operate
  <2>1. \A c \in Companies : company[c] # Absent => company'[c] # Absent
    BY <1>1 DEF Operate, TypeOK, InsertCompany, UpdateCompany, InsertContract,
                UpdateContract, IssueInvoice, CompletePayment
  <2>2. \A v \in companyVersions : v.id \in Companies BY DEF TypeOK, Version
  <2> QED BY <1>1, <2>1, <2>2 DEF Operate, VersionsAreLive
<1>2. CASE StartBuild
  BY <1>2 DEF StartBuild, VersionsAreLive
<1>3. CASE SnapshotCompanies
  <2> SUFFICES ASSUME NEW v \in Snapshot(companyVersions, company)
               PROVE  /\ company[v.id] # Absent
                      /\ \E w \in Snapshot(companyVersions, company) :
                             w.id = v.id /\ w.to = Never
    BY <1>3 DEF SnapshotCompanies, Finish, VersionsAreLive
  <2>1. v.id \in Companies
    <3>1. Snapshot(companyVersions, company) \in SUBSET Version(Companies)
      BY SnapshotType DEF TypeOK
    <3> QED BY <3>1 DEF Version
  <2>2. company[v.id] # Absent
    BY SnapshotIds DEF TypeOK, VersionsAreLive
  <2> QED BY <2>1, <2>2, SnapshotOpens DEF TypeOK
<1>4. CASE SnapshotContracts
  BY <1>4 DEF SnapshotContracts, Finish, VersionsAreLive
<1>5. CASE BuildSpine \/ BuildDim \/ BuildFact
  BY <1>5 DEF BuildSpine, BuildDim, BuildFact, Finish, VersionsAreLive
<1>6. CASE BuildBreaks
  BY <1>6 DEF BuildBreaks, VersionsAreLive
<1>7. CASE NextDay
  BY <1>7 DEF NextDay, VersionsAreLive
<1>8. CASE UNCHANGED vars
  BY <1>8 DEF VersionsAreLive, vars
<1> QED BY <1>1, <1>2, <1>3, <1>4, <1>5, <1>6, <1>7, <1>8 DEF Next

LEMMA AllVersionsLive == Spec => []VersionsAreLive
<1>1. Init => VersionsAreLive BY DEF Init, VersionsAreLive
<1> QED BY <1>1, TypeCorrect, LiveNext, PTL DEF Spec

\* A table has a row for each company in versions at each month up to the day
\* of the build.
ReachesBuild(table, versions) ==
    \A v \in versions : \A m \in MonthStarts :
        Founded[v.id] <= m /\ m <= builtOn
            => \E r \in table : r.company = v.id /\ r.date = m

\* A build without an error has brought the spine, then the mart, up to date.
BuildReachesToday ==
    result \in {"running", "success"} =>
        /\ build # {} /\ "spine" \notin build => ReachesBuild(spine, companyVersions)
        /\ "fact" \notin build => ReachesBuild(fact, companyVersions)

LEMMA SpineReaches ==
    ASSUME TypeOK, VersionsAreLive, builtOn = today
    PROVE  ReachesBuild(SpineRows, companyVersions)
<1> SUFFICES ASSUME NEW v \in companyVersions, NEW m \in MonthStarts,
                    Founded[v.id] <= m, m <= today
             PROVE  \E r \in SpineRows : r.company = v.id /\ r.date = m
  BY DEF ReachesBuild
<1>1. PICK w \in companyVersions : w.id = v.id /\ w.to = Never
  BY DEF VersionsAreLive
<1>2. RowOf(w, m) \in SpineRows
  BY <1>1, RowOfVersion DEF Covers
<1> QED BY <1>1, <1>2 DEF RowOf

LEMMA FactReaches ==
    ASSUME TypeOK, VersionsAreLive, ReachesBuild(spine, companyVersions)
    PROVE  ReachesBuild(FactRows, companyVersions)
<1> SUFFICES ASSUME NEW v \in companyVersions, NEW m \in MonthStarts,
                    Founded[v.id] <= m, m <= builtOn
             PROVE  \E r \in FactRows : r.company = v.id /\ r.date = m
  BY DEF ReachesBuild
<1>1. PICK w \in companyVersions : w.id = v.id /\ w.to = Never
  BY DEF VersionsAreLive
<1>2. PICK r \in spine : r.company = v.id /\ r.date = m
  BY DEF ReachesBuild
<1>3. Resolves(r, w)
  BY <1>1, <1>2 DEF Resolves, Covers
<1>4. FactRow(r, w) \in FactRows BY <1>3, RowOfMart
<1> QED BY <1>2, <1>4 DEF FactRow

LEMMA ReachesNext ==
    TypeOK /\ SourcesFirst /\ VersionsAreLive /\ BuildReachesToday /\ [Next]_vars
        => BuildReachesToday'
<1> SUFFICES ASSUME TypeOK, SourcesFirst, VersionsAreLive, BuildReachesToday,
                    [Next]_vars
             PROVE  BuildReachesToday'
  OBVIOUS
<1> USE DEF oltp, snapshots, marts
<1>1. CASE Operate
  BY <1>1 DEF Operate, BuildReachesToday, ReachesBuild
<1>2. CASE StartBuild
  BY <1>2 DEF StartBuild, BuildReachesToday, Nodes
<1>3. CASE SnapshotCompanies
  <2>1. "spine" \in build' /\ "fact" \in build'
    BY <1>3 DEF SnapshotCompanies, Finish, Ready, SourcesFirst
  <2> QED BY <2>1 DEF BuildReachesToday
<1>4. CASE SnapshotContracts
  BY <1>4 DEF SnapshotContracts, Finish, Ready, BuildReachesToday, ReachesBuild
<1>5. CASE BuildSpine
  <2>1. builtOn = today /\ "fact" \in build
    BY <1>5 DEF BuildSpine, Ready, VersionsAreLive, SourcesFirst
  <2>2. ReachesBuild(spine, companyVersions)'
    BY <1>5, <2>1, SpineReaches DEF BuildSpine, Finish, ReachesBuild
  <2>3. result' \in {"running", "success"} => "fact" \in build'
    BY <1>5, <2>1 DEF BuildSpine, Finish
  <2> QED BY <2>2, <2>3 DEF BuildReachesToday
<1>6. CASE BuildDim
  BY <1>6 DEF BuildDim, Finish, Ready, BuildReachesToday, ReachesBuild
<1>7. CASE BuildFact
  <2>1. build # {} /\ "spine" \notin build BY <1>7 DEF BuildFact, Ready
  <2>2. result' \in {"running", "success"} => result \in {"running", "success"}
    BY <1>7 DEF BuildFact, Finish
  <2>3. result' \in {"running", "success"}
            => ReachesBuild(FactRows, companyVersions)
    BY <2>1, <2>2, FactReaches DEF BuildReachesToday
  <2>4. /\ fact' = FactRows /\ spine' = spine
        /\ companyVersions' = companyVersions /\ builtOn' = builtOn
    BY <1>7 DEF BuildFact, Finish
  <2> QED BY <2>1, <2>2, <2>3, <2>4 DEF BuildReachesToday, ReachesBuild
<1>8. CASE BuildBreaks
  BY <1>8 DEF BuildBreaks, BuildReachesToday
<1>9. CASE NextDay
  BY <1>9 DEF NextDay, BuildReachesToday, ReachesBuild
<1>10. CASE UNCHANGED vars
  BY <1>10 DEF BuildReachesToday, ReachesBuild, vars
<1> QED BY <1>1, <1>2, <1>3, <1>4, <1>5, <1>6, <1>7, <1>8, <1>9, <1>10 DEF Next

LEMMA BuildsReachToday == Spec => []BuildReachesToday
<1>1. Init => BuildReachesToday BY DEF Init, BuildReachesToday
<1> QED BY <1>1, TypeCorrect, BuildInvariant, AllVersionsLive, ReachesNext, PTL
        DEF Spec

\* A build that reports success has brought every company of the dimension up
\* to the month it ran in.
THEOREM SuccessReachesToday == Spec => []SuccessIsCurrent
<1>1. BuildIsFresh /\ BuildReachesToday => SuccessIsCurrent
  BY DEF BuildIsFresh, BuildReachesToday, ReachesBuild, SuccessIsCurrent
<1> QED BY <1>1, BuildsAreFresh, BuildsReachToday, PTL

\* What a successful build leaves is complete and consistent.
THEOREM SuccessIsTrustworthy == Spec => []SuccessCanBeTrusted
<1>1. SuccessIsCurrent /\ FactKeysResolve => SuccessCanBeTrusted
  BY DEF SuccessCanBeTrusted
<1> QED BY <1>1, KeysResolve, SuccessReachesToday, PTL

(***************************************************************************)
(* Every default is labelled, where each due date has the first of a month  *)
(* from DefaultDays to Window days after it.                                *)
(***************************************************************************)

EveryDueDateHasItsMonth ==
    \A d \in BillingDays, t \in Terms : \E m \in MonthStarts :
        d + t + DefaultDays <= m /\ m < d + t + Window

\* The day an invoice was issued on is not before its company's foundation.
IssuedOn(i, d) == d \in BillingDays /\ Founded[Owner[BilledTo[i]]] <= d

\* What an invoice hangs on is in the operational tables, from its company's
\* foundation on.
InvoicesAreRooted ==
    /\ \A c \in Companies : company[c] # Absent => Founded[c] <= today
    /\ \A k \in Contracts : contract[k] # Absent => company[Owner[k]] # Absent
    /\ \A i \in Invoices : due[i] # Never =>
           /\ contract[BilledTo[i]] # Absent
           /\ \E d \in BillingDays, t \in Terms :
                  IssuedOn(i, d) /\ due[i] = d + t

LEMMA RootedNext ==
    TypeOK /\ InvoicesAreRooted /\ [Next]_vars => InvoicesAreRooted'
<1> SUFFICES ASSUME TypeOK, InvoicesAreRooted, [Next]_vars
             PROVE  InvoicesAreRooted'
  OBVIOUS
<1> USE DEF oltp, snapshots, marts
<1>1. ASSUME NEW c \in Companies, today' = today, InsertCompany(c)
      PROVE  InvoicesAreRooted'
  <2>1. \A x \in Companies : company'[x] # Absent =>
            company[x] # Absent \/ (x = c /\ Founded[c] <= today)
    BY <1>1 DEF InsertCompany, TypeOK
  <2>2. \A x \in Companies : company[x] # Absent => company'[x] # Absent
    BY <1>1 DEF InsertCompany, TypeOK
  <2> QED BY <1>1, <2>1, <2>2 DEF InsertCompany, InvoicesAreRooted, IssuedOn
<1>2. ASSUME NEW c \in Companies, today' = today, UpdateCompany(c)
      PROVE  InvoicesAreRooted'
  <2>1. \A x \in Companies : company'[x] # Absent <=> company[x] # Absent
    BY <1>2 DEF UpdateCompany, TypeOK
  <2> QED BY <1>2, <2>1 DEF UpdateCompany, InvoicesAreRooted, IssuedOn
<1>3. ASSUME NEW k \in Contracts, today' = today,
             InsertContract(k) \/ UpdateContract(k)
      PROVE  InvoicesAreRooted'
  <2>1. \A x \in Contracts : contract'[x] # Absent =>
            contract[x] # Absent \/ (x = k /\ company[Owner[k]] # Absent)
    BY <1>3 DEF InsertContract, UpdateContract, TypeOK
  <2>2. \A x \in Contracts : contract[x] # Absent => contract'[x] # Absent
    BY <1>3 DEF InsertContract, UpdateContract, TypeOK
  <2> QED BY <1>3, <2>1, <2>2
          DEF InsertContract, UpdateContract, InvoicesAreRooted, IssuedOn
<1>4. ASSUME NEW i \in Invoices, today' = today, IssueInvoice(i)
      PROVE  InvoicesAreRooted'
  <2>1. PICK t \in Terms : due' = [due EXCEPT ![i] = today + t]
    BY <1>4 DEF IssueInvoice
  <2>2. contract[BilledTo[i]] # Absent /\ today \in BillingDays
    BY <1>4 DEF IssueInvoice
  <2>3. Founded[Owner[BilledTo[i]]] <= today
    BY <2>2 DEF InvoicesAreRooted
  <2>4. due'[i] = today + t /\ \A j \in Invoices : j # i => due'[j] = due[j]
    BY <2>1 DEF TypeOK
  <2>5. company' = company /\ contract' = contract
    BY <1>4 DEF IssueInvoice
  <2> QED BY <1>4, <2>2, <2>3, <2>4, <2>5 DEF InvoicesAreRooted, IssuedOn
<1>5. ASSUME NEW i \in Invoices, today' = today, CompletePayment(i)
      PROVE  InvoicesAreRooted'
  BY <1>5 DEF CompletePayment, InvoicesAreRooted, IssuedOn
<1>6. CASE Operate
  BY <1>1, <1>2, <1>3, <1>4, <1>5, <1>6 DEF Operate
<1>7. CASE NextDay
  <2>1. today \in Nat /\ today' \in Nat /\ today < today'
    BY <1>7 DEF NextDay, TypeOK
  <2>2. \A c \in Companies : Founded[c] \in Nat
    OBVIOUS
  <2> QED BY <1>7, <2>1, <2>2 DEF NextDay, InvoicesAreRooted, IssuedOn
<1>8. CASE ~Operate /\ ~NextDay
  <2>1. UNCHANGED <<today, company, contract, due>>
    BY <1>8 DEF Next, vars, StartBuild, SnapshotCompanies, SnapshotContracts,
                BuildSpine, BuildDim, BuildFact, BuildBreaks, Finish
  <2> QED BY <2>1 DEF InvoicesAreRooted, IssuedOn
<1> QED BY <1>6, <1>7, <1>8

LEMMA InvoicesRooted == Spec => []InvoicesAreRooted
<1>1. Init => InvoicesAreRooted BY DEF Init, InvoicesAreRooted
<1> QED BY <1>1, TypeCorrect, RootedNext, PTL DEF Spec

\* Once a build has taken its snapshot of the contracts, each invoice that was
\* due before the build finds a version of its contract.
ContractsAreSeen ==
    build # {} /\ "contracts_snapshot" \notin build =>
        \A i \in Invoices : due[i] # Never /\ due[i] < today =>
            \E v \in contractVersions : v.id = BilledTo[i]

LEMMA SeenNext ==
    TypeOK /\ InvoicesAreRooted /\ ContractsAreSeen /\ [Next]_vars
        => ContractsAreSeen'
<1> SUFFICES ASSUME TypeOK, InvoicesAreRooted, ContractsAreSeen, [Next]_vars,
                    build' # {}, "contracts_snapshot" \notin build',
                    NEW i \in Invoices, due'[i] # Never, due'[i] < today'
             PROVE  \E v \in contractVersions' : v.id = BilledTo[i]
  BY DEF ContractsAreSeen
<1> USE DEF oltp, snapshots, marts
<1>1. today' = today
  BY DEF Next, vars, Operate, StartBuild, SnapshotCompanies, SnapshotContracts,
         BuildSpine, BuildDim, BuildFact, BuildBreaks, NextDay, Finish
<1>2. due'[i] = due[i]
  <2>1. CASE \E j \in Invoices : IssueInvoice(j)
    <3>1. PICK j \in Invoices : IssueInvoice(j) BY <2>1
    <3>2. PICK t \in Terms : due' = [due EXCEPT ![j] = today + t]
      BY <3>1 DEF IssueInvoice
    <3>3. today \in Nat /\ t \in Nat BY DEF TypeOK
    <3> QED BY <1>1, <3>2, <3>3 DEF TypeOK
  <2>2. CASE ~\E j \in Invoices : IssueInvoice(j)
    BY <2>2 DEF Next, vars, Operate, StartBuild, SnapshotCompanies,
                SnapshotContracts, BuildSpine, BuildDim, BuildFact,
                BuildBreaks, NextDay, Finish, InsertCompany, InsertContract,
                UpdateCompany, UpdateContract, CompletePayment
  <2> QED BY <2>1, <2>2
<1>3. CASE SnapshotContracts
  <2>1. contract[BilledTo[i]] # Absent /\ BilledTo[i] \in Contracts
    BY <1>2 DEF InvoicesAreRooted
  <2>2. contractVersions' = Snapshot(contractVersions, contract)
    BY <1>3 DEF SnapshotContracts
  <2> QED BY <2>1, <2>2, SnapshotOpens DEF TypeOK
<1>4. CASE ~SnapshotContracts
  <2>1. build # {} /\ "contracts_snapshot" \notin build
    BY <1>4 DEF Next, vars, Operate, StartBuild, SnapshotCompanies, BuildSpine,
                BuildDim, BuildFact, BuildBreaks, NextDay, Finish, Downstream,
                Nodes
  <2>2. contractVersions' = contractVersions
    BY <1>4, OnlySnapshotContracts
  <2> QED BY <1>1, <1>2, <2>1, <2>2 DEF ContractsAreSeen
<1> QED BY <1>3, <1>4

LEMMA ContractsSeen == Spec => []ContractsAreSeen
<1>1. Init => ContractsAreSeen BY DEF Init, ContractsAreSeen
<1> QED BY <1>1, TypeCorrect, InvoicesRooted, SeenNext, PTL DEF Spec

\* A mart that is past the window of an unpaid invoice has the row of the month
\* at which it made its company insolvent.
LEMMA MartLabels ==
    ASSUME TypeOK, UpToToday, SpineHasNoGaps, InvoicesAreRooted,
           ContractsAreSeen, EveryDueDateHasItsMonth,
           build # {}, "contracts_snapshot" \notin build,
           NEW i \in Invoices, due[i] # Never, paid[i] = {},
           NEW r \in FactRows, r.company = Owner[BilledTo[i]],
           r.date >= due[i] + Window
    PROVE  \E q \in FactRows : q.company = Owner[BilledTo[i]] /\ q.insolvent
<1> DEFINE c == Owner[BilledTo[i]]
<1>1. PICK d \in BillingDays, t \in Terms : IssuedOn(i, d) /\ due[i] = d + t
  BY DEF InvoicesAreRooted
<1>2. PICK m \in MonthStarts : d + t + DefaultDays <= m /\ m < d + t + Window
  BY DEF EveryDueDateHasItsMonth
<1>3. /\ d \in Nat /\ t \in Nat /\ m \in Nat /\ Founded[c] \in Nat
      /\ DefaultDays \in Nat /\ Window \in Nat /\ today \in Nat
  BY DEF TypeOK
<1>4. r.date \in Nat /\ r.date <= today
  <2>1. PICK s \in spine, v \in companyVersions : r = FactRow(s, v)
    BY DEF FactRows
  <2> QED BY <2>1 DEF FactRow, UpToToday, TypeOK
<1>5. Founded[c] <= m /\ m <= r.date
  BY <1>1, <1>2, <1>3, <1>4 DEF IssuedOn
<1>6. PICK q \in FactRows : q.company = c /\ q.date = m
  BY <1>5, FactRowsNoGaps
<1>7. q.insolvent = IsInsolvent(c, m)
  BY <1>6 DEF FactRows, FactRow
<1>8. Billed(c, i)
  <2>1. due[i] < today BY <1>1, <1>2, <1>3, <1>4
  <2> QED BY <2>1 DEF ContractsAreSeen, Billed
<1>9. InWindow(i, m)
  BY <1>1, <1>2, <1>3 DEF InWindow
<1>10. m - due[i] \in DaysPastDue(i, m) /\ m - due[i] >= DefaultDays
  BY <1>1, <1>2, <1>3 DEF DaysPastDue
<1>11. IsInsolvent(c, m) BY <1>8, <1>9, <1>10 DEF IsInsolvent
<1> QED BY <1>6, <1>7, <1>11

LEMMA LabelledNext ==
    ASSUME EveryDueDateHasItsMonth
    PROVE  /\ TypeOK /\ UpToToday /\ SpineHasNoGaps /\ InvoicesAreRooted
           /\ ContractsAreSeen /\ DefaultsAreLabelled /\ [Next]_vars
           => DefaultsAreLabelled'
<1> SUFFICES ASSUME TypeOK, UpToToday, SpineHasNoGaps, InvoicesAreRooted,
                    ContractsAreSeen, DefaultsAreLabelled, [Next]_vars,
                    NEW i \in Invoices, due'[i] # Never, paid'[i] = {},
                    NEW r \in fact', r.company = Owner[BilledTo[i]],
                    r.date >= due'[i] + Window
             PROVE  \E q \in fact' : q.company = Owner[BilledTo[i]] /\ q.insolvent
  BY DEF DefaultsAreLabelled
<1> USE DEF oltp, snapshots, marts
<1>1. CASE BuildFact
  <2>1. fact' = FactRows /\ due' = due /\ paid' = paid
    BY <1>1 DEF BuildFact, Finish
  <2>2. build # {} /\ "contracts_snapshot" \notin build
    BY <1>1 DEF BuildFact, Ready
  <2> QED BY <2>1, <2>2, MartLabels
<1>2. CASE ~BuildFact
  <2>1. fact' = fact BY <1>2, OnlyBuildFact
  <2>2. r.date \in Nat /\ r.date <= today /\ today \in Nat
    BY <2>1 DEF UpToToday, TypeOK
  <2>3. CASE \E j \in Invoices : IssueInvoice(j)
    <3>1. PICK j \in Invoices : IssueInvoice(j) BY <2>3
    <3>2. PICK t \in Terms : due' = [due EXCEPT ![j] = today + t]
      BY <3>1 DEF IssueInvoice
    <3>3. PICK m \in MonthStarts :
              today + t + DefaultDays <= m /\ m < today + t + Window
      BY <3>1, <3>2 DEF IssueInvoice, EveryDueDateHasItsMonth
    <3>4. t \in Nat /\ Window \in Nat /\ DefaultDays \in Nat /\ m \in Nat
      OBVIOUS
    <3>5. today + t + Window > today BY <2>2, <3>3, <3>4
    <3>6. i # j
      BY <2>2, <3>2, <3>4, <3>5 DEF TypeOK
    <3>7. due'[i] = due[i] /\ paid' = paid
      BY <3>1, <3>2, <3>6 DEF IssueInvoice, TypeOK
    <3> QED BY <2>1, <3>7 DEF DefaultsAreLabelled
  <2>4. CASE \E j \in Invoices : CompletePayment(j)
    <3>1. PICK j \in Invoices : CompletePayment(j) BY <2>4
    <3>2. due' = due /\ paid[i] = {}
      BY <3>1 DEF CompletePayment, TypeOK
    <3> QED BY <2>1, <3>2 DEF DefaultsAreLabelled
  <2>5. CASE due' = due /\ paid' = paid
    BY <2>1, <2>5 DEF DefaultsAreLabelled
  <2>6. \/ \E j \in Invoices : CompletePayment(j) \/ IssueInvoice(j)
        \/ due' = due /\ paid' = paid
    BY DEF Next, vars, Operate, StartBuild, SnapshotCompanies,
           SnapshotContracts, BuildSpine, BuildDim, BuildFact, BuildBreaks,
           NextDay, Finish, InsertCompany, InsertContract, UpdateCompany,
           UpdateContract
  <2> QED BY <2>3, <2>4, <2>5, <2>6
<1> QED BY <1>1, <1>2

\* Where each due date has its month, no unpaid invoice escapes the labels.
THEOREM NoDefaultIsMissed ==
    ASSUME EveryDueDateHasItsMonth
    PROVE  Spec => []DefaultsAreLabelled
<1>1. Init => DefaultsAreLabelled BY DEF Init, DefaultsAreLabelled
<1>2. /\ TypeOK /\ UpToToday /\ SpineHasNoGaps /\ InvoicesAreRooted
      /\ ContractsAreSeen /\ DefaultsAreLabelled /\ [Next]_vars
      => DefaultsAreLabelled'
  BY LabelledNext
<1> QED BY <1>1, <1>2, TypeCorrect, BuildInvariant, SpineGaps, InvoicesRooted,
           ContractsSeen, PTL DEF Spec
=============================================================================
