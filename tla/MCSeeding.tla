------------------------------ MODULE MCSeeding ------------------------------
(* An instance of Seeding: a calendar of two years of two months of three
   days, of which the second year ends after its first month. *)
EXTENDS Seeding, TLC

MCFirstOf == [y \in Years |-> [m \in Months |-> 6 * (y - 1) + 3 * (m - 1)]]
MCLastOf == [y \in Years |-> [m \in Months |-> MCFirstOf[y][m] + 2]]

At(d) == [day |-> d, time |-> 0]
ClockOf(today, utc, session) ==
    [today |-> today, now |-> At(utc), currentDate |-> session,
     currentTimestamp |-> At(utc)]

(* After the simulated months; the second and the first day of the last; a day
   before it; the process ahead of UTC; the session behind. *)
MCClocks ==
    {ClockOf(12, 12, 12), ClockOf(7, 7, 7), ClockOf(6, 6, 6), ClockOf(4, 4, 4),
     ClockOf(8, 7, 8), ClockOf(8, 8, 7)}

(* Nothing but the levels depends on the size: one of the three is drawn. *)
MCPowers == [s \in Sizes |-> IF s = "large" THEN {1} ELSE {}]
MCMeterLengths == [s \in Sizes |-> {2}]

Symmetry == Permutations(Vats)

(* Rows on and beside every boundary a rule knows of. *)
Texts(n) == {Null, [length |-> n], [length |-> n + 1]}
Nights == {Null} \cup {[day |-> 6, time |-> t] : t \in 0 .. 2}
Cents == {-WideLimit, -1, 0, 1, WideLimit - 1, WideLimit}
Units == {Null, -1, 0, NarrowLimit - 1, NarrowLimit}

MCRecords ==
    [companies |->
         [vat : {Null} \cup [length : {10, 11, 12}, digits : BOOLEAN],
          name : {Null, "name"}, form : Texts(FormWidth),
          sector : {Null, "tech", "finance"}, region : Texts(TextWidth),
          founded : {Null, 6, 7}],
     energy_contracts |->
         [commodity : {Null, "electricity", "gas"}, market : {"regulated", "free"},
          voltage : {Null, "low", "none"}, pressure : {Null, "high"},
          power : Units,
          meter : {Null} \cup [prefix : BOOLEAN, digits : BOOLEAN,
                               length : {MeterWidth, MeterWidth + 1}],
          activation : {FirstActivation - 1, FirstActivation},
          termination : {Null, FirstActivation, FirstActivation + 1},
          status : {Null, "active", "terminated", "closed"}],
     financial_statements |->
         [year : {FirstFiscalYear - 1, FirstFiscalYear, IntegerLimit},
          revenue : Cents, debt : {-1, 0}, cash : {0, 1}, capital : {-1, 0},
          income : Cents, ebitda : {-1, WideLimit}],
     invoices |->
         [commodity : {Null, "electricity", "gas"}, kwh : Units, scm : Units,
          net : {-1, 0, 1}, tax : {-1, 0, 1}, total : -1 .. 2,
          issue : {6}, due : {5, 6, 7}, status : {Null, "paid", "lost"}],
     payments |->
         [date : {Null, 6, 7}, amount : Cents, method : {Null, "cash", "barter"},
          reference : Texts(TextWidth), status : {Null, "refunded", "lost"}],
     crm_support_tickets |->
         [category : {Null, "billing", "other"}, created : Nights,
          resolved : Nights, score : {Null, 0, 1, 5, 6}],
     user_web_logins |->
         [user : {0, 1}, at : Nights,
          address : [length : {AddressWidth, AddressWidth + 1}, inet : BOOLEAN],
          device : {Null, "api", "fax"}]]
=============================================================================
