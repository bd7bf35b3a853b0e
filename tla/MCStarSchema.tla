--------------------------- MODULE MCStarSchema ---------------------------
(* Instances of StarSchema for TLC: the first months of a common year. *)
EXTENDS StarSchema, TLC
CONSTANTS c1, c2, k1, i1, a, b

OneCompany == {c1}
TwoCompanies == {c1, c2}
OneContract == {k1}
OneInvoice == {i1}
ByC1 == k1 :> c1
OnK1 == i1 :> k1
FoundedFirst == c1 :> 0
FoundedApart == (c1 :> 0) @@ (c2 :> 44)
TwoValues == {a, b}

Months == {0, 31, 59, 90, 120, 151}
MonthsAndMidFebruary == Months \cup {44}
FirstDay == {0}
Simulated == {20}

Alike == Permutations({a, b})
=============================================================================
