---------------------------- MODULE MCTraining ----------------------------
(* Instances of Training for TLC. *)
EXTENDS Training, TLC
CONSTANTS l1, l2, a, b

TwoLaunches == {l1, l2}
\* The script as it is, and with the line that trains only the model served.
AllOrServed ==
    l1 :> {{"baseline", "xgboost_model"}} @@ l2 :> {{"xgboost_model"}}

\* Two families, of which one is scaled and imputed and the other neither.
TwoFamilies ==
    << [experiment |-> "baseline",      scale |-> TRUE,  handleNan |-> TRUE],
       [experiment |-> "xgboost_model", scale |-> FALSE, handleNan |-> FALSE] >>

Row(company, date, sector) == [company |-> company, date |-> date, sector |-> sector]

\* A company from the first month, whose sector changes, and one from the third;
\* too few months, or validation sets of two months with one to spare.
Since(last) ==
    {Row(1, d, IF d < 4 THEN a ELSE b) : d \in 1 .. last}
        \cup {Row(2, d, a) : d \in 3 .. last}
TwoBuilds == {Since(4), Since(9)}

EveryRow == UNION {{Row(c, d, s) : c \in 1 .. 2, d \in 1 .. 9} : s \in {a, b}}
===========================================================================
