--------------------------- MODULE TrainingData ---------------------------
(***************************************************************************)
(* From the star schema to the matrices a model is fitted on and scored    *)
(* with: the temporal split, the cross-validation folds, encoding and      *)
(* scaling, in training and in inference.                                  *)
(*                                                                         *)
(* A dataset is a set of rows.  Of a row's values only the category is     *)
(* kept: industry_sector stands for the two categorical columns.  What     *)
(* was fitted (an encoder, a scaler, a model) is the set of rows it was    *)
(* fitted on, which is all that a leak or a mismatch depends on.           *)
(***************************************************************************)
EXTENDS Integers, FiniteSets

CONSTANTS
    Rows,           \* records with the fields company, date and sector
    NTestMonths,    \* N_TEST_MONTHS: 12
    NSplits         \* N_CV_SPLITS: 5

ASSUME RowsAssumption == \A r \in Rows : r.date \in Nat
ASSUME SplitAssumption == NTestMonths \in Nat \ {0} /\ NSplits \in Nat \ {0, 1}

-----------------------------------------------------------------------------
\* split.py

Dates(df) == {r.date : r \in df}

\* The index of a date among the sorted unique ones, which are cut by index.
Position(dates, d) == Cardinality({e \in dates : e < d})

\* The index of the cutoff date: unique().sort_values()[-n_test_months].
CutoffPosition(df) == Cardinality(Dates(df)) - NTestMonths

Remaining(df) ==
    LET dates == Dates(df)
    IN  {r \in df : Position(dates, r.date) < CutoffPosition(df)}
TestSet(df) ==
    LET dates == Dates(df)
    IN  {r \in df : Position(dates, r.date) >= CutoffPosition(df)}

\* TimeSeriesSplit
ValidationSize(n) == n \div (NSplits + 1)
ValidationStart(n, i) == n - (NSplits - i + 1) * ValidationSize(n)

FoldTrain(df, i) ==
    LET dates == Dates(df)
        before == {d \in dates : Position(dates, d) < ValidationStart(Cardinality(dates), i)}
    IN  {r \in df : r.date \in before}

\* Mutant: the window takes in the date after it.
FoldValClosed(df, i) ==
    LET dates == Dates(df)
        n == Cardinality(dates)
        window == {d \in dates : /\ ValidationStart(n, i) <= Position(dates, d)
                                 /\ Position(dates, d)
                                        <= ValidationStart(n, i) + ValidationSize(n)}
    IN  {r \in df : r.date \in window}

FoldVal(df, i) ==
    LET dates == Dates(df)
        n == Cardinality(dates)
        window == {d \in dates : /\ ValidationStart(n, i) <= Position(dates, d)
                                 /\ Position(dates, d)
                                        < ValidationStart(n, i) + ValidationSize(n)}
    IN  {r \in df : r.date \in window}

\* The list of dates is long enough for both indices: neither raises.
CanSplit(df) ==
    /\ Cardinality(Dates(df)) >= NTestMonths
    /\ Cardinality(Dates(Remaining(df))) >= NSplits + 1
-----------------------------------------------------------------------------
\* preprocessing.py

CategoricalCols == {"industry_sector"}
FinancialCols == {"leverage_ratio", "cash_to_debt_ratio", "net_profit_margin", "ebitda"}
LoginCols == {"days_since_last_login", "login_velocity"}
MissingFlags ==
    {"has_recent_financials", "has_login_activity", "has_recent_satisfaction_score"}
NumericColsToScale ==
    FinancialCols \cup LoginCols \cup
    {"company_age_days", "active_contracts_count", "unpaid_ratio_trailing_90d",
     "total_outstanding_debt", "billing_disputes_count",
     "average_satisfaction_score", "year", "quarter", "month"}

\* The columns of loader.QUERY that are neither index nor target.
QueryCols ==
    {"company_age_days", "active_contracts_count", "has_active_electricity_contract",
     "has_active_gas_contract", "leverage_ratio", "cash_to_debt_ratio",
     "net_profit_margin", "ebitda", "unpaid_ratio_trailing_90d",
     "total_outstanding_debt", "days_since_last_login", "login_velocity",
     "billing_disputes_count", "average_satisfaction_score", "industry_sector",
     "year", "quarter", "month"}

\* The columns of the request and the clock in predict_from_raw_data.
AdHocCols ==
    {"company_age_days", "industry_sector", "unpaid_ratio_trailing_90d",
     "total_outstanding_debt", "days_since_last_login", "login_velocity",
     "cash_to_debt_ratio", "ebitda", "net_profit_margin", "leverage_ratio",
     "has_active_gas_contract", "has_active_electricity_contract",
     "average_satisfaction_score", "billing_disputes_count",
     "active_contracts_count", "year", "quarter", "month"}

\* Mutant: what is transformed is fitted again.
EncodeAnew(cols, rows, encoder, handleNan) ==
    [rows |-> rows,
     cols |-> (cols \ CategoricalCols) \cup (IF handleNan THEN MissingFlags ELSE {}),
     oneHot |-> {r.sector : r \in rows},
     encoder |-> rows,
     scaler |-> {}]

HandleMissingAndEncode(cols, rows, encoder, handleNan) ==
    [rows |-> rows,
     cols |-> (cols \ CategoricalCols) \cup (IF handleNan THEN MissingFlags ELSE {}),
     oneHot |-> {r.sector : r \in encoder},
     encoder |-> encoder,
     scaler |-> {}]

ScaleFeatures(frame, scaler) == [frame EXCEPT !.scaler = scaler]

\* The fitting and the applying half of the two pipelines of preprocessing.py.
Prepare(train, scored, config) ==
    LET X == HandleMissingAndEncode(QueryCols, train, train, config.handleNan)
        Z == HandleMissingAndEncode(QueryCols, scored, train, config.handleNan)
    IN  [train  |-> IF config.scale THEN ScaleFeatures(X, train) ELSE X,
         scored |-> IF config.scale THEN ScaleFeatures(Z, train) ELSE Z]

PreprocessTrainFolds(df, config) ==
    LET pre == Remaining(df)
    IN  [i \in 1 .. NSplits |-> Prepare(FoldTrain(pre, i), FoldVal(pre, i), config)]

PreprocessTestSet(df, config) == Prepare(Remaining(df), TestSet(df), config)
-----------------------------------------------------------------------------
\* predictor.py: the frames that score_features hands to the model.

ScoreFeatures(cols, encoder) == HandleMissingAndEncode(cols, {}, encoder, FALSE)
===========================================================================
