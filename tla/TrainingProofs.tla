--------------------------- MODULE TrainingProofs ---------------------------
(***************************************************************************)
(* What holds of training for any datasets, numbers of folds and months,   *)
(* model families and launches; and of the answers given beside it.        *)
(***************************************************************************)
EXTENDS Deployment, FiniteSetTheorems, SequenceTheorems, WellFoundedInduction, TLAPS

-----------------------------------------------------------------------------
(* The split *)

LEMMA DatesAreFinite ==
    ASSUME NEW df \in SUBSET Rows, IsFiniteSet(df)
    PROVE  IsFiniteSet(Dates(df)) /\ Dates(df) \subseteq Nat
<1> DEFINE date == [r \in df |-> r.date]
<1>1. date \in Surjection(df, Dates(df))
  BY DEF Dates, Surjection
<1>2. Dates(df) \subseteq Nat
  BY RowsAssumption DEF Dates
<1> HIDE DEF date
<1> QED
  BY <1>1, <1>2, FS_Surjection

\* A later date is not further to the front.
LEMMA PositionIsMonotone ==
    ASSUME NEW dates \in SUBSET Nat, IsFiniteSet(dates),
           NEW d \in dates, NEW e \in dates, d <= e
    PROVE  Position(dates, d) <= Position(dates, e)
<1> DEFINE before(x) == {y \in dates : y < x}
<1>1. before(d) \subseteq before(e)
  <2> SUFFICES ASSUME NEW y \in dates, y < d PROVE y < e
    OBVIOUS
  <2>1. y \in Nat /\ d \in Nat /\ e \in Nat
    OBVIOUS
  <2> QED
    BY <2>1
<1>2. IsFiniteSet(before(e))
  <2>1. before(e) \subseteq dates
    OBVIOUS
  <2> HIDE DEF before
  <2> QED
    BY <2>1, FS_Subset
<1>3. Position(dates, d) = Cardinality(before(d)) /\ Position(dates, e) = Cardinality(before(e))
  BY DEF Position
<1> HIDE DEF before
<1> QED
  BY <1>1, <1>2, <1>3, FS_Subset

LEMMA PositionIsNatural ==
    ASSUME NEW dates \in SUBSET Nat, IsFiniteSet(dates), NEW d
    PROVE  Position(dates, d) \in Nat
  BY FS_Subset, FS_CardinalityType DEF Position

LEMMA ValidationStartIsInteger ==
    ASSUME NEW n \in Nat, NEW i \in 1 .. NSplits
    PROVE  ValidationStart(n, i) \in Int
  BY SplitAssumption DEF ValidationStart, ValidationSize

\* What is further to the front is of an earlier date.
LEMMA FrontIsEarlier ==
    ASSUME NEW df \in SUBSET Rows, IsFiniteSet(df), NEW r \in df, NEW s \in df,
           NEW k \in Int,
           Position(Dates(df), s.date) < k, k <= Position(Dates(df), r.date)
    PROVE  s.date < r.date
<1>1. /\ Dates(df) \in SUBSET Nat /\ IsFiniteSet(Dates(df))
      /\ r.date \in Dates(df) /\ s.date \in Dates(df)
  BY DatesAreFinite DEF Dates
<1>2. Position(Dates(df), r.date) \in Nat /\ Position(Dates(df), s.date) \in Nat
  BY <1>1, PositionIsNatural
<1>3. r.date <= s.date => Position(Dates(df), r.date) <= Position(Dates(df), s.date)
  BY <1>1, PositionIsMonotone
<1> QED
  BY <1>1, <1>2, <1>3

LEMMA TestIsLater ==
    ASSUME NEW df \in SUBSET Rows, IsFiniteSet(df),
           NEW r \in TestSet(df), NEW s \in Remaining(df)
    PROVE  s.date < r.date
<1>1. CutoffPosition(df) \in Int
  BY DatesAreFinite, FS_CardinalityType, SplitAssumption DEF CutoffPosition
<1> QED
  BY <1>1, FrontIsEarlier DEF TestSet, Remaining

LEMMA ValidationIsLater ==
    ASSUME NEW df \in SUBSET Rows, IsFiniteSet(df), NEW i \in 1 .. NSplits,
           NEW r \in FoldVal(df, i), NEW s \in FoldTrain(df, i)
    PROVE  s.date < r.date
<1> DEFINE start == ValidationStart(Cardinality(Dates(df)), i)
<1>1. start \in Int
  BY DatesAreFinite, FS_CardinalityType, ValidationStartIsInteger
<1>2. Position(Dates(df), s.date) < start /\ s \in df
  BY DEF FoldTrain
<1>3. start <= Position(Dates(df), r.date) /\ r \in df
  BY DEF FoldVal
<1> HIDE DEF start
<1> QED
  BY <1>1, <1>2, <1>3, FrontIsEarlier

LEMMA FoldsAreOfTheirData ==
    ASSUME NEW df, NEW i PROVE FoldVal(df, i) \subseteq df /\ FoldTrain(df, i) \subseteq df
  BY DEF FoldVal, FoldTrain
-----------------------------------------------------------------------------
(* What a launch learns and scores *)

LEMMA LearntFromTraining ==
    ASSUME NEW l \in Launches, NEW i \in 1 .. FinalFit,
           Config(l).scale \in BOOLEAN
    PROVE  IF i = FinalFit
           THEN Learnt(l, i) = Remaining(data[l]) /\ Scored(l, i) = TestSet(data[l])
           ELSE /\ Learnt(l, i) = FoldTrain(Remaining(data[l]), i)
                /\ Scored(l, i) = FoldVal(Remaining(data[l]), i)
<1>1. ASSUME NEW train, NEW scored
      PROVE  LET P == Prepare(train, scored, Config(l))
             IN  /\ P.train.rows \cup P.train.encoder \cup P.train.scaler = train
                 /\ P.scored.rows = scored
  BY DEF Prepare, HandleMissingAndEncode, ScaleFeatures
<1>2. CASE i = FinalFit
  <2>1. Frames(l, i) = Prepare(Remaining(data[l]), TestSet(data[l]), Config(l))
    BY <1>2 DEF Frames, PreprocessTestSet
  <2> QED
    BY <1>1, <1>2, <2>1 DEF Learnt, Scored
<1>3. CASE i # FinalFit
  <2>1. i \in 1 .. NSplits
    BY <1>3, SplitAssumption DEF FinalFit
  <2>2. Frames(l, i) = Prepare(FoldTrain(Remaining(data[l]), i),
                               FoldVal(Remaining(data[l]), i), Config(l))
    BY <1>3, <2>1 DEF Frames, PreprocessTrainFolds
  <2> QED
    BY <1>1, <1>3, <2>2 DEF Learnt, Scored
<1> QED
  BY <1>2, <1>3

\* The split isolates, whatever is loaded.
LEMMA SplitIsolates ==
    ASSUME NEW l \in Launches, data[l] \in SUBSET Rows, IsFiniteSet(data[l]),
           Config(l).scale \in BOOLEAN
    PROVE  FoldsAreTemporal(l) /\ TestIsHeldOut(l)
<1> DEFINE df == data[l]
           pre == Remaining(df)
<1>1. pre \in SUBSET Rows /\ IsFiniteSet(pre) /\ pre \subseteq df
  <2>1. pre \subseteq df
    BY DEF Remaining
  <2> QED
    BY <2>1, FS_Subset
<1>2. /\ Learnt(l, FinalFit) = pre /\ Scored(l, FinalFit) = TestSet(df)
      /\ FinalFit \in 1 .. FinalFit
  BY LearntFromTraining, SplitAssumption DEF FinalFit
<1>3. \A i \in 1 .. NSplits : /\ Learnt(l, i) = FoldTrain(pre, i)
                              /\ Scored(l, i) = FoldVal(pre, i)
                              /\ i \in 1 .. FinalFit /\ i # FinalFit
  BY LearntFromTraining, SplitAssumption DEF FinalFit
<1>4. \A i \in 1 .. FinalFit : i = FinalFit \/ i \in 1 .. NSplits
  BY SplitAssumption DEF FinalFit
<1>5. \A r \in TestSet(df), s \in pre : s.date < r.date
  BY TestIsLater
<1>6. \A i \in 1 .. NSplits : \A r \in FoldVal(pre, i), s \in FoldTrain(pre, i) :
          s.date < r.date
  BY <1>1, ValidationIsLater
<1>7. FoldsAreTemporal(l)
  BY <1>2, <1>3, <1>4, <1>5, <1>6 DEF FoldsAreTemporal
<1>8. \A i \in 1 .. FinalFit : Learnt(l, i) \cup Watched(l, i) \subseteq pre
  <2>1. Watched(l, FinalFit) = {}
    BY DEF Watched
  <2>2. \A i \in 1 .. NSplits : Watched(l, i) \subseteq FoldVal(pre, i)
    BY <1>3 DEF Watched, Scored
  <2> QED
    BY <1>2, <1>3, <1>4, <2>1, <2>2, FoldsAreOfTheirData
<1>9. \A i \in 1 .. NSplits : Scored(l, i) \subseteq pre
  BY <1>3, FoldsAreOfTheirData
<1>10. TestIsHeldOut(l)
  BY <1>2, <1>5, <1>8, <1>9 DEF TestIsHeldOut
<1> QED
  BY <1>7, <1>10
-----------------------------------------------------------------------------
(* Types *)

\* What a launch has loaded, for as long as it works with it.
DataInv ==
    \A l \in Launches :
        /\ data[l] \in Marts \cup {{}}
        /\ launch[l].step \in CvSteps \cup FinalSteps => data[l] \in Marts

FoldRuns == Seq(Predictions \cup {Lost})
LaunchStates ==
    [step : {"idle", "prepare", "done", "broken"} \cup CvSteps \cup FinalSteps,
     at : 1 .. Len(ModelConfigs), chosen : SUBSET Experiments, fold : 1 .. NSplits]
CvStates ==
    [begun : BOOLEAN, after : SUBSET Launches, folds : FoldRuns,
     counted : {0} \cup {ValidationRows(df) : df \in Marts}]
FinalStates ==
    [begun : BOOLEAN, after : SUBSET Launches,
     has : SUBSET {"model", "encoder", "scaler", "predictions"},
     predictions : Predictions \cup {Lost},
     cut : SUBSET Predictions, calm : BOOLEAN]
NotebookStates ==
    [step : {"closed", "folds", "final", "tuned"}, experiment : Experiments,
     cv : SUBSET Launches, pool : SUBSET Predictions,
     final : SUBSET Launches, calm : BOOLEAN]

LEMMA TypeOKUnfolded ==
    TypeOK <=> /\ launch \in [Launches -> LaunchStates]
               /\ data \in [Launches -> SUBSET Rows]
               /\ cvRuns \in [Jobs -> CvStates]
               /\ finalRuns \in [Jobs -> FinalStates]
               /\ tmp \in [1 .. FinalFit -> Predictions \cup {Lost}]
               /\ notebook \in NotebookStates
               /\ overlapped \in BOOLEAN
  BY DEF TypeOK, LaunchStates, CvStates, FinalStates, NotebookStates, FoldRuns

LEMMA TypeOKPrimed ==
    TypeOK' <=> /\ launch' \in [Launches -> LaunchStates]
                /\ data' \in [Launches -> SUBSET Rows]
                /\ cvRuns' \in [Jobs -> CvStates]
                /\ finalRuns' \in [Jobs -> FinalStates]
                /\ tmp' \in [1 .. FinalFit -> Predictions \cup {Lost}]
                /\ notebook' \in NotebookStates
                /\ overlapped' \in BOOLEAN
  BY DEF TypeOK, LaunchStates, CvStates, FinalStates, NotebookStates, FoldRuns

LEMMA ConfigsAreConfigs ==
    /\ \A k \in 1 .. Len(ModelConfigs) :
           /\ ModelConfigs[k].experiment \in Experiments
           /\ ModelConfigs[k].scale \in BOOLEAN
    /\ Len(ModelConfigs) \in Nat \ {0}
    /\ Served \in Experiments
<1> DEFINE S == [experiment : STRING, scale : BOOLEAN, handleNan : BOOLEAN]
<1>1. ModelConfigs \in Seq(S)
  BY ConfigsAssumption
<1>2. \A k \in 1 .. Len(ModelConfigs) : ModelConfigs[k] \in S
  <2> HIDE DEF S
  <2> QED
    BY <1>1, ElementOfSeq
<1>3. Len(ModelConfigs) \in Nat
  BY <1>1
<1>4. Served \in Experiments
  BY ConfigsAssumption
<1>5. Len(ModelConfigs) # 0
  BY <1>3, <1>4 DEF Experiments
<1> QED
  BY <1>2, <1>3, <1>4, <1>5 DEF Experiments

LEMMA ConfigOfLaunch ==
    ASSUME TypeOK, NEW l \in Launches
    PROVE  /\ Config(l).experiment \in Experiments /\ Config(l).scale \in BOOLEAN
           /\ Job(l) \in Jobs /\ Job(l) = <<l, Config(l).experiment>>
           /\ launch[l].at \in 1 .. Len(ModelConfigs)
  BY ConfigsAreConfigs, TypeOKUnfolded DEF Config, Job, Jobs, LaunchStates

LEMMA PredictionsOfJob ==
    ASSUME TypeOK, NEW l \in Launches, NEW i \in 1 .. FinalFit
    PROVE  Prediction(Job(l), i) \in Predictions
  BY ConfigOfLaunch DEF Job, Prediction, Predictions

\* What a step does to the place of a launch in the script.
LEMMA GotoTypes ==
    ASSUME TypeOK, NEW l \in Launches,
           NEW step \in {"idle", "prepare", "done", "broken"} \cup CvSteps \cup FinalSteps,
           Goto(l, step)
    PROVE  /\ launch' \in [Launches -> LaunchStates]
           /\ launch'[l] = [launch[l] EXCEPT !.step = step]
           /\ launch'[l].step = step /\ launch'[l].at = launch[l].at
           /\ launch'[l].fold = launch[l].fold
           /\ \A m \in Launches : m # l => launch'[m] = launch[m]
  BY TypeOKUnfolded DEF Goto, LaunchStates

LEMMA AdvanceTypes ==
    ASSUME TypeOK, NEW l \in Launches, Advance(l)
    PROVE  /\ launch' \in [Launches -> LaunchStates]
           /\ launch'[l].step \in {"prepare", "done"}
           /\ data' = [data EXCEPT ![l] = {}]
           /\ \A m \in Launches : m # l => launch'[m] = launch[m]
<1>1. CASE launch[l].at < Len(ModelConfigs)
  <2>1. launch' = [launch EXCEPT ![l].step = "prepare", ![l].at = @ + 1, ![l].fold = 1]
    BY <1>1 DEF Advance
  <2>2. launch[l].at + 1 \in 1 .. Len(ModelConfigs) /\ 1 \in 1 .. NSplits
    BY <1>1, TypeOKUnfolded, ConfigsAreConfigs, SplitAssumption DEF LaunchStates
  <2> QED
    BY <2>1, <2>2, TypeOKUnfolded DEF LaunchStates, Advance
<1>2. CASE ~(launch[l].at < Len(ModelConfigs))
  <2>1. Goto(l, "done")
    BY <1>2 DEF Advance
  <2>2. /\ launch' \in [Launches -> LaunchStates]
        /\ launch'[l] = [launch[l] EXCEPT !.step = "done"]
        /\ \A m \in Launches : m # l => launch'[m] = launch[m]
    BY <2>1, GotoTypes
  <2>3. launch'[l].step = "done"
    BY <2>1, GotoTypes
  <2> QED
    BY <2>2, <2>3 DEF Advance
<1> QED
  BY <1>1, <1>2

LEMMA MartsAreData ==
    /\ \A df \in Marts : df \in SUBSET Rows /\ IsFiniteSet(df)
    /\ {} \in SUBSET Rows
  BY ConfigsAssumption

\* Types and data of the steps that take a launch from one step to another.
LEMMA MoveKeepsData ==
    ASSUME TypeOK, DataInv, NEW l \in Launches,
           NEW step \in {"idle", "prepare", "done", "broken"} \cup CvSteps \cup FinalSteps,
           Goto(l, step), data' = data,
           step \in CvSteps \cup FinalSteps => launch[l].step \in CvSteps \cup FinalSteps
    PROVE  DataInv'
<1>1. launch'[l].step = step /\ \A m \in Launches : m # l => launch'[m] = launch[m]
  BY GotoTypes
<1> QED
  BY <1>1 DEF DataInv

LEMMA AdvanceKeepsData ==
    ASSUME TypeOK, DataInv, NEW l \in Launches, Advance(l)
    PROVE  DataInv' /\ data' \in [Launches -> SUBSET Rows]
<1>1. /\ launch'[l].step \in {"prepare", "done"}
      /\ data' = [data EXCEPT ![l] = {}]
      /\ \A m \in Launches : m # l => launch'[m] = launch[m]
  BY AdvanceTypes
<1>2. data \in [Launches -> SUBSET Rows]
  BY TypeOKUnfolded, TypeOKPrimed
<1> QED
  BY <1>1, <1>2 DEF DataInv, CvSteps, FinalSteps

LEMMA StartedAreLaunches == \A runs, e : StartedBefore(runs, e) \in SUBSET Launches
  BY DEF StartedBefore

LEMMA StartTypes ==
    ASSUME TypeOK, DataInv, NEW l \in Launches, NEW chosen \in Selections[l], Start(l, chosen)
    PROVE  TypeOK' /\ DataInv'
<1>1. chosen \in SUBSET Experiments
  BY ConfigsAssumption
<1>2. launch' = [launch EXCEPT ![l].step = "prepare", ![l].chosen = chosen]
  BY DEF Start
<1>3. /\ launch' \in [Launches -> LaunchStates]
      /\ launch'[l].step = "prepare"
      /\ \A m \in Launches : m # l => launch'[m] = launch[m]
  BY <1>1, <1>2, TypeOKUnfolded, TypeOKPrimed DEF LaunchStates
<1>4. notebook' \in NotebookStates /\ overlapped' \in BOOLEAN
  BY TypeOKUnfolded, TypeOKPrimed DEF Start, NotebookStates
<1>5. UNCHANGED <<data, cvRuns, finalRuns, tmp>>
  BY DEF Start
<1>6. TypeOK'
  BY <1>3, <1>4, <1>5, TypeOKUnfolded, TypeOKPrimed
<1> QED
  BY <1>3, <1>5, <1>6 DEF DataInv, CvSteps, FinalSteps

LEMMA LoadTypes ==
    ASSUME TypeOK, DataInv, NEW l \in Launches, LoadData(l)
    PROVE  TypeOK' /\ DataInv'
<1>1. UNCHANGED <<cvRuns, finalRuns, tmp, notebook, overlapped>>
  BY DEF LoadData
<1>2. PICK df \in Marts :
          IF CanSplit(df)
          THEN data' = [data EXCEPT ![l] = df] /\ Goto(l, "cv")
          ELSE UNCHANGED data /\ Goto(l, "broken")
  BY DEF LoadData
<1>3. CASE CanSplit(df)
  <2>1. data' = [data EXCEPT ![l] = df] /\ Goto(l, "cv")
    BY <1>2, <1>3
  <2>2. data' \in [Launches -> SUBSET Rows]
    BY <2>1, MartsAreData, TypeOKUnfolded, TypeOKPrimed
  <2>3. TypeOK'
    BY <1>1, <2>1, <2>2, GotoTypes, TypeOKUnfolded, TypeOKPrimed DEF CvSteps
  <2> QED
    BY <2>1, <2>3, GotoTypes, TypeOKUnfolded, TypeOKPrimed DEF DataInv, CvSteps, LaunchStates
<1>4. CASE ~CanSplit(df)
  <2>1. data' = data /\ Goto(l, "broken")
    BY <1>2, <1>4
  <2>2. TypeOK'
    BY <1>1, <2>1, GotoTypes, TypeOKUnfolded, TypeOKPrimed
  <2> QED
    BY <2>1, <2>2, MoveKeepsData DEF CvSteps, FinalSteps
<1> QED
  BY <1>3, <1>4

LEMMA ScriptTypes ==
    ASSUME TypeOK, DataInv, NEW l \in Launches, Skip(l) \/ Break(l)
    PROVE  TypeOK' /\ DataInv'
<1>1. UNCHANGED <<cvRuns, finalRuns, tmp, notebook, overlapped>>
  BY DEF Skip, Break
<1>2. CASE Skip(l)
  BY <1>1, <1>2, AdvanceTypes, AdvanceKeepsData, TypeOKUnfolded, TypeOKPrimed DEF Skip
<1>3. CASE Break(l)
  <2>1. Goto(l, "broken") /\ data' = [data EXCEPT ![l] = {}]
    BY <1>3 DEF Break
  <2>2. launch' \in [Launches -> LaunchStates] /\ launch'[l].step = "broken"
        /\ \A m \in Launches : m # l => launch'[m] = launch[m]
    BY <2>1, GotoTypes
  <2>3. data' \in [Launches -> SUBSET Rows]
    BY <2>1, TypeOKUnfolded, TypeOKPrimed
  <2>4. DataInv'
    BY <2>1, <2>2, TypeOKUnfolded, TypeOKPrimed DEF DataInv, CvSteps, FinalSteps
  <2> QED
    BY <1>1, <2>2, <2>3, <2>4, TypeOKUnfolded, TypeOKPrimed
<1> QED
  BY <1>2, <1>3

LEMMA CvTypes ==
    ASSUME TypeOK, DataInv, NEW l \in Launches,
           launch[l].step = "upload" => launch[l].fold \in 1 .. Len(cvRuns[Job(l)].folds),
           StartCv(l) \/ StartFold(l) \/ UploadFold(l) \/ Aggregate(l)
    PROVE  TypeOK' /\ DataInv'
<1> USE DEF CvSteps, FinalSteps
<1>1. UNCHANGED <<data, finalRuns, tmp, notebook, overlapped>>
  BY DEF StartCv, StartFold, UploadFold, Aggregate
<1>2. Job(l) \in Jobs /\ cvRuns \in [Jobs -> CvStates] /\ cvRuns[Job(l)] \in CvStates
  BY ConfigOfLaunch, TypeOKUnfolded, TypeOKPrimed
<1>3. CASE StartCv(l)
  <2>1. cvRuns' \in [Jobs -> CvStates]
    BY <1>2, <1>3, StartedAreLaunches DEF StartCv, CvStates
  <2>2. Goto(l, "fold") /\ launch[l].step = "cv"
    BY <1>3 DEF StartCv
  <2> QED
    BY <1>1, <2>1, <2>2, GotoTypes, MoveKeepsData, TypeOKUnfolded, TypeOKPrimed
<1>4. CASE StartFold(l)
  <2>1. cvRuns' = [cvRuns EXCEPT ![Job(l)].folds = Append(@, Lost)]
    BY <1>4 DEF StartFold
  <2>2. Append(cvRuns[Job(l)].folds, Lost) \in FoldRuns
    BY <1>2 DEF CvStates, FoldRuns
  <2>3. cvRuns' \in [Jobs -> CvStates]
    BY <1>2, <2>1, <2>2 DEF CvStates
  <2>4. Goto(l, "write") /\ launch[l].step = "fold"
    BY <1>4 DEF StartFold
  <2> QED
    BY <1>1, <2>3, <2>4, GotoTypes, MoveKeepsData, TypeOKUnfolded, TypeOKPrimed
<1>5. CASE UploadFold(l)
  <2> DEFINE i == launch[l].fold
             folds == cvRuns[Job(l)].folds
  <2>1. cvRuns' = [cvRuns EXCEPT ![Job(l)].folds = [@ EXCEPT ![i] = tmp[i]]]
    BY <1>5 DEF UploadFold
  <2>2. i \in 1 .. NSplits /\ tmp[i] \in Predictions \cup {Lost}
    BY TypeOKUnfolded, TypeOKPrimed, SplitAssumption DEF LaunchStates, FinalFit
  <2>3. [folds EXCEPT ![i] = tmp[i]] \in FoldRuns
    <3>1. folds \in FoldRuns /\ i \in 1 .. Len(folds)
      BY <1>2, <1>5 DEF CvStates, UploadFold
    <3> HIDE DEF folds, i
    <3> QED
      BY <2>2, <3>1, ExceptSeq DEF FoldRuns
  <2>4. cvRuns' \in [Jobs -> CvStates]
    BY <1>2, <2>1, <2>3 DEF CvStates
  <2>5. launch[l].step = "upload"
    BY <1>5 DEF UploadFold
  <2>6. CASE i < NSplits
    <3>1. launch' = [launch EXCEPT ![l].step = "fold", ![l].fold = i + 1]
      BY <1>5, <2>6 DEF UploadFold
    <3>2. i + 1 \in 1 .. NSplits
      BY <2>2, <2>6, SplitAssumption
    <3>3. launch' \in [Launches -> LaunchStates] /\ launch'[l].step = "fold"
          /\ \A m \in Launches : m # l => launch'[m] = launch[m]
      BY <3>1, <3>2, TypeOKUnfolded, TypeOKPrimed DEF LaunchStates
    <3>4. DataInv'
      BY <1>1, <2>5, <3>3 DEF DataInv
    <3> QED
      BY <1>1, <2>4, <3>3, <3>4, TypeOKUnfolded, TypeOKPrimed
  <2>7. CASE ~(i < NSplits)
    <3>1. Goto(l, "aggregate")
      BY <1>5, <2>7 DEF UploadFold
    <3> QED
      BY <1>1, <2>4, <2>5, <3>1, GotoTypes, MoveKeepsData, TypeOKUnfolded, TypeOKPrimed
  <2> QED
    BY <2>6, <2>7
<1>6. CASE Aggregate(l)
  <2>1. data[l] \in Marts /\ launch[l].step = "aggregate" /\ Goto(l, "final")
    BY <1>6 DEF Aggregate, DataInv
  <2>2. cvRuns' \in [Jobs -> CvStates]
    BY <1>2, <1>6, <2>1 DEF Aggregate, CvStates
  <2> QED
    BY <1>1, <2>1, <2>2, GotoTypes, MoveKeepsData, TypeOKUnfolded, TypeOKPrimed
<1> QED
  BY <1>3, <1>4, <1>5, <1>6

LEMMA FinalTypes ==
    ASSUME TypeOK, DataInv, NEW l \in Launches,
           \/ StartFinal(l) \/ LogModel(l) \/ LogEncoder(l) \/ LogScaler(l)
           \/ UploadFinal(l)
    PROVE  TypeOK' /\ DataInv'
<1> USE DEF CvSteps, FinalSteps
<1>1. UNCHANGED <<cvRuns, tmp, notebook, overlapped>>
  BY DEF StartFinal, LogModel, LogEncoder, LogScaler, LogArtefact, UploadFinal
<1>2. Job(l) \in Jobs /\ finalRuns \in [Jobs -> FinalStates] /\ finalRuns[Job(l)] \in FinalStates
  BY ConfigOfLaunch, TypeOKUnfolded
<1>3. CASE StartFinal(l)
  <2>1. finalRuns' \in [Jobs -> FinalStates]
    BY <1>2, <1>3, StartedAreLaunches DEF StartFinal, FinalStates
  <2>2. Goto(l, "model") /\ launch[l].step = "final" /\ data' = data
    BY <1>3 DEF StartFinal
  <2> QED
    BY <1>1, <2>1, <2>2, GotoTypes, MoveKeepsData, TypeOKUnfolded, TypeOKPrimed
<1>4. ASSUME NEW part \in {"model", "encoder", "scaler"},
             NEW next \in {"encoder", "scaler", "dump"}, LogArtefact(l, part, next)
      PROVE  TypeOK' /\ DataInv'
  <2>1. finalRuns' = [finalRuns EXCEPT ![Job(l)].has = @ \cup {part}]
    BY <1>4 DEF LogArtefact
  <2>2. finalRuns' \in [Jobs -> FinalStates]
    BY <1>2, <2>1 DEF FinalStates
  <2>3. Goto(l, next) /\ launch[l].step = part /\ data' = data
    BY <1>4 DEF LogArtefact
  <2> QED
    BY <1>1, <2>2, <2>3, GotoTypes, MoveKeepsData, TypeOKUnfolded, TypeOKPrimed
<1>5. CASE UploadFinal(l)
  <2>1. tmp[FinalFit] \in Predictions \cup {Lost}
    BY TypeOKUnfolded, SplitAssumption DEF FinalFit
  <2>2. finalRuns' \in [Jobs -> FinalStates]
    BY <1>2, <1>5, <2>1 DEF UploadFinal, FinalStates
  <2>3. Advance(l)
    BY <1>5 DEF UploadFinal
  <2> QED
    BY <1>1, <2>2, <2>3, AdvanceTypes, AdvanceKeepsData, TypeOKUnfolded, TypeOKPrimed
<1> QED
  BY <1>3, <1>4, <1>5 DEF LogModel, LogEncoder, LogScaler

LEMMA WriteTypes ==
    ASSUME TypeOK, DataInv, NEW l \in Launches, WriteFold(l) \/ WriteFinal(l)
    PROVE  TypeOK' /\ DataInv'
<1> USE DEF CvSteps, FinalSteps
<1>1. UNCHANGED <<data, cvRuns, finalRuns, notebook, overlapped>>
  BY DEF WriteFold, WriteFinal
<1>2. launch[l].fold \in 1 .. FinalFit /\ FinalFit \in 1 .. FinalFit
  BY TypeOKUnfolded, SplitAssumption DEF FinalFit, LaunchStates
<1>3. \A i \in 1 .. FinalFit : Prediction(Job(l), i) \in Predictions
  BY PredictionsOfJob
<1>4. tmp' \in [1 .. FinalFit -> Predictions \cup {Lost}]
  BY <1>2, <1>3, TypeOKUnfolded DEF WriteFold, WriteFinal
<1>5. \/ Goto(l, "upload") /\ launch[l].step = "write"
      \/ Goto(l, "attach") /\ launch[l].step = "dump"
  BY DEF WriteFold, WriteFinal
<1> QED
  BY <1>1, <1>4, <1>5, GotoTypes, MoveKeepsData, TypeOKUnfolded, TypeOKPrimed

\* What a pool of folds and the notebook hold.
LEMMA RangeIsOfPredictions ==
    ASSUME NEW folds \in FoldRuns, Lost \notin Range(folds)
    PROVE  Range(folds) \in SUBSET Predictions
<1>1. folds \in [1 .. Len(folds) -> Predictions \cup {Lost}] /\ DOMAIN folds = 1 .. Len(folds)
  BY LenProperties DEF FoldRuns
<1>2. \A x \in Range(folds) : \E i \in 1 .. Len(folds) : x = folds[i]
  BY <1>1 DEF Range
<1> QED
  BY <1>1, <1>2

LEMMA NotebookTypes ==
    ASSUME TypeOK, DataInv,
           \/ \E e \in Experiments : FindCv(e)
           \/ PoolFolds \/ FindFinal \/ LogThreshold \/ Leave
    PROVE  TypeOK' /\ DataInv'
<1>1. UNCHANGED <<launch, data, cvRuns, tmp, overlapped>>
  BY DEF FindCv, PoolFolds, FindFinal, LogThreshold, Leave, Stay
<1>2. DataInv'
  BY <1>1 DEF DataInv
<1>3. Closed \in NotebookStates
  BY ConfigsAreConfigs DEF Closed, NotebookStates
<1>4. notebook \in NotebookStates /\ finalRuns \in [Jobs -> FinalStates]
  BY TypeOKUnfolded
<1>5. CASE \E e \in Experiments : FindCv(e)
  <2>1. PICK e \in Experiments : FindCv(e)
    BY <1>5
  <2>2. Latest(cvRuns, e) \in SUBSET Launches
    BY StartedAreLaunches DEF Latest
  <2>3. notebook' \in NotebookStates
    BY <1>3, <2>1, <2>2 DEF FindCv, NotebookStates
  <2> QED
    BY <1>1, <1>2, <2>1, <2>3, TypeOKUnfolded, TypeOKPrimed DEF FindCv, Stay
<1>6. CASE PoolFolds
  <2>1. PICK l \in notebook.cv :
            /\ Lost \notin Range(cvRuns[<<l, notebook.experiment>>].folds)
            /\ notebook' = [notebook EXCEPT !.step = "final",
                   !.pool = Range(cvRuns[<<l, notebook.experiment>>].folds)]
    BY <1>6 DEF PoolFolds
  <2>2. cvRuns[<<l, notebook.experiment>>] \in CvStates
    BY <1>4, TypeOKUnfolded DEF NotebookStates, Jobs
  <2>3. Range(cvRuns[<<l, notebook.experiment>>].folds) \in SUBSET Predictions
    BY <2>1, <2>2, RangeIsOfPredictions DEF CvStates
  <2>4. notebook' \in NotebookStates
    BY <1>4, <2>1, <2>3 DEF NotebookStates
  <2> QED
    BY <1>1, <1>2, <1>6, <2>4, TypeOKUnfolded, TypeOKPrimed DEF PoolFolds, Stay
<1>7. CASE FindFinal
  <2>1. \A e : Latest(finalRuns, e) \in SUBSET Launches
    BY StartedAreLaunches DEF Latest
  <2>2. notebook' \in NotebookStates
    <3>1. PICK l \in Latest(finalRuns, notebook.experiment) :
              notebook' = [notebook EXCEPT !.step = "tuned", !.final = {l}]
      BY <1>7 DEF FindFinal
    <3>2. {l} \in SUBSET Launches
      BY <2>1
    <3> QED
      BY <1>4, <3>1, <3>2 DEF NotebookStates
  <2> QED
    BY <1>1, <1>2, <1>7, <2>2, TypeOKUnfolded, TypeOKPrimed DEF FindFinal, Stay
<1>8. CASE LogThreshold
  <2>1. finalRuns' \in [Jobs -> FinalStates]
    <3>1. PICK l \in notebook.final :
              finalRuns' = IF finalRuns[<<l, notebook.experiment>>].cut = {}
                           THEN [finalRuns EXCEPT ![<<l, notebook.experiment>>] =
                                   [@ EXCEPT !.cut = notebook.pool, !.calm = notebook.calm]]
                           ELSE finalRuns
      BY <1>8 DEF LogThreshold
    <3>2. notebook.pool \in SUBSET Predictions /\ notebook.calm \in BOOLEAN
      BY <1>4 DEF NotebookStates
    <3> DEFINE job == <<l, notebook.experiment>>
    <3>3. finalRuns' = IF finalRuns[job].cut = {}
                       THEN [finalRuns EXCEPT ![job] =
                               [@ EXCEPT !.cut = notebook.pool, !.calm = notebook.calm]]
                       ELSE finalRuns
      BY <3>1
    <3> HIDE DEF job
    <3>4. CASE job \in Jobs
      <4> DEFINE run == [finalRuns[job] EXCEPT !.cut = notebook.pool, !.calm = notebook.calm]
      <4>1. run \in FinalStates
        BY <1>4, <3>2, <3>4 DEF FinalStates
      <4>2. finalRuns' = finalRuns \/ finalRuns' = [finalRuns EXCEPT ![job] = run]
        BY <3>3
      <4> HIDE DEF run
      <4> QED
        BY <1>4, <4>1, <4>2
    <3>5. CASE job \notin Jobs
      BY <1>4, <3>3, <3>5
    <3> QED
      BY <3>4, <3>5
  <2> QED
    BY <1>1, <1>2, <1>3, <1>8, <2>1, TypeOKUnfolded, TypeOKPrimed DEF LogThreshold
<1>9. CASE Leave
  BY <1>1, <1>2, <1>3, <1>9, TypeOKUnfolded, TypeOKPrimed DEF Leave, Stay
<1> QED
  BY <1>5, <1>6, <1>7, <1>8, <1>9
-----------------------------------------------------------------------------
(* How far a launch has got *)

\* Nothing has been logged of what lies ahead of a launch.
CvAhead(l, k) ==
    \/ k > launch[l].at
    \/ k = launch[l].at /\ launch[l].step \in {"idle", "prepare", "cv"}
FinalAhead(l, k) ==
    \/ k > launch[l].at
    \/ k = launch[l].at /\ launch[l].step \in {"idle", "prepare", "final"} \cup CvSteps
AheadOf(l) ==
    \A k \in 1 .. Len(ModelConfigs) :
        LET job == <<l, ModelConfigs[k].experiment>>
        IN  /\ CvAhead(l, k) => ~cvRuns[job].begun /\ cvRuns[job].folds = <<>>
            /\ FinalAhead(l, k) => /\ ~finalRuns[job].begun /\ finalRuns[job].has = {}
                                   /\ finalRuns[job].cut = {}

\* As many folds as have been begun have a run.
FoldsOf(l) ==
    LET n == Len(cvRuns[Job(l)].folds)
        step == launch[l].step
    IN  /\ step \in {"idle", "prepare", "cv"} => launch[l].fold = 1
        /\ step = "fold" => n = launch[l].fold - 1
        /\ step \in {"write", "upload"} => n = launch[l].fold
        /\ step \in {"aggregate"} \cup FinalSteps => n = NSplits

\* What log_final_run has logged at each of its steps.
FinalOf(l) ==
    LET run == finalRuns[Job(l)]
        step == launch[l].step
        scaler == IF Config(l).scale THEN {"scaler"} ELSE {}
    IN  /\ step \in FinalSteps \ {"final"} => run.begun
        /\ step = "model" => run.has = {}
        /\ step = "encoder" => run.has = {"model"}
        /\ step = "scaler" => run.has = {"model", "encoder"} /\ Config(l).scale
        /\ step \in {"dump", "attach"} => run.has = {"model", "encoder"} \cup scaler

Progress(l) == AheadOf(l) /\ FoldsOf(l) /\ FinalOf(l)

\* What the notebook has found by its steps.
NotebookInv ==
    /\ notebook.step \in {"final", "tuned"} => notebook.pool # {}
    /\ notebook.step = "tuned" =>
           \A l \in notebook.final :
               "predictions" \in finalRuns[<<l, notebook.experiment>>].has

Inv ==
    /\ TypeOK /\ DataInv /\ NotebookInv
    /\ \A l \in Launches : Progress(l)

LEMMA InitEstablishes == Init => Inv
<1> SUFFICES ASSUME Init PROVE Inv
  OBVIOUS
<1> USE DEF Init, NoCv, NoFinal, CvSteps, FinalSteps
<1>1. TypeOK
  <2>1. launch \in [Launches -> LaunchStates]
    BY ConfigsAreConfigs, SplitAssumption DEF LaunchStates
  <2>2. <<>> \in FoldRuns
    BY DEF FoldRuns
  <2>3. cvRuns \in [Jobs -> CvStates]
    BY <2>2 DEF CvStates
  <2>4. finalRuns \in [Jobs -> FinalStates]
    BY DEF FinalStates
  <2>5. notebook \in NotebookStates
    BY ConfigsAreConfigs DEF Closed, NotebookStates
  <2> QED
    BY <2>1, <2>3, <2>4, <2>5, TypeOKUnfolded
<1>2. DataInv
  BY DEF DataInv
<1>3. \A l \in Launches, k \in 1 .. Len(ModelConfigs) :
          <<l, ModelConfigs[k].experiment>> \in Jobs
  BY ConfigsAreConfigs DEF Jobs
<1>4. \A l \in Launches : AheadOf(l)
  BY <1>3 DEF AheadOf, CvAhead, FinalAhead
<1>5. \A l \in Launches : FoldsOf(l) /\ FinalOf(l)
  BY DEF FoldsOf, FinalOf
<1>6. NotebookInv
  BY DEF NotebookInv, Closed
<1> QED
  BY <1>1, <1>2, <1>4, <1>5, <1>6 DEF Inv, Progress

\* A launch only touches its own runs, and of those only its current experiment's.
LEMMA OthersAreLeftAlone ==
    ASSUME TypeOK, NEW l \in Launches, Step(l)
    PROVE  /\ \A m \in Launches : m # l => launch'[m] = launch[m]
           /\ \A j \in Jobs : j # Job(l) =>
                  cvRuns'[j] = cvRuns[j] /\ finalRuns'[j] = finalRuns[j]
<1> USE ConfigOfLaunch, TypeOKUnfolded
<1>1. ASSUME NEW chosen \in Selections[l], Start(l, chosen)
      PROVE  /\ \A m \in Launches : m # l => launch'[m] = launch[m]
             /\ cvRuns' = cvRuns /\ finalRuns' = finalRuns
  BY <1>1 DEF Start
<1>2. ASSUME Skip(l) \/ LoadData(l) \/ Break(l)
      PROVE  /\ \A m \in Launches : m # l => launch'[m] = launch[m]
             /\ cvRuns' = cvRuns /\ finalRuns' = finalRuns
  BY <1>2 DEF Skip, LoadData, Break, Advance, Goto
<1>3. ASSUME StartCv(l) \/ StartFold(l) \/ WriteFold(l) \/ UploadFold(l) \/ Aggregate(l)
      PROVE  /\ \A m \in Launches : m # l => launch'[m] = launch[m]
             /\ \A j \in Jobs : j # Job(l) => cvRuns'[j] = cvRuns[j]
             /\ finalRuns' = finalRuns
  BY <1>3 DEF StartCv, StartFold, WriteFold, UploadFold, Aggregate, Goto
<1>4. ASSUME \/ StartFinal(l) \/ LogModel(l) \/ LogEncoder(l) \/ LogScaler(l)
             \/ WriteFinal(l) \/ UploadFinal(l)
      PROVE  /\ \A m \in Launches : m # l => launch'[m] = launch[m]
             /\ \A j \in Jobs : j # Job(l) => finalRuns'[j] = finalRuns[j]
             /\ cvRuns' = cvRuns
  BY <1>4 DEF StartFinal, LogModel, LogEncoder, LogScaler, LogArtefact, WriteFinal,
              UploadFinal, Advance, Goto
<1> QED
  BY <1>1, <1>2, <1>3, <1>4 DEF Step

\* So other launches are where they were.
LEMMA OthersKeepProgress ==
    ASSUME TypeOK, NEW l \in Launches, Step(l),
           NEW m \in Launches, m # l, Progress(m)
    PROVE  Progress(m)'
<1>1. /\ launch'[m] = launch[m]
      /\ \A e \in Experiments : /\ cvRuns'[<<m, e>>] = cvRuns[<<m, e>>]
                                /\ finalRuns'[<<m, e>>] = finalRuns[<<m, e>>]
  BY OthersAreLeftAlone, ConfigOfLaunch DEF Jobs, Job
<1>2. Config(m)' = Config(m) /\ Job(m)' = Job(m) /\ Config(m).experiment \in Experiments
  BY <1>1, ConfigOfLaunch DEF Config, Job
<1>3. AheadOf(m)'
  BY <1>1, ConfigsAreConfigs DEF Progress, AheadOf, CvAhead, FinalAhead
<1>4. FoldsOf(m)' /\ FinalOf(m)'
  BY <1>1, <1>2 DEF Progress, FoldsOf, FinalOf, Job
<1> QED
  BY <1>3, <1>4 DEF Progress

\* What a launch has still to come to is not touched by what it does now.
LEMMA LaterAreLeftAlone ==
    ASSUME TypeOK, NEW l \in Launches, Step(l),
           NEW k \in 1 .. Len(ModelConfigs), k # launch[l].at
    PROVE  LET job == <<l, ModelConfigs[k].experiment>>
           IN  cvRuns'[job] = cvRuns[job] /\ finalRuns'[job] = finalRuns[job]
<1>1. ModelConfigs[k].experiment # Config(l).experiment
  BY ConfigOfLaunch, ConfigsAssumption DEF Config
<1> QED
  BY <1>1, OthersAreLeftAlone, ConfigsAreConfigs DEF Jobs, Job

\* Progress at the same experiment.
LEMMA AheadAtSame ==
    ASSUME TypeOK, NEW l \in Launches, Step(l), AheadOf(l),
           launch'[l].at = launch[l].at,
           launch'[l].step \in {"idle", "prepare", "cv"} =>
               /\ launch[l].step \in {"idle", "prepare", "cv"}
               /\ cvRuns'[Job(l)] = cvRuns[Job(l)],
           launch'[l].step \in {"idle", "prepare", "final"} \cup CvSteps =>
               /\ launch[l].step \in {"idle", "prepare", "final"} \cup CvSteps
               /\ finalRuns'[Job(l)] = finalRuns[Job(l)]
    PROVE  AheadOf(l)'
<1> SUFFICES ASSUME NEW k \in 1 .. Len(ModelConfigs)
             PROVE  LET job == <<l, ModelConfigs[k].experiment>>
                    IN  /\ CvAhead(l, k)' =>
                               ~cvRuns'[job].begun /\ cvRuns'[job].folds = <<>>
                        /\ FinalAhead(l, k)' =>
                               /\ ~finalRuns'[job].begun /\ finalRuns'[job].has = {}
                               /\ finalRuns'[job].cut = {}
  BY DEF AheadOf
<1>1. CASE k = launch[l].at
  <2>1. Job(l) = <<l, ModelConfigs[k].experiment>>
    BY <1>1 DEF Job, Config
  <2>2. launch[l].at \in Nat
    BY ConfigOfLaunch
  <2> QED
    BY <1>1, <2>1, <2>2 DEF AheadOf, CvAhead, FinalAhead
<1>2. CASE k # launch[l].at
  BY <1>2, LaterAreLeftAlone DEF AheadOf, CvAhead, FinalAhead
<1> QED
  BY <1>1, <1>2

\* Progress to the next experiment, or to the end.
LEMMA AheadAtNext ==
    ASSUME TypeOK, NEW l \in Launches, Step(l), AheadOf(l), Advance(l)
    PROVE  Progress(l)'
<1>1. launch \in [Launches -> LaunchStates] /\ launch[l] \in LaunchStates
  BY TypeOKUnfolded
<1>2. CASE launch[l].at < Len(ModelConfigs)
  <2>1. launch' = [launch EXCEPT ![l].step = "prepare", ![l].at = @ + 1, ![l].fold = 1]
    BY <1>2 DEF Advance
  <2>2. /\ launch'[l].step = "prepare" /\ launch'[l].at = launch[l].at + 1
        /\ launch'[l].fold = 1
    BY <1>1, <2>1 DEF LaunchStates
  <2>3. ASSUME NEW k \in 1 .. Len(ModelConfigs), CvAhead(l, k)' \/ FinalAhead(l, k)'
        PROVE  k > launch[l].at /\ k # launch[l].at
    BY <1>1, <2>2, <2>3 DEF CvAhead, FinalAhead, LaunchStates
  <2>4. AheadOf(l)'
    BY <2>3, LaterAreLeftAlone DEF AheadOf, CvAhead, FinalAhead
  <2> QED
    BY <2>2, <2>4 DEF Progress, FoldsOf, FinalOf, CvSteps, FinalSteps
<1>3. CASE ~(launch[l].at < Len(ModelConfigs))
  <2>1. Goto(l, "done")
    BY <1>3 DEF Advance
  <2>2. launch'[l].step = "done" /\ launch'[l].at = launch[l].at
    BY <2>1, GotoTypes
  <2>3. AheadOf(l)'
    BY <2>2, AheadAtSame DEF CvSteps
  <2> QED
    BY <2>2, <2>3 DEF Progress, FoldsOf, FinalOf, CvSteps, FinalSteps
<1> QED
  BY <1>2, <1>3

\* Where a launch is after a step that stays with its experiment.
LEMMA SameJob ==
    ASSUME TypeOK, NEW l \in Launches, launch'[l].at = launch[l].at
    PROVE  Job(l)' = Job(l) /\ Config(l)' = Config(l)
  BY DEF Job, Config

LEMMA ScriptProgress ==
    ASSUME TypeOK, NEW l \in Launches, Progress(l),
           \/ \E chosen \in Selections[l] : Start(l, chosen)
           \/ Skip(l) \/ LoadData(l) \/ Break(l)
    PROVE  Progress(l)'
<1> USE DEF CvSteps, FinalSteps
<1>1. Step(l) /\ cvRuns' = cvRuns /\ finalRuns' = finalRuns /\ AheadOf(l)
  BY DEF Step, Start, Skip, LoadData, Break, Progress
<1>2. CASE \E chosen \in Selections[l] : Start(l, chosen)
  <2>1. PICK chosen \in Selections[l] : Start(l, chosen)
    BY <1>2
  <2>2. /\ launch'[l].step = "prepare" /\ launch'[l].at = launch[l].at
        /\ launch'[l].fold = launch[l].fold /\ launch[l].step = "idle"
    BY <2>1, TypeOKUnfolded DEF Start, LaunchStates
  <2>3. AheadOf(l)'
    BY <1>1, <2>2, AheadAtSame
  <2> QED
    BY <1>1, <2>2, <2>3, SameJob DEF Progress, FoldsOf, FinalOf
<1>3. CASE Skip(l)
  BY <1>1, <1>3, AheadAtNext DEF Skip
<1>4. CASE LoadData(l)
  <2>1. \/ Goto(l, "cv") \/ Goto(l, "broken")
    BY <1>4 DEF LoadData
  <2>2. launch[l].step = "prepare"
    BY <1>4 DEF LoadData
  <2>3. /\ launch'[l].step \in {"cv", "broken"} /\ launch'[l].at = launch[l].at
        /\ launch'[l].fold = launch[l].fold
    BY <2>1, GotoTypes
  <2>4. AheadOf(l)'
    BY <1>1, <2>2, <2>3, AheadAtSame
  <2> QED
    BY <1>1, <2>2, <2>3, <2>4, SameJob DEF Progress, FoldsOf, FinalOf
<1>5. CASE Break(l)
  <2>1. launch'[l].step = "broken" /\ launch'[l].at = launch[l].at
    BY <1>5, GotoTypes DEF Break
  <2>2. AheadOf(l)'
    BY <1>1, <2>1, AheadAtSame
  <2> QED
    BY <2>1, <2>2 DEF Progress, FoldsOf, FinalOf
<1> QED
  BY <1>2, <1>3, <1>4, <1>5

LEMMA CvProgress ==
    ASSUME TypeOK, NEW l \in Launches, Progress(l),
           \/ StartCv(l) \/ StartFold(l) \/ WriteFold(l) \/ UploadFold(l) \/ Aggregate(l)
    PROVE  Progress(l)'
<1> USE DEF CvSteps, FinalSteps
<1>1. Step(l) /\ finalRuns' = finalRuns /\ AheadOf(l) /\ FoldsOf(l)
  BY DEF Step, StartCv, StartFold, WriteFold, UploadFold, Aggregate, Progress
<1>2. /\ Job(l) \in Jobs /\ cvRuns \in [Jobs -> CvStates] /\ cvRuns[Job(l)] \in CvStates
      /\ launch \in [Launches -> LaunchStates] /\ launch[l] \in LaunchStates
  BY ConfigOfLaunch, TypeOKUnfolded
<1>3. cvRuns[Job(l)].folds \in FoldRuns
  BY <1>2 DEF CvStates
<1>4. CASE StartCv(l)
  <2>1. /\ launch'[l].step = "fold" /\ launch'[l].at = launch[l].at
        /\ launch'[l].fold = launch[l].fold /\ launch[l].step = "cv"
    BY <1>4, GotoTypes DEF StartCv
  <2>2. cvRuns[Job(l)].folds = <<>>
    BY <1>1, <2>1, ConfigOfLaunch DEF AheadOf, CvAhead, Job, Config
  <2>3. cvRuns'[Job(l)].folds = cvRuns[Job(l)].folds
    BY <1>2, <1>4 DEF StartCv, CvStates
  <2>4. AheadOf(l)'
    BY <1>1, <2>1, AheadAtSame
  <2>5. FoldsOf(l)'
    BY <1>1, <2>1, <2>2, <2>3, SameJob DEF FoldsOf
  <2> QED
    BY <2>1, <2>4, <2>5 DEF Progress, FinalOf
<1>5. CASE StartFold(l)
  <2>1. /\ launch'[l].step = "write" /\ launch'[l].at = launch[l].at
        /\ launch'[l].fold = launch[l].fold /\ launch[l].step = "fold"
    BY <1>5, GotoTypes DEF StartFold
  <2>2. cvRuns'[Job(l)].folds = Append(cvRuns[Job(l)].folds, Lost)
    BY <1>2, <1>5 DEF StartFold, CvStates
  <2>3. Len(cvRuns'[Job(l)].folds) = Len(cvRuns[Job(l)].folds) + 1
    BY <1>3, <2>2 DEF FoldRuns, Lost
  <2>4. AheadOf(l)'
    BY <1>1, <2>1, AheadAtSame
  <2>5. FoldsOf(l)'
    BY <1>1, <1>2, <2>1, <2>3, SameJob DEF FoldsOf, LaunchStates
  <2> QED
    BY <2>1, <2>4, <2>5 DEF Progress, FinalOf
<1>6. CASE WriteFold(l)
  <2>1. /\ launch'[l].step = "upload" /\ launch'[l].at = launch[l].at
        /\ launch'[l].fold = launch[l].fold /\ launch[l].step = "write" /\ cvRuns' = cvRuns
    BY <1>6, GotoTypes DEF WriteFold
  <2>2. AheadOf(l)'
    BY <1>1, <2>1, AheadAtSame
  <2>3. FoldsOf(l)'
    BY <1>1, <2>1, SameJob DEF FoldsOf
  <2> QED
    BY <2>1, <2>2, <2>3 DEF Progress, FinalOf
<1>7. CASE UploadFold(l)
  <2> DEFINE i == launch[l].fold
  <2>1. /\ launch[l].step = "upload"
        /\ cvRuns'[Job(l)].folds = [cvRuns[Job(l)].folds EXCEPT ![i] = tmp[i]]
    BY <1>2, <1>7 DEF UploadFold, CvStates
  <2>2. Len(cvRuns'[Job(l)].folds) = Len(cvRuns[Job(l)].folds)
    <3> DEFINE folds == cvRuns[Job(l)].folds
    <3>1. folds \in FoldRuns /\ i \in 1 .. Len(folds)
      BY <1>1, <1>2, <1>3, <2>1, SplitAssumption DEF FoldsOf, LaunchStates
    <3>2. cvRuns'[Job(l)].folds = [folds EXCEPT ![i] = tmp[i]]
      BY <2>1
    <3> HIDE DEF folds, i
    <3>3. Len([folds EXCEPT ![i] = tmp[i]]) = Len(folds)
      <4>1. tmp[i] \in {tmp[i]} \cup Predictions \cup {Lost}
        OBVIOUS
      <4>2. folds \in Seq({tmp[i]} \cup Predictions \cup {Lost})
        BY <3>1 DEF FoldRuns
      <4> QED
        BY <3>1, <4>1, <4>2, ExceptSeq
    <3> QED
      BY <3>2, <3>3 DEF folds
  <2>3. CASE i < NSplits
    <3>1. /\ launch'[l].step = "fold" /\ launch'[l].at = launch[l].at
          /\ launch'[l].fold = i + 1
      BY <1>2, <1>7, <2>3 DEF UploadFold, LaunchStates
    <3>2. AheadOf(l)'
      BY <1>1, <2>1, <3>1, AheadAtSame
    <3>3. FoldsOf(l)'
      BY <1>1, <1>2, <2>1, <2>2, <3>1, SameJob DEF FoldsOf, LaunchStates
    <3> QED
      BY <3>1, <3>2, <3>3 DEF Progress, FinalOf
  <2>4. CASE ~(i < NSplits)
    <3>1. launch'[l].step = "aggregate" /\ launch'[l].at = launch[l].at
      BY <1>7, <2>4, GotoTypes DEF UploadFold
    <3>2. i = NSplits
      BY <1>2, <2>4, SplitAssumption DEF LaunchStates
    <3>3. AheadOf(l)'
      BY <1>1, <2>1, <3>1, AheadAtSame
    <3>4. FoldsOf(l)'
      BY <1>1, <1>2, <2>1, <2>2, <3>1, <3>2, SameJob DEF FoldsOf
    <3> QED
      BY <3>1, <3>3, <3>4 DEF Progress, FinalOf
  <2> QED
    BY <2>3, <2>4
<1>8. CASE Aggregate(l)
  <2>1. /\ launch'[l].step = "final" /\ launch'[l].at = launch[l].at
        /\ launch[l].step = "aggregate"
    BY <1>8, GotoTypes DEF Aggregate
  <2>2. cvRuns'[Job(l)].folds = cvRuns[Job(l)].folds
    BY <1>2, <1>8 DEF Aggregate, CvStates
  <2>3. AheadOf(l)'
    BY <1>1, <2>1, AheadAtSame
  <2>4. FoldsOf(l)'
    BY <1>1, <2>1, <2>2, SameJob DEF FoldsOf
  <2> QED
    BY <2>1, <2>3, <2>4 DEF Progress, FinalOf
<1> QED
  BY <1>4, <1>5, <1>6, <1>7, <1>8

LEMMA FinalProgress ==
    ASSUME TypeOK, NEW l \in Launches, Progress(l),
           \/ StartFinal(l) \/ LogModel(l) \/ LogEncoder(l) \/ LogScaler(l)
           \/ WriteFinal(l) \/ UploadFinal(l)
    PROVE  Progress(l)'
<1> USE DEF CvSteps, FinalSteps
<1>1. Step(l) /\ cvRuns' = cvRuns /\ AheadOf(l) /\ FoldsOf(l) /\ FinalOf(l)
  BY DEF Step, StartFinal, LogModel, LogEncoder, LogScaler, LogArtefact, WriteFinal,
         UploadFinal, Progress
<1>2. /\ Job(l) \in Jobs /\ finalRuns \in [Jobs -> FinalStates]
      /\ finalRuns[Job(l)] \in FinalStates /\ Config(l).scale \in BOOLEAN
  BY ConfigOfLaunch, TypeOKUnfolded
<1>3. ASSUME launch'[l].at = launch[l].at,
             launch[l].step \in {"final", "model", "encoder", "scaler", "dump"},
             launch'[l].step \in {"model", "encoder", "scaler", "dump", "attach"}
      PROVE  AheadOf(l)' /\ FoldsOf(l)' /\ Job(l)' = Job(l) /\ Config(l)' = Config(l)
  <2>1. AheadOf(l)'
    BY <1>1, <1>3, AheadAtSame
  <2> QED
    BY <1>1, <1>3, <2>1, SameJob DEF FoldsOf
<1>4. CASE StartFinal(l)
  <2>1. /\ launch'[l].step = "model" /\ launch'[l].at = launch[l].at
        /\ launch[l].step = "final"
    BY <1>4, GotoTypes DEF StartFinal
  <2>2. finalRuns[Job(l)].has = {}
    BY <1>1, <2>1, ConfigOfLaunch DEF AheadOf, FinalAhead, Job, Config
  <2>3. finalRuns'[Job(l)].begun /\ finalRuns'[Job(l)].has = {}
    BY <1>2, <1>4, <2>2 DEF StartFinal, FinalStates
  <2>4. AheadOf(l)' /\ FoldsOf(l)' /\ Job(l)' = Job(l) /\ Config(l)' = Config(l)
    BY <1>3, <2>1
  <2> QED
    BY <2>1, <2>3, <2>4 DEF Progress, FinalOf
<1>5. ASSUME NEW part \in {"model", "encoder", "scaler"},
             NEW next \in {"encoder", "scaler", "dump"}, LogArtefact(l, part, next)
      PROVE  /\ launch'[l].step = next /\ launch'[l].at = launch[l].at
             /\ launch[l].step = part
             /\ finalRuns'[Job(l)].begun = finalRuns[Job(l)].begun
             /\ finalRuns'[Job(l)].has = finalRuns[Job(l)].has \cup {part}
  <2>1. Goto(l, next) /\ launch[l].step = part
    BY <1>5 DEF LogArtefact
  <2>2. finalRuns' = [finalRuns EXCEPT ![Job(l)].has = @ \cup {part}]
    BY <1>5 DEF LogArtefact
  <2> QED
    BY <1>2, <2>1, <2>2, GotoTypes DEF FinalStates
<1>6. CASE LogModel(l)
  <2>1. /\ launch'[l].step = "encoder" /\ launch'[l].at = launch[l].at
        /\ launch[l].step = "model"
        /\ finalRuns'[Job(l)].begun = finalRuns[Job(l)].begun
        /\ finalRuns'[Job(l)].has = finalRuns[Job(l)].has \cup {"model"}
    BY <1>5, <1>6 DEF LogModel
  <2>2. AheadOf(l)' /\ FoldsOf(l)' /\ Job(l)' = Job(l) /\ Config(l)' = Config(l)
    BY <1>3, <2>1
  <2> QED
    BY <1>1, <2>1, <2>2 DEF Progress, FinalOf
<1>7. CASE LogEncoder(l)
  <2> DEFINE next == IF Config(l).scale THEN "scaler" ELSE "dump"
  <2>1. /\ launch'[l].step = next /\ launch'[l].at = launch[l].at
        /\ launch[l].step = "encoder"
        /\ finalRuns'[Job(l)].begun = finalRuns[Job(l)].begun
        /\ finalRuns'[Job(l)].has = finalRuns[Job(l)].has \cup {"encoder"}
    BY <1>5, <1>7 DEF LogEncoder
  <2>2. AheadOf(l)' /\ FoldsOf(l)' /\ Job(l)' = Job(l) /\ Config(l)' = Config(l)
    BY <1>3, <2>1
  <2>3. finalRuns[Job(l)].begun /\ finalRuns[Job(l)].has = {"model"}
    BY <1>1, <2>1 DEF FinalOf
  <2>4. finalRuns'[Job(l)].begun /\ finalRuns'[Job(l)].has = {"model", "encoder"}
    BY <2>1, <2>3
  <2> QED
    BY <2>1, <2>2, <2>4 DEF Progress, FinalOf
<1>8. CASE LogScaler(l)
  <2>1. /\ launch'[l].step = "dump" /\ launch'[l].at = launch[l].at
        /\ launch[l].step = "scaler"
        /\ finalRuns'[Job(l)].begun = finalRuns[Job(l)].begun
        /\ finalRuns'[Job(l)].has = finalRuns[Job(l)].has \cup {"scaler"}
    BY <1>5, <1>8 DEF LogScaler
  <2>2. AheadOf(l)' /\ FoldsOf(l)' /\ Job(l)' = Job(l) /\ Config(l)' = Config(l)
    BY <1>3, <2>1
  <2>3. /\ finalRuns[Job(l)].begun /\ finalRuns[Job(l)].has = {"model", "encoder"}
        /\ Config(l).scale
    BY <1>1, <2>1 DEF FinalOf
  <2>4. finalRuns'[Job(l)].begun /\ finalRuns'[Job(l)].has = {"model", "encoder", "scaler"}
    BY <2>1, <2>3
  <2> QED
    BY <2>1, <2>2, <2>3, <2>4 DEF Progress, FinalOf
<1>9. CASE WriteFinal(l)
  <2>1. /\ launch'[l].step = "attach" /\ launch'[l].at = launch[l].at
        /\ launch[l].step = "dump" /\ finalRuns' = finalRuns
    BY <1>9, GotoTypes DEF WriteFinal
  <2>2. AheadOf(l)' /\ FoldsOf(l)' /\ Job(l)' = Job(l) /\ Config(l)' = Config(l)
    BY <1>3, <2>1
  <2> QED
    BY <1>1, <2>1, <2>2 DEF Progress, FinalOf
<1>10. CASE UploadFinal(l)
  BY <1>1, <1>10, AheadAtNext DEF UploadFinal
<1> QED
  BY <1>4, <1>6, <1>7, <1>8, <1>9, <1>10

LEMMA SameRunsSameProgress ==
    ASSUME NEW l \in Launches, Progress(l),
           launch' = launch, cvRuns' = cvRuns, finalRuns' = finalRuns
    PROVE  Progress(l)'
<1>1. Config(l)' = Config(l) /\ Job(l)' = Job(l)
  BY DEF Config, Job
<1>2. AheadOf(l)'
  BY DEF Progress, AheadOf, CvAhead, FinalAhead
<1>3. FoldsOf(l)'
  BY <1>1 DEF Progress, FoldsOf
<1>4. FinalOf(l)'
  BY <1>1 DEF Progress, FinalOf
<1> QED
  BY <1>2, <1>3, <1>4 DEF Progress

\* The notebook gives a threshold to a run that has its predictions, which no launch
\* is in the middle of.
LEMMA NotebookProgress ==
    ASSUME Inv, \/ \E e \in Experiments : FindCv(e)
                \/ PoolFolds \/ FindFinal \/ LogThreshold \/ Leave
    PROVE  NotebookInv' /\ \A l \in Launches : Progress(l)'
<1>1. launch' = launch /\ cvRuns' = cvRuns
  BY DEF FindCv, PoolFolds, FindFinal, LogThreshold, Leave, Stay
<1>2. /\ notebook \in NotebookStates /\ finalRuns \in [Jobs -> FinalStates] /\ TypeOK
      /\ NotebookInv /\ \A l \in Launches : Progress(l)
  BY TypeOKUnfolded DEF Inv
<1>3. ASSUME finalRuns' = finalRuns PROVE \A l \in Launches : Progress(l)'
  BY <1>1, <1>2, <1>3, SameRunsSameProgress
<1>4. CASE \E e \in Experiments : FindCv(e)
  BY <1>3, <1>4 DEF FindCv, Stay, NotebookInv, Closed
<1>5. CASE PoolFolds
  <2>1. PICK l \in notebook.cv :
            LET folds == cvRuns[<<l, notebook.experiment>>].folds
            IN  folds # <<>> /\ notebook' = [notebook EXCEPT !.step = "final",
                                                             !.pool = Range(folds)]
    BY <1>5 DEF PoolFolds
  <2> DEFINE folds == cvRuns[<<l, notebook.experiment>>].folds
  <2>2. folds \in FoldRuns
    BY <1>2, TypeOKUnfolded DEF NotebookStates, Jobs, CvStates
  <2>3. folds # <<>> /\ notebook' = [notebook EXCEPT !.step = "final", !.pool = Range(folds)]
    BY <2>1
  <2> HIDE DEF folds
  <2>4. Range(folds) # {}
    <3>1. Len(folds) \in Nat /\ Len(folds) # 0 /\ DOMAIN folds = 1 .. Len(folds)
      BY <2>2, <2>3 DEF FoldRuns
    <3>2. 1 \in DOMAIN folds
      BY <3>1
    <3>3. folds[1] \in Range(folds)
      BY <3>2 DEF Range
    <3> QED
      BY <3>3
  <2>5. notebook'.step = "final" /\ notebook'.pool # {}
    BY <1>2, <2>3, <2>4 DEF NotebookStates
  <2> QED
    BY <1>3, <1>5, <2>5 DEF PoolFolds, Stay, NotebookInv
<1>6. CASE FindFinal
  <2>1. PICK l \in Launches :
            /\ "predictions" \in finalRuns[<<l, notebook.experiment>>].has
            /\ notebook' = [notebook EXCEPT !.step = "tuned", !.final = {l}]
            /\ notebook.step = "final"
    BY <1>6 DEF FindFinal, Latest, StartedBefore
  <2>2. /\ notebook'.pool # {} /\ notebook'.final = {l}
        /\ notebook'.experiment = notebook.experiment /\ finalRuns' = finalRuns
    BY <1>2, <1>6, <2>1 DEF NotebookStates, NotebookInv, FindFinal, Stay
  <2>3. NotebookInv'
    BY <2>1, <2>2 DEF NotebookInv
  <2> QED
    BY <1>3, <2>2, <2>3
<1>7. CASE LogThreshold
  <2>1. PICK l \in notebook.final :
            LET job == <<l, notebook.experiment>>
            IN  finalRuns' = IF finalRuns[job].cut = {}
                             THEN [finalRuns EXCEPT ![job] =
                                      [@ EXCEPT !.cut = notebook.pool, !.calm = notebook.calm]]
                             ELSE finalRuns
    BY <1>7 DEF LogThreshold
  <2>2. "predictions" \in finalRuns[<<l, notebook.experiment>>].has /\ l \in Launches
        /\ notebook.experiment \in Experiments
    BY <1>2, <1>7 DEF LogThreshold, NotebookInv, NotebookStates
  <2>3. ASSUME NEW m \in Launches, NEW e \in Experiments
        PROVE  /\ finalRuns'[<<m, e>>].begun = finalRuns[<<m, e>>].begun
               /\ finalRuns'[<<m, e>>].has = finalRuns[<<m, e>>].has
               /\ "predictions" \notin finalRuns[<<m, e>>].has
                      => finalRuns'[<<m, e>>] = finalRuns[<<m, e>>]
    <3>1. <<m, e>> \in Jobs /\ <<l, notebook.experiment>> \in Jobs
          /\ finalRuns[<<m, e>>] \in FinalStates
      BY <1>2, <2>2 DEF Jobs
    <3>2. CASE <<m, e>> = <<l, notebook.experiment>>
      <4> DEFINE job == <<l, notebook.experiment>>
      <4>1. \/ finalRuns' = finalRuns
            \/ finalRuns' = [finalRuns EXCEPT ![job] =
                   [finalRuns[job] EXCEPT !.cut = notebook.pool, !.calm = notebook.calm]]
        BY <2>1
      <4>2. <<m, e>> = job /\ job \in Jobs /\ finalRuns[job] \in FinalStates
            /\ "predictions" \in finalRuns[job].has
        BY <2>2, <3>1, <3>2
      <4> DEFINE run == [finalRuns[job] EXCEPT !.cut = notebook.pool, !.calm = notebook.calm]
      <4>3. run.begun = finalRuns[job].begun /\ run.has = finalRuns[job].has
        BY <4>2 DEF FinalStates
      <4>4. finalRuns' = finalRuns \/ finalRuns' = [finalRuns EXCEPT ![job] = run]
        BY <4>1
      <4> HIDE DEF job, run
      <4> QED
        BY <1>2, <4>2, <4>3, <4>4
    <3>3. CASE <<m, e>> # <<l, notebook.experiment>>
      BY <1>2, <2>1, <3>1, <3>3
    <3> QED
      BY <3>2, <3>3
  <2>4. ASSUME NEW m \in Launches PROVE Progress(m)'
    <3>1. Progress(m) /\ Config(m)' = Config(m) /\ Job(m)' = Job(m)
          /\ Job(m) = <<m, Config(m).experiment>> /\ Config(m).experiment \in Experiments
      BY <1>1, <1>2, ConfigOfLaunch DEF Config, Job
    <3>2. AheadOf(m)'
      <4> SUFFICES ASSUME NEW k \in 1 .. Len(ModelConfigs)
                   PROVE  LET job == <<m, ModelConfigs[k].experiment>>
                          IN  /\ CvAhead(m, k) =>
                                     ~cvRuns[job].begun /\ cvRuns[job].folds = <<>>
                              /\ FinalAhead(m, k) =>
                                     /\ ~finalRuns'[job].begun /\ finalRuns'[job].has = {}
                                     /\ finalRuns'[job].cut = {}
        BY <1>1 DEF AheadOf, CvAhead, FinalAhead
      <4>1. ModelConfigs[k].experiment \in Experiments
        BY ConfigsAreConfigs
      <4> QED
        BY <2>3, <3>1, <4>1 DEF Progress, AheadOf
    <3>3. FoldsOf(m)'
      BY <1>1, <3>1 DEF Progress, FoldsOf
    <3>4. FinalOf(m)'
      BY <1>1, <2>3, <3>1 DEF Progress, FinalOf
    <3> QED
      BY <3>2, <3>3, <3>4 DEF Progress
  <2> QED
    BY <1>7, <2>4 DEF LogThreshold, NotebookInv, Closed
<1>8. CASE Leave
  BY <1>3, <1>8 DEF Leave, Stay, NotebookInv, Closed
<1> QED
  BY <1>4, <1>5, <1>6, <1>7, <1>8

\* What a launch logs takes nothing from what the notebook has found.
LEMMA LaunchesKeepNotebook ==
    ASSUME TypeOK, NotebookInv, NEW l \in Launches, Step(l)
    PROVE  NotebookInv'
<1>1. /\ notebook'.step = notebook.step /\ notebook'.pool = notebook.pool
      /\ notebook'.final = notebook.final /\ notebook'.experiment = notebook.experiment
  <2>1. notebook' = notebook \/ notebook' = [notebook EXCEPT !.calm = FALSE]
    BY DEF Step, Start, Skip, LoadData, Break, StartCv, StartFold, WriteFold, UploadFold,
           Aggregate, StartFinal, LogModel, LogEncoder, LogScaler, LogArtefact, WriteFinal,
           UploadFinal
  <2> QED
    BY <2>1, TypeOKUnfolded DEF NotebookStates
<1>2. \A j \in Jobs : finalRuns[j].has \subseteq finalRuns'[j].has
  <2>1. Job(l) \in Jobs /\ finalRuns \in [Jobs -> FinalStates]
    BY ConfigOfLaunch, TypeOKUnfolded
  <2>2. ASSUME NEW part, NEW next, LogArtefact(l, part, next)
        PROVE  \A j \in Jobs : finalRuns[j].has \subseteq finalRuns'[j].has
    <3>1. finalRuns' = [finalRuns EXCEPT ![Job(l)].has = @ \cup {part}]
      BY <2>2 DEF LogArtefact
    <3> QED
      BY <2>1, <3>1 DEF FinalStates
  <2>3. CASE StartFinal(l)
    BY <2>1, <2>3 DEF StartFinal, FinalStates
  <2>4. CASE UploadFinal(l)
    BY <2>1, <2>4 DEF UploadFinal, FinalStates
  <2>5. CASE LogModel(l) \/ LogEncoder(l) \/ LogScaler(l)
    BY <2>2, <2>5 DEF LogModel, LogEncoder, LogScaler
  <2>6. CASE ~(StartFinal(l) \/ UploadFinal(l) \/ LogModel(l) \/ LogEncoder(l) \/ LogScaler(l))
    <3>1. finalRuns' = finalRuns
      BY <2>6 DEF Step, Start, Skip, LoadData, Break, StartCv, StartFold, WriteFold,
                  UploadFold, Aggregate, WriteFinal
    <3> QED
      BY <3>1
  <2> QED
    BY <2>3, <2>4, <2>5, <2>6
<1>3. notebook.final \subseteq Launches /\ notebook.experiment \in Experiments
  BY TypeOKUnfolded DEF NotebookStates
<1>4. \A m \in notebook.final : <<m, notebook.experiment>> \in Jobs
  BY <1>3 DEF Jobs
<1> QED
  BY <1>1, <1>2, <1>4 DEF NotebookInv

LEMMA StepTypes ==
    ASSUME Inv, NEW l \in Launches, Step(l)
    PROVE  TypeOK' /\ DataInv'
<1>1. TypeOK /\ DataInv /\ FoldsOf(l)
  BY DEF Inv, Progress
<1>2. launch[l].step = "upload" => launch[l].fold \in 1 .. Len(cvRuns[Job(l)].folds)
  <2>1. launch[l].fold \in 1 .. NSplits
    BY <1>1, TypeOKUnfolded DEF LaunchStates
  <2> QED
    BY <1>1, <2>1, SplitAssumption DEF FoldsOf
<1> QED
  BY <1>1, <1>2, StartTypes, ScriptTypes, LoadTypes, CvTypes, WriteTypes, FinalTypes DEF Step

LEMMA NextPreserves == Inv /\ [Next]_vars => Inv'
<1> SUFFICES ASSUME Inv, [Next]_vars PROVE Inv'
  OBVIOUS
<1>1. ASSUME NEW l \in Launches, Step(l) PROVE Inv'
  <2>1. TypeOK' /\ DataInv'
    BY <1>1, StepTypes
  <2>2. NotebookInv'
    BY <1>1, LaunchesKeepNotebook DEF Inv
  <2>3. TypeOK /\ \A m \in Launches : Progress(m)
    BY DEF Inv
  <2>4. Progress(l)'
    BY <1>1, <2>3, ScriptProgress, CvProgress, FinalProgress DEF Step
  <2>5. \A m \in Launches : m # l => Progress(m)'
    BY <1>1, <2>3, OthersKeepProgress
  <2> QED
    BY <2>1, <2>2, <2>4, <2>5 DEF Inv
<1>2. CASE \/ \E e \in Experiments : FindCv(e)
           \/ PoolFolds \/ FindFinal \/ LogThreshold \/ Leave
  <2>1. TypeOK' /\ DataInv'
    BY <1>2, NotebookTypes DEF Inv
  <2> QED
    BY <1>2, <2>1, NotebookProgress DEF Inv
<1>3. CASE UNCHANGED vars
  <2>1. TypeOK'
    BY <1>3, TypeOKUnfolded, TypeOKPrimed DEF vars, Inv
  <2>2. DataInv' /\ NotebookInv'
    BY <1>3 DEF vars, Inv, DataInv, NotebookInv
  <2>3. \A l \in Launches : Progress(l)'
    BY <1>3, SameRunsSameProgress DEF vars, Inv
  <2> QED
    BY <2>1, <2>2, <2>3 DEF Inv
<1> QED
  BY <1>1, <1>2, <1>3 DEF Next

THEOREM Invariance == Spec => []Inv
  BY InitEstablishes, NextPreserves, PTL DEF Spec

\* The state of every launch, run, file and notebook keeps its type, for any datasets:
\* in particular no fold run is written to that its launch has not begun.
THEOREM TypeCorrect == Spec => []TypeOK
<1>1. Inv => TypeOK
  BY DEF Inv
<1> QED
  BY <1>1, Invariance, PTL

\* Whatever the star schema holds, however many months are held out and however many
\* folds there are, no prediction is made by what learnt from its month or a later one
\* (isolate_test_set, generate_cv_folds, preprocess_train_folds, preprocess_test_set).
THEOREM NoRowOfTheFuture == Spec => []TemporalIsolation
<1>1. Inv => TemporalIsolation
  <2> SUFFICES ASSUME Inv, NEW l \in Launches, launch[l].step = "cv"
               PROVE  FoldsAreTemporal(l) /\ TestIsHeldOut(l)
    BY DEF TemporalIsolation
  <2>1. data[l] \in Marts
    BY DEF Inv, DataInv, CvSteps
  <2>2. data[l] \in SUBSET Rows /\ IsFiniteSet(data[l])
    BY <2>1, MartsAreData
  <2>3. Config(l).scale \in BOOLEAN
    BY ConfigOfLaunch DEF Inv
  <2> QED
    BY <2>2, <2>3, SplitIsolates
<1> QED
  BY <1>1, Invariance, PTL

\* The configuration of the served experiment leaves missing values to the model, as
\* inference does, which never asks for flags (MODEL_CONFIGS, score_features).
ServedAsScored ==
    \A k \in 1 .. Len(ModelConfigs) :
        ModelConfigs[k].experiment = Served => ~ModelConfigs[k].handleNan

LEMMA PreparedAlike ==
    ASSUME NEW train, NEW scored, NEW config, config.scale \in BOOLEAN
    PROVE  LET P == Prepare(train, scored, config)
           IN  /\ Columns(P.train) = Columns(P.scored)
               /\ P.train.encoder = train
               /\ Columns(P.train) =
                      Columns(HandleMissingAndEncode(QueryCols, train, train, config.handleNan))
  BY DEF Prepare, HandleMissingAndEncode, ScaleFeatures, Columns

\* With any categories and any datasets, what a model scores has the columns it was
\* fitted on: the folds and the test set always, a company of the database and a
\* request to the served model as long as its experiment does not impute
\* (handle_missing_and_encode, predict_from_company_ids, predict_from_raw_data).
THEOREM WhatIsScoredHasItsColumns ==
    ASSUME ServedAsScored PROVE Spec => []ColumnsAgree
<1>1. Inv => ColumnsAgree
  <2> SUFFICES ASSUME Inv, NEW l \in Launches, launch[l].step = "cv"
               PROVE  /\ \A i \in 1 .. FinalFit :
                             Columns(Frames(l, i).train) = Columns(Frames(l, i).scored)
                      /\ Config(l).experiment = Served =>
                             LET X == Frames(l, FinalFit).train
                             IN  \A cols \in {QueryCols, AdHocCols} :
                                     Columns(ScoreFeatures(cols, X.encoder)) = Columns(X)
    BY DEF ColumnsAgree
  <2> DEFINE pre == Remaining(data[l])
  <2>1. Config(l).scale \in BOOLEAN /\ launch[l].at \in 1 .. Len(ModelConfigs)
    BY ConfigOfLaunch DEF Inv
  <2>2. Frames(l, FinalFit) = Prepare(pre, TestSet(data[l]), Config(l))
    BY DEF Frames, PreprocessTestSet
  <2>3. ASSUME NEW i \in 1 .. FinalFit
        PROVE  Columns(Frames(l, i).train) = Columns(Frames(l, i).scored)
    <3>1. CASE i = FinalFit
      BY <2>1, <2>2, <3>1, PreparedAlike
    <3>2. CASE i # FinalFit
      <4>1. i \in 1 .. NSplits
        BY <3>2, SplitAssumption DEF FinalFit
      <4>2. Frames(l, i) = Prepare(FoldTrain(pre, i), FoldVal(pre, i), Config(l))
        BY <3>2, <4>1 DEF Frames, PreprocessTrainFolds
      <4> QED
        BY <2>1, <4>2, PreparedAlike
    <3> QED
      BY <3>1, <3>2
  <2>4. ASSUME Config(l).experiment = Served, NEW cols \in {QueryCols, AdHocCols}
        PROVE  Columns(ScoreFeatures(cols, Frames(l, FinalFit).train.encoder))
                   = Columns(Frames(l, FinalFit).train)
    <3>1. ~Config(l).handleNan
      BY <2>1, <2>4 DEF ServedAsScored, Config
    <3>2. QueryCols = AdHocCols
      BY DEF QueryCols, AdHocCols
    <3>3. /\ Frames(l, FinalFit).train.encoder = pre
          /\ Columns(Frames(l, FinalFit).train) =
                 Columns(HandleMissingAndEncode(QueryCols, pre, pre, Config(l).handleNan))
      BY <2>1, <2>2, PreparedAlike
    <3>4. Columns(HandleMissingAndEncode(QueryCols, pre, pre, Config(l).handleNan)) =
              Columns(HandleMissingAndEncode(QueryCols, {}, pre, FALSE))
      BY <3>1 DEF Columns, HandleMissingAndEncode
    <3> QED
      BY <3>2, <3>3, <3>4 DEF ScoreFeatures
  <2> QED
    BY <2>3, <2>4
<1> QED
  BY <1>1, Invariance, PTL
-----------------------------------------------------------------------------
(* What those who load models rely on *)

LEMMA ScaledAsConfigured ==
    ASSUME TypeOK, NEW l \in Launches, Config(l).experiment = Served
    PROVE  ServedIsScaled <=> Config(l).scale
  BY ConfigOfLaunch, ConfigsAssumption DEF ServedIsScaled, Config

LEMMA RegistryParts ==
    /\ Registry!Parts = {"model", "encoder", "predictions"}
                            \cup (IF ServedIsScaled THEN {"scaler"} ELSE {})
    /\ Registry!Before("model") = {} /\ Registry!Before("encoder") = {"model"}
    /\ Registry!Before("scaler") = {"model", "encoder"}
    /\ Registry!Before("predictions") =
           {"model", "encoder"} \cup (IF ServedIsScaled THEN {"scaler"} ELSE {})
  BY DEF Registry!Parts, Registry!Before, ServedIsScaled

\* What another experiment's runs do is not seen.
LEMMA OtherExperimentsAreNotSeen ==
    ASSUME TypeOK, NEW l \in Launches, Step(l),
           Config(l).experiment # Served \/ finalRuns' = finalRuns
    PROVE  FinalsOf(finalRuns)' = FinalsOf(finalRuns)
<1>1. \A m \in Launches : <<m, Served>> \in Jobs
  BY ConfigsAreConfigs DEF Jobs
<1>2. \A m \in Launches : finalRuns'[<<m, Served>>] = finalRuns[<<m, Served>>]
  BY <1>1, OthersAreLeftAlone DEF Job
<1> QED
  BY <1>2 DEF FinalsOf

\* The record a reader sees of a run.
LEMMA SeenOfRun ==
    ASSUME NEW l \in Launches, finalRuns[<<l, Served>>] \in FinalStates
    PROVE  /\ FinalsOf(finalRuns)[l].begun = finalRuns[<<l, Served>>].begun
           /\ FinalsOf(finalRuns)[l].after = finalRuns[<<l, Served>>].after
           /\ FinalsOf(finalRuns)[l].has = finalRuns[<<l, Served>>].has
           /\ FinalsOf(finalRuns)[l].cut = {p[1] : p \in finalRuns[<<l, Served>>].cut}
  BY DEF FinalsOf

LEMMA BeginIsBegin ==
    ASSUME Inv, NEW l \in Launches, StartFinal(l), Config(l).experiment = Served
    PROVE  Registry!Begin(l)
<1> DEFINE run == finalRuns[<<l, Served>>]
           begun == StartedBefore(finalRuns, Served)
<1>1. /\ TypeOK /\ finalRuns \in [Jobs -> FinalStates] /\ Job(l) = <<l, Served>>
      /\ \A m \in Launches : <<m, Served>> \in Jobs
  BY TypeOKUnfolded, ConfigsAreConfigs DEF Inv, Job, Jobs
<1>2. run \in FinalStates
  BY <1>1
<1>3. ~run.begun
  BY <1>1, ConfigOfLaunch DEF Inv, Progress, AheadOf, FinalAhead, StartFinal, Job, Config
<1>4. finalRuns' = [finalRuns EXCEPT ![<<l, Served>>] =
                        [run EXCEPT !.begun = TRUE, !.after = begun]]
  BY <1>1, <1>2 DEF StartFinal, FinalStates
<1>5. Registry!Begun = begun
  BY DEF Registry!Begun, StartedBefore, FinalsOf
<1>6. FinalsOf(finalRuns)' =
          [FinalsOf(finalRuns) EXCEPT ![l] = [@ EXCEPT !.begun = TRUE, !.after = begun]]
  <2> DEFINE seen == FinalsOf(finalRuns)
             new == [run EXCEPT !.begun = TRUE, !.after = begun]
  <2>1. \A m \in Launches : m # l => finalRuns'[<<m, Served>>] = finalRuns[<<m, Served>>]
    BY <1>1, <1>4
  <2>2. finalRuns'[<<l, Served>>] = new
    BY <1>1, <1>4
  <2>3. new.begun = TRUE /\ new.after = begun /\ new.has = run.has /\ new.cut = run.cut
    BY <1>2 DEF FinalStates
  <2> HIDE DEF new, begun
  <2> QED
    BY <2>1, <2>2, <2>3 DEF FinalsOf
<1> HIDE DEF begun
<1>7. FinalsOf(finalRuns)' =
          [FinalsOf(finalRuns) EXCEPT ![l].begun = TRUE, ![l].after = begun]
  BY <1>6 DEF FinalsOf
<1> QED
  BY <1>2, <1>3, <1>5, <1>7 DEF Registry!Begin, FinalsOf

\* Logging a part of the run at hand, when what comes before it is there.
LEMMA LogIsLog ==
    ASSUME TypeOK, NEW l \in Launches, Config(l).experiment = Served,
           NEW part \in Registry!Parts, NEW run,
           finalRuns[Job(l)].begun, finalRuns[Job(l)].has = Registry!Before(part),
           run = finalRuns'[Job(l)],
           run.begun = finalRuns[Job(l)].begun, run.after = finalRuns[Job(l)].after,
           run.has = finalRuns[Job(l)].has \cup {part}, run.cut = finalRuns[Job(l)].cut,
           \A j \in Jobs : j # Job(l) => finalRuns'[j] = finalRuns[j]
    PROVE  Registry!Log(l, part)
<1>1. Job(l) = <<l, Served>> /\ \A m \in Launches : <<m, Served>> \in Jobs
  BY ConfigsAreConfigs DEF Job, Jobs
<1>2. \A m \in Launches : m # l => finalRuns'[<<m, Served>>] = finalRuns[<<m, Served>>]
  BY <1>1
<1>3. FinalsOf(finalRuns)'[l] =
          [FinalsOf(finalRuns)[l] EXCEPT !.has = FinalsOf(finalRuns)[l].has \cup {part}]
  <2> DEFINE old == finalRuns[<<l, Served>>]
             cut == {p[1] : p \in old.cut}
             newCut == {p[1] : p \in run.cut}
  <2>1. FinalsOf(finalRuns)[l] = [begun |-> old.begun, after |-> old.after,
                                  has |-> old.has, cut |-> cut]
    BY DEF FinalsOf
  <2>2. FinalsOf(finalRuns)'[l] = [begun |-> run.begun, after |-> run.after,
                                   has |-> run.has, cut |-> newCut]
    BY <1>1 DEF FinalsOf
  <2>3. /\ run.begun = old.begun /\ run.after = old.after
        /\ run.has = old.has \cup {part} /\ newCut = cut
    BY <1>1
  <2> DEFINE has == old.has \cup {part}
  <2> HIDE DEF old, cut, newCut, has
  <2>4. FinalsOf(finalRuns)[l].has = old.has
    BY <2>1
  <2>5. FinalsOf(finalRuns)[l].has \cup {part} = has
    BY <2>4 DEF has
  <2>6. FinalsOf(finalRuns)'[l] = [begun |-> old.begun, after |-> old.after,
                                   has |-> has, cut |-> cut]
    BY <2>2, <2>3 DEF has
  <2> QED
    BY <2>1, <2>5, <2>6
<1>4. FinalsOf(finalRuns)' = [FinalsOf(finalRuns) EXCEPT ![l].has = @ \cup {part}]
  <2>1. \A m \in Launches : m # l => FinalsOf(finalRuns)'[m] = FinalsOf(finalRuns)[m]
    BY <1>2 DEF FinalsOf
  <2> DEFINE new == [FinalsOf(finalRuns)[l] EXCEPT
                        !.has = FinalsOf(finalRuns)[l].has \cup {part}]
  <2>2. FinalsOf(finalRuns)'[l] = new
    BY <1>3
  <2> HIDE DEF new
  <2>3. FinalsOf(finalRuns)' = [FinalsOf(finalRuns) EXCEPT ![l] = new]
    BY <2>1, <2>2 DEF FinalsOf
  <2> QED
    BY <2>3 DEF new
<1>5. FinalsOf(finalRuns)[l].begun /\ FinalsOf(finalRuns)[l].has = Registry!Before(part)
  BY <1>1 DEF FinalsOf
<1> HIDE DEF Registry!Before
<1> QED
  BY <1>4, <1>5 DEF Registry!Log, FinalsOf

LEMMA ArtefactIsLog ==
    ASSUME Inv, NEW l \in Launches, Config(l).experiment = Served,
           LogModel(l) \/ LogEncoder(l) \/ LogScaler(l) \/ UploadFinal(l)
    PROVE  \E part \in Registry!Parts : Registry!Log(l, part)
<1>1. /\ TypeOK /\ finalRuns \in [Jobs -> FinalStates] /\ Job(l) \in Jobs
      /\ finalRuns[Job(l)] \in FinalStates /\ FinalOf(l)
      /\ \A j \in Jobs : j # Job(l) => finalRuns'[j] = finalRuns[j]
  <2>1. Step(l)
    BY DEF Step
  <2> QED
    BY <2>1, TypeOKUnfolded, ConfigOfLaunch, OthersAreLeftAlone DEF Inv, Progress
<1>2. ServedIsScaled <=> Config(l).scale
  BY <1>1, ScaledAsConfigured
<1>3. ASSUME NEW part \in {"model", "encoder", "scaler"}, NEW next, LogArtefact(l, part, next)
      PROVE  LET run == finalRuns'[Job(l)]
             IN  /\ run.begun = finalRuns[Job(l)].begun
                 /\ run.after = finalRuns[Job(l)].after
                 /\ run.has = finalRuns[Job(l)].has \cup {part}
                 /\ run.cut = finalRuns[Job(l)].cut
                 /\ launch[l].step = part
  <2>1. finalRuns' = [finalRuns EXCEPT ![Job(l)].has = @ \cup {part}] /\ launch[l].step = part
    BY <1>3 DEF LogArtefact
  <2> QED
    BY <1>1, <2>1 DEF FinalStates
<1>4. CASE LogModel(l)
  <2>1. launch[l].step = "model" /\ "model" \in Registry!Parts
    BY <1>4, RegistryParts DEF LogModel, LogArtefact
  <2>2. finalRuns[Job(l)].begun /\ finalRuns[Job(l)].has = Registry!Before("model")
    BY <1>1, <2>1, RegistryParts DEF FinalOf, FinalSteps
  <2>3. Registry!Log(l, "model")
    BY <1>1, <1>3, <1>4, <2>1, <2>2, LogIsLog DEF LogModel
  <2> QED
    BY <2>1, <2>3
<1>5. CASE LogEncoder(l)
  <2>1. launch[l].step = "encoder" /\ "encoder" \in Registry!Parts
    BY <1>5, RegistryParts DEF LogEncoder, LogArtefact
  <2>2. finalRuns[Job(l)].begun /\ finalRuns[Job(l)].has = Registry!Before("encoder")
    BY <1>1, <2>1, RegistryParts DEF FinalOf, FinalSteps
  <2>3. Registry!Log(l, "encoder")
    BY <1>1, <1>3, <1>5, <2>1, <2>2, LogIsLog DEF LogEncoder
  <2> QED
    BY <2>1, <2>3
<1>6. CASE LogScaler(l)
  <2>1. launch[l].step = "scaler"
    BY <1>6 DEF LogScaler, LogArtefact
  <2>2. finalRuns[Job(l)].begun /\ finalRuns[Job(l)].has = Registry!Before("scaler")
        /\ "scaler" \in Registry!Parts
    BY <1>1, <1>2, <2>1, RegistryParts DEF FinalOf, FinalSteps
  <2>3. Registry!Log(l, "scaler")
    BY <1>1, <1>3, <1>6, <2>1, <2>2, LogIsLog DEF LogScaler
  <2> QED
    BY <2>2, <2>3
<1>7. CASE UploadFinal(l)
  <2>1. launch[l].step = "attach" /\ "predictions" \in Registry!Parts
    BY <1>7, RegistryParts DEF UploadFinal
  <2>2. finalRuns[Job(l)].begun /\ finalRuns[Job(l)].has = Registry!Before("predictions")
    BY <1>1, <1>2, <2>1, RegistryParts DEF FinalOf, FinalSteps
  <2>3. LET run == finalRuns'[Job(l)]
        IN  /\ run.begun = finalRuns[Job(l)].begun
            /\ run.after = finalRuns[Job(l)].after
            /\ run.has = finalRuns[Job(l)].has \cup {"predictions"}
            /\ run.cut = finalRuns[Job(l)].cut
    BY <1>1, <1>7 DEF UploadFinal, FinalStates
  <2>4. Registry!Log(l, "predictions")
    BY <1>1, <2>1, <2>2, <2>3, LogIsLog
  <2> QED
    BY <2>1, <2>4
<1> QED
  BY <1>4, <1>5, <1>6, <1>7

LEMMA ThresholdIsSelect ==
    ASSUME Inv, LogThreshold, FinalsOf(finalRuns)' # FinalsOf(finalRuns)
    PROVE  \E l \in Launches : Registry!Select(l)
<1>1. /\ TypeOK /\ finalRuns \in [Jobs -> FinalStates] /\ notebook \in NotebookStates
      /\ NotebookInv /\ notebook.step = "tuned"
      /\ \A m \in Launches : <<m, Served>> \in Jobs
  BY TypeOKUnfolded, ConfigsAreConfigs DEF Inv, LogThreshold, Jobs
<1>2. PICK l \in notebook.final :
          LET job == <<l, notebook.experiment>>
          IN  finalRuns' = IF finalRuns[job].cut = {}
                           THEN [finalRuns EXCEPT ![job] =
                                    [@ EXCEPT !.cut = notebook.pool, !.calm = notebook.calm]]
                           ELSE finalRuns
  BY DEF LogThreshold
<1>3. l \in Launches
  BY <1>1 DEF NotebookStates
<1> DEFINE job == <<l, notebook.experiment>>
           run == [finalRuns[job] EXCEPT !.cut = notebook.pool, !.calm = notebook.calm]
<1>4. finalRuns' # finalRuns
  BY DEF FinalsOf
<1>5. finalRuns[job].cut = {} /\ finalRuns' = [finalRuns EXCEPT ![job] = run]
  BY <1>2, <1>4
<1>6. notebook.experiment = Served
  <2> SUFFICES ASSUME notebook.experiment # Served PROVE FALSE
    OBVIOUS
  <2>1. \A m \in Launches : <<m, Served>> # job
    OBVIOUS
  <2> HIDE DEF job, run
  <2>2. \A m \in Launches : finalRuns'[<<m, Served>>] = finalRuns[<<m, Served>>]
    BY <1>1, <1>5, <2>1
  <2> QED
    BY <2>2 DEF FinalsOf
<1>7. job = <<l, Served>> /\ job \in Jobs /\ finalRuns[job] \in FinalStates
  BY <1>1, <1>3, <1>6
<1>8. "predictions" \in finalRuns[job].has /\ notebook.pool # {}
      /\ notebook.pool \in SUBSET Predictions
  BY <1>1 DEF NotebookInv, NotebookStates
<1> DEFINE cut == {p[1] : p \in notebook.pool}
<1>9. cut \in (SUBSET Launches) \ {{}}
  BY <1>8 DEF Predictions
<1>10. FinalsOf(finalRuns)' = [FinalsOf(finalRuns) EXCEPT ![l].cut = cut]
  <2>1. \A m \in Launches : m # l => finalRuns'[<<m, Served>>] = finalRuns[<<m, Served>>]
    BY <1>1, <1>5, <1>7
  <2>2. finalRuns'[<<l, Served>>] = run
    BY <1>1, <1>5, <1>7
  <2>3. /\ run.begun = finalRuns[job].begun /\ run.after = finalRuns[job].after
        /\ run.has = finalRuns[job].has /\ run.cut = notebook.pool
    BY <1>7 DEF FinalStates
  <2>4. FinalsOf(finalRuns)'[l] = [FinalsOf(finalRuns)[l] EXCEPT !.cut = cut]
    <3> DEFINE old == finalRuns[<<l, Served>>]
               oldCut == {p[1] : p \in old.cut}
               newCut == {p[1] : p \in run.cut}
    <3>1. FinalsOf(finalRuns)[l] = [begun |-> old.begun, after |-> old.after,
                                    has |-> old.has, cut |-> oldCut]
      BY <1>3 DEF FinalsOf
    <3>2. FinalsOf(finalRuns)'[l] = [begun |-> run.begun, after |-> run.after,
                                     has |-> run.has, cut |-> newCut]
      BY <1>3, <2>2 DEF FinalsOf
    <3>3. /\ run.begun = old.begun /\ run.after = old.after /\ run.has = old.has
          /\ newCut = cut
      BY <1>7, <2>3
    <3> HIDE DEF run, old, cut, oldCut, newCut
    <3> QED
      BY <3>1, <3>2, <3>3
  <2>5. \A m \in Launches : m # l => FinalsOf(finalRuns)'[m] = FinalsOf(finalRuns)[m]
    BY <2>1 DEF FinalsOf
  <2> HIDE DEF cut
  <2> QED
    BY <1>3, <2>4, <2>5 DEF FinalsOf
<1>11. FinalsOf(finalRuns)[l].has = finalRuns[job].has /\ FinalsOf(finalRuns)[l].cut = {}
  <2> HIDE DEF job
  <2> QED
    BY <1>3, <1>5, <1>7, SeenOfRun
<1> HIDE DEF cut, run, job
<1>12. Registry!Select(l)
  BY <1>8, <1>9, <1>10, <1>11 DEF Registry!Select, FinalsOf, Tunings
<1> QED
  BY <1>3, <1>12

LEMMA RegistryStarts == Init => Registry!RegistryInit
<1> SUFFICES ASSUME Init PROVE Registry!RegistryInit
  OBVIOUS
<1>1. \A l \in Launches : <<l, Served>> \in Jobs
  BY ConfigsAreConfigs DEF Jobs
<1>2. \A l \in Launches : finalRuns[<<l, Served>>] = NoFinal
  BY <1>1 DEF Init
<1> DEFINE cut(l) == {p[1] : p \in finalRuns[<<l, Served>>].cut}
<1>3. \A l \in Launches : cut(l) = {}
  BY <1>2 DEF NoFinal
<1> HIDE DEF cut
<1>4. \A l \in Launches :
          [begun |-> finalRuns[<<l, Served>>].begun, after |-> finalRuns[<<l, Served>>].after,
           has |-> finalRuns[<<l, Served>>].has, cut |-> cut(l)] = Registry!NoRun
  <2> SUFFICES ASSUME NEW l \in Launches
               PROVE  [begun |-> finalRuns[<<l, Served>>].begun,
                       after |-> finalRuns[<<l, Served>>].after,
                       has |-> finalRuns[<<l, Served>>].has, cut |-> cut(l)] = Registry!NoRun
    OBVIOUS
  <2>1. /\ finalRuns[<<l, Served>>].begun = FALSE /\ finalRuns[<<l, Served>>].after = {}
        /\ finalRuns[<<l, Served>>].has = {} /\ cut(l) = {}
    BY <1>2, <1>3 DEF NoFinal
  <2> QED
    BY <2>1 DEF Registry!NoRun
<1> QED
  BY <1>4 DEF Registry!RegistryInit, FinalsOf, cut

LEMMA RegistryGoesOn ==
    Inv /\ [Next]_vars => [Registry!RegistryNext]_(FinalsOf(finalRuns))
<1> SUFFICES ASSUME Inv, [Next]_vars, FinalsOf(finalRuns)' # FinalsOf(finalRuns)
             PROVE  Registry!RegistryNext
  OBVIOUS
<1>1. ASSUME finalRuns' = finalRuns PROVE FALSE
  BY <1>1 DEF FinalsOf
<1>2. ASSUME NEW l \in Launches, Step(l) PROVE Registry!RegistryNext
  <2>1. Config(l).experiment = Served
    BY <1>2, OtherExperimentsAreNotSeen DEF Inv
  <2>2. CASE StartFinal(l)
    BY <2>1, <2>2, BeginIsBegin DEF Registry!RegistryNext
  <2>3. CASE LogModel(l) \/ LogEncoder(l) \/ LogScaler(l) \/ UploadFinal(l)
    BY <2>1, <2>3, ArtefactIsLog DEF Registry!RegistryNext
  <2>4. CASE ~(\/ StartFinal(l) \/ LogModel(l) \/ LogEncoder(l) \/ LogScaler(l)
               \/ UploadFinal(l))
    <3>1. finalRuns' = finalRuns
      BY <1>2, <2>4 DEF Step, Start, Skip, LoadData, Break, StartCv, StartFold, WriteFold,
                        UploadFold, Aggregate, WriteFinal
    <3> QED
      BY <1>1, <3>1
  <2> QED
    BY <2>2, <2>3, <2>4
<1>3. CASE LogThreshold
  BY <1>3, ThresholdIsSelect DEF Registry!RegistryNext
<1>4. CASE \/ \E e \in Experiments : FindCv(e)
           \/ PoolFolds \/ FindFinal \/ Leave \/ UNCHANGED vars
  <2>1. finalRuns' = finalRuns
    BY <1>4 DEF FindCv, PoolFolds, FindFinal, Leave, Stay, vars
  <2> QED
    BY <1>1, <2>1
<1> QED
  BY <1>2, <1>3, <1>4 DEF Next

\* Training and threshold selection, however many launches there are and wherever they
\* stop, do to the final runs of the served experiment only what ModelRegistry lets
\* happen: a run begins after those that had, gets its model, encoder, scaler and
\* predictions in this order, and a threshold once, when it has its predictions
\* (log_final_run and the last cells of plots.ipynb).
THEOREM TrainingImplementsRegistry == Spec => ImplementsRegistry
BY RegistryStarts, RegistryGoesOn, Invariance, PTL
DEF Spec, ImplementsRegistry, Registry!RegistrySpec
-----------------------------------------------------------------------------
(* Whose a threshold is *)

\* Where a launch is, its cross-validation has begun; what lies behind it is complete.
Begun(l) ==
    /\ launch[l].step = "idle" => launch[l].at = 1
    /\ launch[l].step = "done" => launch[l].at = Len(ModelConfigs)
    /\ launch[l].step \in (CvSteps \ {"cv"}) \cup FinalSteps => cvRuns[Job(l)].begun
Behind(l, k) ==
    \/ k < launch[l].at
    \/ k = launch[l].at /\ launch[l].step = "done"
BehindOf(l) ==
    \A k \in 1 .. Len(ModelConfigs) :
        LET job == <<l, ModelConfigs[k].experiment>>
        IN  /\ finalRuns[job].begun => cvRuns[job].begun
            /\ Behind(l, k) /\ cvRuns[job].begun =>
                   finalRuns[job].begun /\ Len(cvRuns[job].folds) = NSplits
Places == \A l \in Launches : Begun(l) /\ BehindOf(l)

\* The order in which the runs of an experiment were begun.
CvOrder ==
    \A l, m \in Launches, e \in Experiments :
        l \in cvRuns[<<m, e>>].after =>
            /\ cvRuns[<<m, e>>].begun /\ cvRuns[<<l, e>>].begun
            /\ m \notin cvRuns[<<l, e>>].after

\* One launch after the other: the one under way is the last to have begun, its final
\* run comes after nothing that its cross-validation does not come after, and what it
\* finds in a file, or has uploaded, is its own.
OneActive == \A l, m \in Launches : Active(l) /\ Active(m) => l = m
ActiveIsLast ==
    \A l, m \in Launches, e \in Experiments :
        Active(m) /\ l # m /\ cvRuns[<<m, e>>].begun /\ cvRuns[<<l, e>>].begun =>
            l \in cvRuns[<<m, e>>].after
FinalOrder ==
    \A m \in Launches, e \in Experiments :
        finalRuns[<<m, e>>].after \subseteq cvRuns[<<m, e>>].after
OwnFile(l) ==
    LET i == launch[l].fold
    IN  /\ launch[l].step = "upload" => tmp[i] = Prediction(Job(l), i)
        /\ launch[l].step = "attach" => tmp[FinalFit] = Prediction(Job(l), FinalFit)
OwnFolds(job) ==
    \A i \in 1 .. Len(cvRuns[job].folds) :
        cvRuns[job].folds[i] \in {Lost, Prediction(job, i)}
OwnPredictions(job) ==
    "predictions" \in finalRuns[job].has =>
        finalRuns[job].predictions = Prediction(job, FinalFit)
OneByOne ==
    /\ OneActive /\ ActiveIsLast /\ FinalOrder
    /\ \A l \in Launches : OwnFile(l)
    /\ \A job \in Jobs : OwnFolds(job) /\ OwnPredictions(job)

\* What a notebook has found that was opened, and left, in peace.
OwnCut(job) == {Prediction(job, i) : i \in 1 .. NSplits}
CalmNotebook ==
    LET e == notebook.experiment
    IN  notebook.calm =>
            /\ ~overlapped
            /\ \A l \in Launches : ~Active(l)
            /\ \A l \in Latest(cvRuns, e) : launch[l].step = "done"
            /\ notebook.step = "folds" => notebook.cv = Latest(cvRuns, e)
            /\ notebook.step = "final" =>
                   \E l \in Latest(cvRuns, e) : notebook.pool = OwnCut(<<l, e>>)
            /\ notebook.step = "tuned" =>
                   \A l \in notebook.final :
                       launch[l].step = "done" /\ notebook.pool = OwnCut(<<l, e>>)

CalmRun(job) ==
    finalRuns[job].calm =>
        /\ launch[job[1]].step = "done"
        /\ finalRuns[job].cut = OwnCut(job)
        /\ finalRuns[job].predictions = Prediction(job, FinalFit)

OwnInv ==
    /\ Places
    /\ CvOrder
    /\ ~overlapped => OneByOne
    /\ CalmNotebook
    /\ \A job \in Jobs : CalmRun(job)

\* What a step of a launch does to its runs.
LEMMA EffectsOnRuns ==
    ASSUME TypeOK, NEW l \in Launches, Step(l), NEW j \in Jobs
    PROVE  /\ ~StartCv(l) => /\ cvRuns'[j].begun = cvRuns[j].begun
                             /\ cvRuns'[j].after = cvRuns[j].after
           /\ ~(StartFold(l) \/ UploadFold(l)) => cvRuns'[j].folds = cvRuns[j].folds
           /\ ~StartFinal(l) => /\ finalRuns'[j].begun = finalRuns[j].begun
                                /\ finalRuns'[j].after = finalRuns[j].after
           /\ ~UploadFinal(l) => finalRuns'[j].predictions = finalRuns[j].predictions
           /\ finalRuns'[j].calm = finalRuns[j].calm
<1>1. /\ Job(l) \in Jobs
      /\ cvRuns \in [Jobs -> CvStates] /\ cvRuns[j] \in CvStates
      /\ finalRuns \in [Jobs -> FinalStates] /\ finalRuns[j] \in FinalStates
  BY ConfigOfLaunch, TypeOKUnfolded
<1> USE DEF CvStates, FinalStates
<1>2. CASE \/ \E chosen \in Selections[l] : Start(l, chosen)
           \/ Skip(l) \/ LoadData(l) \/ Break(l) \/ WriteFold(l) \/ WriteFinal(l)
  BY <1>2 DEF Start, Skip, LoadData, Break, WriteFold, WriteFinal
<1>3. CASE StartCv(l)
  BY <1>1, <1>3 DEF StartCv
<1>4. CASE StartFold(l)
  BY <1>1, <1>4 DEF StartFold
<1>5. CASE UploadFold(l)
  BY <1>1, <1>5 DEF UploadFold
<1>6. CASE Aggregate(l)
  BY <1>1, <1>6 DEF Aggregate
<1>7. CASE StartFinal(l)
  BY <1>1, <1>7 DEF StartFinal
<1>8. CASE LogModel(l) \/ LogEncoder(l) \/ LogScaler(l)
  <2>1. PICK part \in {"model", "encoder", "scaler"}, next \in {"encoder", "scaler", "dump"} :
             LogArtefact(l, part, next)
    BY <1>8 DEF LogModel, LogEncoder, LogScaler
  <2> QED
    BY <1>1, <2>1 DEF LogArtefact
<1>9. CASE UploadFinal(l)
  BY <1>1, <1>9 DEF UploadFinal
<1> QED
  BY <1>2, <1>3, <1>4, <1>5, <1>6, <1>7, <1>8, <1>9 DEF Step

\* Only a launch under way takes steps, once it is started.
LEMMA OnlyTheActiveStep ==
    ASSUME TypeOK, NEW l \in Launches, Step(l)
    PROVE  \/ /\ launch[l].step = "idle" /\ launch'[l].step = "prepare"
              /\ launch'[l].at = launch[l].at
              /\ overlapped' = (overlapped \/ \E m \in Launches : Active(m))
              /\ ~notebook'.calm
              /\ UNCHANGED <<data, cvRuns, finalRuns, tmp>>
           \/ Active(l) /\ overlapped' = overlapped /\ notebook' = notebook
<1>1. CASE \E chosen \in Selections[l] : Start(l, chosen)
  <2>1. PICK chosen \in Selections[l] : Start(l, chosen)
    BY <1>1
  <2>2. launch' = [launch EXCEPT ![l].step = "prepare", ![l].chosen = chosen]
    BY <2>1 DEF Start
  <2>3. launch'[l].step = "prepare" /\ launch'[l].at = launch[l].at
    BY <2>2, TypeOKUnfolded DEF LaunchStates
  <2>4. ~notebook'.calm
    BY <2>1, TypeOKUnfolded DEF Start, NotebookStates
  <2> QED
    BY <2>1, <2>3, <2>4 DEF Start
<1>2. CASE ~\E chosen \in Selections[l] : Start(l, chosen)
  <2>1. overlapped' = overlapped /\ notebook' = notebook
    BY <1>2 DEF Step, Skip, LoadData, Break, StartCv, StartFold, WriteFold, UploadFold,
           Aggregate, StartFinal, LogModel, LogEncoder, LogScaler, LogArtefact, WriteFinal,
           UploadFinal
  <2>2. Active(l)
    BY <1>2 DEF Step, Skip, LoadData, Break, StartCv, StartFold, WriteFold, UploadFold,
           Aggregate, StartFinal, LogModel, LogEncoder, LogScaler, LogArtefact, WriteFinal,
           UploadFinal, Active
  <2> QED
    BY <2>1, <2>2
<1> QED
  BY <1>1, <1>2

\* A cross-validation is begun once, and so is a final run.
LEMMA BegunOnce ==
    ASSUME TypeOK, NEW l \in Launches, Progress(l), Begun(l)
    PROVE  /\ launch[l].step = "cv" =>
                  ~cvRuns[Job(l)].begun /\ cvRuns[Job(l)].folds = <<>>
           /\ launch[l].step \in FinalSteps \ {"final"} \/ ~Active(l) \/ ~finalRuns[Job(l)].begun
           /\ launch[l].step = "idle" =>
                  \A e \in Experiments : ~cvRuns[<<l, e>>].begun
<1>1. /\ launch[l].at \in 1 .. Len(ModelConfigs) /\ Len(ModelConfigs) \in Nat
      /\ launch[l] \in LaunchStates
  BY ConfigOfLaunch, ConfigsAreConfigs, TypeOKUnfolded
<1>2. launch[l].step = "cv" => ~cvRuns[Job(l)].begun /\ cvRuns[Job(l)].folds = <<>>
  BY <1>1 DEF Progress, AheadOf, CvAhead, Job, Config
<1>3. FinalAhead(l, launch[l].at) => ~finalRuns[Job(l)].begun
  BY <1>1 DEF Progress, AheadOf, Job, Config
<1>4. launch[l].step \in FinalSteps \ {"final"} \/ ~Active(l) \/ FinalAhead(l, launch[l].at)
  BY <1>1 DEF LaunchStates, FinalAhead, Active, CvSteps, FinalSteps
<1>5. ASSUME launch[l].step = "idle", NEW e \in Experiments
      PROVE  ~cvRuns[<<l, e>>].begun
  <2>1. PICK k \in 1 .. Len(ModelConfigs) : ModelConfigs[k].experiment = e
    BY DEF Experiments
  <2>2. CvAhead(l, k)
    BY <1>1, <1>5 DEF Begun, CvAhead
  <2> QED
    BY <2>1, <2>2 DEF Progress, AheadOf
<1> QED
  BY <1>2, <1>3, <1>4, <1>5

\* Steps that leave a launch at its experiment and short of the end.
LEMMA StayKeepsPlace ==
    ASSUME TypeOK, NEW l \in Launches, Step(l), Begun(l), BehindOf(l),
           launch'[l].at = launch[l].at, launch'[l].step \notin {"idle", "done"},
           launch'[l].step \in (CvSteps \ {"cv"}) \cup FinalSteps => cvRuns'[Job(l)].begun,
           finalRuns'[Job(l)].begun => cvRuns'[Job(l)].begun
    PROVE  Begun(l)' /\ BehindOf(l)'
<1>1. Job(l)' = Job(l)
  BY SameJob
<1>2. Begun(l)'
  BY <1>1 DEF Begun
<1>3. ASSUME NEW k \in 1 .. Len(ModelConfigs)
      PROVE  LET job == <<l, ModelConfigs[k].experiment>>
             IN  /\ finalRuns'[job].begun => cvRuns'[job].begun
                 /\ Behind(l, k)' /\ cvRuns'[job].begun =>
                        finalRuns'[job].begun /\ Len(cvRuns'[job].folds) = NSplits
  <2>1. CASE k = launch[l].at
    <3>1. Job(l) = <<l, ModelConfigs[k].experiment>> /\ launch[l].at \in Nat
      BY <2>1, ConfigOfLaunch DEF Job, Config
    <3>2. ~Behind(l, k)'
      BY <2>1, <3>1 DEF Behind
    <3> QED
      BY <3>1, <3>2
  <2>2. CASE k # launch[l].at
    <3>1. Behind(l, k)' => Behind(l, k)
      BY <2>2 DEF Behind
    <3> QED
      BY <2>2, <3>1, LaterAreLeftAlone DEF BehindOf
  <2> QED
    BY <2>1, <2>2
<1> QED
  BY <1>2, <1>3 DEF BehindOf

\* The end of an experiment that was skipped or is complete.
LEMMA AdvanceKeepsPlace ==
    ASSUME TypeOK, NEW l \in Launches, Step(l), BehindOf(l), Advance(l),
           finalRuns'[Job(l)].begun => cvRuns'[Job(l)].begun,
           cvRuns'[Job(l)].begun =>
               finalRuns'[Job(l)].begun /\ Len(cvRuns'[Job(l)].folds) = NSplits
    PROVE  Begun(l)' /\ BehindOf(l)'
<1>1. /\ launch[l].at \in 1 .. Len(ModelConfigs) /\ Len(ModelConfigs) \in Nat
      /\ launch \in [Launches -> LaunchStates]
  BY ConfigOfLaunch, ConfigsAreConfigs, TypeOKUnfolded
<1>2. launch'[l].step \in {"prepare", "done"}
  BY AdvanceTypes
<1>3. \/ launch'[l].step = "prepare" /\ launch'[l].at = launch[l].at + 1
      \/ /\ launch'[l].step = "done" /\ launch'[l].at = launch[l].at
         /\ launch[l].at = Len(ModelConfigs)
  <2>1. CASE launch[l].at < Len(ModelConfigs)
    <3>1. launch' = [launch EXCEPT ![l].step = "prepare", ![l].at = @ + 1, ![l].fold = 1]
      BY <2>1 DEF Advance
    <3> QED
      BY <1>1, <3>1 DEF LaunchStates
  <2>2. CASE ~(launch[l].at < Len(ModelConfigs))
    <3>1. Goto(l, "done")
      BY <2>2 DEF Advance
    <3>2. launch'[l].step = "done" /\ launch'[l].at = launch[l].at
      BY <3>1, GotoTypes
    <3>3. launch[l].at = Len(ModelConfigs)
      BY <1>1, <2>2
    <3> QED
      BY <3>2, <3>3
  <2> QED
    BY <2>1, <2>2
<1>4. Begun(l)'
  BY <1>2, <1>3 DEF Begun, CvSteps, FinalSteps
<1>5. ASSUME NEW k \in 1 .. Len(ModelConfigs)
      PROVE  LET job == <<l, ModelConfigs[k].experiment>>
             IN  /\ finalRuns'[job].begun => cvRuns'[job].begun
                 /\ Behind(l, k)' /\ cvRuns'[job].begun =>
                        finalRuns'[job].begun /\ Len(cvRuns'[job].folds) = NSplits
  <2>1. CASE k = launch[l].at
    BY <2>1 DEF Job, Config
  <2>2. CASE k # launch[l].at
    <3>1. Behind(l, k)' => Behind(l, k)
      BY <1>1, <1>3, <2>2 DEF Behind
    <3> QED
      BY <2>2, <3>1, LaterAreLeftAlone DEF BehindOf
  <2> QED
    BY <2>1, <2>2
<1> QED
  BY <1>4, <1>5 DEF BehindOf

LEMMA StepKeepsPlace ==
    ASSUME Inv, NEW l \in Launches, Step(l), Begun(l), BehindOf(l)
    PROVE  Begun(l)' /\ BehindOf(l)'
<1> USE DEF CvSteps, FinalSteps
<1>1. /\ TypeOK /\ Progress(l) /\ Job(l) \in Jobs
      /\ launch[l].at \in 1 .. Len(ModelConfigs)
      /\ cvRuns \in [Jobs -> CvStates] /\ cvRuns[Job(l)] \in CvStates
  BY ConfigOfLaunch, TypeOKUnfolded DEF Inv
<1>2. finalRuns[Job(l)].begun => cvRuns[Job(l)].begun
  BY <1>1 DEF BehindOf, Job, Config
<1>3. CASE \/ \E chosen \in Selections[l] : Start(l, chosen)
           \/ LoadData(l) \/ Break(l)
  <2>1. cvRuns' = cvRuns /\ finalRuns' = finalRuns
    BY <1>3 DEF Start, LoadData, Break
  <2>2. launch'[l].at = launch[l].at /\ launch'[l].step \in {"prepare", "cv", "broken"}
    <3>1. CASE \E chosen \in Selections[l] : Start(l, chosen)
      BY <1>1, <3>1, TypeOKUnfolded DEF Start, LaunchStates
    <3>2. CASE LoadData(l) \/ Break(l)
      <4>1. Goto(l, "cv") \/ Goto(l, "broken")
        BY <3>2 DEF LoadData, Break
      <4> QED
        BY <1>1, <4>1, GotoTypes
    <3> QED
      BY <1>3, <3>1, <3>2
  <2> QED
    BY <1>1, <1>2, <2>1, <2>2, StayKeepsPlace
<1>4. CASE StartCv(l)
  <2>1. /\ launch'[l].at = launch[l].at /\ launch'[l].step = "fold"
        /\ cvRuns'[Job(l)].begun
    BY <1>1, <1>4, GotoTypes DEF StartCv, CvStates
  <2> QED
    BY <1>1, <2>1, StayKeepsPlace
<1>5. CASE StartFold(l) \/ WriteFold(l) \/ UploadFold(l) \/ Aggregate(l)
  <2>1. launch'[l].at = launch[l].at
        /\ launch'[l].step \in {"fold", "write", "upload", "aggregate", "final"}
    <3>1. CASE StartFold(l) \/ WriteFold(l) \/ Aggregate(l)
      BY <1>1, <3>1, GotoTypes DEF StartFold, WriteFold, Aggregate
    <3>2. CASE UploadFold(l)
      <4>1. \/ launch' = [launch EXCEPT ![l].step = "fold", ![l].fold = launch[l].fold + 1]
            \/ Goto(l, "aggregate")
        BY <3>2 DEF UploadFold
      <4>2. launch \in [Launches -> LaunchStates] /\ launch[l] \in LaunchStates
        BY <1>1, TypeOKUnfolded
      <4>3. CASE launch' = [launch EXCEPT ![l].step = "fold", ![l].fold = launch[l].fold + 1]
        BY <4>2, <4>3 DEF LaunchStates
      <4>4. CASE Goto(l, "aggregate")
        BY <1>1, <4>4, GotoTypes
      <4> QED
        BY <4>1, <4>3, <4>4
    <3> QED
      BY <1>5, <3>1, <3>2
  <2>2. cvRuns[Job(l)].begun
    BY <1>5 DEF Begun, StartFold, WriteFold, UploadFold, Aggregate
  <2>3. cvRuns'[Job(l)].begun
    <3>1. ~StartCv(l)
      BY <1>5 DEF StartFold, WriteFold, UploadFold, Aggregate, StartCv
    <3> QED
      BY <1>1, <2>2, <3>1, EffectsOnRuns
  <2> QED
    BY <1>1, <2>1, <2>3, StayKeepsPlace
<1>6. CASE \/ StartFinal(l) \/ LogModel(l) \/ LogEncoder(l) \/ LogScaler(l) \/ WriteFinal(l)
  <2>1. launch'[l].at = launch[l].at
        /\ launch'[l].step \in {"model", "encoder", "scaler", "dump", "attach"}
    BY <1>1, <1>6, GotoTypes
       DEF StartFinal, LogModel, LogEncoder, LogScaler, LogArtefact, WriteFinal
  <2>2. cvRuns[Job(l)].begun /\ cvRuns' = cvRuns
    BY <1>6 DEF Begun, StartFinal, LogModel, LogEncoder, LogScaler, LogArtefact, WriteFinal
  <2> QED
    BY <1>1, <2>1, <2>2, StayKeepsPlace
<1>7. CASE Skip(l)
  <2>1. launch[l].step = "prepare" /\ Advance(l) /\ cvRuns' = cvRuns /\ finalRuns' = finalRuns
    BY <1>7 DEF Skip
  <2>2. ~cvRuns[Job(l)].begun
    BY <1>1, <2>1 DEF Progress, AheadOf, CvAhead, Job, Config
  <2> QED
    BY <1>1, <1>2, <2>1, <2>2, AdvanceKeepsPlace
<1>8. CASE UploadFinal(l)
  <2>1. /\ launch[l].step = "attach" /\ Advance(l) /\ cvRuns' = cvRuns
        /\ cvRuns[Job(l)].begun /\ finalRuns[Job(l)].begun
        /\ Len(cvRuns[Job(l)].folds) = NSplits
    BY <1>1, <1>8 DEF UploadFinal, Begun, Progress, FoldsOf, FinalOf
  <2>2. finalRuns'[Job(l)].begun
    <3>1. ~StartFinal(l)
      BY <2>1 DEF StartFinal
    <3> QED
      BY <1>1, <2>1, <3>1, EffectsOnRuns
  <2> QED
    BY <1>1, <2>1, <2>2, AdvanceKeepsPlace
<1> QED
  BY <1>3, <1>4, <1>5, <1>6, <1>7, <1>8 DEF Step

LEMMA StepKeepsPlaces ==
    ASSUME Inv, NEW l \in Launches, Step(l), Places
    PROVE  Places'
<1>1. Begun(l)' /\ BehindOf(l)'
  BY StepKeepsPlace DEF Places
<1>2. ASSUME NEW m \in Launches, m # l PROVE Begun(m)' /\ BehindOf(m)'
  <2>1. TypeOK /\ Job(l) = <<l, Config(l).experiment>>
    BY ConfigOfLaunch DEF Inv
  <2>2. /\ launch'[m] = launch[m]
        /\ \A e \in Experiments : /\ cvRuns'[<<m, e>>] = cvRuns[<<m, e>>]
                                  /\ finalRuns'[<<m, e>>] = finalRuns[<<m, e>>]
    BY <1>2, <2>1, OthersAreLeftAlone DEF Jobs
  <2>3. Job(m)' = Job(m) /\ Job(m) = <<m, Config(m).experiment>>
        /\ Config(m).experiment \in Experiments
    BY <2>1, <2>2, ConfigOfLaunch DEF Job, Config
  <2>4. Begun(m)'
    BY <2>2, <2>3 DEF Places, Begun
  <2>5. BehindOf(m)'
    BY <2>2, ConfigsAreConfigs DEF Places, BehindOf, Behind
  <2> QED
    BY <2>4, <2>5
<1> QED
  BY <1>1, <1>2 DEF Places

\* The order of the cross-validations, whoever overlaps.
LEMMA StepKeepsCvOrder ==
    ASSUME Inv, NEW l \in Launches, Step(l), Places, CvOrder
    PROVE  CvOrder'
<1> DEFINE e == Config(l).experiment
           S == StartedBefore(cvRuns, e)
<1>1. /\ TypeOK /\ Progress(l) /\ Begun(l) /\ Job(l) \in Jobs
      /\ e \in Experiments /\ Job(l) = <<l, e>>
      /\ cvRuns \in [Jobs -> CvStates]
  BY ConfigOfLaunch, TypeOKUnfolded DEF Inv, Places
<1>2. \A m \in Launches, f \in Experiments : <<m, f>> \in Jobs
  BY DEF Jobs
<1>3. CASE ~StartCv(l)
  BY <1>1, <1>2, <1>3, EffectsOnRuns DEF CvOrder
<1>4. CASE StartCv(l)
  <2>1. cvRuns' = [cvRuns EXCEPT ![<<l, e>>].begun = TRUE, ![<<l, e>>].after = S]
    BY <1>1, <1>4 DEF StartCv
  <2>2. ~cvRuns[<<l, e>>].begun
    BY <1>1, <1>4, BegunOnce DEF StartCv
  <2>3. /\ cvRuns'[<<l, e>>].begun /\ cvRuns'[<<l, e>>].after = S
        /\ \A j \in Jobs : j # <<l, e>> => cvRuns'[j] = cvRuns[j]
    BY <1>1, <2>1 DEF CvStates
  <2>4. l \notin S /\ \A m \in S : m \in Launches /\ cvRuns[<<m, e>>].begun
    BY <2>2 DEF StartedBefore
  <2> HIDE DEF S
  <2>5. ASSUME NEW m \in Launches, NEW n \in Launches, NEW f \in Experiments,
               m \in cvRuns'[<<n, f>>].after
        PROVE  /\ cvRuns'[<<n, f>>].begun /\ cvRuns'[<<m, f>>].begun
               /\ n \notin cvRuns'[<<m, f>>].after
    <3>1. CASE n = l /\ f = e
      <4>1. m \in S /\ m # l
        BY <2>3, <2>4, <2>5, <3>1
      <4>2. <<m, f>> \in Jobs /\ <<m, f>> # <<l, e>>
        BY <1>2, <4>1
      <4>3. l \notin cvRuns[<<m, e>>].after
        BY <1>1, <2>2 DEF CvOrder
      <4> QED
        BY <2>3, <2>4, <3>1, <4>1, <4>2, <4>3
    <3>2. CASE ~(n = l /\ f = e)
      <4>1. <<n, f>> \in Jobs /\ <<n, f>> # <<l, e>> /\ <<m, f>> \in Jobs
        BY <1>2, <3>2
      <4>2. m \in cvRuns[<<n, f>>].after /\ cvRuns'[<<n, f>>] = cvRuns[<<n, f>>]
        BY <2>3, <2>5, <4>1
      <4>3. /\ cvRuns[<<n, f>>].begun /\ cvRuns[<<m, f>>].begun
            /\ n \notin cvRuns[<<m, f>>].after
        BY <4>2 DEF CvOrder
      <4>4. ~(m = l /\ f = e)
        BY <2>2, <4>3
      <4>5. cvRuns'[<<m, f>>] = cvRuns[<<m, f>>]
        BY <2>3, <4>1, <4>4
      <4> QED
        BY <4>2, <4>3, <4>5
    <3> QED
      BY <3>1, <3>2
  <2> QED
    BY <2>5 DEF CvOrder
<1> QED
  BY <1>3, <1>4

\* As long as launches do not overlap, there is one at most.
LEMMA StepKeepsOneActive ==
    ASSUME Inv, NEW l \in Launches, Step(l), ~overlapped', OneActive
    PROVE  /\ OneActive'
           /\ \A m \in Launches : m # l => ~Active(m) /\ ~Active(m)'
<1>1. TypeOK /\ \A m \in Launches : m # l => launch'[m] = launch[m]
  BY OthersAreLeftAlone DEF Inv
<1>2. \A m \in Launches : m # l => (Active(m)' <=> Active(m))
  BY <1>1 DEF Active
<1>3. \A m \in Launches : m # l => ~Active(m)
  BY <1>1, OnlyTheActiveStep DEF OneActive
<1> QED
  BY <1>2, <1>3 DEF OneActive

\* The one under way has begun last, and its final run is in the same order.
LEMMA StepKeepsOrders ==
    ASSUME Inv, NEW l \in Launches, Step(l), ~overlapped', Places, CvOrder, OneActive,
           ActiveIsLast, FinalOrder
    PROVE  ActiveIsLast' /\ FinalOrder'
<1> DEFINE e == Config(l).experiment
<1>1. /\ TypeOK /\ Progress(l) /\ Begun(l) /\ Job(l) \in Jobs
      /\ e \in Experiments /\ Job(l) = <<l, e>>
      /\ cvRuns \in [Jobs -> CvStates] /\ finalRuns \in [Jobs -> FinalStates]
  BY ConfigOfLaunch, TypeOKUnfolded DEF Inv, Places
<1>2. \A m \in Launches, f \in Experiments : <<m, f>> \in Jobs
  BY DEF Jobs
<1>3. \A m \in Launches : m # l => ~Active(m) /\ ~Active(m)'
  BY StepKeepsOneActive
<1>4. ASSUME NEW m \in Launches, NEW f \in Experiments, m # l,
             Active(l)', cvRuns'[<<l, f>>].begun, cvRuns'[<<m, f>>].begun
      PROVE  m \in cvRuns'[<<l, f>>].after
  <2>1. <<m, f>> \in Jobs /\ <<m, f>> # <<l, e>> /\ <<l, f>> \in Jobs
    BY <1>2, <1>4
  <2>2. cvRuns[<<m, f>>].begun
    BY <1>1, <1>4, <2>1, OthersAreLeftAlone
  <2>3. CASE StartCv(l) /\ f = e
    <3>1. cvRuns'[<<l, e>>].after = StartedBefore(cvRuns, e)
      BY <1>1, <2>3 DEF StartCv, CvStates
    <3> QED
      BY <2>2, <2>3, <3>1 DEF StartedBefore
  <2>4. CASE ~(StartCv(l) /\ f = e)
    <3>1. cvRuns'[<<l, f>>].begun = cvRuns[<<l, f>>].begun
          /\ cvRuns'[<<l, f>>].after = cvRuns[<<l, f>>].after
      <4>1. CASE ~StartCv(l)
        BY <1>1, <2>1, <4>1, EffectsOnRuns
      <4>2. CASE f # e
        <5>1. <<l, f>> # Job(l)
          BY <1>1, <4>2
        <5> QED
          BY <1>1, <2>1, <5>1, OthersAreLeftAlone
      <4> QED
        BY <2>4, <4>1, <4>2
    <3>2. launch[l].step # "idle"
      BY <1>1, <1>4, <3>1, BegunOnce
    <3>3. Active(l)
      BY <1>1, <3>2, OnlyTheActiveStep
    <3> QED
      BY <1>4, <2>2, <3>1, <3>3 DEF ActiveIsLast
  <2> QED
    BY <2>3, <2>4
<1>5. ActiveIsLast'
  BY <1>3, <1>4 DEF ActiveIsLast
<1>6. CASE ~StartFinal(l)
  <2>1. \A j \in Jobs : finalRuns'[j].after = finalRuns[j].after
    BY <1>1, <1>6, EffectsOnRuns
  <2>2. ASSUME NEW m \in Launches, NEW f \in Experiments,
               NEW x \in finalRuns[<<m, f>>].after
        PROVE  x \in cvRuns'[<<m, f>>].after
    <3>1. x \in cvRuns[<<m, f>>].after /\ <<m, f>> \in Jobs
      BY <1>2, <2>2 DEF FinalOrder
    <3>2. CASE StartCv(l) /\ <<m, f>> = <<l, e>>
      <4>1. x \in Launches
        BY <1>1, <3>1 DEF CvStates
      <4>2. cvRuns[<<m, f>>].begun
        BY <3>1, <4>1 DEF CvOrder
      <4>3. ~cvRuns[<<l, e>>].begun
        BY <1>1, <3>2, BegunOnce DEF StartCv
      <4> QED
        BY <3>2, <4>2, <4>3
    <3>3. CASE ~(StartCv(l) /\ <<m, f>> = <<l, e>>)
      BY <1>1, <3>1, <3>3, EffectsOnRuns, OthersAreLeftAlone
    <3> QED
      BY <3>2, <3>3
  <2>3. \A m \in Launches, f \in Experiments :
            finalRuns'[<<m, f>>].after \subseteq cvRuns'[<<m, f>>].after
    BY <1>2, <2>1, <2>2
  <2>4. FinalOrder'
    BY <2>3, Zenon DEF FinalOrder
  <2> QED
    BY <1>5, <2>4
<1>7. CASE StartFinal(l)
  <2>1. /\ finalRuns'[<<l, e>>].after = StartedBefore(finalRuns, e)
        /\ \A j \in Jobs : j # <<l, e>> => finalRuns'[j] = finalRuns[j]
        /\ cvRuns' = cvRuns /\ launch[l].step = "final"
    BY <1>1, <1>7 DEF StartFinal, FinalStates
  <2>2. ~finalRuns[<<l, e>>].begun /\ cvRuns[<<l, e>>].begun /\ Active(l)
    BY <1>1, <2>1, BegunOnce DEF Begun, Active, FinalSteps
  <2>3. ASSUME NEW x \in StartedBefore(finalRuns, e)
        PROVE  x \in cvRuns[<<l, e>>].after
    <3>1. x \in Launches /\ finalRuns[<<x, e>>].begun /\ x # l
      BY <2>2, <2>3 DEF StartedBefore
    <3>2. PICK k \in 1 .. Len(ModelConfigs) : ModelConfigs[k].experiment = e
      BY <1>1 DEF Experiments
    <3>3. cvRuns[<<x, e>>].begun
      BY <3>1, <3>2 DEF Places, BehindOf
    <3> QED
      BY <1>1, <2>2, <3>1, <3>3 DEF ActiveIsLast
  <2>4. ASSUME NEW m \in Launches, NEW f \in Experiments
        PROVE  finalRuns'[<<m, f>>].after \subseteq cvRuns'[<<m, f>>].after
    <3>1. CASE <<m, f>> = <<l, e>>
      BY <2>1, <2>3, <3>1
    <3>2. CASE <<m, f>> # <<l, e>>
      BY <1>2, <2>1, <3>2 DEF FinalOrder
    <3> QED
      BY <3>1, <3>2
  <2>5. FinalOrder'
    BY <2>4, Zenon DEF FinalOrder
  <2> QED
    BY <1>5, <2>5
<1> QED
  BY <1>5, <1>6, <1>7

\* A file is about to be read only when it has just been written.
LEMMA ReadAfterWrite ==
    ASSUME TypeOK, NEW l \in Launches, Step(l)
    PROVE  /\ launch'[l].step = "upload" => WriteFold(l)
           /\ launch'[l].step = "attach" => WriteFinal(l)
<1> USE DEF CvSteps, FinalSteps
<1>1. CASE \E chosen \in Selections[l] : Start(l, chosen)
  BY <1>1, TypeOKUnfolded DEF Start, LaunchStates
<1>2. CASE Skip(l) \/ UploadFinal(l)
  BY <1>2, AdvanceTypes DEF Skip, UploadFinal
<1>3. CASE LoadData(l) \/ Break(l)
  <2>1. Goto(l, "cv") \/ Goto(l, "broken")
    BY <1>3 DEF LoadData, Break
  <2>2. launch'[l].step \in {"cv", "broken"}
    BY <2>1, GotoTypes
  <2> QED
    BY <2>2
<1>4. CASE StartCv(l) \/ StartFold(l) \/ Aggregate(l) \/ StartFinal(l)
  <2>1. Goto(l, "fold") \/ Goto(l, "write") \/ Goto(l, "final") \/ Goto(l, "model")
    BY <1>4 DEF StartCv, StartFold, Aggregate, StartFinal
  <2>2. launch'[l].step \in {"fold", "write", "final", "model"}
    BY <2>1, GotoTypes
  <2> QED
    BY <2>2
<1>5. CASE UploadFold(l)
  <2>1. launch \in [Launches -> LaunchStates] /\ launch[l] \in LaunchStates
    BY TypeOKUnfolded
  <2>2. \/ launch' = [launch EXCEPT ![l].step = "fold", ![l].fold = launch[l].fold + 1]
        \/ Goto(l, "aggregate")
    BY <1>5 DEF UploadFold
  <2>3. CASE launch' = [launch EXCEPT ![l].step = "fold", ![l].fold = launch[l].fold + 1]
    BY <2>1, <2>3 DEF LaunchStates
  <2>4. CASE Goto(l, "aggregate")
    <3>1. launch'[l].step = "aggregate"
      BY <2>4, GotoTypes
    <3> QED
      BY <3>1
  <2> QED
    BY <2>2, <2>3, <2>4
<1>6. CASE LogModel(l) \/ LogEncoder(l) \/ LogScaler(l)
  <2>1. Goto(l, "encoder") \/ Goto(l, "scaler") \/ Goto(l, "dump")
    BY <1>6 DEF LogModel, LogEncoder, LogScaler, LogArtefact
  <2>2. launch'[l].step \in {"encoder", "scaler", "dump"}
    BY <2>1, GotoTypes
  <2> QED
    BY <2>2
<1>7. CASE WriteFold(l)
  <2>1. Goto(l, "upload")
    BY <1>7 DEF WriteFold
  <2>2. launch'[l].step = "upload"
    BY <2>1, GotoTypes
  <2> QED
    BY <1>7, <2>2
<1>8. CASE WriteFinal(l)
  <2>1. Goto(l, "attach")
    BY <1>8 DEF WriteFinal
  <2>2. launch'[l].step = "attach"
    BY <2>1, GotoTypes
  <2> QED
    BY <1>8, <2>2
<1> QED
  BY <1>1, <1>2, <1>3, <1>4, <1>5, <1>6, <1>7, <1>8 DEF Step

LEMMA StepKeepsFiles ==
    ASSUME Inv, NEW l \in Launches, Step(l), ~overlapped', OneActive
    PROVE  \A m \in Launches : OwnFile(m)'
<1>1. TypeOK /\ tmp \in [1 .. FinalFit -> Predictions \cup {Lost}]
      /\ FinalFit \in 1 .. FinalFit
  BY TypeOKUnfolded, SplitAssumption DEF Inv, FinalFit
<1>2. ASSUME NEW m \in Launches, m # l PROVE OwnFile(m)'
  <2>1. ~Active(m)'
    BY <1>2, StepKeepsOneActive
  <2> QED
    BY <2>1 DEF OwnFile, Active
<1>3. OwnFile(l)'
  <2>1. CASE launch'[l].step = "upload"
    <3>1. /\ tmp' = [tmp EXCEPT ![launch[l].fold] = Prediction(Job(l), launch[l].fold)]
          /\ Goto(l, "upload")
      BY <1>1, <2>1, ReadAfterWrite DEF WriteFold
    <3>2. launch'[l].fold = launch[l].fold /\ launch'[l].at = launch[l].at
      BY <1>1, <3>1, GotoTypes DEF CvSteps
    <3>3. launch[l].fold \in 1 .. FinalFit
      <4>1. launch[l].fold \in 1 .. NSplits
        BY <1>1, TypeOKUnfolded DEF LaunchStates
      <4> QED
        BY <4>1, SplitAssumption DEF FinalFit
    <3>4. tmp'[launch[l].fold] = Prediction(Job(l), launch[l].fold)
      BY <1>1, <3>1, <3>3
    <3>5. Job(l)' = Job(l)
      BY <1>1, <3>2, SameJob
    <3> QED
      BY <2>1, <3>2, <3>4, <3>5 DEF OwnFile, Prediction
  <2>2. CASE launch'[l].step = "attach"
    <3>1. tmp' = [tmp EXCEPT ![FinalFit] = Prediction(Job(l), FinalFit)] /\ Goto(l, "attach")
      BY <1>1, <2>2, ReadAfterWrite DEF WriteFinal
    <3>2. tmp'[FinalFit] = Prediction(Job(l), FinalFit)
      BY <1>1, <3>1
    <3>3. Job(l)' = Job(l)
      BY <1>1, <3>1, GotoTypes, SameJob DEF FinalSteps
    <3> QED
      BY <2>2, <3>2, <3>3 DEF OwnFile, Prediction
  <2>3. CASE launch'[l].step \notin {"upload", "attach"}
    BY <2>3 DEF OwnFile
  <2> QED
    BY <2>1, <2>2, <2>3
<1> QED
  BY <1>2, <1>3

LEMMA StepKeepsFolds ==
    ASSUME Inv, NEW l \in Launches, Step(l), OwnFile(l), NEW job \in Jobs, OwnFolds(job)
    PROVE  OwnFolds(job)'
<1>1. /\ TypeOK /\ Job(l) \in Jobs /\ cvRuns \in [Jobs -> CvStates]
      /\ cvRuns[job].folds \in FoldRuns /\ FoldsOf(l)
  BY ConfigOfLaunch, TypeOKUnfolded DEF Inv, Progress, CvStates
<1>2. CASE job # Job(l) \/ ~(StartFold(l) \/ UploadFold(l))
  <2>1. cvRuns'[job].folds = cvRuns[job].folds
    BY <1>1, <1>2, OthersAreLeftAlone, EffectsOnRuns
  <2> QED
    BY <2>1 DEF OwnFolds, Prediction
<1>3. CASE job = Job(l) /\ StartFold(l)
  <2>1. cvRuns'[job].folds = Append(cvRuns[job].folds, Lost)
    BY <1>1, <1>3 DEF StartFold, CvStates
  <2> DEFINE folds == cvRuns[job].folds
  <2>2. /\ Len(folds) \in Nat /\ Len(Append(folds, Lost)) = Len(folds) + 1
        /\ Append(folds, Lost)[Len(folds) + 1] = Lost
        /\ \A i \in 1 .. Len(folds) : Append(folds, Lost)[i] = folds[i]
    BY <1>1 DEF FoldRuns, Lost
  <2>3. \A i \in 1 .. Len(Append(folds, Lost)) :
            Append(folds, Lost)[i] \in {Lost, Prediction(job, i)}
    BY <2>2 DEF OwnFolds
  <2> QED
    BY <2>1, <2>3 DEF OwnFolds, Prediction
<1>4. CASE job = Job(l) /\ UploadFold(l)
  <2> DEFINE folds == cvRuns[job].folds
             i == launch[l].fold
  <2>1. cvRuns' = [cvRuns EXCEPT ![job].folds[i] = tmp[i]] /\ launch[l].step = "upload"
    BY <1>4 DEF UploadFold
  <2>2. cvRuns'[job].folds = [folds EXCEPT ![i] = tmp[i]]
    BY <1>1, <2>1 DEF CvStates
  <2>3. tmp[i] = Prediction(job, i)
    BY <1>4, <2>1 DEF OwnFile
  <2>4. Len([folds EXCEPT ![i] = tmp[i]]) = Len(folds) /\ DOMAIN folds = 1 .. Len(folds)
    BY <1>1 DEF FoldRuns
  <2> HIDE DEF i
  <2>5. \A k \in 1 .. Len(folds) : [folds EXCEPT ![i] = tmp[i]][k] \in {Lost, Prediction(job, k)}
    <3> SUFFICES ASSUME NEW k \in 1 .. Len(folds)
                 PROVE  [folds EXCEPT ![i] = tmp[i]][k] \in {Lost, Prediction(job, k)}
      OBVIOUS
    <3>1. CASE k = i
      BY <2>3, <2>4, <3>1
    <3>2. CASE k # i
      BY <2>4, <3>2 DEF OwnFolds
    <3> QED
      BY <3>1, <3>2
  <2> QED
    BY <2>2, <2>4, <2>5 DEF OwnFolds, Prediction
<1> QED
  BY <1>2, <1>3, <1>4

LEMMA StepKeepsPredictions ==
    ASSUME Inv, NEW l \in Launches, Step(l), OwnFile(l), NEW job \in Jobs,
           OwnPredictions(job)
    PROVE  OwnPredictions(job)'
<1>1. /\ TypeOK /\ Job(l) \in Jobs /\ finalRuns \in [Jobs -> FinalStates]
  BY ConfigOfLaunch, TypeOKUnfolded DEF Inv
<1>2. CASE UploadFinal(l) /\ job = Job(l)
  <2>1. finalRuns'[job].predictions = tmp[FinalFit]
    BY <1>1, <1>2 DEF UploadFinal, FinalStates
  <2>2. tmp[FinalFit] = Prediction(job, FinalFit)
    BY <1>2 DEF UploadFinal, OwnFile
  <2> QED
    BY <2>1, <2>2 DEF OwnPredictions, Prediction
<1>3. CASE ~(UploadFinal(l) /\ job = Job(l))
  <2>1. finalRuns'[job].predictions = finalRuns[job].predictions
    BY <1>1, <1>3, OthersAreLeftAlone, EffectsOnRuns
  <2>2. "predictions" \in finalRuns'[job].has => "predictions" \in finalRuns[job].has
    <3>1. CASE job # Job(l)
      BY <1>1, <3>1, OthersAreLeftAlone
    <3>2. CASE LogModel(l) \/ LogEncoder(l) \/ LogScaler(l)
      <4>1. PICK part \in {"model", "encoder", "scaler"}, next \in {"encoder", "scaler", "dump"} :
                LogArtefact(l, part, next)
        BY <3>2 DEF LogModel, LogEncoder, LogScaler
      <4> QED
        BY <1>1, <4>1 DEF LogArtefact, FinalStates
    <3>3. CASE StartFinal(l)
      BY <1>1, <3>3 DEF StartFinal, FinalStates
    <3>4. CASE ~(\/ LogModel(l) \/ LogEncoder(l) \/ LogScaler(l) \/ StartFinal(l)
                 \/ UploadFinal(l))
      BY <3>4 DEF Step, Start, Skip, LoadData, Break, StartCv, StartFold, WriteFold,
                  UploadFold, Aggregate, WriteFinal
    <3> QED
      BY <1>3, <3>1, <3>2, <3>3, <3>4
  <2> QED
    BY <2>1, <2>2 DEF OwnPredictions, Prediction
<1> QED
  BY <1>2, <1>3

\* What a launch does while no other is under way.
LEMMA StepKeepsOwn ==
    ASSUME Inv, NEW l \in Launches, Step(l), OwnInv
    PROVE  OwnInv'
<1>1. TypeOK /\ Places /\ CvOrder
  BY DEF Inv, OwnInv
<1>2. Places' /\ CvOrder'
  BY <1>1, StepKeepsPlaces, StepKeepsCvOrder
<1>3. ASSUME ~overlapped' PROVE OneByOne'
  <2>1. ~overlapped
    BY <1>1, <1>3, OnlyTheActiveStep
  <2>2. OneByOne
    BY <2>1 DEF OwnInv
  <2>3. OneActive'
    BY <1>3, <2>2, StepKeepsOneActive DEF OneByOne
  <2>4. ActiveIsLast' /\ FinalOrder'
    BY <1>1, <1>3, <2>2, StepKeepsOrders DEF OneByOne
  <2>5. \A m \in Launches : OwnFile(m)'
    BY <1>3, <2>2, StepKeepsFiles DEF OneByOne
  <2>6. \A job \in Jobs : OwnFolds(job)' /\ OwnPredictions(job)'
    BY <2>2, StepKeepsFolds, StepKeepsPredictions DEF OneByOne
  <2> QED
    BY <2>3, <2>4, <2>5, <2>6 DEF OneByOne
<1>4. ~notebook'.calm
  BY <1>1, OnlyTheActiveStep DEF OwnInv, CalmNotebook
<1>5. ASSUME NEW job \in Jobs PROVE CalmRun(job)'
  <2>1. launch[l].step # "done"
    BY <1>1, OnlyTheActiveStep DEF Active
  <2>2. CASE job[1] = l
    <3>1. ~finalRuns[job].calm
      BY <2>1, <2>2 DEF OwnInv, CalmRun
    <3> QED
      BY <1>1, <3>1, EffectsOnRuns DEF CalmRun
  <2>3. CASE job[1] # l
    <3>1. job[1] \in Launches /\ job # Job(l)
      BY <1>1, <2>3, ConfigOfLaunch DEF Jobs
    <3>2. launch'[job[1]] = launch[job[1]] /\ finalRuns'[job] = finalRuns[job]
      BY <1>1, <2>3, <3>1, OthersAreLeftAlone
    <3> QED
      BY <3>2 DEF OwnInv, CalmRun, OwnCut, Prediction
  <2> QED
    BY <2>2, <2>3
<1> QED
  BY <1>2, <1>3, <1>4, <1>5 DEF OwnInv, CalmNotebook

\* The latest cross-validation to begin is that of the latest final run, once it is done.
LEMMA LatestIsLatest ==
    ASSUME Inv, Places, CvOrder, FinalOrder, NEW e \in Experiments,
           NEW l \in Latest(cvRuns, e), launch[l].step = "done",
           NEW f \in Latest(finalRuns, e)
    PROVE  f = l
<1>1. /\ l \in Launches /\ cvRuns[<<l, e>>].begun
      /\ StartedBefore(cvRuns, e) = cvRuns[<<l, e>>].after \cup {l}
      /\ f \in Launches /\ finalRuns[<<f, e>>].begun
      /\ StartedBefore(finalRuns, e) = finalRuns[<<f, e>>].after \cup {f}
  BY DEF Latest, StartedBefore
<1>2. PICK k \in 1 .. Len(ModelConfigs) : ModelConfigs[k].experiment = e
  BY DEF Experiments
<1>3. Behind(l, k)
  BY <1>1, ConfigsAreConfigs DEF Places, Begun, Behind
<1>4. finalRuns[<<l, e>>].begun /\ cvRuns[<<f, e>>].begun
  BY <1>1, <1>2, <1>3 DEF Places, BehindOf
<1>5. SUFFICES ASSUME f # l PROVE FALSE
  OBVIOUS
<1>6. l \in finalRuns[<<f, e>>].after
  BY <1>1, <1>4, <1>5 DEF StartedBefore
<1>7. l \in cvRuns[<<f, e>>].after
  BY <1>1, <1>6 DEF FinalOrder
<1>8. f \notin cvRuns[<<l, e>>].after
  BY <1>1, <1>7 DEF CvOrder
<1> QED
  BY <1>1, <1>4, <1>5, <1>8 DEF StartedBefore

\* The predictions of a launch that is done are those of all its folds.
LEMMA PoolOfTheDone ==
    ASSUME Inv, Places, NEW e \in Experiments, NEW l \in Latest(cvRuns, e),
           launch[l].step = "done", OwnFolds(<<l, e>>),
           Lost \notin Range(cvRuns[<<l, e>>].folds)
    PROVE  Range(cvRuns[<<l, e>>].folds) = OwnCut(<<l, e>>)
<1> DEFINE job == <<l, e>>
           folds == cvRuns[job].folds
<1>1. l \in Launches /\ cvRuns[job].begun /\ job \in Jobs
  BY DEF Latest, StartedBefore, Jobs
<1>2. PICK k \in 1 .. Len(ModelConfigs) : ModelConfigs[k].experiment = e
  BY DEF Experiments
<1>3. Behind(l, k)
  BY <1>1, ConfigsAreConfigs DEF Places, Begun, Behind
<1>4. Len(folds) = NSplits
  BY <1>1, <1>2, <1>3 DEF Places, BehindOf
<1>5. folds \in FoldRuns
  BY <1>1, TypeOKUnfolded DEF Inv, CvStates
<1>6. DOMAIN folds = 1 .. NSplits
  BY <1>4, <1>5 DEF FoldRuns
<1>7. \A i \in 1 .. NSplits : folds[i] = Prediction(job, i)
  <2>1. \A i \in 1 .. NSplits : folds[i] \in {Lost, Prediction(job, i)}
    BY <1>4 DEF OwnFolds
  <2>2. \A i \in 1 .. NSplits : folds[i] \in Range(folds)
    BY <1>6 DEF Range
  <2> QED
    BY <2>1, <2>2
<1>8. Range(folds) = {folds[i] : i \in 1 .. NSplits}
  BY <1>6 DEF Range
<1> HIDE DEF folds
<1> QED
  BY <1>7, <1>8 DEF OwnCut, folds

\* The notebook leaves the launches and their files alone, and of the runs changes
\* only what it logs.
LEMMA NotebookLeavesRuns ==
    ASSUME Inv, \/ \E e \in Experiments : FindCv(e)
                \/ PoolFolds \/ FindFinal \/ LogThreshold \/ Leave
    PROVE  /\ UNCHANGED <<launch, cvRuns, tmp, overlapped>>
           /\ \A j \in Jobs : /\ finalRuns'[j].begun = finalRuns[j].begun
                              /\ finalRuns'[j].after = finalRuns[j].after
                              /\ finalRuns'[j].has = finalRuns[j].has
                              /\ finalRuns'[j].predictions = finalRuns[j].predictions
<1>1. UNCHANGED <<launch, cvRuns, tmp, overlapped>>
  BY DEF FindCv, PoolFolds, FindFinal, LogThreshold, Leave, Stay
<1>2. CASE ~LogThreshold
  BY <1>1, <1>2 DEF FindCv, PoolFolds, FindFinal, Leave, Stay
<1>3. CASE LogThreshold
  <2>1. PICK l \in notebook.final :
            LET job == <<l, notebook.experiment>>
            IN  finalRuns' = IF finalRuns[job].cut = {}
                             THEN [finalRuns EXCEPT ![job] =
                                      [@ EXCEPT !.cut = notebook.pool, !.calm = notebook.calm]]
                             ELSE finalRuns
    BY <1>3 DEF LogThreshold
  <2> DEFINE job == <<l, notebook.experiment>>
             run == [finalRuns[job] EXCEPT !.cut = notebook.pool, !.calm = notebook.calm]
  <2>2. job \in Jobs /\ finalRuns \in [Jobs -> FinalStates]
    BY TypeOKUnfolded DEF Inv, NotebookStates, Jobs
  <2>3. run.begun = finalRuns[job].begun /\ run.after = finalRuns[job].after
        /\ run.has = finalRuns[job].has /\ run.predictions = finalRuns[job].predictions
    BY <2>2 DEF FinalStates
  <2>4. finalRuns' = finalRuns \/ finalRuns' = [finalRuns EXCEPT ![job] = run]
    BY <2>1
  <2> HIDE DEF job, run
  <2> QED
    BY <1>1, <2>2, <2>3, <2>4
<1> QED
  BY <1>2, <1>3

LEMMA NotebookKeepsOneByOne ==
    ASSUME Inv, OwnInv, \/ \E e \in Experiments : FindCv(e)
                        \/ PoolFolds \/ FindFinal \/ LogThreshold \/ Leave
    PROVE  Places' /\ CvOrder' /\ (~overlapped' => OneByOne')
<1>1. /\ launch' = launch /\ cvRuns' = cvRuns /\ tmp' = tmp /\ overlapped' = overlapped
      /\ \A j \in Jobs : /\ finalRuns'[j].begun = finalRuns[j].begun
                         /\ finalRuns'[j].after = finalRuns[j].after
                         /\ finalRuns'[j].has = finalRuns[j].has
                         /\ finalRuns'[j].predictions = finalRuns[j].predictions
  BY NotebookLeavesRuns
<1>2. \A m \in Launches, e \in Experiments : <<m, e>> \in Jobs
  BY DEF Jobs
<1>3. \A k \in 1 .. Len(ModelConfigs) : ModelConfigs[k].experiment \in Experiments
  BY ConfigsAreConfigs
<1>4. \A l \in Launches : Begun(l)' /\ BehindOf(l)'
  <2> SUFFICES ASSUME NEW l \in Launches PROVE Begun(l)' /\ BehindOf(l)'
    OBVIOUS
  <2>1. Job(l)' = Job(l)
    BY <1>1 DEF Job, Config
  <2>2. Begun(l)'
    BY <1>1, <2>1 DEF OwnInv, Places, Begun
  <2>3. BehindOf(l)'
    BY <1>1, <1>2, <1>3 DEF OwnInv, Places, BehindOf, Behind
  <2> QED
    BY <2>2, <2>3
<1>5. CvOrder'
  BY <1>1 DEF OwnInv, CvOrder
<1>6. ASSUME ~overlapped' PROVE OneByOne'
  <2>1. OneByOne
    BY <1>1, <1>6 DEF OwnInv
  <2>2. OneActive' /\ ActiveIsLast'
    BY <1>1, <2>1 DEF OneByOne, OneActive, ActiveIsLast, Active
  <2>3. \A m \in Launches, e \in Experiments :
            finalRuns'[<<m, e>>].after \subseteq cvRuns'[<<m, e>>].after
    BY <1>1, <1>2, <2>1 DEF OneByOne, FinalOrder
  <2>4. FinalOrder'
    BY <2>3, Zenon DEF FinalOrder
  <2>5. ASSUME NEW l \in Launches PROVE OwnFile(l)'
    <3>1. Job(l)' = Job(l)
      BY <1>1 DEF Job, Config
    <3> QED
      BY <1>1, <2>1, <3>1 DEF OneByOne, OwnFile, Prediction
  <2>6. ASSUME NEW job \in Jobs PROVE OwnFolds(job)' /\ OwnPredictions(job)'
    BY <1>1, <2>1 DEF OneByOne, OwnFolds, OwnPredictions, Prediction
  <2> QED
    BY <2>2, <2>4, <2>5, <2>6 DEF OneByOne
<1> QED
  BY <1>4, <1>5, <1>6 DEF Places

\* What the notebook finds in peace is of one launch.
LEMMA NotebookKeepsCalm ==
    ASSUME Inv, OwnInv, \/ \E e \in Experiments : FindCv(e)
                        \/ PoolFolds \/ FindFinal \/ LogThreshold \/ Leave
    PROVE  CalmNotebook'
<1>1. /\ UNCHANGED <<launch, cvRuns, tmp, overlapped>> /\ notebook \in NotebookStates
      /\ \A l \in Launches : Active(l)' <=> Active(l)
      /\ \A e : Latest(cvRuns', e) = Latest(cvRuns, e)
  BY NotebookLeavesRuns, TypeOKUnfolded DEF Inv, Active
<1>2. Places /\ CvOrder /\ (~overlapped => OneByOne) /\ CalmNotebook /\ NotebookInv
  BY DEF OwnInv, Inv
<1>3. CASE LogThreshold \/ Leave
  <2>1. notebook' = Closed
    BY <1>3 DEF LogThreshold, Leave
  <2>2. Closed.calm = FALSE
    BY DEF Closed
  <2>3. ~notebook'.calm
    BY <2>1, <2>2
  <2> QED
    BY <2>3 DEF CalmNotebook
<1>4. CASE \E e \in Experiments : FindCv(e)
  <2>1. PICK e \in Experiments : FindCv(e)
    BY <1>4
  <2>2. /\ notebook'.step = "folds" /\ notebook'.experiment = e
        /\ notebook'.cv = Latest(cvRuns, e)
        /\ notebook'.calm = /\ ~overlapped
                            /\ \A l \in Launches : ~Active(l)
                            /\ \A l \in Latest(cvRuns, e) : launch[l].step = "done"
    BY <2>1 DEF FindCv, Closed
  <2> QED
    BY <1>1, <2>2 DEF CalmNotebook
<1>5. CASE PoolFolds
  <2> DEFINE e == notebook.experiment
  <2>1. PICK l \in notebook.cv :
            /\ Lost \notin Range(cvRuns[<<l, e>>].folds)
            /\ notebook' = [notebook EXCEPT !.step = "final",
                                            !.pool = Range(cvRuns[<<l, e>>].folds)]
    BY <1>5 DEF PoolFolds
  <2>2. /\ notebook.step = "folds" /\ notebook'.step = "final"
        /\ notebook'.experiment = e /\ notebook'.calm = notebook.calm
        /\ notebook'.pool = Range(cvRuns[<<l, e>>].folds)
    BY <1>1, <1>5, <2>1 DEF PoolFolds, NotebookStates
  <2>3. ASSUME notebook.calm
        PROVE  l \in Latest(cvRuns, e) /\ notebook'.pool = OwnCut(<<l, e>>)
    <3>1. /\ l \in Latest(cvRuns, e) /\ launch[l].step = "done" /\ OneByOne
      BY <1>2, <2>2, <2>3 DEF CalmNotebook
    <3>2. e \in Experiments /\ l \in Launches /\ <<l, e>> \in Jobs
      BY <1>1, <3>1 DEF NotebookStates, Latest, StartedBefore, Jobs
    <3> QED
      BY <1>2, <2>1, <2>2, <3>1, <3>2, PoolOfTheDone DEF OneByOne
  <2>4. \A j : OwnCut(j)' = OwnCut(j)
    BY DEF OwnCut, Prediction
  <2> QED
    BY <1>1, <1>2, <2>2, <2>3, <2>4 DEF CalmNotebook
<1>6. CASE FindFinal
  <2> DEFINE e == notebook.experiment
  <2>1. PICK f \in Latest(finalRuns, e) :
            notebook' = [notebook EXCEPT !.step = "tuned", !.final = {f}]
    BY <1>6 DEF FindFinal
  <2>2. /\ notebook.step = "final" /\ notebook'.step = "tuned"
        /\ notebook'.experiment = e /\ notebook'.calm = notebook.calm
        /\ notebook'.pool = notebook.pool /\ notebook'.final = {f}
    BY <1>1, <1>6, <2>1 DEF FindFinal, NotebookStates
  <2>3. ASSUME notebook.calm
        PROVE  launch[f].step = "done" /\ notebook.pool = OwnCut(<<f, e>>)
    <3>1. PICK l \in Latest(cvRuns, e) : notebook.pool = OwnCut(<<l, e>>)
      BY <1>2, <2>2, <2>3 DEF CalmNotebook
    <3>2. launch[l].step = "done" /\ OneByOne
      BY <1>2, <2>3, <3>1 DEF CalmNotebook
    <3>3. e \in Experiments
      BY <1>1 DEF NotebookStates
    <3>4. f = l
      BY <1>2, <2>1, <3>2, <3>3, LatestIsLatest DEF OneByOne
    <3> QED
      BY <3>1, <3>2, <3>4
  <2> QED
    BY <1>1, <1>2, <2>2, <2>3 DEF CalmNotebook
<1> QED
  BY <1>3, <1>4, <1>5, <1>6

\* So a threshold logged in peace is of its own launch.
LEMMA NotebookKeepsCalmRuns ==
    ASSUME Inv, OwnInv, NEW job \in Jobs,
           \/ \E e \in Experiments : FindCv(e)
           \/ PoolFolds \/ FindFinal \/ LogThreshold \/ Leave
    PROVE  CalmRun(job)'
<1>1. /\ launch' = launch /\ finalRuns'[job].predictions = finalRuns[job].predictions
      /\ finalRuns \in [Jobs -> FinalStates] /\ CalmRun(job)
  BY NotebookLeavesRuns, TypeOKUnfolded DEF Inv, OwnInv
<1>2. CASE finalRuns'[job] = finalRuns[job]
  BY <1>1, <1>2 DEF CalmRun, OwnCut, Prediction
<1>3. CASE finalRuns'[job] # finalRuns[job]
  <2>1. LogThreshold
    BY <1>3 DEF FindCv, PoolFolds, FindFinal, Leave, Stay
  <2>2. PICK l \in notebook.final :
            finalRuns' = IF finalRuns[<<l, notebook.experiment>>].cut = {}
                         THEN [finalRuns EXCEPT ![<<l, notebook.experiment>>] =
                                 [@ EXCEPT !.cut = notebook.pool, !.calm = notebook.calm]]
                         ELSE finalRuns
    BY <2>1 DEF LogThreshold
  <2> DEFINE own == <<l, notebook.experiment>>
             run == [finalRuns[own] EXCEPT !.cut = notebook.pool, !.calm = notebook.calm]
  <2>3. own \in Jobs /\ finalRuns[own] \in FinalStates
    BY <1>1, TypeOKUnfolded DEF Inv, NotebookStates, Jobs
  <2>4. finalRuns' = finalRuns \/ finalRuns' = [finalRuns EXCEPT ![own] = run]
    BY <2>2
  <2>5. run.calm = notebook.calm /\ run.cut = notebook.pool
    BY <2>3 DEF FinalStates
  <2>6. job = own /\ finalRuns'[job] = run
    <3> HIDE DEF own, run
    <3> QED
      BY <1>1, <1>3, <2>3, <2>4
  <2>7. ASSUME notebook.calm
        PROVE  /\ launch[l].step = "done" /\ notebook.pool = OwnCut(own)
               /\ finalRuns[own].predictions = Prediction(own, FinalFit)
    <3>1. notebook.step = "tuned"
      BY <2>1 DEF LogThreshold
    <3>2. launch[l].step = "done" /\ notebook.pool = OwnCut(own) /\ OneByOne
      BY <2>7, <3>1 DEF OwnInv, CalmNotebook
    <3>3. "predictions" \in finalRuns[own].has
      BY <3>1 DEF Inv, NotebookInv
    <3> QED
      BY <2>3, <3>2, <3>3 DEF OneByOne, OwnPredictions
  <2>8. own[1] = l
    OBVIOUS
  <2> HIDE DEF own, run
  <2> QED
    BY <1>1, <2>5, <2>6, <2>7, <2>8 DEF CalmRun, OwnCut, Prediction
<1> QED
  BY <1>2, <1>3

LEMMA OwnHoldsAtFirst == Init => OwnInv
<1> SUFFICES ASSUME Init PROVE OwnInv
  OBVIOUS
<1> USE DEF Init, NoCv, NoFinal
<1>1. /\ \A l \in Launches : launch[l].step = "idle" /\ launch[l].at = 1
      /\ \A j \in Jobs : /\ ~cvRuns[j].begun /\ cvRuns[j].after = {}
                         /\ cvRuns[j].folds = <<>>
                         /\ ~finalRuns[j].begun /\ finalRuns[j].after = {}
                         /\ finalRuns[j].has = {} /\ ~finalRuns[j].calm
  OBVIOUS
<1>2. \A l \in Launches, e \in Experiments : <<l, e>> \in Jobs
  BY DEF Jobs
<1>3. \A l \in Launches : Begun(l) /\ BehindOf(l)
  BY <1>1, <1>2, ConfigsAreConfigs DEF Begun, BehindOf, CvSteps, FinalSteps
<1>4. CvOrder
  BY <1>1, <1>2 DEF CvOrder
<1>5. OneByOne
  <2>1. OneActive /\ ActiveIsLast
    BY <1>1 DEF OneActive, ActiveIsLast, Active
  <2>2. FinalOrder
    BY <1>1, <1>2 DEF FinalOrder
  <2>3. \A l \in Launches : OwnFile(l)
    BY <1>1 DEF OwnFile
  <2>4. \A j \in Jobs : OwnFolds(j) /\ OwnPredictions(j)
    BY <1>1 DEF OwnFolds, OwnPredictions
  <2> QED
    BY <2>1, <2>2, <2>3, <2>4 DEF OneByOne
<1>6. CalmNotebook
  BY DEF CalmNotebook, Closed
<1>7. \A job \in Jobs : CalmRun(job)
  BY <1>1 DEF CalmRun
<1> QED
  BY <1>3, <1>4, <1>5, <1>6, <1>7 DEF OwnInv, Places

LEMMA NextKeepsOwn == Inv /\ OwnInv /\ [Next]_vars => OwnInv'
<1> SUFFICES ASSUME Inv, OwnInv, [Next]_vars PROVE OwnInv'
  OBVIOUS
<1>1. ASSUME NEW l \in Launches, Step(l) PROVE OwnInv'
  BY <1>1, StepKeepsOwn
<1>2. CASE \/ \E e \in Experiments : FindCv(e)
           \/ PoolFolds \/ FindFinal \/ LogThreshold \/ Leave
  BY <1>2, NotebookKeepsOneByOne, NotebookKeepsCalm, NotebookKeepsCalmRuns
     DEF OwnInv
<1>3. CASE UNCHANGED vars
  <2>1. UNCHANGED <<launch, cvRuns, finalRuns, tmp, notebook, overlapped>>
    BY <1>3 DEF vars
  <2>2. \A l \in Launches : Job(l)' = Job(l) /\ (Active(l)' <=> Active(l))
    BY <2>1 DEF Job, Config, Active
  <2>3. \A l \in Launches : Begun(l)' /\ BehindOf(l)'
    BY <2>1, <2>2 DEF OwnInv, Places, Begun, BehindOf, Behind
  <2>4. CvOrder'
    BY <2>1 DEF OwnInv, CvOrder
  <2>5. ASSUME ~overlapped' PROVE OneByOne'
    <3>1. OneByOne
      BY <2>1, <2>5 DEF OwnInv
    <3>2. OneActive' /\ ActiveIsLast' /\ FinalOrder'
      BY <2>1, <2>2, <3>1 DEF OneByOne, OneActive, ActiveIsLast, FinalOrder
    <3>3. \A l \in Launches : OwnFile(l)'
      BY <2>1, <2>2, <3>1 DEF OneByOne, OwnFile, Prediction
    <3>4. \A job \in Jobs : OwnFolds(job)' /\ OwnPredictions(job)'
      BY <2>1, <3>1 DEF OneByOne, OwnFolds, OwnPredictions, Prediction
    <3> QED
      BY <3>2, <3>3, <3>4 DEF OneByOne
  <2>6. CalmNotebook'
    <3>1. \A e : Latest(cvRuns', e) = Latest(cvRuns, e)
      BY <2>1
    <3> QED
      BY <2>1, <2>2, <3>1 DEF OwnInv, CalmNotebook, OwnCut, Prediction
  <2>7. \A job \in Jobs : CalmRun(job)'
    BY <2>1 DEF OwnInv, CalmRun, OwnCut, Prediction
  <2> QED
    BY <2>3, <2>4, <2>5, <2>6, <2>7 DEF OwnInv, Places
<1> QED
  BY <1>1, <1>2, <1>3 DEF Next

\* However many launches there are, with any experiments, and wherever they stop: the
\* threshold of a final model was tuned on all folds of its own launch, and its test
\* predictions are its own, if no two launches overlapped, the latest one had finished
\* and none was started while the notebook was at it (log_fold_run, log_final_run and
\* their files under /tmp, the search_runs of plots.ipynb).
THEOREM ThresholdsAreOwn == Spec => []ThresholdIsItsOwn
<1>1. Spec => []OwnInv
  BY OwnHoldsAtFirst, NextKeepsOwn, Invariance, PTL DEF Spec
<1>2. OwnInv => ThresholdIsItsOwn
  BY DEF OwnInv, CalmRun, OwnCut, ThresholdIsItsOwn
<1> QED
  BY <1>1, <1>2, PTL
-----------------------------------------------------------------------------
(* The confusion matrices *)

LEMMA NatInduct ==
    ASSUME NEW S \in SUBSET Nat, 0 \in S, \A n \in S : n + 1 \in S
    PROVE  S = Nat
<1> SUFFICES ASSUME Nat \ S # {} PROVE FALSE
  OBVIOUS
<1>1. IsWellFoundedOn(OpToRel(<, Nat), Nat)
  BY NatLessThanWellFounded
<1>2. PICK x \in Nat \ S : \A y \in Nat \ S : <<y, x>> \notin OpToRel(<, Nat)
  <2>1. Nat \ S \subseteq Nat
    OBVIOUS
  <2> QED
    BY <1>1, <2>1, WFMin, Zenon
<1>3. x # 0 /\ x - 1 \in Nat
  OBVIOUS
<1>4. x - 1 \in S
  <2>1. x - 1 < x /\ <<x - 1, x>> \in Nat \X Nat
    BY <1>3
  <2>2. <<x - 1, x>> \in OpToRel(<, Nat)
    BY <2>1 DEF OpToRel
  <2> QED
    BY <1>2, <1>3, <2>2
<1>5. (x - 1) + 1 \in S
  BY <1>4
<1>6. (x - 1) + 1 = x
  BY <1>3
<1> QED
  BY <1>2, <1>5, <1>6

\* Adding up a function's values starts from the last one that is chosen.
LEMMA FoldUnfolded ==
    ASSUME NEW S, NEW f
    PROVE  FoldFunctionOnSet(+, 0, f, S) =
           (CHOOSE g : g = [s \in SUBSET S |->
                               IF s = {} THEN 0
                               ELSE f[CHOOSE x \in s : TRUE]
                                        + g[s \ {CHOOSE x \in s : TRUE}]])[S]
  BY DEF FoldFunctionOnSet, MapThenFoldSet

\* The sizes of sets that share nothing add up to the size of them all.
LEMMA SizesAddUp ==
    ASSUME NEW n \in Nat, NEW V,
           \A i \in 1 .. n : IsFiniteSet(V[i]),
           \A i, j \in 1 .. n : i # j => V[i] \cap V[j] = {}
    PROVE  FoldFunction(+, 0, [i \in 1 .. n |-> Cardinality(V[i])])
               = Cardinality(UNION {V[i] : i \in 1 .. n})
<1> DEFINE S == 1 .. n
           f == [i \in S |-> Cardinality(V[i])]
           all(s) == UNION {V[i] : i \in s}
           size(s) == Cardinality(all(s))
           one(s) == CHOOSE x \in s : TRUE
           Sums(g) == g = [s \in SUBSET S |-> IF s = {} THEN 0
                                              ELSE f[one(s)] + g[s \ {one(s)}]]
<1>1. IsFiniteSet(S) /\ Cardinality(S) \in Nat
  BY FS_Interval, FS_CardinalityType
<1>2. ASSUME NEW s \in SUBSET S PROVE IsFiniteSet(s) /\ Cardinality(s) \in Nat
  BY <1>1, FS_Subset, FS_CardinalityType
<1>3. ASSUME NEW s \in SUBSET S PROVE IsFiniteSet(all(s)) /\ size(s) \in Nat
  <2> DEFINE image == [i \in s |-> V[i]]
  <2>1. image \in Surjection(s, {V[i] : i \in s})
    BY DEF Surjection
  <2>2. IsFiniteSet({V[i] : i \in s})
    <3> HIDE DEF image
    <3> QED
      BY <1>2, <2>1, FS_Surjection
  <2>3. \A T \in {V[i] : i \in s} : IsFiniteSet(T)
    OBVIOUS
  <2>4. IsFiniteSet(all(s))
    BY <2>2, <2>3, FS_UNION
  <2> HIDE DEF all
  <2> QED
    BY <2>4, FS_CardinalityType
<1>4. size({}) = 0
  <2>1. all({}) = {}
    OBVIOUS
  <2> HIDE DEF all
  <2> QED
    BY <2>1, FS_EmptySet
<1>5. ASSUME NEW s \in SUBSET S, s # {}
      PROVE  /\ one(s) \in s /\ s \ {one(s)} \in SUBSET S
             /\ Cardinality(s) = Cardinality(s \ {one(s)}) + 1
             /\ size(s) = f[one(s)] + size(s \ {one(s)})
  <2>1. one(s) \in s
    <3>1. PICK x : x \in s
      BY <1>5
    <3> QED
      BY <3>1, Zenon
  <2> HIDE DEF one
  <2>2. s \ {one(s)} \in SUBSET S
    OBVIOUS
  <2>3. Cardinality(s) = Cardinality(s \ {one(s)}) + 1
    BY <1>2, <2>1, <2>2, FS_RemoveElement
  <2>4. one(s) \in 1 .. n /\ IsFiniteSet(V[one(s)]) /\ f[one(s)] = Cardinality(V[one(s)])
    BY <2>1
  <2>5. all(s) = V[one(s)] \cup all(s \ {one(s)})
    BY <2>1
  <2>6. V[one(s)] \cap all(s \ {one(s)}) = {}
    BY <2>1
  <2>7. size(s) = Cardinality(V[one(s)]) + size(s \ {one(s)}) - Cardinality({})
    <3>1. IsFiniteSet(all(s \ {one(s)}))
      BY <1>3, <2>2
    <3> HIDE DEF all, f
    <3>2. Cardinality(V[one(s)] \cup all(s \ {one(s)})) =
              Cardinality(V[one(s)]) + Cardinality(all(s \ {one(s)}))
                  - Cardinality(V[one(s)] \cap all(s \ {one(s)}))
      BY <2>4, <3>1, FS_Union
    <3> QED
      BY <2>5, <2>6, <3>2
  <2> HIDE DEF size, f
  <2>8. f[one(s)] \in Nat /\ size(s \ {one(s)}) \in Nat
    BY <1>3, <2>2, <2>4, FS_CardinalityType
  <2> QED
    BY <2>1, <2>2, <2>3, <2>4, <2>7, <2>8, FS_EmptySet
<1>6. Sums([s \in SUBSET S |-> size(s)])
  <2> HIDE DEF f, size, one
  <2> QED
    BY <1>4, <1>5
<1>7. ASSUME NEW g, Sums(g) PROVE g[S] = size(S)
  <2> DEFINE N == {m \in Nat : \A s \in SUBSET S : Cardinality(s) = m => g[s] = size(s)}
  <2>1. 0 \in N
    <3> SUFFICES ASSUME NEW s \in SUBSET S, Cardinality(s) = 0 PROVE g[s] = size(s)
      OBVIOUS
    <3>1. s = {}
      BY <1>2, FS_EmptySet
    <3> HIDE DEF f, size, one
    <3>2. g[s] = 0
      BY <1>7, <3>1
    <3> QED
      BY <1>4, <3>1, <3>2
  <2>2. ASSUME NEW m \in N PROVE m + 1 \in N
    <3>1. m \in Nat /\ \A s \in SUBSET S : Cardinality(s) = m => g[s] = size(s)
      OBVIOUS
    <3>2. SUFFICES ASSUME NEW s \in SUBSET S, Cardinality(s) = m + 1 PROVE g[s] = size(s)
      OBVIOUS
    <3> HIDE DEF S, N, f, size, one
    <3>3. s # {}
      BY <3>1, <3>2, FS_EmptySet
    <3>4. g[s] = f[one(s)] + g[s \ {one(s)}]
      BY <1>7, <3>3
    <3>5. s \ {one(s)} \in SUBSET S /\ Cardinality(s \ {one(s)}) = m
      BY <1>2, <1>5, <3>1, <3>2, <3>3
    <3>6. g[s \ {one(s)}] = size(s \ {one(s)})
      BY <3>1, <3>5
    <3> QED
      BY <1>5, <3>3, <3>4, <3>6
  <2>3. N = Nat
    <3> HIDE DEF N
    <3>1. N \in SUBSET Nat
      BY DEF N
    <3> QED
      BY <2>1, <2>2, <3>1, NatInduct
  <2> HIDE DEF f, size, one, Sums
  <2> QED
    BY <1>1, <2>3
<1>8. FoldFunction(+, 0, f) = (CHOOSE g : Sums(g))[S]
  <2>1. FoldFunction(+, 0, f) = FoldFunctionOnSet(+, 0, f, DOMAIN f)
    BY DEF FoldFunction
  <2>2. DOMAIN f = S
    OBVIOUS
  <2> HIDE DEF S, f
  <2> QED
    BY <2>1, <2>2, FoldUnfolded
<1> HIDE DEF Sums, f, size
<1>9. Sums(CHOOSE g : Sums(g))
  BY <1>6
<1>10. (CHOOSE g : Sums(g))[S] = size(S)
  BY <1>7, <1>9
<1> QED
  BY <1>8, <1>10 DEF f, size

\* The validation windows of two folds do not meet.
LEMMA WindowsAreApart ==
    ASSUME NEW n \in Nat, NEW i \in 1 .. NSplits, NEW j \in 1 .. NSplits, i < j
    PROVE  /\ ValidationStart(n, i) \in Int /\ ValidationStart(n, j) \in Int
           /\ ValidationSize(n) \in Nat
           /\ ValidationStart(n, i) + ValidationSize(n) <= ValidationStart(n, j)
<1> DEFINE size == ValidationSize(n)
           c == j - i - 1
           b == NSplits - j + 1
<1>1. size \in Nat
  BY SplitAssumption DEF ValidationSize
<1>2. NSplits \in Nat /\ c \in Nat /\ b \in Nat /\ NSplits - i + 1 = b + (c + 1)
  BY SplitAssumption
<1>3. ValidationStart(n, i) = n - (b + (c + 1)) * size /\ ValidationStart(n, j) = n - b * size
  BY <1>2 DEF ValidationStart
<1> HIDE DEF size, c, b
<1>4. (b + (c + 1)) * size = b * size + c * size + size
  BY <1>1, <1>2
<1>5. b * size \in Nat /\ c * size \in Nat
  BY <1>1, <1>2
<1> QED
  BY <1>1, <1>3, <1>4, <1>5 DEF size

LEMMA FoldsAreApart ==
    ASSUME NEW df \in SUBSET Rows, IsFiniteSet(df),
           NEW i \in 1 .. NSplits, NEW j \in 1 .. NSplits, i # j
    PROVE  FoldVal(df, i) \cap FoldVal(df, j) = {}
<1> DEFINE n == Cardinality(Dates(df))
<1>1. n \in Nat
  BY DatesAreFinite, FS_CardinalityType
<1>2. \A k \in 1 .. NSplits : \A r \in FoldVal(df, k) :
          /\ Position(Dates(df), r.date) \in Nat
          /\ ValidationStart(n, k) <= Position(Dates(df), r.date)
          /\ Position(Dates(df), r.date) < ValidationStart(n, k) + ValidationSize(n)
  BY DatesAreFinite, PositionIsNatural DEF FoldVal
<1> HIDE DEF n
<1>3. ASSUME NEW a \in 1 .. NSplits, NEW b \in 1 .. NSplits, a < b
      PROVE  FoldVal(df, a) \cap FoldVal(df, b) = {}
  BY <1>1, <1>2, <1>3, WindowsAreApart
<1>4. i \in Int /\ j \in Int
  OBVIOUS
<1> QED
  BY <1>3, <1>4

\* What the folds count, added up, is the rows they score.
LEMMA CountsOfTheFolds ==
    ASSUME NEW df \in Marts
    PROVE  ValidationRows(df) = Cardinality(UNION {FoldVal(Remaining(df), i) : i \in 1 .. NSplits})
<1> DEFINE pre == Remaining(df)
           V == [i \in 1 .. NSplits |-> FoldVal(pre, i)]
<1>1. pre \in SUBSET Rows /\ IsFiniteSet(pre)
  BY MartsAreData, FS_Subset DEF Remaining
<1>2. \A i \in 1 .. NSplits : IsFiniteSet(V[i]) /\ V[i] = FoldVal(pre, i)
  BY <1>1, FoldsAreOfTheirData, FS_Subset
<1>3. \A i, j \in 1 .. NSplits : i # j => V[i] \cap V[j] = {}
  BY <1>1, FoldsAreApart
<1>4. [i \in 1 .. NSplits |-> Cardinality(FoldVal(pre, i))]
          = [i \in 1 .. NSplits |-> Cardinality(V[i])]
  BY <1>2
<1>5. {FoldVal(pre, i) : i \in 1 .. NSplits} = {V[i] : i \in 1 .. NSplits}
  BY <1>2
<1>6. ValidationRows(df)
          = FoldFunction(+, 0, [i \in 1 .. NSplits |-> Cardinality(FoldVal(pre, i))])
  BY DEF ValidationRows
<1>7. NSplits \in Nat
  BY SplitAssumption
<1> HIDE DEF V, pre
<1>8. FoldFunction(+, 0, [i \in 1 .. NSplits |-> Cardinality(V[i])])
          = Cardinality(UNION {V[i] : i \in 1 .. NSplits})
  BY <1>2, <1>3, <1>7, SizesAddUp
<1> QED
  BY <1>4, <1>5, <1>6, <1>8 DEF pre

\* What a launch has added up when it comes to its final model.
CountInv ==
    \A l \in Launches :
        launch[l].step = "final" => cvRuns[Job(l)].counted = ValidationRows(data[l])

\* Only what adds up the counts takes a launch to its final model.
LEMMA OnlyAggregateLeadsOn ==
    ASSUME TypeOK, NEW l \in Launches, Step(l), ~Aggregate(l)
    PROVE  launch'[l].step # "final"
<1>1. ASSUME NEW s, Goto(l, s),
             s \in ({"idle", "prepare", "done", "broken"} \cup CvSteps \cup FinalSteps) \ {"final"}
      PROVE  launch'[l].step # "final"
  BY <1>1, GotoTypes
<1> USE DEF CvSteps, FinalSteps
<1>2. CASE \E chosen \in Selections[l] : Start(l, chosen)
  BY <1>2, TypeOKUnfolded DEF Start, LaunchStates
<1>3. CASE Skip(l) \/ UploadFinal(l)
  <2>1. Advance(l)
    BY <1>3 DEF Skip, UploadFinal
  <2> QED
    BY <2>1, AdvanceTypes
<1>4. CASE LoadData(l) \/ Break(l)
  <2>1. Goto(l, "cv") \/ Goto(l, "broken")
    BY <1>4 DEF LoadData, Break
  <2> QED
    BY <1>1, <2>1
<1>5. CASE StartCv(l) \/ StartFold(l) \/ WriteFold(l)
  <2>1. Goto(l, "fold") \/ Goto(l, "write") \/ Goto(l, "upload")
    BY <1>5 DEF StartCv, StartFold, WriteFold
  <2> QED
    BY <1>1, <2>1
<1>6. CASE UploadFold(l)
  <2>1. CASE Goto(l, "aggregate")
    BY <1>1, <2>1
  <2>2. CASE ~Goto(l, "aggregate")
    <3>1. launch' = [launch EXCEPT ![l].step = "fold", ![l].fold = launch[l].fold + 1]
      BY <1>6, <2>2 DEF UploadFold
    <3> QED
      BY <3>1, TypeOKUnfolded DEF LaunchStates
  <2> QED
    BY <2>1, <2>2
<1>7. CASE \/ StartFinal(l) \/ LogModel(l) \/ LogEncoder(l) \/ LogScaler(l)
           \/ WriteFinal(l)
  <2>1. \E s \in {"model", "encoder", "scaler", "dump", "attach"} : Goto(l, s)
    BY <1>7 DEF StartFinal, LogModel, LogEncoder, LogScaler, LogArtefact, WriteFinal
  <2> QED
    BY <1>1, <2>1
<1> QED
  BY <1>2, <1>3, <1>4, <1>5, <1>6, <1>7 DEF Step

\* A launch only loads, and only drops, its own data.
LEMMA OthersKeepTheirData ==
    ASSUME TypeOK, NEW l \in Launches, Step(l)
    PROVE  \A m \in Launches : m # l => data'[m] = data[m]
<1>1. data' = data \/ (\E df : data' = [data EXCEPT ![l] = df])
  BY DEF Step, Start, Skip, LoadData, Break, StartCv, StartFold, WriteFold, UploadFold,
         Aggregate, StartFinal, LogModel, LogEncoder, LogScaler, LogArtefact, WriteFinal,
         UploadFinal, Advance
<1> QED
  BY <1>1, TypeOKUnfolded

LEMMA NextKeepsCount == Inv /\ CountInv /\ [Next]_vars => CountInv'
<1> SUFFICES ASSUME Inv, CountInv, [Next]_vars, NEW m \in Launches, launch'[m].step = "final"
             PROVE  cvRuns'[Job(m)'].counted = ValidationRows(data'[m])
  BY DEF CountInv
<1>1. TypeOK /\ Job(m) \in Jobs
  BY ConfigOfLaunch DEF Inv
<1>2. ASSUME launch'[m] = launch[m], data'[m] = data[m], cvRuns'[Job(m)] = cvRuns[Job(m)]
      PROVE  cvRuns'[Job(m)'].counted = ValidationRows(data'[m])
  <2>1. Job(m)' = Job(m)
    BY <1>2 DEF Job, Config
  <2> QED
    BY <1>2, <2>1 DEF CountInv
<1>3. ASSUME NEW l \in Launches, Step(l), l # m
      PROVE  cvRuns'[Job(m)'].counted = ValidationRows(data'[m])
  <2>1. Job(m) # Job(l)
    BY <1>1, <1>3, ConfigOfLaunch
  <2> QED
    BY <1>1, <1>2, <1>3, <2>1, OthersAreLeftAlone, OthersKeepTheirData
<1>4. CASE Step(m)
  <2>1. Aggregate(m)
    BY <1>1, <1>4, OnlyAggregateLeadsOn
  <2>2. /\ cvRuns' = [cvRuns EXCEPT ![Job(m)].counted = ValidationRows(data[m])]
        /\ Goto(m, "final") /\ data' = data
    BY <2>1 DEF Aggregate
  <2>3. cvRuns \in [Jobs -> CvStates]
    BY <1>1, TypeOKUnfolded
  <2>4. cvRuns'[Job(m)].counted = ValidationRows(data[m])
    <3>1. cvRuns[Job(m)] \in CvStates
      BY <1>1, <2>3
    <3> QED
      BY <1>1, <2>2, <2>3, <3>1 DEF CvStates
  <2>5. launch'[m].at = launch[m].at
    BY <1>1, <2>2, GotoTypes DEF FinalSteps
  <2>6. Job(m)' = Job(m)
    BY <2>5 DEF Job, Config
  <2> QED
    BY <2>2, <2>4, <2>6
<1>5. CASE \/ \E e \in Experiments : FindCv(e)
           \/ PoolFolds \/ FindFinal \/ LogThreshold \/ Leave
  <2>1. launch' = launch /\ data' = data /\ cvRuns' = cvRuns
    BY <1>5 DEF FindCv, PoolFolds, FindFinal, LogThreshold, Leave, Stay
  <2> QED
    BY <1>2, <2>1
<1>6. CASE UNCHANGED vars
  BY <1>2, <1>6 DEF vars
<1> QED
  BY <1>3, <1>4, <1>5, <1>6 DEF Next

\* Whatever is loaded and however many folds there are: the confusion matrices that
\* aggregate_fold_metrics adds up count every row that a fold scored, and none of them
\* twice, because the windows of TimeSeriesSplit do not meet.
THEOREM EachRowCounts == Spec => []EachRowIsCountedOnce
<1>1. Init => CountInv
  BY DEF Init, CountInv
<1>2. Spec => []CountInv
  BY <1>1, NextKeepsCount, Invariance, PTL DEF Spec
<1>3. Inv /\ CountInv => EachRowIsCountedOnce
  <2> SUFFICES ASSUME Inv, CountInv, NEW l \in Launches, launch[l].step = "final"
               PROVE  cvRuns[Job(l)].counted
                          = Cardinality(UNION {Scored(l, i) : i \in 1 .. NSplits})
    BY DEF EachRowIsCountedOnce
  <2>1. data[l] \in Marts
    BY DEF Inv, DataInv, FinalSteps
  <2>2. Config(l).scale \in BOOLEAN
    BY ConfigOfLaunch DEF Inv
  <2>3. \A i \in 1 .. NSplits : Scored(l, i) = FoldVal(Remaining(data[l]), i)
    <3>1. \A i \in 1 .. NSplits : i \in 1 .. FinalFit /\ i # FinalFit
      BY SplitAssumption DEF FinalFit
    <3> QED
      BY <2>2, <3>1, LearntFromTraining
  <2>4. {Scored(l, i) : i \in 1 .. NSplits}
            = {FoldVal(Remaining(data[l]), i) : i \in 1 .. NSplits}
    BY <2>3
  <2>5. cvRuns[Job(l)].counted = ValidationRows(data[l])
    BY DEF CountInv
  <2> QED
    BY <2>1, <2>4, <2>5, CountsOfTheFolds
<1> QED
  BY <1>2, <1>3, Invariance, PTL
-----------------------------------------------------------------------------
(* From the star schema to an answer *)

LEMMA DeploymentTrains == DeploymentSpec => Spec
<1>1. DeploymentInit => Init
  BY DEF DeploymentInit
<1>2. [DeploymentNext]_deploymentVars => [Next]_vars
  BY DEF DeploymentNext, deploymentVars, Train, Answer, vars
<1> QED
  BY <1>1, <1>2, PTL DEF DeploymentSpec, Spec

LEMMA ServingStarts == DeploymentInit => Serving!Init
<1>1. Registry!RegistryInit => Serving!RegistryInit
  BY DEF Registry!RegistryInit, Serving!RegistryInit, Registry!NoRun, Serving!NoRun
<1> QED
  BY <1>1, RegistryStarts DEF DeploymentInit, Serving!Init

\* What training does, those who serve see as steps of the registry.
LEMMA TrainingRegisters == Registry!RegistryNext => Serving!RegistryNext
BY DEF Registry!RegistryNext, Registry!Begin, Registry!Log, Registry!Select, Registry!Begun,
       Registry!Before, Registry!Parts,
       Serving!RegistryNext, Serving!Begin, Serving!Log, Serving!Select, Serving!Begun,
       Serving!Before, Serving!Parts

LEMMA ServingGoesOn ==
    Inv /\ [DeploymentNext]_deploymentVars => [Serving!Next]_(Serving!servingVars)
<1> SUFFICES ASSUME Inv, [DeploymentNext]_deploymentVars
             PROVE  Serving!Next \/ UNCHANGED <<FinalsOf(finalRuns), cache, req>>
  BY DEF Serving!servingVars
<1>1. CASE Train
  <2>1. [Registry!RegistryNext]_(FinalsOf(finalRuns)) /\ UNCHANGED <<cache, req>>
    BY <1>1, RegistryGoesOn DEF Train
  <2> QED
    BY <2>1, TrainingRegisters DEF Serving!Next, Serving!Register
<1>2. CASE Answer
  BY <1>2 DEF Answer, Serving!Next
<1>3. CASE UNCHANGED deploymentVars
  BY <1>3 DEF deploymentVars, vars, FinalsOf
<1> QED
  BY <1>1, <1>2, <1>3 DEF DeploymentNext

\* The registry that serving is checked against is the one that training keeps: with
\* launches and the notebook beside it, in any interleaving, the API process behaves as
\* ModelServing says (load_model, log_final_run).
THEOREM DeploymentServes == DeploymentSpec => ServesWhatIsTrained
BY DeploymentTrains, Invariance, ServingStarts, ServingGoesOn, PTL
DEF DeploymentSpec, ServesWhatIsTrained, Serving!Spec

\* The threshold that those who load a model see of a launch.
CutOf(l) == FinalsOf(finalRuns)[l].cut

\* A request that has found a launch, and one that has asked for its threshold.
FoundSteps == {"model", "encoder", "params", "list", "build"}
AskedSteps == {"list", "build"}

Held(b) == b.model \in Launches /\ b.cut = CutOf(b.model) /\ b.cut # {}

LoadHolds(r) ==
    /\ r.step \in FoundSteps => r.run \in Launches
    /\ r.step \in AskedSteps /\ r.cut # {} => r.cut = CutOf(r.run)

\* Whatever is loaded or being loaded has the threshold its launch has by now.
AnswerInv ==
    /\ DOMAIN cache = Sites /\ DOMAIN req = Requests
    /\ \A q \in Requests : req[q] = [step |-> req[q].step, site |-> req[q].site,
           run |-> req[q].run, cut |-> req[q].cut, names |-> req[q].names,
           seen |-> req[q].seen, bundle |-> req[q].bundle]
    /\ \A q \in Requests : LoadHolds(req[q]) /\ \A b \in req[q].bundle : Held(b)
    /\ \A s \in Sites : \A b \in cache[s] : Held(b)

\* MLflow does not take another threshold for a launch that has one.
LEMMA ThresholdsStay ==
    ASSUME Registry!RegistryNext, NEW l \in Launches, CutOf(l) # {}
    PROVE  CutOf(l)' = CutOf(l)
<1> DEFINE seen == FinalsOf(finalRuns)
<1>0. /\ CutOf(l) = seen[l].cut /\ CutOf(l)' = seen'[l].cut
      /\ \A m \in Launches : seen[m] = [begun |-> seen[m].begun, after |-> seen[m].after,
                                        has |-> seen[m].has, cut |-> seen[m].cut]
      /\ seen = [m \in Launches |-> seen[m]]
  BY DEF CutOf, FinalsOf
<1> SUFFICES seen'[l].cut = seen[l].cut
  BY <1>0
<1>1. PICK m \in Launches :
          \/ Registry!Begin(m)
          \/ \E p \in Registry!Parts : Registry!Log(m, p)
          \/ Registry!Select(m)
  BY DEF Registry!RegistryNext
<1>2. CASE Registry!Begin(m)
  <2>1. seen' = [seen EXCEPT ![m].begun = TRUE, ![m].after = Registry!Begun]
    BY <1>2 DEF Registry!Begin
  <2> QED
    BY <1>0, <2>1
<1>3. ASSUME NEW p \in Registry!Parts, Registry!Log(m, p)
      PROVE  seen'[l].cut = seen[l].cut
  <2>1. seen' = [seen EXCEPT ![m].has = @ \cup {p}]
    BY <1>3 DEF Registry!Log
  <2> QED
    BY <1>0, <2>1
<1>4. CASE Registry!Select(m)
  <2>1. seen[m].cut = {} /\ \E c \in Tunings : seen' = [seen EXCEPT ![m].cut = c]
    BY <1>4 DEF Registry!Select
  <2> QED
    BY <1>0, <2>1
<1> QED
  BY <1>1, <1>2, <1>3, <1>4

\* Training leaves what is loaded right.
LEMMA TrainKeepsAnswers == Inv /\ AnswerInv /\ Train => AnswerInv'
<1> SUFFICES ASSUME Inv, AnswerInv, Train PROVE AnswerInv'
  OBVIOUS
<1>1. cache' = cache /\ req' = req
  BY DEF Train
<1>2. \A l \in Launches : CutOf(l) # {} => CutOf(l)' = CutOf(l)
  <2>1. CASE Registry!RegistryNext
    BY <2>1, ThresholdsStay
  <2>2. CASE UNCHANGED FinalsOf(finalRuns)
    BY <2>2 DEF CutOf
  <2> QED
    BY <2>1, <2>2, RegistryGoesOn DEF Train
<1>3. \A b : Held(b) => Held(b)'
  BY <1>2 DEF Held
<1>4. \A q \in Requests : LoadHolds(req[q]) => LoadHolds(req[q])'
  BY <1>1, <1>2 DEF LoadHolds, FoundSteps, AskedSteps
<1> QED
  BY <1>1, <1>3, <1>4 DEF AnswerInv

\* A request goes on.
LEMMA ProceedKeepsAnswers ==
    ASSUME AnswerInv, UNCHANGED vars, NEW q \in Requests, Serving!Proceed(q)
    PROVE  AnswerInv'
<1> USE DEF Serving!Goto
<1>1. \A l : CutOf(l)' = CutOf(l)
  BY DEF vars, CutOf, FinalsOf
<1>2. \A b : Held(b)' <=> Held(b)
  BY <1>1 DEF Held
<1>3. /\ req[q] = [step |-> req[q].step, site |-> req[q].site, run |-> req[q].run,
                   cut |-> req[q].cut, names |-> req[q].names, seen |-> req[q].seen,
                   bundle |-> req[q].bundle]
      /\ LoadHolds(req[q]) /\ \A b \in req[q].bundle : Held(b)
  BY DEF AnswerInv
<1> DEFINE Rest == \A p \in Requests : p # q => req'[p] = req[p]
           Fields == req'[q] = [step |-> req'[q].step, site |-> req'[q].site,
               run |-> req'[q].run, cut |-> req'[q].cut, names |-> req'[q].names,
               seen |-> req'[q].seen, bundle |-> req'[q].bundle]
\* What is left to see for each of the steps.
<1>4. ASSUME DOMAIN cache' = Sites, DOMAIN req' = Requests, Rest, Fields,
             LoadHolds(req'[q]), \A b \in req'[q].bundle : Held(b),
             \A s \in Sites : \A b \in cache'[s] : Held(b)
      PROVE  AnswerInv'
  <2>1. \A p \in Requests : LoadHolds(req'[p])
    BY <1>4 DEF AnswerInv
  <2>2. \A p \in Requests : LoadHolds(req[p])'
    BY <2>1, <1>1 DEF LoadHolds
  <2>3. \A p \in Requests : \A b \in req'[p].bundle : Held(b)'
    BY <1>2, <1>4 DEF AnswerInv
  <2>4. \A s \in Sites : \A b \in cache'[s] : Held(b)'
    BY <1>2, <1>4
  <2> QED
    BY <1>4, <2>2, <2>3, <2>4 DEF AnswerInv
<1>5. ASSUME cache' = cache, DOMAIN req' = Requests, Rest, Fields, LoadHolds(req'[q]),
             req'[q].bundle \subseteq req[q].bundle
      PROVE  AnswerInv'
  BY <1>3, <1>4, <1>5 DEF AnswerInv
<1>6. CASE Serving!FindLatest(q)
  <2>1. CASE Serving!Begun = {}
    <3>1. cache' = cache /\ req' = [req EXCEPT ![q].step = "load_error"]
      BY <1>6, <2>1 DEF Serving!FindLatest
    <3> QED
      BY <1>3, <1>5, <3>1 DEF AnswerInv, LoadHolds, FoundSteps, AskedSteps
  <2>2. CASE Serving!Begun # {}
    <3>1. PICK l \in Launches :
              /\ cache' = cache
              /\ req' = [req EXCEPT ![q].step = "model", ![q].run = l,
                                    ![q].seen = Serving!Begun]
      BY <1>6, <2>2 DEF Serving!FindLatest, Serving!Begun
    <3> QED
      BY <1>3, <1>5, <3>1 DEF AnswerInv, LoadHolds, FoundSteps, AskedSteps
  <2> QED
    BY <2>1, <2>2
<1>7. CASE Serving!LoadModel(q) \/ Serving!LoadEncoder(q)
  <2>1. PICK step \in {"encoder", "params", "load_error"} :
            cache' = cache /\ req' = [req EXCEPT ![q].step = step]
    BY <1>7 DEF Serving!LoadModel, Serving!LoadEncoder
  <2>2. req[q].step \in {"model", "encoder"}
    BY <1>7 DEF Serving!LoadModel, Serving!LoadEncoder
  <2> QED
    BY <1>3, <1>5, <2>1, <2>2 DEF AnswerInv, LoadHolds, FoundSteps, AskedSteps
<1>8. CASE Serving!GetRun(q)
  <2>1. /\ req[q].step = "params" /\ cache' = cache
        /\ req' = [req EXCEPT ![q].step = "list", ![q].cut = CutOf(req[q].run)]
    BY <1>8 DEF Serving!GetRun, CutOf
  <2> QED
    BY <1>3, <1>5, <2>1 DEF AnswerInv, LoadHolds, FoundSteps, AskedSteps
<1>9. CASE Serving!ListArtifacts(q)
  <2>1. /\ req[q].step = "list" /\ cache' = cache
        /\ req' = [req EXCEPT ![q].step = "build",
                              ![q].names = FinalsOf(finalRuns)[req[q].run].has]
    BY <1>9 DEF Serving!ListArtifacts
  <2> QED
    BY <1>3, <1>5, <2>1 DEF AnswerInv, LoadHolds, FoundSteps, AskedSteps
<1>10. CASE Serving!Build(q)
  <2>1. CASE req[q].cut = {}
    <3>1. cache' = cache /\ req' = [req EXCEPT ![q].step = "load_error"]
      BY <1>10, <2>1 DEF Serving!Build
    <3> QED
      BY <1>3, <1>5, <3>1 DEF AnswerInv, LoadHolds, FoundSteps, AskedSteps
  <2>2. CASE req[q].cut # {}
    <3> DEFINE b == [model |-> req[q].run, encoder |-> req[q].run,
                     scaler |-> {r \in {req[q].run} : "scaler" \in req[q].names},
                     cut |-> req[q].cut, seen |-> req[q].seen]
    <3>1. /\ req[q].step = "build"
          /\ req' = [req EXCEPT ![q].step = "score", ![q].bundle = {b}]
          /\ cache' = [cache EXCEPT ![req[q].site] = {b}]
      BY <1>10, <2>2 DEF Serving!Build
    <3>2. Held(b)
      BY <1>3, <2>2, <3>1 DEF Held, LoadHolds, FoundSteps, AskedSteps
    <3> HIDE DEF b
    <3>3. \A s \in Sites : \A c \in cache'[s] : Held(c)
      BY <3>1, <3>2 DEF AnswerInv
    <3>4. DOMAIN cache' = Sites /\ DOMAIN req' = Requests /\ Rest
      BY <3>1 DEF AnswerInv
    <3>5. req'[q] = [req[q] EXCEPT !.step = "score", !.bundle = {b}]
      BY <3>1 DEF AnswerInv
    <3>6. Fields /\ LoadHolds(req'[q]) /\ \A c \in req'[q].bundle : Held(c)
      BY <1>3, <3>2, <3>5 DEF LoadHolds, FoundSteps, AskedSteps
    <3> QED
      BY <1>4, <3>3, <3>4, <3>6
  <2> QED
    BY <2>1, <2>2
<1>11. CASE Serving!ScoreAdHoc(q) \/ Serving!ScoreCompany(q)
  <2>1. PICK step \in {"answered", "not_found", "no_snapshot", "db_error"} :
            cache' = cache /\ req' = [req EXCEPT ![q].step = step]
    BY <1>11 DEF Serving!ScoreAdHoc, Serving!ScoreCompany
  <2> QED
    BY <1>3, <1>5, <2>1 DEF AnswerInv, LoadHolds, FoundSteps, AskedSteps
<1>12. CASE Serving!Return(q)
  <2>1. cache' = cache /\ req' = [req EXCEPT ![q] = Serving!Idle]
    BY <1>12 DEF Serving!Return
  <2> QED
    BY <1>3, <1>5, <2>1 DEF AnswerInv, LoadHolds, FoundSteps, AskedSteps, Serving!Idle
<1> QED
  BY <1>6, <1>7, <1>8, <1>9, <1>10, <1>11, <1>12 DEF Serving!Proceed

\* One asks; its answer may be in the cache.
LEMMA AskKeepsAnswers ==
    ASSUME AnswerInv, UNCHANGED vars, NEW q \in Requests, NEW s \in Sites, Serving!Ask(q, s)
    PROVE  AnswerInv'
<1>1. \A l : CutOf(l)' = CutOf(l)
  BY DEF vars, CutOf, FinalsOf
<1>2. \A b : Held(b)' <=> Held(b)
  BY <1>1 DEF Held
<1>3. PICK step \in {"find", "score"} :
          req' = [req EXCEPT ![q].site = s, ![q].bundle = cache[s], ![q].step = step]
  BY DEF Serving!Ask
<1>4. cache' = cache
  BY DEF Serving!Ask
<1>5. req'[q] = [req[q] EXCEPT !.site = s, !.bundle = cache[s], !.step = step]
      /\ DOMAIN req' = Requests /\ \A p \in Requests : p # q => req'[p] = req[p]
  BY <1>3 DEF AnswerInv
<1>6. \A p \in Requests : LoadHolds(req[p])'
  <2>1. \A p \in Requests : LoadHolds(req'[p])
    <3>1. \A p \in Requests : p # q => LoadHolds(req'[p])
      BY <1>5 DEF AnswerInv
    <3>2. req'[q].step = step
      BY <1>5 DEF AnswerInv
    <3> QED
      BY <1>3, <3>1, <3>2 DEF LoadHolds, FoundSteps, AskedSteps
  <2> QED
    BY <1>1, <2>1 DEF LoadHolds
<1>7. \A p \in Requests : \A b \in req'[p].bundle : Held(b)'
  BY <1>2, <1>5 DEF AnswerInv
<1>8. \A p \in Requests : req'[p] = [step |-> req'[p].step, site |-> req'[p].site,
          run |-> req'[p].run, cut |-> req'[p].cut, names |-> req'[p].names,
          seen |-> req'[p].seen, bundle |-> req'[p].bundle]
  BY <1>5 DEF AnswerInv
<1> QED
  BY <1>2, <1>4, <1>5, <1>6, <1>7, <1>8 DEF AnswerInv

LEMMA NothingHeldIsRight ==
    ASSUME cache = [s \in Sites |-> {}], req = [q \in Requests |-> Serving!Idle]
    PROVE  AnswerInv
<1>1. \A q \in Requests : req[q] = Serving!Idle
  OBVIOUS
<1>2. LoadHolds(Serving!Idle)
  BY DEF Serving!Idle, LoadHolds, FoundSteps, AskedSteps
<1>3. Serving!Idle.bundle = {}
  BY DEF Serving!Idle
<1>4. \A q \in Requests : LoadHolds(req[q]) /\ \A b \in req[q].bundle : Held(b)
  BY <1>1, <1>2, <1>3
<1>5. \A q \in Requests : req[q] = [step |-> req[q].step, site |-> req[q].site,
          run |-> req[q].run, cut |-> req[q].cut, names |-> req[q].names,
          seen |-> req[q].seen, bundle |-> req[q].bundle]
  BY <1>1 DEF Serving!Idle
<1> QED
  BY <1>4, <1>5 DEF AnswerInv

LEMMA RestartKeepsAnswers == Serving!Restart => AnswerInv'
<1> DEFINE Nothing == cache = [s \in Sites |-> {}] /\ req = [q \in Requests |-> Serving!Idle]
<1>1. Nothing => AnswerInv
  BY NothingHeldIsRight
<1>2. Serving!Restart => Nothing'
  BY DEF Serving!Restart, Serving!Idle
<1> QED
  BY <1>1, <1>2, PTL

LEMMA AnswersHold == DeploymentSpec => []AnswerInv
<1>1. DeploymentInit => AnswerInv
  BY NothingHeldIsRight DEF DeploymentInit
<1>2. Inv /\ AnswerInv /\ [DeploymentNext]_deploymentVars => AnswerInv'
  <2> SUFFICES ASSUME Inv, AnswerInv, [DeploymentNext]_deploymentVars PROVE AnswerInv'
    OBVIOUS
  <2>1. CASE Train
    BY <2>1, TrainKeepsAnswers
  <2>2. CASE Answer
    BY <2>2, ProceedKeepsAnswers, AskKeepsAnswers, RestartKeepsAnswers DEF Answer
  <2>3. CASE UNCHANGED deploymentVars
    <3>1. UNCHANGED <<cache, req>> /\ \A l : CutOf(l)' = CutOf(l)
      BY <2>3 DEF deploymentVars, vars, CutOf, FinalsOf
    <3> QED
      BY <3>1 DEF AnswerInv, LoadHolds, Held
  <2> QED
    BY <2>1, <2>2, <2>3 DEF DeploymentNext
<1> QED
  BY <1>1, <1>2, DeploymentTrains, Invariance, PTL DEF DeploymentSpec

\* An answer is decided by a threshold that was tuned on the predictions of the launch
\* that trained its model, however many launches, loads and restarts there are and however
\* they interleave, if that launch was tuned undisturbed (load_model, plots.ipynb).
THEOREM AnswersAreTuned == DeploymentSpec => []ServedAsTuned
<1>1. ThresholdIsItsOwn /\ AnswerInv => ServedAsTuned
  <2> SUFFICES ASSUME ThresholdIsItsOwn, AnswerInv,
                      NEW b \in Serving!InUse, finalRuns[<<b.model, Served>>].calm
               PROVE  /\ b.cut = {b.model}
                      /\ finalRuns[<<b.model, Served>>].predictions
                             = Prediction(<<b.model, Served>>, FinalFit)
    BY DEF ServedAsTuned
  <2>1. Held(b)
    BY DEF Serving!InUse, AnswerInv
  <2>2. <<b.model, Served>> \in Jobs
    BY <2>1, ConfigsAreConfigs DEF Held, Jobs
  <2>3. /\ finalRuns[<<b.model, Served>>].cut
               = {Prediction(<<b.model, Served>>, i) : i \in 1 .. NSplits}
        /\ finalRuns[<<b.model, Served>>].predictions
               = Prediction(<<b.model, Served>>, FinalFit)
    BY <2>2 DEF ThresholdIsItsOwn
  <2>4. b.cut = {p[1] : p \in finalRuns[<<b.model, Served>>].cut}
    BY <2>1 DEF Held, CutOf, FinalsOf
  <2>5. \A i \in 1 .. NSplits : Prediction(<<b.model, Served>>, i)[1] = b.model
    BY DEF Prediction
  <2>6. 1 \in 1 .. NSplits
    BY SplitAssumption
  <2>7. b.cut = {b.model}
    BY <2>3, <2>4, <2>5, <2>6
  <2> QED
    BY <2>3, <2>7
<1> QED
  BY <1>1, AnswersHold, ThresholdsAreOwn, DeploymentTrains, PTL
=============================================================================
