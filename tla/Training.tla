------------------------------ MODULE Training ------------------------------
(***************************************************************************)
(* `python -m ml.run_training`, run by hand, several times and perhaps at  *)
(* once, and the notebook that selects a threshold afterwards.             *)
(*                                                                         *)
(* For each selected experiment a launch loads the data, runs the          *)
(* cross-validation (a parent run with a nested run per fold), then fits   *)
(* the final model and logs it.  Predictions go through a file under /tmp  *)
(* whose name does not say whose they are.  What a launch fits is          *)
(* determined by the data it loaded, so a set of predictions is known by   *)
(* its launch, experiment and fold, NSplits + 1 being the final model.     *)
(***************************************************************************)
EXTENDS TrainingData, Sequences, Functions

CONSTANTS
    Launches,       \* executions of the script
    Selections,     \* what models_to_train may be in each
    ModelConfigs,   \* MODEL_CONFIGS: records of experiment, scale, handleNan
    Marts,          \* datasets the star schema may hold when it is read
    Served          \* the experiment inference reads: "xgboost_model"

Experiments == {ModelConfigs[k].experiment : k \in 1 .. Len(ModelConfigs)}
FinalFit == NSplits + 1
Predictions == Launches \X Experiments \X (1 .. FinalFit)
Prediction(job, i) == <<job[1], job[2], i>>
Lost == <<>>        \* predictions that were never uploaded

ASSUME ConfigsAssumption ==
    /\ ModelConfigs \in Seq([experiment : STRING, scale : BOOLEAN, handleNan : BOOLEAN])
    /\ \A j, k \in 1 .. Len(ModelConfigs) :
           ModelConfigs[j].experiment = ModelConfigs[k].experiment => j = k
    /\ Selections \in [Launches -> SUBSET SUBSET Experiments]
    /\ Marts \subseteq SUBSET Rows
    /\ \A df \in Marts : IsFiniteSet(df)
    /\ Served \in Experiments

VARIABLES
    launch,     \* of each launch: step, place in MODEL_CONFIGS, selection, fold
    data,       \* the dataset a launch has loaded for its current experiment
    cvRuns,     \* cross_validation runs, with what their fold runs uploaded
    finalRuns,  \* final_model runs
    tmp,        \* predictions in the files under /tmp
    notebook,   \* the notebook's session
    overlapped  \* history: have two launches been under way at once?

vars == <<launch, data, cvRuns, finalRuns, tmp, notebook, overlapped>>

Jobs == Launches \X Experiments
NoCv == [begun |-> FALSE, after |-> {}, folds |-> <<>>, counted |-> 0]
NoFinal == [begun |-> FALSE, after |-> {}, has |-> {}, predictions |-> Lost,
            cut |-> {}, calm |-> FALSE]
Closed == [step |-> "closed", experiment |-> Served, cv |-> {}, pool |-> {},
           final |-> {}, calm |-> FALSE]

Init ==
    /\ launch = [l \in Launches |-> [step |-> "idle", at |-> 1, chosen |-> {}, fold |-> 1]]
    /\ data = [l \in Launches |-> {}]
    /\ cvRuns = [j \in Jobs |-> NoCv]
    /\ finalRuns = [j \in Jobs |-> NoFinal]
    /\ tmp = [i \in 1 .. FinalFit |-> Lost]
    /\ notebook = Closed
    /\ overlapped = FALSE

Active(l) == launch[l].step \notin {"idle", "done", "broken"}
Config(l) == ModelConfigs[launch[l].at]
Job(l) == <<l, Config(l).experiment>>
Goto(l, step) == launch' = [launch EXCEPT ![l].step = step]

\* The frames a launch works with.
Frames(l, i) ==
    IF i = FinalFit THEN PreprocessTestSet(data[l], Config(l))
                    ELSE PreprocessTrainFolds(data[l], Config(l))[i]

\* The rows that shaped what scores the others: weights, encoder, scaler.
Learnt(l, i) ==
    LET X == Frames(l, i).train IN X.rows \cup X.encoder \cup X.scaler

\* Mutant: the final fit stops early too, on the rows held out.
WatchedAlways(l, i) ==
    IF Config(l).experiment = "xgboost_model" THEN Frames(l, i).scored.rows ELSE {}

\* Early stopping: eval_set in a fold; switched off for the final fit.
Watched(l, i) ==
    IF Config(l).experiment = "xgboost_model" /\ i # FinalFit
    THEN Frames(l, i).scored.rows ELSE {}

Scored(l, i) == Frames(l, i).scored.rows

\* What the confusion matrices of the folds of a dataset count, added up.
ValidationRows(df) ==
    LET pre == Remaining(df)
    IN  FoldFunction(+, 0, [i \in 1 .. NSplits |-> Cardinality(FoldVal(pre, i))])
-----------------------------------------------------------------------------
\* run_training.main

Start(l, chosen) ==
    /\ launch[l].step = "idle"
    /\ launch' = [launch EXCEPT ![l].step = "prepare", ![l].chosen = chosen]
    /\ overlapped' = (overlapped \/ \E m \in Launches : Active(m))
    /\ notebook' = [notebook EXCEPT !.calm = FALSE]
    /\ UNCHANGED <<data, cvRuns, finalRuns, tmp>>

\* The next configuration, or the end of the script.
Advance(l) ==
    /\ data' = [data EXCEPT ![l] = {}]
    /\ IF launch[l].at < Len(ModelConfigs)
       THEN launch' = [launch EXCEPT ![l].step = "prepare", ![l].at = @ + 1, ![l].fold = 1]
       ELSE Goto(l, "done")

Skip(l) ==
    /\ launch[l].step = "prepare"
    /\ Config(l).experiment \notin launch[l].chosen
    /\ Advance(l)
    /\ UNCHANGED <<cvRuns, finalRuns, tmp, notebook, overlapped>>

\* prepare_training_data
LoadData(l) ==
    /\ launch[l].step = "prepare"
    /\ Config(l).experiment \in launch[l].chosen
    /\ \E df \in Marts :
           IF CanSplit(df)
           THEN data' = [data EXCEPT ![l] = df] /\ Goto(l, "cv")
           ELSE UNCHANGED data /\ Goto(l, "broken")
    /\ UNCHANGED <<cvRuns, finalRuns, tmp, notebook, overlapped>>

\* Any exception, or the end of the process.  Nothing is taken back.
Break(l) ==
    /\ Active(l)
    /\ Goto(l, "broken")
    /\ data' = [data EXCEPT ![l] = {}]
    /\ UNCHANGED <<cvRuns, finalRuns, tmp, notebook, overlapped>>
-----------------------------------------------------------------------------
\* trainer.run_cross_validation, mlflow_utils.log_fold_run

StartedBefore(runs, e) == {m \in Launches : runs[<<m, e>>].begun}

StartCv(l) ==
    /\ launch[l].step = "cv"
    /\ cvRuns' = [cvRuns EXCEPT ![Job(l)].begun = TRUE,
                      ![Job(l)].after = StartedBefore(cvRuns, Config(l).experiment)]
    /\ Goto(l, "fold")
    /\ UNCHANGED <<data, finalRuns, tmp, notebook, overlapped>>

\* The nested run is there before its model is fitted.
StartFold(l) ==
    /\ launch[l].step = "fold"
    /\ cvRuns' = [cvRuns EXCEPT ![Job(l)].folds = Append(@, Lost)]
    /\ Goto(l, "write")
    /\ UNCHANGED <<data, finalRuns, tmp, notebook, overlapped>>

WriteFold(l) ==
    /\ launch[l].step = "write"
    /\ tmp' = [tmp EXCEPT ![launch[l].fold] = Prediction(Job(l), launch[l].fold)]
    /\ Goto(l, "upload")
    /\ UNCHANGED <<data, cvRuns, finalRuns, notebook, overlapped>>

UploadFold(l) ==
    LET i == launch[l].fold
    IN  /\ launch[l].step = "upload"
        /\ cvRuns' = [cvRuns EXCEPT ![Job(l)].folds[i] = tmp[i]]
        /\ IF i < NSplits
           THEN launch' = [launch EXCEPT ![l].step = "fold", ![l].fold = i + 1]
           ELSE Goto(l, "aggregate")
        /\ UNCHANGED <<data, finalRuns, tmp, notebook, overlapped>>

\* metrics.aggregate_fold_metrics: counts are added up.
Aggregate(l) ==
    /\ launch[l].step = "aggregate"
    /\ cvRuns' = [cvRuns EXCEPT ![Job(l)].counted = ValidationRows(data[l])]
    /\ Goto(l, "final")
    /\ UNCHANGED <<data, finalRuns, tmp, notebook, overlapped>>
-----------------------------------------------------------------------------
\* trainer.train_final_model, mlflow_utils.log_final_run

StartFinal(l) ==
    /\ launch[l].step = "final"
    /\ finalRuns' = [finalRuns EXCEPT ![Job(l)].begun = TRUE,
                         ![Job(l)].after = StartedBefore(finalRuns, Config(l).experiment)]
    /\ Goto(l, "model")
    /\ UNCHANGED <<data, cvRuns, tmp, notebook, overlapped>>

LogArtefact(l, part, next) ==
    /\ launch[l].step = part
    /\ finalRuns' = [finalRuns EXCEPT ![Job(l)].has = @ \cup {part}]
    /\ Goto(l, next)
    /\ UNCHANGED <<data, cvRuns, tmp, notebook, overlapped>>

\* Mutant: the encoder is not logged.
LogModelOnly(l) == LogArtefact(l, "model", "dump")
LogModel(l) == LogArtefact(l, "model", "encoder")
LogEncoder(l) == LogArtefact(l, "encoder", IF Config(l).scale THEN "scaler" ELSE "dump")
LogScaler(l) == LogArtefact(l, "scaler", "dump")

WriteFinal(l) ==
    /\ launch[l].step = "dump"
    /\ tmp' = [tmp EXCEPT ![FinalFit] = Prediction(Job(l), FinalFit)]
    /\ Goto(l, "attach")
    /\ UNCHANGED <<data, cvRuns, finalRuns, notebook, overlapped>>

UploadFinal(l) ==
    /\ launch[l].step = "attach"
    /\ finalRuns' = [finalRuns EXCEPT ![Job(l)].has = @ \cup {"predictions"},
                                      ![Job(l)].predictions = tmp[FinalFit]]
    /\ Advance(l)
    /\ UNCHANGED <<cvRuns, tmp, notebook, overlapped>>
-----------------------------------------------------------------------------
\* evaluation/plots.ipynb: the cells of an experiment, in their order

\* search_runs(..., order_by=["start_time DESC"], max_results=1)
Latest(runs, e) ==
    {l \in StartedBefore(runs, e) :
        StartedBefore(runs, e) = runs[<<l, e>>].after \cup {l}}

Stay == UNCHANGED <<launch, data, cvRuns, finalRuns, tmp, overlapped>>

FindCv(e) ==
    /\ notebook.step = "closed"
    /\ Latest(cvRuns, e) # {}
    /\ notebook' = [Closed EXCEPT
           !.step = "folds", !.experiment = e, !.cv = Latest(cvRuns, e),
           !.calm = /\ ~overlapped
                    /\ \A l \in Launches : ~Active(l)
                    /\ \A l \in Latest(cvRuns, e) : launch[l].step = "done"]
    /\ Stay

\* Mutant: the folds of every cross-validation of the experiment are pooled.
PoolEveryFold ==
    /\ notebook.step = "folds"
    /\ LET folds == UNION {Range(cvRuns[<<l, notebook.experiment>>].folds) : l \in Launches}
       IN  /\ folds # {}
           /\ Lost \notin folds
           /\ notebook' = [notebook EXCEPT !.step = "final", !.pool = folds]
    /\ Stay

\* A fold without predictions, or no fold, raises.
PoolFolds ==
    /\ notebook.step = "folds"
    /\ \E l \in notebook.cv :
           LET folds == cvRuns[<<l, notebook.experiment>>].folds
           IN  /\ folds # <<>>
               /\ Lost \notin Range(folds)
               /\ notebook' = [notebook EXCEPT !.step = "final", !.pool = Range(folds)]
    /\ Stay

FindFinal ==
    /\ notebook.step = "final"
    /\ \E l \in Latest(finalRuns, notebook.experiment) :
           /\ "predictions" \in finalRuns[<<l, notebook.experiment>>].has
           /\ notebook' = [notebook EXCEPT !.step = "tuned", !.final = {l}]
    /\ Stay

\* The cell that is commented out.  Logging another value raises.
LogThreshold ==
    /\ notebook.step = "tuned"
    /\ notebook' = Closed
    /\ \E l \in notebook.final :
           LET job == <<l, notebook.experiment>>
           IN  finalRuns' = IF finalRuns[job].cut = {}
                            THEN [finalRuns EXCEPT ![job] =
                                     [@ EXCEPT !.cut = notebook.pool, !.calm = notebook.calm]]
                            ELSE finalRuns
    /\ UNCHANGED <<launch, data, cvRuns, tmp, overlapped>>

\* A cell raises, or the reader leaves.
Leave ==
    /\ notebook.step # "closed"
    /\ notebook' = Closed
    /\ Stay
-----------------------------------------------------------------------------
Step(l) ==
    \/ \E chosen \in Selections[l] : Start(l, chosen)
    \/ Skip(l) \/ LoadData(l) \/ Break(l)
    \/ StartCv(l) \/ StartFold(l) \/ WriteFold(l) \/ UploadFold(l) \/ Aggregate(l)
    \/ StartFinal(l) \/ LogModel(l) \/ LogEncoder(l) \/ LogScaler(l)
    \/ WriteFinal(l) \/ UploadFinal(l)

Next ==
    \/ \E l \in Launches : Step(l)
    \/ \E e \in Experiments : FindCv(e)
    \/ PoolFolds \/ FindFinal \/ LogThreshold \/ Leave

Spec == Init /\ [][Next]_vars
-----------------------------------------------------------------------------
CvSteps == {"cv", "fold", "write", "upload", "aggregate"}
FinalSteps == {"final", "model", "encoder", "scaler", "dump", "attach"}

TypeOK ==
    /\ launch \in [Launches ->
           [step : {"idle", "prepare", "done", "broken"} \cup CvSteps \cup FinalSteps,
            at : 1 .. Len(ModelConfigs), chosen : SUBSET Experiments, fold : 1 .. NSplits]]
    /\ data \in [Launches -> SUBSET Rows]
    /\ cvRuns \in [Jobs ->
           [begun : BOOLEAN, after : SUBSET Launches,
            folds : Seq(Predictions \cup {Lost}),
            counted : {0} \cup {ValidationRows(df) : df \in Marts}]]
    /\ finalRuns \in [Jobs ->
           [begun : BOOLEAN, after : SUBSET Launches,
            has : SUBSET {"model", "encoder", "scaler", "predictions"},
            predictions : Predictions \cup {Lost},
            cut : SUBSET Predictions, calm : BOOLEAN]]
    /\ tmp \in [1 .. FinalFit -> Predictions \cup {Lost}]
    /\ notebook \in
           [step : {"closed", "folds", "final", "tuned"}, experiment : Experiments,
            cv : SUBSET Launches, pool : SUBSET Predictions,
            final : SUBSET Launches, calm : BOOLEAN]
    /\ overlapped \in BOOLEAN

\* Nothing is scored, in a fold or at the end, by what learnt from its month or a
\* later one: not its weights, its encoder or its scaler.  That early stopping watches
\* the rows scored in a fold is not counted.
FoldsAreTemporal(l) ==
    \A i \in 1 .. FinalFit :
        \A r \in Scored(l, i), s \in Learnt(l, i) : s.date < r.date

\* The months held out come after everything a launch looks at before its final
\* model is scored: what it fits, what stops a fit, what tunes the threshold.
TestIsHeldOut(l) ==
    \A r \in Scored(l, FinalFit) :
        /\ \A i \in 1 .. FinalFit :
               \A s \in Learnt(l, i) \cup Watched(l, i) : s.date < r.date
        /\ \A i \in 1 .. NSplits : \A s \in Scored(l, i) : s.date < r.date

\* A launch that has prepared its data has done so without a row of the future: the
\* split of split.py, the fitting of preprocessing.py, the early stopping of trainer.py.
TemporalIsolation ==
    \A l \in Launches :
        launch[l].step = "cv" => FoldsAreTemporal(l) /\ TestIsHeldOut(l)

\* The counts of the confusion matrix that are added up over the folds count each
\* row once (aggregate_fold_metrics).
EachRowIsCountedOnce ==
    \A l \in Launches :
        launch[l].step = "final" =>
            cvRuns[Job(l)].counted = Cardinality(UNION {Scored(l, i) : i \in 1 .. NSplits})

\* The threshold of a final model was tuned on the predictions of all folds of its
\* own launch, and its test predictions are its own, although the notebook finds
\* the two runs one by one and all launches share the files under /tmp; provided no
\* launches overlapped, the latest one to cross-validate had finished when the
\* notebook was opened, and none was started since.
ThresholdIsItsOwn ==
    \A job \in Jobs :
        finalRuns[job].calm =>
            /\ finalRuns[job].cut = {Prediction(job, i) : i \in 1 .. NSplits}
            /\ finalRuns[job].predictions = Prediction(job, FinalFit)

Columns(frame) == <<frame.cols, frame.oneHot>>

\* What is scored has the columns its model was fitted on, with categories that
\* training has not seen and companies the database does not know: in the folds,
\* on the test set, and in both ways into the model that is served.
ColumnsAgree ==
    \A l \in Launches : launch[l].step = "cv" =>
        /\ \A i \in 1 .. FinalFit :
               Columns(Frames(l, i).train) = Columns(Frames(l, i).scored)
        /\ Config(l).experiment = Served =>
               LET X == Frames(l, FinalFit).train
               IN  \A cols \in {QueryCols, AdHocCols} :
                       Columns(ScoreFeatures(cols, X.encoder)) = Columns(X)

\* The final_model runs of an experiment that inference reads, as MLflow shows them, and
\* of each threshold the launches whose predictions it was tuned on.
FinalsOf(runs) ==
    [l \in Launches |-> [begun |-> runs[<<l, Served>>].begun,
                         after |-> runs[<<l, Served>>].after,
                         has   |-> runs[<<l, Served>>].has,
                         cut   |-> {p[1] : p \in runs[<<l, Served>>].cut}]]
Tunings == (SUBSET Launches) \ {{}}

\* Does the served family log a scaler?
ServedIsScaled ==
    \E k \in 1 .. Len(ModelConfigs) : ModelConfigs[k].experiment = Served /\ ModelConfigs[k].scale

Registry == INSTANCE ModelRegistry WITH
    Runs <- Launches, Scaled <- ServedIsScaled, Cuts <- Tunings, NoCut <- {},
    finals <- FinalsOf(finalRuns)

\* What launches and notebook do to their experiment is what those who load models
\* rely on (log_final_run, plots.ipynb).
ImplementsRegistry == Registry!RegistrySpec
=============================================================================
