--------------------------- MODULE ModelRegistry ---------------------------
(***************************************************************************)
(* What those who load a model see of one experiment in MLflow: its         *)
(* final_model runs.  A run is created, receives its artefacts one by one,  *)
(* in the order of log_final_run, or stops receiving them at any point, and *)
(* may be given the selected_threshold once its predictions are there.      *)
(* The status of a run is not here: no reader asks for it.                  *)
(***************************************************************************)
EXTENDS Naturals, FiniteSets

CONSTANTS
    Runs,       \* final_model runs there may be
    Scaled,     \* does this family log a scaler?
    Cuts,       \* thresholds
    NoCut       \* no selected_threshold logged

ASSUME RegistryAssumption == Scaled \in BOOLEAN /\ NoCut \notin Cuts

VARIABLE finals

Parts ==
    {"model", "encoder", "predictions"} \cup (IF Scaled THEN {"scaler"} ELSE {})

\* The artefacts logged before a part.
Before(p) ==
    CASE p = "model"   -> {}
      [] p = "encoder" -> {"model"}
      [] p = "scaler"  -> {"model", "encoder"}
      [] OTHER         -> Parts \ {"predictions"}

NoRun == [begun |-> FALSE, after |-> {}, has |-> {}, cut |-> NoCut]

RegistryTypeOK ==
    finals \in [Runs -> [begun : BOOLEAN, after : SUBSET Runs,
                         has : SUBSET Parts, cut : Cuts \cup {NoCut}]]

Begun == {r \in Runs : finals[r].begun}

\* search_runs(order_by=["start_time DESC"], max_results=1)
IsLatest(r) == r \in Begun /\ Begun = finals[r].after \cup {r}

RegistryInit == finals = [r \in Runs |-> NoRun]

Begin(r) ==
    /\ ~finals[r].begun
    /\ finals' = [finals EXCEPT ![r].begun = TRUE, ![r].after = Begun]

Log(r, p) ==
    /\ finals[r].begun
    /\ finals[r].has = Before(p)
    /\ finals' = [finals EXCEPT ![r].has = @ \cup {p}]

\* MLflow refuses another value for a parameter that is there.
Select(r) ==
    /\ "predictions" \in finals[r].has
    /\ finals[r].cut = NoCut
    /\ \E c \in Cuts : finals' = [finals EXCEPT ![r].cut = c]

RegistryNext ==
    \E r \in Runs :
        \/ Begin(r)
        \/ \E p \in Parts : Log(r, p)
        \/ Select(r)

RegistrySpec == RegistryInit /\ [][RegistryNext]_finals
=============================================================================
