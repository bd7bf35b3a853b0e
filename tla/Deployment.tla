----------------------------- MODULE Deployment -----------------------------
(***************************************************************************)
(* The whole way from the star schema to an answer: launches of the         *)
(* training script and the notebook write to MLflow while the API process   *)
(* loads what it finds there.  The two share nothing else.                  *)
(***************************************************************************)
EXTENDS Training

CONSTANTS
    Requests,   \* threads of the API process
    Sites,      \* the two functions called get_loaded_model
    NoRunId     \* no run found

VARIABLES
    cache,      \* of each site: at most one bundle
    req         \* of each request: its step, and what its load has in hand

Serving == INSTANCE ModelServing WITH
    Runs <- Launches, Scaled <- ServedIsScaled, Cuts <- Tunings, NoCut <- {},
    finals <- FinalsOf(finalRuns)

deploymentVars == <<vars, cache, req>>

DeploymentInit ==
    /\ Init
    /\ cache = [s \in Sites |-> {}]
    /\ req = [q \in Requests |-> Serving!Idle]

Train == Next /\ UNCHANGED <<cache, req>>

Answer ==
    /\ UNCHANGED vars
    /\ \/ \E q \in Requests : Serving!Proceed(q) \/ \E s \in Sites : Serving!Ask(q, s)
       \/ Serving!Restart

DeploymentNext == Train \/ Answer

DeploymentSpec == DeploymentInit /\ [][DeploymentNext]_deploymentVars
-----------------------------------------------------------------------------
\* What ModelServing promises of any registry it promises of this one.
ServesWhatIsTrained == Serving!Spec

\* An answer comes from a model whose threshold was tuned on the predictions of the
\* very launch that trained it, whatever was trained and tuned between the calls of the
\* load; provided the run was tuned with no other launch beside it or since.
ServedAsTuned ==
    \A b \in Serving!InUse :
        finalRuns[<<b.model, Served>>].calm =>
            /\ b.cut = {b.model}
            /\ finalRuns[<<b.model, Served>>].predictions
                   = Prediction(<<b.model, Served>>, FinalFit)
=============================================================================
