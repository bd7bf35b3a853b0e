---------------------------- MODULE ModelServing ----------------------------
(***************************************************************************)
(* The model behind /predict and behind the agent's predictor node: each of *)
(* the two keeps, in the same process, a functools.cache of one bundle that *)
(* load_model makes of the latest final_model run, over several calls to    *)
(* MLflow, while training goes on.                                          *)
(*                                                                          *)
(* The cache takes no lock over the call it remembers: requests that find   *)
(* it empty all load, each stores what it has loaded, and an exception      *)
(* leaves it as it is.                                                      *)
(***************************************************************************)
EXTENDS ModelRegistry

CONSTANTS
    Requests,   \* threads of the API process
    Sites,      \* the two functions called get_loaded_model
    NoRunId     \* no run found

VARIABLES
    cache,      \* of each site: at most one bundle
    req         \* of each request: its step, and what its load has in hand

servingVars == <<finals, cache, req>>

\* A part is known by the run it was downloaded from.  seen is history: the runs
\* there were when the latest was looked up.
Bundle == [model : Runs, encoder : Runs, scaler : SUBSET Runs, cut : Cuts,
           seen : SUBSET Runs]

Idle == [step |-> "idle", site |-> "", run |-> NoRunId, cut |-> NoCut,
         names |-> {}, seen |-> {}, bundle |-> {}]

LoadSteps == {"find", "model", "encoder", "params", "list", "build"}
EndSteps == {"answered", "not_found", "load_error", "no_snapshot", "db_error"}

ServingTypeOK ==
    /\ cache \in [Sites -> SUBSET Bundle]
    /\ req \in [Requests ->
           [step : {"idle", "score"} \cup LoadSteps \cup EndSteps,
            site : Sites \cup {""}, run : Runs \cup {NoRunId}, cut : Cuts \cup {NoCut},
            names : SUBSET Parts, seen : SUBSET Runs, bundle : SUBSET Bundle]]

TypeOK == RegistryTypeOK /\ ServingTypeOK

Init ==
    /\ RegistryInit
    /\ cache = [s \in Sites |-> {}]
    /\ req = [q \in Requests |-> Idle]

Goto(q, step) == req' = [req EXCEPT ![q].step = step]
Has(q, part) == part \in finals[req[q].run].has
-----------------------------------------------------------------------------
\* get_loaded_model: a hit returns the bundle, a miss calls load_model.
Ask(q, s) ==
    /\ req[q].step = "idle"
    /\ req' = [req EXCEPT ![q].site = s,
                          ![q].bundle = cache[s],
                          ![q].step = IF cache[s] = {} THEN "find" ELSE "score"]
    /\ UNCHANGED <<finals, cache>>

\* Mutant: the order of the search is left out.
FindAny(q) ==
    /\ req[q].step = "find"
    /\ IF Begun = {}
       THEN Goto(q, "load_error")
       ELSE \E r \in Begun :
                req' = [req EXCEPT ![q].step = "model", ![q].run = r, ![q].seen = Begun]
    /\ UNCHANGED <<finals, cache>>

\* Mutant: the search is in ascending order.
FindFirst(q) ==
    /\ req[q].step = "find"
    /\ IF Begun = {}
       THEN Goto(q, "load_error")
       ELSE \E r \in Begun :
                /\ finals[r].after = {}
                /\ req' = [req EXCEPT ![q].step = "model", ![q].run = r, ![q].seen = Begun]
    /\ UNCHANGED <<finals, cache>>

\* The latest final_model run, whatever its status; none raises.
FindLatest(q) ==
    /\ req[q].step = "find"
    /\ IF Begun = {}
       THEN Goto(q, "load_error")
       ELSE \E r \in Begun :
                /\ IsLatest(r)
                /\ req' = [req EXCEPT ![q].step = "model", ![q].run = r, ![q].seen = Begun]
    /\ UNCHANGED <<finals, cache>>

\* An artefact that is not there raises.
LoadModel(q) ==
    /\ req[q].step = "model"
    /\ Goto(q, IF Has(q, "model") THEN "encoder" ELSE "load_error")
    /\ UNCHANGED <<finals, cache>>

LoadEncoder(q) ==
    /\ req[q].step = "encoder"
    /\ Goto(q, IF Has(q, "encoder") THEN "params" ELSE "load_error")
    /\ UNCHANGED <<finals, cache>>

\* client.get_run: the parameters as they are now.
GetRun(q) ==
    /\ req[q].step = "params"
    /\ req' = [req EXCEPT ![q].step = "list", ![q].cut = finals[req[q].run].cut]
    /\ UNCHANGED <<finals, cache>>

ListArtifacts(q) ==
    /\ req[q].step = "list"
    /\ req' = [req EXCEPT ![q].step = "build", ![q].names = finals[req[q].run].has]
    /\ UNCHANGED <<finals, cache>>

\* Mutant: the threshold is that of the latest run when the bundle is put together.
BuildWithLatest(q) ==
    /\ req[q].step = "build"
    /\ \E r \in Begun :
           /\ IsLatest(r)
           /\ IF finals[r].cut = NoCut
              THEN Goto(q, "load_error") /\ UNCHANGED cache
              ELSE LET b == [model |-> req[q].run, encoder |-> req[q].run,
                             scaler |-> {x \in {req[q].run} : "scaler" \in req[q].names},
                             cut |-> finals[r].cut, seen |-> req[q].seen]
                   IN  /\ req' = [req EXCEPT ![q].step = "score", ![q].bundle = {b}]
                       /\ cache' = [cache EXCEPT ![req[q].site] = {b}]
    /\ UNCHANGED finals

\* The scaler if there is one, the threshold or a KeyError, and the cache.
Build(q) ==
    /\ req[q].step = "build"
    /\ IF req[q].cut = NoCut
       THEN Goto(q, "load_error") /\ UNCHANGED cache
       ELSE LET b == [model |-> req[q].run, encoder |-> req[q].run,
                      scaler |-> {r \in {req[q].run} : "scaler" \in req[q].names},
                      cut |-> req[q].cut, seen |-> req[q].seen]
            IN  /\ req' = [req EXCEPT ![q].step = "score", ![q].bundle = {b}]
                /\ cache' = [cache EXCEPT ![req[q].site] = {b}]
    /\ UNCHANGED finals
-----------------------------------------------------------------------------
\* predict_ad_hoc, predict_case_b: what the request holds is scored.
ScoreAdHoc(q) ==
    /\ req[q].step = "score"
    /\ Goto(q, "answered")
    /\ UNCHANGED <<finals, cache>>

\* predict_company, predict_case_a: either of the two queries may fail, the name may be
\* unknown (404), and a company that is in dim_companies may have no row in the fact
\* table (an IndexError).
ScoreCompany(q) ==
    /\ req[q].step = "score"
    /\ \E step \in {"answered", "not_found", "no_snapshot", "db_error"} : Goto(q, step)
    /\ UNCHANGED <<finals, cache>>

Return(q) ==
    /\ req[q].step \in EndSteps
    /\ req' = [req EXCEPT ![q] = Idle]
    /\ UNCHANGED <<finals, cache>>

\* The process is gone, with its caches.
Restart ==
    /\ cache' = [s \in Sites |-> {}]
    /\ req' = [q \in Requests |-> Idle]
    /\ UNCHANGED finals

\* Training and the notebook.
Register == RegistryNext /\ UNCHANGED <<cache, req>>

Proceed(q) ==
    \/ FindLatest(q) \/ LoadModel(q) \/ LoadEncoder(q) \/ GetRun(q)
    \/ ListArtifacts(q) \/ Build(q)
    \/ ScoreAdHoc(q) \/ ScoreCompany(q) \/ Return(q)

Next ==
    \/ \E q \in Requests : Proceed(q) \/ \E s \in Sites : Ask(q, s)
    \/ Restart
    \/ Register

Spec == Init /\ [][Next]_servingVars
\* A thread runs on; nobody has to ask, train or tune.
FairSpec == Spec /\ \A q \in Requests : WF_servingVars(Proceed(q))
-----------------------------------------------------------------------------
InUse ==
    (UNION {cache[s] : s \in Sites}) \cup (UNION {req[q].bundle : q \in Requests})

\* No answer is computed with parts of two runs, without the scaler of a family that
\* needs one, or with a threshold other than that of its model, although the run may
\* still be logging when it is loaded (model_loader.load_model).
BundlesAreWhole ==
    \A b \in InUse :
        /\ b.encoder = b.model
        /\ b.scaler = IF Scaled THEN {b.model} ELSE {}
        /\ b.cut = finals[b.model].cut

\* /predict and the agent, one before a restart and one after it, decide alike unless
\* a final_model run was started in between: loads that could see the same runs have
\* made the same bundle, whenever they ended.
SameViewSameBundle == \A b, c \in InUse : b.seen = c.seen => b = c

Servable == \E r \in Begun : IsLatest(r) /\ finals[r].cut # NoCut

\* A failed load is not remembered: once the latest run has its threshold for good,
\* requests no longer fail to load the model.
LoadsRecover ==
    (<>[]Servable) => <>[](\A q \in Requests : req[q].step # "load_error")
=============================================================================
