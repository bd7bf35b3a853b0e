--------------------------- MODULE ServingProofs ---------------------------
(***************************************************************************)
(* What holds of the bundles that are served for any numbers of requests,  *)
(* caches and final_model runs, while runs go on being logged and tuned.   *)
(***************************************************************************)
EXTENDS ModelServing, TLAPS

\* What a run has logged is a beginning of what log_final_run logs, and only a
\* run that has logged all of it has a threshold.
LoggedInOrder ==
    \A r \in Runs :
        /\ \A p \in finals[r].has : Before(p) \subseteq finals[r].has
        /\ finals[r].cut # NoCut => "predictions" \in finals[r].has

\* Of two runs one was started after the other.
StartedInOrder ==
    \A r \in Runs :
        /\ r \notin finals[r].after
        /\ finals[r].after \subseteq Begun
        /\ \A s \in Runs : r \in finals[s].after => s \notin finals[r].after

RegistryInv == RegistryTypeOK /\ LoggedInOrder /\ StartedInOrder

\* A load in progress: the run it has found, and what it may have learnt of it.
LoadInv ==
  /\ \A q \in Requests : req[q].step \in LoadSteps => req[q].site \in Sites
  /\ \A q \in Requests : req[q].step \in LoadSteps \ {"find"} =>
        /\ req[q].run \in Runs
        /\ req[q].run \in Begun
        /\ req[q].seen = finals[req[q].run].after \cup {req[q].run}
        /\ req[q].step \in {"list", "build"} /\ req[q].cut # NoCut
               => req[q].cut = finals[req[q].run].cut
        /\ req[q].step = "build" /\ req[q].cut # NoCut => req[q].names = Parts

\* A bundle in a cache, or in the hands of a request.
GoodBundle(b) ==
    /\ b \in Bundle
    /\ b.model \in Begun
    /\ b.encoder = b.model
    /\ b.scaler = IF Scaled THEN {b.model} ELSE {}
    /\ b.cut = finals[b.model].cut
    /\ b.seen = finals[b.model].after \cup {b.model}

BundleInv == \A b \in InUse : GoodBundle(b)

Inv == TypeOK /\ RegistryInv /\ LoadInv /\ BundleInv

LEMMA UseIsOfSomeone ==
    /\ \A b : b \in InUse <=> \/ \E s \in Sites : b \in cache[s]
                             \/ \E q \in Requests : b \in req[q].bundle
    /\ \A b : b \in InUse' <=> \/ \E s \in Sites : b \in cache'[s]
                              \/ \E q \in Requests : b \in req'[q].bundle
<1>1. \A b : b \in UNION {cache[s] : s \in Sites} <=> \E s \in Sites : b \in cache[s]
  BY Zenon
<1>2. \A b : b \in UNION {req[q].bundle : q \in Requests}
                <=> \E q \in Requests : b \in req[q].bundle
  BY Zenon
<1>3. \A b : b \in UNION {cache'[s] : s \in Sites} <=> \E s \in Sites : b \in cache'[s]
  BY Zenon
<1>4. \A b : b \in UNION {req'[q].bundle : q \in Requests}
                <=> \E q \in Requests : b \in req'[q].bundle
  BY Zenon
<1>5. \A b : b \in InUse <=> \/ b \in UNION {cache[s] : s \in Sites}
                            \/ b \in UNION {req[q].bundle : q \in Requests}
  BY DEF InUse
<1>6. \A b : b \in InUse' <=> \/ b \in UNION {cache'[s] : s \in Sites}
                             \/ b \in UNION {req'[q].bundle : q \in Requests}
  BY DEF InUse
<1> QED
  BY <1>1, <1>2, <1>3, <1>4, <1>5, <1>6, Zenon
-----------------------------------------------------------------------------
(* What training and the notebook do to the runs *)

\* What an action on the runs leaves as it was, whoever looks at it.
Kept ==
    /\ Begun \subseteq Begun'
    /\ \A r \in Runs :
        /\ r \in Begun => finals'[r].after = finals[r].after
        /\ finals[r].has \subseteq finals'[r].has
        /\ finals[r].cut # NoCut => finals'[r].cut = finals[r].cut

LEMMA WholeWhenTuned ==
    ASSUME RegistryInv, NEW r \in Runs, finals[r].cut # NoCut
    PROVE  finals[r].has = Parts
<1>1. "predictions" \in finals[r].has
  BY DEF RegistryInv, LoggedInOrder
<1>2. Before("predictions") = Parts \ {"predictions"}
  BY DEF Before
<1>3. finals[r].has \subseteq Parts
  BY DEF RegistryInv, RegistryTypeOK
<1> QED
  BY <1>1, <1>2, <1>3 DEF RegistryInv, LoggedInOrder

LEMMA BeginKeeps ==
    ASSUME RegistryInv, NEW r \in Runs, Begin(r)
    PROVE  RegistryInv' /\ Kept
<1> USE DEF RegistryInv, RegistryTypeOK, Begin, Begun
<1>1. \A s \in Runs : s # r => finals'[s] = finals[s]
  OBVIOUS
<1>2. finals'[r].begun /\ finals'[r].after = Begun
      /\ finals'[r].has = finals[r].has /\ finals'[r].cut = finals[r].cut
  OBVIOUS
<1>3. RegistryTypeOK'
  <2>1. Begun \in SUBSET Runs
    OBVIOUS
  <2>2. [finals[r] EXCEPT !.begun = TRUE, !.after = Begun]
            \in [begun : BOOLEAN, after : SUBSET Runs, has : SUBSET Parts,
                 cut : Cuts \cup {NoCut}]
    <3>1. finals[r] \in [begun : BOOLEAN, after : SUBSET Runs, has : SUBSET Parts,
                         cut : Cuts \cup {NoCut}]
      OBVIOUS
    <3> HIDE DEF Begun, RegistryInv, RegistryTypeOK, Begin
    <3> QED
      BY <2>1, <3>1
  <2> HIDE DEF Begun
  <2> QED
    BY <2>2
<1>4. LoggedInOrder'
  BY <1>1, <1>2 DEF LoggedInOrder
<1>5. Begun' = Begun \cup {r} /\ r \notin Begun
  BY <1>1, <1>2
<1>6. StartedInOrder'
  BY <1>1, <1>2, <1>5 DEF StartedInOrder
<1>7. Kept
  BY <1>1, <1>2, <1>5 DEF Kept
<1> QED
  BY <1>3, <1>4, <1>6, <1>7

LEMMA LogKeeps ==
    ASSUME RegistryInv, NEW r \in Runs, NEW p \in Parts, Log(r, p)
    PROVE  RegistryInv' /\ Kept
<1> USE DEF RegistryInv, RegistryTypeOK, Log, Begun
<1>1. \A s \in Runs : /\ finals'[s].begun = finals[s].begun
                      /\ finals'[s].after = finals[s].after
                      /\ finals'[s].cut = finals[s].cut
                      /\ s # r => finals'[s].has = finals[s].has
  OBVIOUS
<1>2. finals'[r].has = finals[r].has \cup {p} /\ Before(p) = finals[r].has
  OBVIOUS
<1>3. RegistryTypeOK'
  OBVIOUS
<1>4. LoggedInOrder'
  BY <1>1, <1>2 DEF LoggedInOrder
<1>5. Begun' = Begun
  BY <1>1
<1>6. StartedInOrder'
  BY <1>1, <1>5 DEF StartedInOrder
<1>7. Kept
  BY <1>1, <1>2, <1>5 DEF Kept
<1> QED
  BY <1>3, <1>4, <1>6, <1>7

LEMMA SelectKeeps ==
    ASSUME RegistryInv, NEW r \in Runs, Select(r)
    PROVE  RegistryInv' /\ Kept
<1> USE DEF RegistryInv, RegistryTypeOK, Select, Begun
<1>1. PICK c \in Cuts : finals' = [finals EXCEPT ![r].cut = c]
  OBVIOUS
<1>2. \A s \in Runs : /\ finals'[s].begun = finals[s].begun
                      /\ finals'[s].after = finals[s].after
                      /\ finals'[s].has = finals[s].has
                      /\ s # r => finals'[s].cut = finals[s].cut
  BY <1>1
<1>3. RegistryTypeOK'
  BY <1>1
<1>4. LoggedInOrder'
  BY <1>2 DEF LoggedInOrder
<1>5. Begun' = Begun
  BY <1>2
<1>6. StartedInOrder'
  BY <1>2, <1>5 DEF StartedInOrder
<1>7. Kept
  BY <1>2, <1>5 DEF Kept
<1> QED
  BY <1>3, <1>4, <1>6, <1>7

LEMMA RegistryKeeps == RegistryInv /\ RegistryNext => RegistryInv' /\ Kept
  BY BeginKeeps, LogKeeps, SelectKeeps DEF RegistryNext
-----------------------------------------------------------------------------
(* What an action on the runs leaves true of loads and bundles *)

LEMMA RegisterPreserves == Inv /\ Register => Inv'
<1> SUFFICES ASSUME Inv, Register PROVE Inv'
  OBVIOUS
<1>1. RegistryInv' /\ Kept
  BY RegistryKeeps DEF Inv, Register
<1>2. cache' = cache /\ req' = req
  BY DEF Register
<1>3. TypeOK'
  BY <1>1, <1>2 DEF Inv, TypeOK, ServingTypeOK, RegistryInv, Bundle
<1>4. LoadInv'
  <2> SUFFICES ASSUME NEW q \in Requests, req[q].step \in LoadSteps \ {"find"}
               PROVE  /\ req[q].run \in Runs
                      /\ req[q].run \in Begun'
                      /\ req[q].seen = finals'[req[q].run].after \cup {req[q].run}
                      /\ req[q].step \in {"list", "build"} /\ req[q].cut # NoCut
                             => req[q].cut = finals'[req[q].run].cut
                      /\ req[q].step = "build" /\ req[q].cut # NoCut
                             => req[q].names = Parts
    BY <1>2 DEF Inv, LoadInv
  <2> QED
    BY <1>1 DEF Inv, LoadInv, Kept
<1>5. BundleInv'
  <2>1. InUse' = InUse
    BY <1>2 DEF InUse
  <2>2. ASSUME NEW b \in InUse PROVE GoodBundle(b)'
    <3>1. GoodBundle(b) /\ b.cut # NoCut /\ b.model \in Runs
      BY RegistryAssumption DEF Inv, BundleInv, GoodBundle, Bundle
    <3> QED
      BY <1>1, <3>1 DEF GoodBundle, Kept
  <2> QED
    BY <2>1, <2>2 DEF BundleInv
<1> QED
  BY <1>1, <1>3, <1>4, <1>5 DEF Inv
-----------------------------------------------------------------------------
(* What a request does *)

\* A request only changes itself and puts in the caches what it holds.
LEMMA RequestPreserves ==
    ASSUME Inv, finals' = finals, NEW q \in Requests, NEW new,
           req' = [req EXCEPT ![q] = new],
           new \in [step : {"idle", "score"} \cup LoadSteps \cup EndSteps,
                    site : Sites \cup {""}, run : Runs \cup {NoRunId},
                    cut : Cuts \cup {NoCut}, names : SUBSET Parts,
                    seen : SUBSET Runs, bundle : SUBSET Bundle],
           \A b \in new.bundle : GoodBundle(b),
           \/ cache' = cache
           \/ \E s \in Sites : cache' = [cache EXCEPT ![s] = new.bundle],
           new.step \in LoadSteps => new.site \in Sites,
           new.step \in LoadSteps \ {"find"} =>
               /\ new.run \in Runs
               /\ new.run \in Begun
               /\ new.seen = finals[new.run].after \cup {new.run}
               /\ new.step \in {"list", "build"} /\ new.cut # NoCut
                      => new.cut = finals[new.run].cut
               /\ new.step = "build" /\ new.cut # NoCut => new.names = Parts
    PROVE  Inv'
<1>1. req'[q] = new /\ \A p \in Requests : p # q => req'[p] = req[p]
  BY DEF Inv, TypeOK, ServingTypeOK
<1>2. ServingTypeOK'
  BY DEF Inv, TypeOK, ServingTypeOK
<1>3. RegistryInv' /\ Begun' = Begun
  BY DEF Inv, RegistryInv, RegistryTypeOK, LoggedInOrder, StartedInOrder, Begun
<1>4. LoadInv'
  <2> SUFFICES ASSUME NEW p \in Requests, req'[p].step \in LoadSteps \ {"find"}
               PROVE  /\ req'[p].run \in Runs
                      /\ req'[p].run \in Begun
                      /\ req'[p].seen = finals[req'[p].run].after \cup {req'[p].run}
                      /\ req'[p].step \in {"list", "build"} /\ req'[p].cut # NoCut
                             => req'[p].cut = finals[req'[p].run].cut
                      /\ req'[p].step = "build" /\ req'[p].cut # NoCut
                             => req'[p].names = Parts
    <3>1. \A p \in Requests : req'[p].step \in LoadSteps => req'[p].site \in Sites
      BY <1>1 DEF Inv, LoadInv
    <3> QED
      BY <1>3, <3>1 DEF LoadInv
  <2>1. CASE p = q
    BY <1>1, <2>1
  <2>2. CASE p # q
    BY <1>1, <2>2 DEF Inv, LoadInv
  <2> QED
    BY <2>1, <2>2
<1>5. ASSUME NEW b \in InUse' PROVE b \in InUse \/ b \in new.bundle
  <2>1. ASSUME NEW s \in Sites, b \in cache'[s] PROVE b \in cache[s] \/ b \in new.bundle
    BY <2>1 DEF Inv, TypeOK, ServingTypeOK
  <2>2. ASSUME NEW p \in Requests, b \in req'[p].bundle
        PROVE  b \in req[p].bundle \/ b \in new.bundle
    BY <1>1, <2>2
  <2>3. \/ \E s \in Sites : b \in cache'[s]
        \/ \E p \in Requests : b \in req'[p].bundle
    BY <1>5, UseIsOfSomeone
  <2>4. \/ \E s \in Sites : b \in cache[s]
        \/ \E p \in Requests : b \in req[p].bundle
        \/ b \in new.bundle
    BY <2>1, <2>2, <2>3
  <2> QED
    BY <2>4, UseIsOfSomeone
<1>6. ASSUME NEW b, GoodBundle(b) PROVE GoodBundle(b)'
  BY <1>3, <1>6 DEF GoodBundle
<1>7. BundleInv'
  BY <1>5, <1>6 DEF BundleInv, Inv
<1> QED
  BY <1>2, <1>3, <1>4, <1>7 DEF Inv, TypeOK, RegistryInv

LEMMA AskPreserves ==
    ASSUME Inv, NEW q \in Requests, NEW s \in Sites, Ask(q, s) PROVE Inv'
<1> DEFINE new == [req[q] EXCEPT !.site = s, !.bundle = cache[s],
                                 !.step = IF cache[s] = {} THEN "find" ELSE "score"]
<1>1. req' = [req EXCEPT ![q] = new] /\ finals' = finals /\ cache' = cache
  BY DEF Ask
<1>2. /\ new.step \in {"find", "score"}
      /\ new.bundle = cache[s] /\ new.site = s
      /\ new \in [step : {"idle", "score"} \cup LoadSteps \cup EndSteps,
                  site : Sites \cup {""}, run : Runs \cup {NoRunId},
                  cut : Cuts \cup {NoCut}, names : SUBSET Parts,
                  seen : SUBSET Runs, bundle : SUBSET Bundle]
  BY DEF Inv, TypeOK, ServingTypeOK, LoadSteps
<1>3. \A b \in new.bundle : GoodBundle(b)
  BY <1>2, UseIsOfSomeone DEF Inv, BundleInv
<1> HIDE DEF new
<1> QED
  BY <1>1, <1>2, <1>3, RequestPreserves DEF LoadSteps

\* A step of a load that puts nothing in a cache, or the end of a request.
LEMMA StepPreserves ==
    ASSUME Inv, NEW q \in Requests,
           NEW step \in {"idle", "score"} \cup LoadSteps \cup EndSteps,
           Goto(q, step), finals' = finals, cache' = cache,
           \/ step \notin LoadSteps
           \/ req[q].step = "model" /\ step = "encoder"
           \/ req[q].step = "encoder" /\ step = "params"
    PROVE  Inv'
<1> DEFINE new == [req[q] EXCEPT !.step = step]
<1>1. req' = [req EXCEPT ![q] = new]
  BY DEF Goto
<1>2. /\ new.step = step
      /\ new.bundle = req[q].bundle /\ new.run = req[q].run /\ new.seen = req[q].seen
      /\ new.site = req[q].site
      /\ new \in [step : {"idle", "score"} \cup LoadSteps \cup EndSteps,
                  site : Sites \cup {""}, run : Runs \cup {NoRunId},
                  cut : Cuts \cup {NoCut}, names : SUBSET Parts,
                  seen : SUBSET Runs, bundle : SUBSET Bundle]
  BY DEF Inv, TypeOK, ServingTypeOK
<1>3. \A b \in new.bundle : GoodBundle(b)
  BY <1>2, UseIsOfSomeone DEF Inv, BundleInv
<1>4. /\ new.step \in LoadSteps => new.site \in Sites
      /\ new.step \in LoadSteps \ {"find"} =>
          /\ new.run \in Runs
          /\ new.run \in Begun
          /\ new.seen = finals[new.run].after \cup {new.run}
          /\ new.step \notin {"list", "build"}
  BY <1>2 DEF Inv, LoadInv, LoadSteps
<1> HIDE DEF new
<1> QED
  BY <1>1, <1>2, <1>3, <1>4, RequestPreserves

LEMMA FindPreserves ==
    ASSUME Inv, NEW q \in Requests, FindLatest(q) PROVE Inv'
<1>1. CASE Begun = {}
  BY <1>1, StepPreserves DEF FindLatest, EndSteps, LoadSteps
<1>2. CASE Begun # {}
  <2>1. PICK r \in Begun :
            /\ IsLatest(r)
            /\ req' = [req EXCEPT ![q].step = "model", ![q].run = r, ![q].seen = Begun]
    BY <1>2 DEF FindLatest
  <2> DEFINE new == [req[q] EXCEPT !.step = "model", !.run = r, !.seen = Begun]
  <2>2. req' = [req EXCEPT ![q] = new] /\ finals' = finals /\ cache' = cache
    BY <2>1 DEF FindLatest
  <2>3. Begun \in SUBSET Runs /\ r \in Runs
    BY DEF Begun
  <2>4. /\ new.step = "model" /\ new.run = r /\ new.seen = Begun
        /\ new.bundle = req[q].bundle /\ new.site = req[q].site
        /\ new \in [step : {"idle", "score"} \cup LoadSteps \cup EndSteps,
                    site : Sites \cup {""}, run : Runs \cup {NoRunId},
                    cut : Cuts \cup {NoCut}, names : SUBSET Parts,
                    seen : SUBSET Runs, bundle : SUBSET Bundle]
    BY <2>3 DEF Inv, TypeOK, ServingTypeOK, LoadSteps
  <2>5. \A b \in new.bundle : GoodBundle(b)
    BY <2>4, UseIsOfSomeone DEF Inv, BundleInv
  <2>6. new.site \in Sites /\ Begun = finals[r].after \cup {r}
    BY <2>1, <2>4 DEF Inv, LoadInv, FindLatest, LoadSteps, IsLatest
  <2> HIDE DEF new
  <2> QED
    BY <2>2, <2>3, <2>4, <2>5, <2>6, RequestPreserves
<1> QED
  BY <1>1, <1>2

\* The threshold a load reads is that of its run, whenever it is logged later.
LEMMA GetRunPreserves ==
    ASSUME Inv, NEW q \in Requests, GetRun(q) PROVE Inv'
<1> DEFINE run == req[q].run
           new == [req[q] EXCEPT !.step = "list", !.cut = finals[run].cut]
<1>1. req' = [req EXCEPT ![q] = new] /\ finals' = finals /\ cache' = cache
  BY DEF GetRun
<1>2. run \in Runs /\ run \in Begun /\ req[q].seen = finals[run].after \cup {run}
      /\ req[q].site \in Sites
  BY DEF GetRun, Inv, LoadInv, LoadSteps
<1>3. finals[run].cut \in Cuts \cup {NoCut}
  BY <1>2 DEF Inv, RegistryInv, RegistryTypeOK
<1>4. /\ new.step = "list" /\ new.run = run /\ new.seen = req[q].seen
      /\ new.cut = finals[run].cut
      /\ new.bundle = req[q].bundle /\ new.site = req[q].site
      /\ new \in [step : {"idle", "score"} \cup LoadSteps \cup EndSteps,
                  site : Sites \cup {""}, run : Runs \cup {NoRunId},
                  cut : Cuts \cup {NoCut}, names : SUBSET Parts,
                  seen : SUBSET Runs, bundle : SUBSET Bundle]
  BY <1>3 DEF Inv, TypeOK, ServingTypeOK, LoadSteps
<1>5. \A b \in new.bundle : GoodBundle(b)
  BY <1>4, UseIsOfSomeone DEF Inv, BundleInv
<1> HIDE DEF new, run
<1> QED
  BY <1>1, <1>2, <1>4, <1>5, RequestPreserves

\* A run that had its threshold has everything: what is listed afterwards is whole.
LEMMA ListArtifactsPreserves ==
    ASSUME Inv, NEW q \in Requests, ListArtifacts(q) PROVE Inv'
<1> DEFINE run == req[q].run
           new == [req[q] EXCEPT !.step = "build", !.names = finals[run].has]
<1>1. req' = [req EXCEPT ![q] = new] /\ finals' = finals /\ cache' = cache
  BY DEF ListArtifacts
<1>2. /\ run \in Runs /\ run \in Begun /\ req[q].seen = finals[run].after \cup {run}
      /\ req[q].site \in Sites
      /\ req[q].cut # NoCut => req[q].cut = finals[run].cut
  BY DEF ListArtifacts, Inv, LoadInv, LoadSteps
<1>3. /\ finals[run].has \subseteq Parts
      /\ req[q].cut # NoCut => finals[run].has = Parts
  BY <1>2, WholeWhenTuned DEF Inv, RegistryInv, RegistryTypeOK
<1>4. /\ new.step = "build" /\ new.run = run /\ new.seen = req[q].seen
      /\ new.cut = req[q].cut /\ new.names = finals[run].has
      /\ new.bundle = req[q].bundle /\ new.site = req[q].site
      /\ new \in [step : {"idle", "score"} \cup LoadSteps \cup EndSteps,
                  site : Sites \cup {""}, run : Runs \cup {NoRunId},
                  cut : Cuts \cup {NoCut}, names : SUBSET Parts,
                  seen : SUBSET Runs, bundle : SUBSET Bundle]
  BY <1>3 DEF Inv, TypeOK, ServingTypeOK, LoadSteps
<1>5. \A b \in new.bundle : GoodBundle(b)
  BY <1>4, UseIsOfSomeone DEF Inv, BundleInv
<1> HIDE DEF new, run
<1> QED
  BY <1>1, <1>2, <1>3, <1>4, <1>5, RequestPreserves

\* What a load with a threshold puts together is a good bundle.
LEMMA BuildPreserves ==
    ASSUME Inv, NEW q \in Requests, Build(q) PROVE Inv'
<1>1. CASE req[q].cut = NoCut
  BY <1>1, StepPreserves DEF Build, EndSteps, LoadSteps
<1>2. CASE req[q].cut # NoCut
  <2> DEFINE run == req[q].run
             scaler == {r \in {run} : "scaler" \in req[q].names}
             b == [model |-> run, encoder |-> run, scaler |-> scaler,
                   cut |-> req[q].cut, seen |-> req[q].seen]
             new == [req[q] EXCEPT !.step = "score", !.bundle = {b}]
  <2>1. /\ req' = [req EXCEPT ![q] = new] /\ finals' = finals
        /\ cache' = [cache EXCEPT ![req[q].site] = {b}]
    BY <1>2 DEF Build
  <2>2. /\ run \in Runs /\ run \in Begun /\ req[q].seen = finals[run].after \cup {run}
        /\ req[q].site \in Sites /\ req[q].cut = finals[run].cut /\ req[q].names = Parts
    BY <1>2 DEF Build, Inv, LoadInv, LoadSteps
  <2>3. scaler = IF Scaled THEN {run} ELSE {}
    <3>1. "scaler" \in Parts <=> Scaled
      BY DEF Parts
    <3> QED
      BY <2>2, <3>1
  <2>4. req[q].cut \in Cuts /\ req[q].seen \in SUBSET Runs
    BY <1>2 DEF Inv, TypeOK, ServingTypeOK
  <2>5. b \in Bundle
    BY <2>2, <2>3, <2>4 DEF Bundle
  <2>6. GoodBundle(b)
    BY <2>2, <2>3, <2>5 DEF GoodBundle
  <2> HIDE DEF b, run, scaler
  <2>7. /\ new.step = "score" /\ new.bundle = {b}
        /\ new \in [step : {"idle", "score"} \cup LoadSteps \cup EndSteps,
                    site : Sites \cup {""}, run : Runs \cup {NoRunId},
                    cut : Cuts \cup {NoCut}, names : SUBSET Parts,
                    seen : SUBSET Runs, bundle : SUBSET Bundle]
    BY <2>5 DEF Inv, TypeOK, ServingTypeOK
  <2>8. \E s \in Sites : cache' = [cache EXCEPT ![s] = new.bundle]
    BY <2>1, <2>2, <2>7
  <2> HIDE DEF new
  <2> QED
    BY <2>1, <2>6, <2>7, <2>8, RequestPreserves DEF LoadSteps
<1> QED
  BY <1>1, <1>2

\* A request that has ended is forgotten.
LEMMA ReturnPreserves ==
    ASSUME Inv, NEW q \in Requests, Return(q) PROVE Inv'
<1>1. /\ req' = [req EXCEPT ![q] = Idle] /\ finals' = finals /\ cache' = cache
  BY DEF Return
<1>2. /\ Idle.step = "idle" /\ Idle.bundle = {}
      /\ Idle \in [step : {"idle", "score"} \cup LoadSteps \cup EndSteps,
                   site : Sites \cup {""}, run : Runs \cup {NoRunId},
                   cut : Cuts \cup {NoCut}, names : SUBSET Parts,
                   seen : SUBSET Runs, bundle : SUBSET Bundle]
  BY DEF Idle
<1>3. "idle" \notin LoadSteps
  BY DEF LoadSteps
<1> HIDE DEF Idle
<1> QED
  BY <1>1, <1>2, <1>3, RequestPreserves

LEMMA RestartPreserves == Inv /\ Restart => Inv'
<1> SUFFICES ASSUME Inv, Restart PROVE Inv'
  OBVIOUS
<1>1. RegistryInv' /\ RegistryTypeOK'
  BY DEF Restart, Inv, RegistryInv, RegistryTypeOK, LoggedInOrder, StartedInOrder, Begun
<1>2. ServingTypeOK'
  BY DEF Restart, ServingTypeOK, Idle
<1>3. LoadInv'
  BY DEF Restart, LoadInv, Idle, LoadSteps
<1>4. \A b : b \notin InUse'
  BY UseIsOfSomeone DEF Restart, Idle
<1> QED
  BY <1>1, <1>2, <1>3, <1>4 DEF Inv, TypeOK, BundleInv

LEMMA ProceedPreserves ==
    ASSUME Inv, NEW q \in Requests, Proceed(q) PROVE Inv'
<1>1. CASE FindLatest(q)
  BY <1>1, FindPreserves
<1>2. CASE LoadModel(q)
  BY <1>2, StepPreserves DEF LoadModel, EndSteps, LoadSteps
<1>3. CASE LoadEncoder(q)
  BY <1>3, StepPreserves DEF LoadEncoder, EndSteps, LoadSteps
<1>4. CASE GetRun(q)
  BY <1>4, GetRunPreserves
<1>5. CASE ListArtifacts(q)
  BY <1>5, ListArtifactsPreserves
<1>6. CASE Build(q)
  BY <1>6, BuildPreserves
<1>7. CASE ScoreAdHoc(q)
  BY <1>7, StepPreserves DEF ScoreAdHoc, EndSteps, LoadSteps
<1>8. CASE ScoreCompany(q)
  BY <1>8, StepPreserves DEF ScoreCompany, EndSteps, LoadSteps
<1>9. CASE Return(q)
  BY <1>9, ReturnPreserves
<1> QED
  BY <1>1, <1>2, <1>3, <1>4, <1>5, <1>6, <1>7, <1>8, <1>9 DEF Proceed
-----------------------------------------------------------------------------
LEMMA InitEstablishes == Init => Inv
<1> SUFFICES ASSUME Init PROVE Inv
  OBVIOUS
<1>1. RegistryInv
  BY DEF Init, RegistryInit, NoRun, RegistryInv, RegistryTypeOK, LoggedInOrder,
         StartedInOrder, Begun
<1>2. ServingTypeOK /\ LoadInv
  BY DEF Init, ServingTypeOK, LoadInv, LoadSteps, Idle
<1>3. \A b : b \notin InUse
  BY UseIsOfSomeone DEF Init, Idle
<1> QED
  BY <1>1, <1>2, <1>3 DEF Inv, TypeOK, BundleInv, RegistryInv

LEMMA NextPreserves == Inv /\ [Next]_servingVars => Inv'
<1> SUFFICES ASSUME Inv, [Next]_servingVars PROVE Inv'
  OBVIOUS
<1>1. CASE UNCHANGED servingVars
  <2>1. RegistryInv' /\ TypeOK' /\ LoadInv'
    BY <1>1 DEF servingVars, Inv, TypeOK, ServingTypeOK, RegistryInv, RegistryTypeOK,
                LoggedInOrder, StartedInOrder, Begun, LoadInv
  <2>2. BundleInv'
    BY <1>1 DEF servingVars, Inv, BundleInv, GoodBundle, InUse, Begun
  <2> QED
    BY <2>1, <2>2 DEF Inv
<1>2. ASSUME NEW q \in Requests, Proceed(q) PROVE Inv'
  BY <1>2, ProceedPreserves
<1>3. ASSUME NEW q \in Requests, NEW s \in Sites, Ask(q, s) PROVE Inv'
  BY <1>3, AskPreserves
<1> QED
  BY <1>1, <1>2, <1>3, RestartPreserves, RegisterPreserves DEF Next

THEOREM Invariance == Spec => []Inv
  BY InitEstablishes, NextPreserves, PTL DEF Spec

\* The runs, the caches and the requests are what the code makes them.
THEOREM TypeCorrect == Spec => []TypeOK
<1>1. Inv => TypeOK
  BY DEF Inv
<1> QED
  BY <1>1, Invariance, PTL

\* No answer mixes two runs, lacks a scaler or uses a threshold that is not its
\* model's (model_loader.load_model): get_run precedes list_artifacts, and a
\* threshold is only logged for a run that has logged everything.
THEOREM BundlesWhole == Spec => []BundlesAreWhole
<1>1. Inv => BundlesAreWhole
  BY DEF Inv, BundleInv, GoodBundle, BundlesAreWhole
<1> QED
  BY <1>1, Invariance, PTL

\* Two bundles differ only if a final_model run was started between the searches
\* they came from (model_loader.py, search_runs; the caches of api and agent).
THEOREM ViewsDecide == Spec => []SameViewSameBundle
<1>1. ASSUME Inv, NEW b \in InUse, NEW c \in InUse, b.seen = c.seen PROVE b = c
  <2>1. GoodBundle(b) /\ GoodBundle(c)
    BY <1>1 DEF Inv, BundleInv
  <2>2. b.model \in Runs /\ c.model \in Runs
    BY <2>1 DEF GoodBundle, Begun
  <2>3. b.model = c.model
    BY <1>1, <2>1, <2>2 DEF GoodBundle, Inv, RegistryInv, StartedInOrder
  <2>4. /\ b.encoder = c.encoder /\ b.scaler = c.scaler /\ b.cut = c.cut
    BY <2>1, <2>3 DEF GoodBundle
  <2> QED
    BY <1>1, <2>1, <2>3, <2>4 DEF GoodBundle, Bundle
<1>2. Inv => SameViewSameBundle
  BY <1>1 DEF SameViewSameBundle
<1> QED
  BY <1>2, Invariance, PTL
=============================================================================
