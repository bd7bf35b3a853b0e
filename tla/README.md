# A verification project for credit-default-pipeline

This directory holds TLA+ models of the credit-default pipeline, the TLC
configurations that check them on small instances, and TLAPS proofs of the
properties that matter most. Paths below are relative to the repository root.

1. [The system](#1-the-system): its parts, what is hard, what makes each right
2. [The modules](#2-the-modules): which models what, and how it maps to the code
3. [The runs](#3-the-runs): what TLC checks, bounds, fairness
4. [The proofs](#4-the-proofs): what holds for every instance, and why
5. [Where code and documentation part](#5-where-code-and-documentation-part)
6. [What is not modelled](#6-what-is-not-modelled)
7. [Plan](#7-plan)

`PROJECT.json` lists, for a tool or a reader who wants to diff, the source lines
of every definition, the runs, a mutant of the code for each checked property,
the findings, the hazards and the theorems.

## 1. The system

The program scores companies for credit default. A simulator fills an OLTP
database, an ingestion step extracts it to Parquet and restores it elsewhere,
dbt builds a star schema, a training run logs a model to MLflow, an agent
answers questions with that model and with the project's own documentation, a
FastAPI service and a Streamlit page put the agent in front of people, and AWS
Lambda functions switch the whole deployment on and off.

| Component | State it keeps | Operations | Interacts with |
|---|---|---|---|
| Wake/sleep control loop (`infra/aws_lambda`, `infra/*.tf`) | one DynamoDB item (status, last_request_at), RDS instance state, two ECS desired counts | edge wake handler per viewer request, regional wake handler, scheduled sleep handler | AWS control plane; each handler is a sequence of separate calls |
| Agent graph (`agent/graph.py`, `agent/nodes`, `agent/utils`) | `AgentState` of one invocation: route, extraction, prediction, response, verdict, retry count | router, extractor, predictor, retriever, responder, judge, fallback | the LLM provider (may reject a tool call), OLTP database, model, vector store |
| Chat service (`api/session_store.py`, `api/routers/chat.py`) | the in-memory map from session id to messages | POST /chat, GET history, restart | agent graph; requests run concurrently in a thread pool |
| Chat UI (`ui/app.py`, `ui/chat_registry.py`, `ui/client.py`) | Streamlit session state: registry of conversations, active one, displayed messages | send, switch, new conversation, reopen | chat service over HTTP, without a time-out (`ui/client.py:41`) |
| Ingestion (`analytics/ingestion`) | Parquet files, target database | extract per table, delete, chunked insert, index rebuild, sequence reset | source and target databases |
| Star schema (`analytics/dbt_project`) | company and contract versions (SCD 2), spine, dimension, fact table | snapshot, date spine, as-of joins, trailing windows, label, tests | OLTP tables; training and inference read it |
| Prediction API and inference (`api/routers/predict.py`, `api/dependencies.py`, `agent/nodes/predictor_node.py`, `ml/inference`, `utils/queries.py`) | two cached model bundles per process, one for `/predict` and one for the agent | resolve a company, load the latest model, encoder, scaler and threshold, score | MLflow, which training and a notebook write meanwhile; star schema |
| Training and evaluation (`ml/run_training.py`, `ml/training`, `ml/dataset`, `ml/evaluation`) | MLflow runs, prediction files under `/tmp` | temporal split, encoding, cross-validation, final fit, logging; threshold selection in `plots.ipynb` | star schema, MLflow; launches share the files |
| OLTP schema and validation (`database`, `schemas/database`) | tables with CHECK constraints | Pydantic validation, database constraints | seed, API |
| Seed simulation (`simulation`) | generated contracts, invoices, payments, logins, tickets | contract life cycle per year and month | OLTP database |
| RAG index (`agent/rag`) | `docs_data.json`, the vector collection | extract, delete and re-ingest, chunking, retrieval | agent graph, the files that are documented |

### What is hard here

* The wake and sleep handlers are read-modify-write loops over a shared item
  with remote calls between the read and the write, run concurrently by
  construction (one per viewer request), with time-outs of 5 s and 30 s.
* The chat service's store is shared by thread-pool requests: history is read,
  the agent runs for seconds, then two messages are appended. The page that
  talks to it is a script that is broken off and started anew by any click.
* The agent graph loops between the responder and the judge, each LLM call
  failing in its own way, and must still end with an answer it can stand by.
* The star schema joins slowly changing dimensions and events as of a date;
  a missing condition multiplies rows or lets the future leak into features,
  and a build may break off after any of its nodes.
* Ingestion and re-indexing delete before they insert and commit in pieces.
* A model is logged artefact by artefact and loaded artefact by artefact, by
  programs that know of one another only what MLflow shows; the threshold that
  makes it usable is logged later, from a notebook, or not at all.

### What makes each component correct

* Control loop: the stored status is true when nothing is in flight; a visited
  system comes up; an abandoned one goes down and stays down; nobody is cut off
  before the threshold.
* Agent graph: every invocation ends, within the recursion limit of the graph
  library; what the user is shown was judged, or is the fallback; no company a
  request names is lost between nodes that share their lists of errors.
* Chat service: an answered turn is kept, once, in its own session; a failed one
  leaves nothing; a client that waits for its answers has a well-formed history
  and an agent that knows all of it.
* Chat UI: the answers on the page are those of the conversation the next
  question goes to, and the agent knows them; the page of a user who waits does
  not race itself.
* Star schema: one fact row per company and month, no months missing, every row
  backed by the version valid then, and labels that are neither missed nor taken
  back.
* Ingestion: a restore that ends well has put back the files, keys, sequences and
  the indices of what it has restored, after any number that did not; an extraction
  that nothing disturbed is a faithful copy.
* Training: nothing is scored by what was fitted on its month; what is scored has the
  columns the model was fitted on, from the folds to inference; a threshold is that
  of its own model.
* Inference: an answer comes from one run, whole; requests that could see the same
  runs get the same model; a load that failed is not held against later ones.
* RAG index: what is indexed is what is documented now, all of it and nothing else;
  requests beside which nobody ingests are answered.
* Validation: what Pydantic accepts, the database accepts, and what the database
  holds can be read back through Pydantic.
* Seeding: nothing that is drawn is refused by either, so that a run of hours is
  not rolled back; the ledger of invoices and payments adds up; contracts are billed
  for the months in which they are active; the past drives behaviour, never the future.

## 2. The modules

| Component | Model | Proofs | Instances |
|---|---|---|---|
| Control loop | `WakeSleep` | `WakeSleepProofs` | `MCWakeSleep` |
| Agent graph | `AgentGraph`, implementing `AnswerPolicy` | `AgentProofs` | `MCAgentGraph` |
| Chat service | `ChatService`, implementing `Conversations` | `ChatProofs` | through `MCChatUI` |
| Chat UI composed with the service | `ChatUI` EXTENDS `ChatService` | `ChatProofs` | `MCChatUI` |
| Ingestion | `Ingestion` | `IngestionProofs` | `MCIngestion` |
| Star schema | `StarSchema` | `StarSchemaProofs` | `MCStarSchema` |
| OLTP schema and validation | `OltpRules` | with `SeedingProofs` | through `MCSeeding` |
| Seed simulation | `Seeding` EXTENDS `OltpRules` | `SeedingProofs` | `MCSeeding` |
| Training and evaluation | `Training` EXTENDS `TrainingData`, implementing `ModelRegistry` | `TrainingProofs` | `MCTraining` |
| Prediction API and inference | `ModelServing` EXTENDS `ModelRegistry` | `ServingProofs` | `MCModelServing` |
| Both, from the star schema to an answer | `Deployment` EXTENDS `Training`, implementing `ModelServing` | `TrainingProofs` | none |
| RAG index | `RagIndex` | `AgentProofs` | `MCRagIndex` |

In every module an operator whose comment begins with "Mutant:" is a plausible
bug in the definition after it. No specification uses one; they serve to show
that each property would notice.

### WakeSleep

One action is one AWS call of a handler: `WakeBegin` (get_item), `WakeTouch` (the
first put_item, which writes back the status it read), `WakeStart`
(start_db_instance), `WakeApi`, `WakeUi` (update_service), `WakeCommit` (the last
put_item); `SleepBegin`, `SleepStop`, `SleepApi`, `SleepUi`, `SleepCommit`.
`EdgeWakes` are executions of `edge_wake_handler.py.tftpl`, which swallows a
refused start; `RegionalWakes` of the regional handler, which does not. `Fail`
ends an invocation between any two calls: another ClientError, a time-out or a
lost instance.

`item`, `rds` and `ecs` are the DynamoDB item, the RDS state and the desired
counts. Times are kept as ages that saturate at `Threshold`: the handlers only
ever ask whether the inactivity threshold has passed. `span` is the age of an
invocation, bounded by `LambdaSpan`, which stands for its time-out; it is also
the age of the `now` an invocation took on entry and writes at its end. RDS
accepts a stop only when available and a start only when stopped.

`Environment` says which circumstances are possible, so that what holds in a calm
deployment can be told from what an overlap, a transition of RDS, a death or an
unseeded table does to it.

### AgentGraph and AnswerPolicy

One action is one node of the graph with its outgoing edge, since LangGraph does
the two in one superstep; a structured LLM call that is retried takes a step per
attempt (`TryAgain`, `StructuredCallRaises`, `JudgeDefaults`). The environment
chooses every reply: any route, any set of identifiers, any of them unknown or
failing in the database, any verdict, any error. A draft is known by its number,
so `judged = drafts` says that the verdict is about the draft shown. `Goto`
carries LangGraph's recursion limit.

`AnswerPolicy` is what an invocation promises whatever it does inside: a draft,
or the fallback after exactly `MaxRejections` rejections, or an exception, once.
`AgentGraph!Policy` instantiates it with a refinement mapping: rejections are the
drafts whose rejection stands, and the outcome is read off the final node.

### ChatService, Conversations and ChatUI

FastAPI runs each POST /chat in a thread, and the store has no lock, so threads
interleave between the calls that touch it: `ReadHistory`, then `agent.invoke`
(`AgentAnswers`, `AgentRaises`), then the two appends of `append_turn`
(`AppendUser`, `AppendAssistant`). `Restart` loses the store and all threads.
`overlapped` is a history variable: the sessions that had two requests in flight.

`Conversations` is what a client that waits for each answer is promised: a conversation
grows by a whole exchange at a time, each answered in the light of all before it, and
only the end of the process takes any away. A client that does not wait (`raced`) is
promised nothing of this. `ChatService!Promise` instantiates it: the turns of a session
are the pairs in its history, each with the pairs in what the agent was told
(`TurnsOf`), so that a question that is not answered yet is not there, and the read, the
answer and the first append are stutters.

`ChatUI` adds the Streamlit page. With Streamlit's default `runner.fastReruns` a click
or a question while a run of the script is under way (`Interact`) stops that run and
starts the next one at once, beside a thread that may still be blocked in `requests`. A
stopped run ends where it next calls `st` or touches the session state, so it changes
nothing more. One action is therefore what a run does from one such point to the next,
and `script` says at which it is: `NewChat` and `ClearMessages` (`app.py:85`, `86`); `Open`
(66), then `HistoryArrives` (75) or `HistoryFails` (72); `Ask` (109), `Send` (116), then
`AnswerArrives` (126), `RegisterConversation` and `Activate` (130-133), or `SendFails`, a
500 or a connection that breaks at any time, with the request still running behind it.
Which interaction it was that stopped a run shows in the next one, which begins from
`"idle"`. A run is idle once nothing is left in it that changes the session state; what
it still draws is left out. `Reopen` loses the page's state.

`abandoned` and `torn` are history: the page's requests that were in the service when
their run ended, and whether a run was stopped between the active conversation and its
messages and these have not been replaced since. Requests the page did not make
(`r \notin asked`) are other clients of the same service.

### Ingestion

A step of a script ends where it commits or where others could see, or break,
what it does. `extract.py`: `QueryTable`, `OpenWriter`, `WriteChunk`, `CloseFile`,
`ExtractRaises` (the `finally` closes the writer, so a partial file is readable, one of
no rows if the first write raises), `ExtractIsKilled` (it is not). `restore.py`: `Wipe`, `OpenFile` (with the drop of
the large table's indices), `InsertChunk`, `CloseTable` (with their rebuild),
`SetSequences`, `RestoreFails`, which keeps what was committed and the sequences
already set. `Insert` is the rest of the world beside an extraction, `Migrate`
the change to a new, empty database.

A row is its key and the key of its parent: what the constraints in the way of a
restore look at. `files`, `db`, `indexed` and `seq` outlive the scripts; `quiet`,
`current` and `restored` are history variables. Only the PostgreSQL branch is
modelled, scripts run one at a time (they are run by hand), and nothing is
inserted during a restore.

### StarSchema

Operational tables change (`Operate`), days pass (`NextDay`), and `dbt build`
runs node after node in dependency order (`SnapshotCompanies`,
`SnapshotContracts`, `BuildSpine`, `BuildDim`, `BuildFact`), each with its tests:
a node that fails keeps what is downstream from running. `BuildBreaks` ends a
build between two nodes. The models that dbt materialises as views are operators
(`SpineRows`, `Resolves`, `InWindow`, `DaysPastDue`, `IsInsolvent`,
`OutstandingDebt`, ...), evaluated when a table is built from them. Days are real
day numbers, so that months, windows and thresholds have their true lengths.
Rows that SQL would return twice stay apart because they carry the version they
come from. The build that opened a version stands for its `dbt_valid_from`.

Of the facts' columns the model has the key, the label and the debt. Operational
tables other than companies, contracts, invoices and payments, the other trailing
windows and dbt's value tests are left out, and so are backdated or late-recorded
payments: with those a label could be taken back.

### OltpRules and Seeding

`OltpRules` has no state. For each table it has what its `...Create` schema accepts
(`ValidContract`, ... : types, literals, `model_validator`s, the comparison with the
current time in UTC) and what its model lets in (`InsertsContract`, ... : NOT NULL,
widths, CHECK constraints). The two are translated separately, from
`schemas/database` and `database/models.py`, and differ in form as they do there: a
CHECK is three-valued (`SqlLeq`, `SqlOr`, ...) and only violated when it is false.
Values keep only what a rule looks at: a text is its length and whether it has the
form asked for, an amount is a number of cents or units within its column's range.
`Columns` is what a row of a table can hold by the types of its columns alone, NULL
included, whatever constraints and schemas say.

`Seeding` is `run_seeding`, one transaction. `Start` takes the clocks of the run;
`GenerateCompany` draws a company and its contracts; `BeginYear` writes the year's
statement, restates the contracts by its margin and draws the terminations of the
last year; `Bill` is one commodity's month (`simulate_operational_telemetry` and
`persist_billing_and_telemetry`: invoice, payment, ticket, login), `SkipMonth` one that
has no telemetry; `CloseYear` writes the terminations and carries the statement
over; `Commit` ends the run. Every row is validated, then inserted; `Raise` is the
exception of the first that is refused, or of a draw from an empty range, and rolls
everything back. `Break` is any other error.

Random draws are choices. Only the rows of the company being generated are kept, and of
tickets and logins only whether they are accepted. All validations of a run use one
instant `now`, that of the first: later ones accept more. Within a step the rows are
judged together, so what is raised is a kind of error rather than the first row's.

### TrainingData and Training

`TrainingData` has no variables. A dataset is a set of rows, each a company, a month
and a category; what is fitted (an encoder, a scaler, a model) is the set of rows it
was fitted on, which is what a leak or a mismatch of columns depends on. `Remaining`,
`TestSet`, `FoldTrain` and `FoldVal` cut by the index of a month among the sorted unique
ones, as `split.py` does; `ValidationSize` and `ValidationStart` are scikit-learn's
`TimeSeriesSplit`. `HandleMissingAndEncode` and `ScaleFeatures` are those of
`preprocessing.py`, with the columns they produce, and `QueryCols` and `AdHocCols` the
columns of the two ways into a model.

`Training` is `run_training.main`, launched by hand, any number of times at once: `Skip`,
`LoadData` (each experiment reads the star schema anew, which may have been rebuilt),
`StartCv`, then for each fold `StartFold`, `WriteFold`, `UploadFold`, then `Aggregate`,
`StartFinal`, `LogModel`, `LogEncoder`, `LogScaler`, `WriteFinal`, `UploadFinal`. `Break` ends a
launch anywhere, and nothing is taken back. Predictions go through `tmp`, the files
under `/tmp`, and are known by the launch, experiment and fold they are of. The cells of
`plots.ipynb` that select a threshold are `FindCv`, `PoolFolds`, `FindFinal` and
`LogThreshold`, the last being commented out there and run by hand. `overlapped` and
`calm` are history: whether two launches were ever under way at once, and whether the
notebook was opened on a launch that had finished and none has started since. In a run,
`after` is history too: the runs begun before it, for "latest" to have a meaning.

### ModelRegistry and ModelServing

`ModelRegistry` is what those who load a model can see of one experiment: `Begin` of a
final run, `Log` of an artefact in the order of `log_final_run`, `Select` of its
threshold. A run may be left at any point. `Training!Registry` instantiates it: what
launches and notebook do to the served experiment implements it, so that the module
serving is composed with is not a guess.

`ModelServing` composes it with the API process. `Ask` is one of the two functions named
`get_loaded_model`: a hit, or a call of `load_model`, which is `FindLatest`, `LoadModel`,
`LoadEncoder`, `GetRun`, `ListArtifacts` and `Build`, one action per call to MLflow, since
training goes on between them. `Build` also stores what was loaded: `functools.cache` takes
no lock over the call, so that each of several concurrent misses loads and stores. A
missing artefact or threshold raises and leaves the cache as it is. `ScoreAdHoc` and
`ScoreCompany` have the outcomes of the two endpoints and of the agent's node. `Restart`
empties the caches. `seen`, the runs there were at the search, is history.

### Deployment

`Deployment` puts the API process beside the real writers of the registry: a step is one of
`Training` (`Train`) or one of `ModelServing` (`Answer`), whose instance `Serving` sees of
the final runs what MLflow shows of them (`FinalsOf`). There a threshold is the set of the
launches whose predictions it was tuned on, so that an answer can be followed back: from
the bundle it was computed with, over the threshold that the notebook logged and the files
under `/tmp`, to the launch that trained the model (`ServedAsTuned`). It has no run of its
own: its parts have theirs (`training`, `serving`), and what it says of the two together
is proved. TLC has confirmed it for two launches of the served family with two folds over
four months, a notebook, one thread, one cache and restarts (900 000 states), and refutes
it once `Build` takes the threshold of the latest run (`BuildWithLatest`).

### RagIndex

`Extract`, `OpenDocsData` and `WriteDocsData` are `extract_docs.main`, whose `write_text`
empties the file before it fills it; `DeleteCollection`, `CreateCollection`, `ReadChunks`,
`UpsertBatch` per batch and `IngestEnds` are `ingest.ingest`; either script may break off
after any of them. `GetCollection` and `Query` are a request in `retrieve_context`; a
collection that was looked up before it was deleted raises when it is queried.
`EditSource` and `EditReadme` are people. The README is a sequence of headers with their
levels and bodies, and `ChunkReadme` the chunks of `chunk_readme`: a header yields one
(`ChunkOfHeader`) or none, as a sequence of at most one, and the sequences are joined.
Its operators have names of their own (`IndexInit`, `indexVars`, ...), so that one module
of proofs can extend it and `AgentGraph`; the assumption that files and READMEs are
sequences is `SequencesAssumption`. `fresh` and `settled` are
history: whether the file, the chunks in memory and the index are up to date, and whether
the last ingest ended well and none has begun since.

## 3. The runs

Passing runs complete; the others end with the counterexample of a finding.

| Run | Instance | What it shows |
|---|---|---|
| `calm` | two edge wakes, two sleep runs, not overlapping with each other, RDS settled, table possibly unseeded | the stored status is true at rest, sleep only follows idleness, an abandoned system goes down for good, a visited one comes up again and again |
| `failures` | an edge wake, a regional wake and a sleep run in any interleaving, RDS in transition, two deaths | a sleep run nobody came beside leaves the services down; a system left marked awake is still shut down, a refused stop included as to its services |
| `stuck_down` | one wake, one sleep run, overlapping | *finding*: a stale awake leaves the system down for ever |
| `agent_review` | two companies, the code's caps (5 rewrites, 3 attempts), limit 25 | every path of an invocation: what is shown was judged, no company lost, `AnswerPolicy` implemented, liveness included |
| `chat_page` | three requests, of a page or of others, in two conversations, and a user who may stop any run of the script | turns kept once, isolation, `Conversations` implemented; what the page shows is what the agent knows unless a switch was stopped halfway; a user who waits is not raced |
| `ingestion` | a company, a contract, an invoice, two logins; chunks of one row | complete restores, accepted files, free keys, no restored logins without indices, faithful extracts |
| `star_build` | two companies (founded on day 0 and on day 44), a contract, an invoice, seven days in half a year, one update, one payment, two builds | grain, months, keys and labels in any order of all that, broken-off builds included |
| `star_leak` | one company, one payment | *finding*: a later payment takes debt out of an earlier month |
| `seeding` | two companies, years of two months of three days, the second ending after its first month; six settings of the clocks | nothing drawn is refused, books and contracts agree; on some 10^5 records beside every boundary, schemas and constraints agree |
| `training` | two launches, one of both families or of the served one, over four or nine months and two companies, two folds, a test set of two months, and the notebook | no row of the future, no row counted twice, columns that agree, thresholds of their own model, `ModelRegistry` implemented |
| `serving` | two threads on two caches, two runs logged and tuned meanwhile, in a family with a scaler, restarts | bundles are whole, equal views give equal bundles, failed loads come to an end |
| `rag_index` | three files, one of them excluded and one with two functions of one name, two READMEs, batches of two, one reader | an up-to-date index is faithful, README text is covered, undisturbed requests are whole |

### Why these bounds

* `WakeSleep`: the hazards are between two handlers, or between one and what an
  earlier one left; two of a kind beside one another, then one of each kind in
  any interleaving, have them all, and invocations begin again when they end, so
  runs are not bounded in length. `Threshold = 2`, `LambdaSpan = 1` is the least
  in which an invocation can be older than another and both younger than the
  threshold; `failures` has `Threshold = 3`, for a visit to be further back than the
  lives of a wake handler and of a sleep run together. Two deaths are enough for a wake
  and a sleep run each to die, or one to die again after the retry.
* `AgentGraph`: the code's own caps, so every count of rewrites occurs. Two
  companies: one may be known, scored or failing while the other is not.
* `ChatUI`: three requests allow two in a session and one beside it, or a
  conversation of two turns followed by a question; the two sessions tell isolation.
  Requests and sessions are symmetric: no action or property names one.
* `Ingestion`: each foreign key of the longest chain but payments occurs (invoice to
  contract to company), a table that takes two chunks and has its indices dropped, and
  tables that stay empty, among them the one keyed without a sequence, which the proofs
  have. Attempts are
  not bounded, since nothing but the identifiers is counted.
* `StarSchema`: a window of 120 days, a threshold of 90 and the months around
  them need half a year; one update and two builds make two versions, and a
  company founded within a month has the boundary the tests of the mart meet.
  The invoice is issued on the first day, so that the half year outlasts its window,
  and due as in the seed (20 days after the first of a month).
* `Seeding`: the simulated years differ in what the year before was and in whether
  they are the last, which ends early; months in whether today is in them, and
  where. Two years of two months, of which the last is cut short, have each case
  once, and three days make a month with a first, an inner and a last day. The
  clocks: after everything, on the second and on the first day of the last month,
  before it, with UTC behind the process, with the database session behind.
  The second company shows what a failure does to the first. Column widths and ranges
  are shrunk, and the records compared take the values on and next to each.
* `Training`: two launches can overlap, follow one another or be left unfinished, with the
  second the latest of the one family they share. Of the two families one is scaled and
  imputed and the other stopped early, which is what tells the code's three. Nine months
  leave seven for two folds of two, so that the first window has a remainder before it;
  four months are too few and raise. One company begins late and one changes its
  category, so that a fold meets a category its encoder has not seen.
  What early stopping watches in a fold are the rows scored there, as in the code; it does
  not count as learnt in `TemporalIsolation`, which has it off for the final fit.
* `ModelServing`: a run can be superseded while it is loaded, and two loads overlap within
  one cache or in both. `Scaled = TRUE`, which the served XGBoost is not, is the case with
  one more artefact to miss. A threshold is one of two values.
* `RagIndex`: seven chunks or more in batches of two, with two documents that share
  their name in different batches; headers on three levels with and without an introduction.
  Queries ask for two, so an index can have fewer. One reader: they do not affect each other.

No run checks a type invariant: they are proved instead (section 4). That of `RagIndex` is a
part of `IndexInv`; the abstract `AnswerPolicy` and `Conversations` and the composition
`Deployment` have none of their own.

`CHECK_DEADLOCK FALSE` is set where the system may stop: an invocation of the
agent ends; in `StarSchema` the days, builds and payments of the instance run
out, in `Training` the launches. The others always have a next step.

### Fairness

* `AgentGraph`: weak fairness of `Next`. Each LLM call, query and prediction
  returns or raises.
* `WakeSleep`: weak fairness of the clock, of RDS completing a transition, of
  each invocation's next call (Lambda runs it on or its time-out ends it), of the
  EventBridge schedule invoking the sleep handler, and of terraform's seeding.
  Viewers owe nothing, and neither does a failure.
* `ModelServing`: weak fairness of each thread's next call; MLflow answers or raises.
  Nobody has to ask, to train or to select a threshold, and the process may restart at any time.
* `ChatService`, `ChatUI`, `Ingestion`, `StarSchema`, `Seeding`, `Training`,
  `RagIndex`: none; their properties are about what a step may do.

## 4. The proofs

The theorems hold for any sets of handlers, companies, requests, sessions,
invoices, model families, launches and runs, any calendar, dataset, caps and chunk
size, from the named `ASSUME`s next to the
constants.

**Control loop** (`WakeSleepProofs`). `TypeCorrect` holds in every environment.
`CalmStatusMatchesPower` and `CalmSleepsOnlyWhenIdle` have the hypothesis `Calm`:
the runs show that neither survives overlaps or deaths. `StatusMatchesPower` says
nothing while a handler is in flight, so it is not inductive; `CalmInv` adds what
each handler has already done at each of its steps (`WakeProgress`,
`SleepProgress`), that wakes and sleeps take turns, and what the status will be
true of once those in flight have ended (`StatusWillMatch`). For the second,
`TimestampLag` bounds how far the stored timestamp can be behind the last visit:
by the life of one invocation, because an older one may write last.
`SleepRunsTakeServicesDown` needs no hypothesis. A wake handler under way is at least
as old as the last visit (`WakesAreVisits`), so one that could scale a service up
behind a sleep run is known by the time of that visit; without one, what the run has
scaled down stays down (`ServicesFollow`), whoever else sleeps, dies or is refused. It is
the part of recovery that is safety: that such a run comes is left to `AwakeIsPutToSleep`.

**Agent graph** (`AgentProofs`). `Inv` says at each node how many nodes have
run and how drafts, verdict and counter are related (`Flow`, `Review`), and which
companies have been accounted for (`Accounting`). From it follow
`ShownIsJudged`, `NoCompanyDropped`, `RewritesCarryTheReason`,
`WithinRecursionLimit` (at most 6 + 3 * MaxRetries nodes; the assumption that this
is below the limit holds for the code's 5 and LangGraph's 25) and, step by step, `ImplementsPolicy`: the
safety part of the refinement.

**Chat service** (`ChatProofs`). `Inv`: a message is recorded in the
session of its request and at most once, a question before its answer. Each thread
only appends its own, which is why no lock is needed for `AnsweredTurnsKept`,
`FailuresLeaveNothing` and `Isolation` (together `HistoriesAreTurns`).
`SerialSessions` needs `SerialInv`: in a
session whose requests never overlapped the history is whole turns, but for the
one being recorded. `ServiceKeepsPromise` is the refinement of `Conversations`.
`SerialInv` knows what the agent is told up to the first append; `ContextStands` adds
that the history is still that and the question when the second is made. The step of
`AppendAssistant` is then `Answer`: half the length of the history has grown by one
(`Halved`, `Places`), the new pair is question and answer, its context all pairs before,
and the pairs before are as they were, since no request that has been answered is told
anything again (`SameTurns`). `Post` into a session in use is `Race`, `Restart` is
`Forget`, and everything else leaves the pairs alone (`NoNewTurn`). With
`PageImplementsClient` the same holds beside the page (`PageKeepsPromise`), which is what
the run checks.

**Chat UI** (`ChatProofs`). `PageImplementsClient`, that the composition is one
of the service's behaviours, brings all that was proved of the service to the page.
`PageInv` relates what is displayed to what was delivered, unless the page is `torn`, and
the request the script is busy with to its state (`Shown` is the conversation the answers
belong to while one is being recorded); `PageShowsActive` and `AgentSharesThePage` follow.
`TurnInv` is why a user who waits is not raced: a request of the page in the service that is not
abandoned is the one the script waits for (`WaitsForItsOwn`), and there is one such, so of
two in a session one is a stranger's or abandoned (`OverlapHasStranger`): `PageIsSerial`.

**Ingestion** (`IngestionProofs`). `IInv` has a conjunct per thing that survives a
failed attempt: how far a restore has filled the tables of its list, and that
those after are still empty (`FilledSoFar`); how far an undisturbed extraction has
copied (`CopiedSoFar`); that keys are unique in the database and hence in each
file (`KeysAreUnique`); that indices are only away where there is a file whose
restore will bring them back (`IndicesAccounted`). `RestoresAreWhole` puts together what it
says of rows and of indices at the end. `ClosedFilesGoThrough` adds
that the list names a table after its parent. `ExtractionsAreFaithful` is
inductive together with `IInv`. `NextKeysAreFree` is about the sequences a restore sets to
the largest key there is: that there is one is the finiteness of the tables, of which only
so many rows are ever stored, and that it stays the largest is that of the key of each
later row, drawn from the sequence.

**Star schema** (`StarSchemaProofs`). What a build reads was built before
(`SourcesFirst`) and nothing is later than today (`UpToToday`). `SpineMatchesVersions`
(a spine row comes from a version that still covers its date, or the spine is older
than the versions) gives `OneFactPerCompanyAndDate` although the spine itself can
have duplicates: its test keeps them from the mart. `LabelsBacked`, with the lemma that payments completed later
only lengthen a delay, gives `LabelsAreFinal`; `SpineHasNoGaps`, `MonthsAreComplete`;
`BuildIsFresh`, `KeysResolve`; `VersionsAreLive` and `BuildReachesToday`,
`SuccessReachesToday`; the last two together are `SuccessIsTrustworthy`.
`NoDefaultIsMissed` rests on `InvoicesAreRooted` (an
invoice's contract and company are there since before it was issued),
`ContractsAreSeen` (the snapshot has the contract) and the hypothesis
`EveryDueDateHasItsMonth`: each due date has a first of a month from `DefaultDays`
to `Window` days after it. The seed's due dates satisfy it; the schema allows ones
that do not (section 5).

**Seeding** (`SeedingProofs`). `IInv` has what each part of the loops has achieved.
`ContractsInv`: a contract's status, dates and commodity fit its constraints at
every point between two flushes. `BooksInv`: every payment settles one invoice, and
no month is billed twice. `PositionInv`: exactly the months passed by the loops have
been billed, but for those skipped, which is what the look-ahead to a termination has to
be right about. `SessionInv`: the companies of the open transaction are new.
`RipeRunsSucceed` goes through every rule of every table for the rows that are
drawn; its hypothesis `Ripe` is on the clocks, and section 5 says what happens without
it. `SchemasImplyConstraints` has no hypothesis on the row but `FitsColumns`, the three
columns narrower than their schema, and is a lemma per table (`AcceptedInserts`).
`ConstraintsImplySchemas` is the converse: a row the database holds, typed as its columns
are (`Columns`) and let in by its constraints, is read back through its schema. It too is a
lemma per table (`CompanyReads`, ...), where the work is in CHECKs that are not violated
because they are unknown.

**Serving** (`ServingProofs`). What is known of a run only grows (`Kept`): its artefacts come
in their order and its threshold, once there, stays. So a run with a threshold has all
artefacts (`WholeWhenTuned`), and a load that has read a threshold before it lists the
artefacts will find the scaler: `Inv` says of each request what it has established at its
step. The order of lines 97 and 98 of `model_loader.py` is what `BundlesWhole` rests on:
with the two swapped, a scaler logged in between would be left out. `ViewsDecide`: the
latest run is a function of the runs begun, and its threshold never changes.

**RAG index** (`AgentProofs`). `IndexInv` says where what is in the index came from:
the file is what is documented as long as it is fresh, the chunks in memory are those of
a file (`FreshMeans`), and batch after batch the index is what precedes the position of
the ingest in them (`FilledInOrder`), so that at its end it is all of them and nothing
else: `IndexIsWhatIsDocumented`. `CalmMeans` says of a request beside which nobody
ingests that the collection it holds is the one there is: `QuietReadsGetTheirChunks`.
`ReadmeIsNotLost` is for a README of any length and nesting: a header with a body yields
a chunk of its own name that begins with that body (`SectionsEnd`: its section reaches
at least as far as the header), and joining the chunks loses none (`ChunksAreSequences`).

**Training** (`TrainingProofs`). `NoRowOfTheFuture` is about the data a launch has loaded
(`DataInv`) and then only about positions: a later month is not further to the front
(`PositionIsMonotone`, by finite cardinalities), hence both the test set and each validation
window come after what precedes their start (`TestIsLater`, `ValidationIsLater`).
`TrainingImplementsRegistry` needs to know, of each launch at each step, what it has not
begun (`AheadOf`), which folds it has (`FoldsOf`) and which artefacts (`FinalOf`, the set
before the one it logs next), and of the notebook that the final run it has found has its
predictions (`NotebookInv`). A lemma per kind of step then maps it to `Begin`, `Log`,
`Select` or a stutter; what a launch does to other experiments is not seen
(`OtherExperimentsAreNotSeen`).

`ThresholdsAreOwn` is the longest argument, over a second invariant, `OwnInv`. As long as no
two launches have overlapped there is at most one under way (`OneActive`), so a file it is
about to upload is the one it has just written (`OwnFile`), and all that has been uploaded is
its run's own (`OwnFolds`, `OwnPredictions`). What lies behind a launch is complete
(`Behind`): all folds, and a final run for each cross-validation. The notebook looks for the
two runs by their start alone. That they are of one launch follows from the two orders in
which runs begin: the launch under way is the last to have begun its cross-validation
(`ActiveIsLast`), so a final run never comes after one that its cross-validation does not
come after (`FinalOrder`), and `CvOrder` has no two runs each after the other
(`LatestIsLatest`). A broken launch may leave a cross-validation without a final run, which
is why the latest one must have finished.

`EachRowCounts` is about the confusion matrices of the two kinds of runs. Those of the folds are
of windows that do not meet (`WindowsAreApart`, `FoldsAreApart`), and the sizes of
disjoint sets add up to that of their union (`SizesAddUp`). This is an induction, as is
whatever a fold of a function yields; it is done over the set of the numbers the
statement holds of (`NatInduct`, from the library's well-founded minimum), so that no
operator needs to be instantiated. `CountInv` keeps what `Aggregate` adds up: only it takes a
launch to its final model (`OnlyAggregateLeadsOn`), whose data stay as they are until then.

`DeploymentServes` and `AnswersAreTuned` are about training and serving together. Each step
of training is one that `ModelServing` allows its registry (`RegistryGoesOn`, from the
refinement), so the API process beside it does what `ModelServing` says. For the second,
`AnswerInv` says that a load that has asked for a threshold, and a bundle in a cache or in
the hands of a request, has the one its launch has by now; it stays right because a
threshold is logged once (`ThresholdsStay`), and `ThresholdsAreOwn` says whose it is.

`WhatIsScoredHasItsColumns` is for any rows and categories, with the columns as the code
lists them; its part about inference assumes that the served family does not impute
(`ServedAsScored`), as `MODEL_CONFIGS` has it.

### Only model-checked

* Everything about liveness: `IdleCostsNothing`, `VisitorsAreServed`,
  `AwakeIsPutToSleep`, `LoadsRecover`, and the liveness half of `FollowsPolicy` (its
  safety half is `ImplementsPolicy`). TLAPS does not reach fairness and ENABLED.
* The findings, which are counterexamples.

Every other property of the passing runs is a theorem. Of `Deployment` it is the other way
round: its two theorems are about the composition of modules that only have runs apart.

## 5. Where code and documentation part

Two divergences are runs (`PROJECT.json`, "findings"): `stuck_down` and `star_leak`.
Others were met while modelling; the models follow the code in each.

Agent and chat:

* The judge approves by default on any `BadRequestError` that `invoke_with_retry` lets
  through, so also after a single one that is not `tool_use_failed` and was never
  retried (`agent/nodes/judge.py:65-73`; README.md:746 speaks of exhausted retries).
  The same line gives the judge more retries than earlier steps; it has the 3 that they
  have (`judge.py:22`, `agent/utils/llm_utils.py:26`).
* `extract_case_a` calls its LLM without `invoke_with_retry`
  (`agent/nodes/extractor.py:75`), unlike the other structured calls.
* A request routed to scoring that names no company reaches the judge with empty
  material, which its prompt (`judge_prompt.py:19`) takes to be impossible.
* Reading a history creates the session (`api/session_store.py:42`), so that
  a session without a turn exists after a failed first question
  (`schemas/api/routers/chat.py:66` says otherwise).
* `ui/chat_registry.py:3` "keeps track of which session_ids the user has started":
  a first question whose run is stopped, or whose connection breaks, is
  recorded by the service and never listed.
* The main area is to show "the active conversation's messages" (`ui/app.py:5-6`). A run that
  is stopped between changing the one and the other leaves the messages of another
  conversation there until they are replaced: a switch while the history is fetched (66
  and 75), or after it has failed (71, 72), a new chat (85 and 86), a first answer before it
  is registered (126 and `chat_registry.py:86`). A question asked then goes to the
  active conversation, whose agent knows nothing of what is displayed. The properties of
  the page except this state (`torn`); without the exception TLC refutes them.
* Nothing keeps the user from asking again while the page waits: the second
  request overlaps the first in the same conversation. `PatientUsersAreSerial` is for
  users who wait.

Deployment:

* A refused stop is swallowed and the run goes on to store asleep
  (`infra/aws_lambda/sleep_handler.py:79`), after which every run returns early: the comment
  at line 69, "the next scheduled run will retry stopping RDS", does not come true.
* The status stays asleep until the last write of the edge handler
  (`edge_wake_handler.py.tftpl:87`), which has 5 s (`infra/lambda-edge.tf:61`). One that dies after
  starting the instance or a service leaves a running system marked asleep, which no sleep
  run shuts down (`sleep_handler.py:55`); README.md:867 says that "the system costs nothing
  while idle and needs no manual intervention". `WakeSleep` with `MaxFailures = 1` and
  `IdleCostsNothing` shows it.
* The edge handler's comment on a refused start (line 77) holds for an instance
  that is starting, not for one still stopping.
* `lambda-wake.tf:12` names a handler the package does not contain.

Ingestion:

* "Atomic bulk insertions" (`restore.py:5`) are committed chunk by chunk: a failed
  restore leaves a partly filled database, and an extraction from that one
  overwrites good files.
* An extraction that raises leaves a readable file with a part of the table, and one
  of no rows if it is the first write that raises (`extract.py:106-107`, `135-137`).
* A restore passes the large table by if its file is missing or has no rows
  (`restore.py:114-119`), so that indices an earlier, failed restore has dropped stay
  away although this one ends well. There is then nothing to index, which is what
  `IndicesComeBack` says; rows inserted later have no indices.
* Rows inserted during an extraction can be in a later table without their parents in an
  earlier one (a session per table, `extract.py:82`); such files fail to restore.
  `ExtractIsFaithful` and `ClosedFilesAreAccepted` do not speak of them.
* A table that has become empty writes no file, and an earlier file stays.

Star schema:

* The spine takes every version of a company, each with all months from the foundation up
  to its `dbt_valid_to` and without a lower bound at `dbt_valid_from`
  (`int_company_date_spine.sql:26`): after one change of a tracked column it has the months
  before it twice, against "One row per (company_id, snapshot_date)"
  (`intermediate/schema.yml:5`). The uniqueness test then fails, and later builds skip the
  fact table.
* `int_billing_trailing_90d.sql:26-27` and `int_contracts_asof.sql:19-23` join
  every version of a contract, so a contract that changed is counted once more.
* An invoice is late for a label only at a first of a month from 90 to 119 days after
  its due date (`int_billing_trailing_90d.sql:54`). Three short months can pass such a
  date by: one due on 1 December 2022 is 90 days late on 1 March and seen then, one
  due on the day after is 89 days late on 1 March and 120 on 1 April. The seed has no
  such due date, the schema does not exclude one; README.md:645 takes the window to be
  "the minimum needed to reliably capture the threshold under monthly snapshots".
* A company founded within a month fails `fct_no_dropped_spine_rows`, because its
  first spine row precedes its foundation.
* The test on expired versions compares `dbt_valid_to` as a date; the one on
  validity fails as soon as a version has closed.
* `schema.yml:188` documents `int_user_logins_velocity`; the model is
  `int_logins_trailing`.

Training, inference and retrieval:

* `selected_threshold`, which `model_loader.py:106` reads, is logged only by a notebook cell
  that is commented out. "Always the latest validated run" (line 57) is the latest one
  started, running and failed ones included: from the moment a retraining begins its final
  run until somebody runs that cell, every first load raises.
* `load_model` reads every family with `mlflow.xgboost` (line 93), so its scaler branch, and a
  call with another experiment name, are of no use.
* "Loaded once" (`api/dependencies.py:65`) holds of sequential requests. Concurrent first
  requests each load, the last to finish stays, and that may be an older run.
* Launches at the same time share the files under `/tmp` (`mlflow_utils.py:86`, `152`) and may
  upload each other's predictions; and the notebook looks up the latest cross-validation and
  the latest final run one by one. `ThresholdIsItsOwn` excludes both by its condition.
* The commented cell of the MLP (`plots.ipynb:1104`) logs `best_threshold`, a variable of
  another family.
* `plots.ipynb:1640` names the first value that `preprocess_test_set` returns `X_test`: it is
  the training matrix. The comment before it says that nothing is refitted; the call fits
  an encoder, on the star schema as it is then.
* With validation data `MLPClassifier.fit` calls `eval()` after each epoch and `train()` only
  once (`ml/models/mlp.py:213`): dropout is off from the second epoch on in the folds, and on
  throughout in the final fit, although line 144 says that the validation data serve
  "monitoring".
* `/predict/company` resolves names against the dimension and then reads the fact table: a
  company with no fact row yet is an IndexError, not the documented 404. Of several companies of
  one name an arbitrary one is scored (`utils/queries.py:21`).
* A section is said to be split at its `####` sub-sections (`agent/rag/ingest.py:68`); it is
  split at any deeper header, a `###` that contains a `####` is in the index whole and again
  in part, and what stands before the first `##` is in no chunk.
* `ingest` deletes the collection before it has read `docs_data.json`
  (`agent/rag/ingest.py:168`, `177`): a missing or torn file leaves an empty index.
* `_is_excluded` looks at the absolute path (`agent/rag/extract_docs.py:55`): a checkout below
  a directory named `tests` or `logs`, or one that begins with a dot, documents nothing.

Seeding and validation:

* `_max_day_for_month` returns a bound that its callers exclude
  (`simulation/seed.py:142-152`, `495`, `531`): run on the first day of a simulated month
  of 2026, the draw of a day raises and the whole run is rolled back. Run before the
  last simulated month, later months are drawn in the future and refused.
* `TODAY` is the process's local date (`seed.py:118`), the validators compare with
  UTC: while the former is a day ahead, a payment made today is refused. CHECKs on
  `CURRENT_TIMESTAMP` use the start of the transaction, hours before the last rows.
* A ticket can be resolved in the future (`seed.py:501-505`): only `created_at` is
  compared with the current time.
* A company's first year is driven by its own statement (`seed.py:757`), although line
  369 speaks of "without introducing target leakage".
* An invoice that will not be paid is `overdue` from its issue on, before its due date.
* Three columns are narrower than their schema: `gas_meter_class` (5 characters, the
  pattern is unbounded), `fiscal_year` (INTEGER), `ip_address` (INET, any text of up to
  45 characters is accepted). These rows pass Pydantic and fail at the flush.
* The `...Response` schemas of these tables are used by nothing under `src/`.

## 6. What is not modelled

* LLM prompts and clients, formatting, logging, configuration: no state, or the
  environment's choice in `AgentGraph`.
* Fitting, metrics other than counts, thresholds as numbers, SHAP, embeddings and distances:
  floating point, and mostly of libraries. A set of predictions, an artefact or a chunk is
  known by what it was made from.
* The grid searches of `ml/tuning` and the plots of the notebook: nothing reads what they write.
* Alembic migrations, Docker and Terraform definitions: the schedule, time-outs and
  seeding that matter to the handlers are in `WakeSleep`.
* CloudFront, SNS and cost figures; MLflow, Chroma, PostgreSQL and Streamlit are
  modelled as far as the code relies on them, and marked external in the map. Of Chroma,
  what a client in one process has in memory while another writes the collection is left
  out: a query sees what is stored.

## 7. Plan

Done: `WakeSleep`, `AgentGraph` with `AnswerPolicy`, `ChatService` with `Conversations`,
`ChatUI`, `StarSchema`, `Ingestion`, `OltpRules` with `Seeding`, `Training` with
`TrainingData`, `ModelRegistry` with `ModelServing`, `Deployment`, `RagIndex`, each with
its proofs.

Next, in this order:

1. Abstract specifications: an on/off switch for a calm `WakeSleep`; an atomic copy for
   `Ingestion`; both with their refinements proved.
2. `StarSchema`: contracts as of a date, the trailing windows of tickets and
   logins, the latest-row view that inference reads.
3. Proofs: the rest of what is proved of serving (`BundlesWhole`, `ViewsDecide`) about
   `Deployment!Serving`, which now only follows outside the prover: a theorem cannot be
   cited through an INSTANCE.

The runs and their properties are as many as the project can afford: what comes next
shares one of them, or takes the place of a narrower one.
