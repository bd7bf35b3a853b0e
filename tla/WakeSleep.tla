----------------------------- MODULE WakeSleep -----------------------------
(***************************************************************************)
(* The wake/sleep control loop of the AWS deployment.  Every viewer        *)
(* request runs the Lambda@Edge wake handler, an EventBridge schedule runs *)
(* the sleep handler, and the two share one DynamoDB item, one RDS         *)
(* instance and two ECS services.  No step of either handler is atomic     *)
(* with the next: the item is read, calls are made, the item is written    *)
(* back.  One action below is one AWS call of a handler.                   *)
(*                                                                         *)
(* Time is kept as ages: instead of last_request_at the item holds the     *)
(* time since that timestamp, saturating at Threshold (the code only asks  *)
(* whether it has reached INACTIVITY_THRESHOLD_SECONDS), and the `now` a   *)
(* handler took on entry is the time since it was invoked.                 *)
(***************************************************************************)
EXTENDS Naturals, FiniteSets

CONSTANTS
    EdgeWakes,      \* concurrent executions of the Lambda@Edge wake handler
    RegionalWakes,  \* executions of the regional wake handler
    Sleeps,         \* executions of the scheduled sleep handler
    Threshold,      \* INACTIVITY_THRESHOLD_SECONDS, in ticks
    LambdaSpan,     \* ticks an invocation can outlive before its time-out
    Environment,    \* which circumstances may occur, see EnvironmentKinds
    MaxFailures     \* invocations that die half-way: raised, timed out

\* "overlap": a sleep run and a viewer request may be in flight together.
\* "transition": a handler may find RDS stopping or starting, and RDS may
\* make an automated backup.  "unseeded": handlers run before the terraform
\* apply that creates them has seeded the item.
EnvironmentKinds == {"overlap", "transition", "unseeded"}

Wakes == EdgeWakes \cup RegionalWakes
Handlers == Wakes \cup Sleeps

ASSUME HandlersAssumption ==
    /\ EdgeWakes \cap RegionalWakes = {}
    /\ Wakes \cap Sleeps = {}
ASSUME TimeAssumption ==
    /\ Threshold \in Nat /\ LambdaSpan \in Nat /\ LambdaSpan < Threshold
ASSUME EnvironmentAssumption ==
    /\ Environment \subseteq EnvironmentKinds /\ MaxFailures \in Nat

Statuses == {"awake", "asleep"}
Services == {"api", "ui"}
Ages == 0 .. Threshold
NoItem == [status |-> "none", age |-> 0]
RdsStates == {"available", "backing-up", "stopping", "stopped", "starting"}
WakeSteps == {"touch", "start", "apiUp", "uiUp", "markAwake"}
SleepSteps == {"stop", "apiDown", "uiDown", "markAsleep"}

VARIABLES
    item,       \* the DynamoDB item under STATE_KEY
    rds,        \* the DB instance's state
    ecs,        \* desiredCount of each ECS service
    pc,         \* the next call each invocation makes, "idle" if not running
    saw,        \* the status each wake invocation read
    span,       \* ticks since each invocation started
    sinceVisit, \* ticks since the last viewer request arrived
    failures    \* invocations that have died

vars == <<item, rds, ecs, pc, saw, span, sinceVisit, failures>>

Running(H) == \E h \in H : pc[h] # "idle"
Older(age) == IF age < Threshold THEN age + 1 ELSE age

TypeOK ==
    /\ item \in [status : Statuses, age : Ages] \cup {NoItem}
    /\ rds \in RdsStates
    /\ ecs \in [Services -> {0, 1}]
    /\ pc \in [Handlers -> {"idle"} \cup WakeSteps \cup SleepSteps]
    /\ \A w \in Wakes : pc[w] \notin SleepSteps
    /\ \A s \in Sleeps : pc[s] \notin WakeSteps
    /\ saw \in [Wakes -> Statuses]
    /\ span \in [Handlers -> 0 .. LambdaSpan]
    /\ sinceVisit \in Ages
    /\ failures \in 0 .. MaxFailures

\* The seeded item says "awake" and carries the timestamp 0, further back than
\* any threshold.
SeedItem == [status |-> "awake", age |-> Threshold]

\* terraform apply creates the instance and both services running; nobody has
\* visited yet.
Init ==
    /\ item = IF "unseeded" \in Environment THEN NoItem ELSE SeedItem
    /\ rds = "available"
    /\ ecs = [svc \in Services |-> 1]
    /\ pc = [h \in Handlers |-> "idle"]
    /\ saw = [w \in Wakes |-> "asleep"]
    /\ span = [h \in Handlers |-> 0]
    /\ sinceVisit = Threshold
    /\ failures = 0

\* The apply creates the item only where there is none.
Seed ==
    /\ item = NoItem
    /\ item' = SeedItem
    /\ UNCHANGED <<rds, ecs, pc, saw, span, sinceVisit, failures>>

(***************************************************************************)
(* What the environment may do                                             *)
(***************************************************************************)
Go(h, step) == pc' = [pc EXCEPT ![h] = step]
Scale(svc, count) == ecs' = [ecs EXCEPT ![svc] = count]

\* RDS accepts stop only when available, start only when stopped; in any
\* other state the call raises InvalidDBInstanceState.
RdsSettles ==
    /\ rds' = CASE rds = "starting" -> "available"
                [] rds = "stopping" -> "stopped"
                [] rds = "backing-up" -> "available"
                [] OTHER -> rds
    /\ rds' # rds
    /\ UNCHANGED <<item, ecs, pc, saw, span, sinceVisit, failures>>

RdsBacksUp ==
    /\ "transition" \in Environment
    /\ rds = "available"
    /\ rds' = "backing-up"
    /\ UNCHANGED <<item, ecs, pc, saw, span, sinceVisit, failures>>

\* No invocation outlives its time-out: one that would has returned or died.
Tick ==
    /\ \A h \in Handlers : pc[h] # "idle" => span[h] < LambdaSpan
    /\ span' = [h \in Handlers |->
                    IF pc[h] = "idle" THEN 0 ELSE span[h] + 1]
    /\ item' = IF item = NoItem THEN item
               ELSE [item EXCEPT !.age = Older(item.age)]
    /\ sinceVisit' = Older(sinceVisit)
    /\ UNCHANGED <<rds, ecs, pc, saw, failures>>

\* Any other ClientError, a time-out or a lost instance ends an invocation
\* between two of its calls.
Fail(h) ==
    /\ pc[h] # "idle"
    /\ failures < MaxFailures
    /\ failures' = failures + 1
    /\ Go(h, "idle")
    /\ span' = [span EXCEPT ![h] = 0]
    /\ UNCHANGED <<item, rds, ecs, saw, sinceVisit>>

(***************************************************************************)
(* The wake handlers                                                       *)
(***************************************************************************)

\* The handler takes `now` and reads the item; no item counts as asleep.
WakeBegin(w) ==
    /\ pc[w] = "idle"
    /\ "overlap" \in Environment \/ ~Running(Sleeps)
    /\ "transition" \in Environment \/ rds # "stopping"
    /\ saw' = [saw EXCEPT ![w] =
                    IF item = NoItem THEN "asleep" ELSE item.status]
    /\ Go(w, "touch")
    /\ span' = [span EXCEPT ![w] = 0]
    /\ sinceVisit' = 0
    /\ UNCHANGED <<item, rds, ecs, failures>>

\* Mutant: an awake system returns before its timestamp is refreshed.
WakeTouchOnlyIfAsleep(w) ==
    /\ pc[w] = "touch"
    /\ item' = IF saw[w] = "awake" THEN item
               ELSE [status |-> saw[w], age |-> span[w]]
    /\ Go(w, IF saw[w] = "awake" THEN "idle" ELSE "start")
    /\ span' = [span EXCEPT ![w] = IF saw[w] = "awake" THEN 0 ELSE @]
    /\ UNCHANGED <<rds, ecs, saw, sinceVisit, failures>>

\* put_item with the status read before; an awake system needs no more.
WakeTouch(w) ==
    /\ pc[w] = "touch"
    /\ item' = [status |-> saw[w], age |-> span[w]]
    /\ Go(w, IF saw[w] = "awake" THEN "idle" ELSE "start")
    /\ span' = [span EXCEPT ![w] = IF saw[w] = "awake" THEN 0 ELSE @]
    /\ UNCHANGED <<rds, ecs, saw, sinceVisit, failures>>

\* start_db_instance.  The edge handler swallows InvalidDBInstanceState, in
\* the regional handler it ends the invocation.
WakeStart(w) ==
    /\ pc[w] = "start"
    /\ \/ /\ rds = "stopped"
          /\ rds' = "starting"
          /\ Go(w, "apiUp")
          /\ UNCHANGED span
       \/ /\ rds # "stopped" /\ w \in EdgeWakes
          /\ Go(w, "apiUp")
          /\ UNCHANGED <<rds, span>>
       \/ /\ rds # "stopped" /\ w \in RegionalWakes
          /\ Go(w, "idle")
          /\ span' = [span EXCEPT ![w] = 0]
          /\ UNCHANGED rds
    /\ UNCHANGED <<item, ecs, saw, sinceVisit, failures>>

WakeApi(w) ==
    /\ pc[w] = "apiUp"
    /\ Scale("api", 1)
    /\ Go(w, "uiUp")
    /\ UNCHANGED <<item, rds, saw, span, sinceVisit, failures>>

WakeUi(w) ==
    /\ pc[w] = "uiUp"
    /\ Scale("ui", 1)
    /\ Go(w, "markAwake")
    /\ UNCHANGED <<item, rds, saw, span, sinceVisit, failures>>

\* Mutant: the final put_item is forgotten.
WakeCommitForgotten(w) ==
    /\ pc[w] = "markAwake"
    /\ Go(w, "idle")
    /\ span' = [span EXCEPT ![w] = 0]
    /\ UNCHANGED <<item, rds, ecs, saw, sinceVisit, failures>>

\* put_item "awake" with the `now` taken on entry; the notification that
\* follows changes nothing here.
WakeCommit(w) ==
    /\ pc[w] = "markAwake"
    /\ item' = [status |-> "awake", age |-> span[w]]
    /\ Go(w, "idle")
    /\ span' = [span EXCEPT ![w] = 0]
    /\ UNCHANGED <<rds, ecs, saw, sinceVisit, failures>>

(***************************************************************************)
(* The sleep handler                                                       *)
(***************************************************************************)

\* get_item, the status check and the idle check.  A run that finds no item,
\* "asleep" or too young a timestamp returns and changes nothing.
SleepBegin(s) ==
    /\ pc[s] = "idle"
    /\ item.status = "awake"
    /\ item.age >= Threshold
    /\ "overlap" \in Environment \/ ~Running(Wakes)
    /\ "transition" \in Environment \/ rds \in {"available", "stopped"}
    /\ Go(s, "stop")
    /\ span' = [span EXCEPT ![s] = 0]
    /\ UNCHANGED <<item, rds, ecs, saw, sinceVisit, failures>>

\* Mutant: the status is stored before the services are scaled down.
SleepStopMarksFirst(s) ==
    /\ pc[s] = "stop"
    /\ rds' = IF rds = "available" THEN "stopping" ELSE rds
    /\ item' = [status |-> "asleep", age |-> Threshold]
    /\ Go(s, "apiDown")
    /\ UNCHANGED <<ecs, saw, span, sinceVisit, failures>>

\* stop_db_instance; InvalidDBInstanceState is swallowed.
SleepStop(s) ==
    /\ pc[s] = "stop"
    /\ rds' = IF rds = "available" THEN "stopping" ELSE rds
    /\ Go(s, "apiDown")
    /\ UNCHANGED <<item, ecs, saw, span, sinceVisit, failures>>

SleepApi(s) ==
    /\ pc[s] = "apiDown"
    /\ Scale("api", 0)
    /\ Go(s, "uiDown")
    /\ UNCHANGED <<item, rds, saw, span, sinceVisit, failures>>

\* Mutant: the API service is scaled down twice.
SleepUiScalesApi(s) ==
    /\ pc[s] = "uiDown"
    /\ Scale("api", 0)
    /\ Go(s, "markAsleep")
    /\ UNCHANGED <<item, rds, saw, span, sinceVisit, failures>>

SleepUi(s) ==
    /\ pc[s] = "uiDown"
    /\ Scale("ui", 0)
    /\ Go(s, "markAsleep")
    /\ UNCHANGED <<item, rds, saw, span, sinceVisit, failures>>

\* Mutant: the final put_item is forgotten.
SleepCommitForgotten(s) ==
    /\ pc[s] = "markAsleep"
    /\ Go(s, "idle")
    /\ span' = [span EXCEPT ![s] = 0]
    /\ UNCHANGED <<item, rds, ecs, saw, sinceVisit, failures>>

\* put_item "asleep" with the last_request_at read on entry, which was
\* already past the threshold then.
SleepCommit(s) ==
    /\ pc[s] = "markAsleep"
    /\ item' = [status |-> "asleep", age |-> Threshold]
    /\ Go(s, "idle")
    /\ span' = [span EXCEPT ![s] = 0]
    /\ UNCHANGED <<rds, ecs, saw, sinceVisit, failures>>

WakeContinues(w) ==
    \/ WakeTouch(w) \/ WakeStart(w) \/ WakeApi(w) \/ WakeUi(w) \/ WakeCommit(w)
SleepContinues(s) ==
    \/ SleepStop(s) \/ SleepApi(s) \/ SleepUi(s) \/ SleepCommit(s)

Next ==
    \/ Seed
    \/ RdsSettles
    \/ RdsBacksUp
    \/ Tick
    \/ \E h \in Handlers : Fail(h)
    \/ \E w \in Wakes : WakeBegin(w) \/ WakeContinues(w)
    \/ \E s \in Sleeps : SleepBegin(s) \/ SleepContinues(s)

Spec == Init /\ [][Next]_vars

\* Time passes, AWS completes what it started, invoked handlers run on, and
\* the schedule keeps invoking the sleep handler.  Viewers owe nothing.
Fairness ==
    /\ WF_vars(Seed) /\ WF_vars(Tick) /\ WF_vars(RdsSettles)
    /\ \A w \in Wakes : WF_vars(WakeContinues(w))
    /\ \A s \in Sleeps : WF_vars(SleepContinues(s)) /\ WF_vars(SleepBegin(s))

FairSpec == Spec /\ Fairness

(***************************************************************************)
(* Properties                                                              *)
(***************************************************************************)
RdsUp == rds \in {"available", "backing-up", "starting"}
ServicesUp == \A svc \in Services : ecs[svc] = 1
ServicesDown == \A svc \in Services : ecs[svc] = 0
PoweredUp == RdsUp /\ ServicesUp
PoweredDown == ~RdsUp /\ ServicesDown

\* Whenever no handler is in flight, the stored status tells the truth about
\* RDS and both services: concurrent wake handlers that write stale statuses
\* over each other, and repeated sleep runs, always settle on it.
StatusMatchesPower ==
    ~Running(Handlers) => IF item.status = "asleep" THEN PoweredDown ELSE PoweredUp

\* A sleep run goes ahead only when no viewer request has arrived for the
\* threshold, up to the life of one invocation: an older wake invocation may
\* have put its own, earlier timestamp over that of a younger one.
SleepsOnlyWhenIdle ==
    [][ \A s \in Sleeps :
          pc[s] = "idle" /\ pc'[s] = "stop" => sinceVisit + LambdaSpan >= Threshold
      ]_vars

\* A sleep run has both services scaled down by the time it stores so, unless a viewer
\* came while it ran, or so shortly before it began that his wake handler may have
\* scaled them up behind it.  A refused stop, another sleep run, one that died half-way
\* and a wake handler that did keep none of them up.
SleepTakesServicesDown ==
    \A s \in Sleeps :
        (pc[s] = "markAsleep" /\ sinceVisit > LambdaSpan + span[s]) => ServicesDown

Quiet == ~Running(Wakes)

\* RDS has just refused to stop: it was starting, or making a backup.
StopRefused == \E s \in Sleeps : pc[s] = "apiDown" /\ RdsUp

\* If the viewers go away for good and leave the system marked awake with no sleep
\* run in flight, it ends up marked asleep and shut down, whatever sleep runs die
\* half-way: a later run repeats every call.  An RDS instance that refuses to stop may
\* be left running, but does not keep the services from scaling down (sleep handler,
\* comment on the swallowed error).
LeftAwake == item.status = "awake" /\ ~Running(Sleeps) /\ []Quiet
AwakeIsPutToSleep ==
    /\ LeftAwake ~> item.status = "asleep" /\ ServicesDown
    /\ LeftAwake /\ []~StopRefused ~> item.status = "asleep" /\ PoweredDown

\* If the viewers go away for good, nothing keeps running.
IdleCostsNothing == <>[]Quiet => <>[]PoweredDown

\* Viewers who keep coming back find the system powered up again and again.
VisitorsAreServed == []<>Running(Wakes) => []<>PoweredUp

=============================================================================
