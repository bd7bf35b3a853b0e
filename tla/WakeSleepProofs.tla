-------------------------- MODULE WakeSleepProofs --------------------------
(***************************************************************************)
(* TypeOK and what a sleep run leaves behind, in every environment, and    *)
(* two safety properties of WakeSleep that hold as long as the deployment  *)
(* is Calm: any number of edge wake handlers run against each other and    *)
(* any number of sleep runs against each other, but not the ones against   *)
(* the others, RDS is settled when a handler starts, and no invocation     *)
(* dies.                                                                   *)
(***************************************************************************)
EXTENDS WakeSleep, TLAPS

Calm == /\ Environment \subseteq {"unseeded"}
        /\ MaxFailures = 0
        /\ RegionalWakes = {}

-----------------------------------------------------------------------------
(* Type correctness *)

LEMMA InitTypeOK == Init => TypeOK
BY HandlersAssumption, TimeAssumption, EnvironmentAssumption
DEF Init, TypeOK, SeedItem, Statuses, Ages, Services, RdsStates, Wakes, Handlers,
    WakeSteps, SleepSteps

LEMMA StepTypeOK == TypeOK /\ [Next]_vars => TypeOK'
<1> SUFFICES ASSUME TypeOK, [Next]_vars PROVE TypeOK'
  OBVIOUS
<1> USE HandlersAssumption, TimeAssumption, EnvironmentAssumption
        DEF TypeOK, Statuses, Ages, Services, RdsStates, Wakes, Handlers, Go
<1> USE DEF WakeSteps, SleepSteps
<1>1. CASE Seed
  BY <1>1 DEF Seed, SeedItem
<1>2. CASE RdsSettles
  BY <1>2 DEF RdsSettles
<1>3. CASE RdsBacksUp
  BY <1>3 DEF RdsBacksUp
<1>4. CASE Tick
  <2>1. item' \in [status : Statuses, age : Ages] \cup {NoItem}
    BY <1>4 DEF Tick, Older
  <2>2. span' \in [Handlers -> 0 .. LambdaSpan]
    BY <1>4 DEF Tick
  <2>3. sinceVisit' \in Ages
    BY <1>4 DEF Tick, Older
  <2> QED
    BY <1>4, <2>1, <2>2, <2>3 DEF Tick
<1>5. ASSUME NEW h \in Handlers, Fail(h) PROVE TypeOK'
  BY <1>5 DEF Fail
<1>6. ASSUME NEW w \in Wakes, WakeBegin(w) PROVE TypeOK'
  BY <1>6 DEF WakeBegin, NoItem
<1>7. ASSUME NEW w \in Wakes, WakeContinues(w) PROVE TypeOK'
  <2>1. CASE WakeTouch(w)
    BY <2>1 DEF WakeTouch
  <2>2. CASE WakeStart(w)
    BY <2>2 DEF WakeStart
  <2>3. CASE WakeApi(w) \/ WakeUi(w)
    BY <2>3 DEF WakeApi, WakeUi, Scale
  <2>4. CASE WakeCommit(w)
    BY <2>4 DEF WakeCommit
  <2> QED
    BY <1>7, <2>1, <2>2, <2>3, <2>4 DEF WakeContinues
<1>8. ASSUME NEW s \in Sleeps, SleepBegin(s) PROVE TypeOK'
  BY <1>8 DEF SleepBegin
<1>9. ASSUME NEW s \in Sleeps, SleepContinues(s) PROVE TypeOK'
  <2>1. CASE SleepStop(s)
    BY <2>1 DEF SleepStop
  <2>2. CASE SleepApi(s) \/ SleepUi(s)
    BY <2>2 DEF SleepApi, SleepUi, Scale
  <2>3. CASE SleepCommit(s)
    BY <2>3 DEF SleepCommit
  <2> QED
    BY <1>9, <2>1, <2>2, <2>3 DEF SleepContinues
<1>10. CASE UNCHANGED vars
  BY <1>10 DEF vars
<1> QED
  BY <1>1, <1>2, <1>3, <1>4, <1>5, <1>6, <1>7, <1>8, <1>9, <1>10 DEF Next

\* Every variable keeps its type, whatever overlaps, fails or is in
\* transition: in particular each wake invocation only writes back a status
\* the code knows, and no age runs past the threshold.
THEOREM TypeCorrect == Spec => []TypeOK
BY InitTypeOK, StepTypeOK, PTL DEF Spec
-----------------------------------------------------------------------------
(* The inductive invariant of a calm deployment *)

Waking == \E w \in Wakes : pc[w] # "idle" /\ saw[w] = "asleep"

\* What a wake invocation has achieved by the time it makes its next call; one
\* that read "awake" only has its timestamp left to write, and was told the
\* truth.
WakeProgress(w) ==
    /\ pc[w] # "idle" /\ saw[w] = "awake" => pc[w] = "touch" /\ PoweredUp
    /\ pc[w] \in {"apiUp", "uiUp", "markAwake"} => RdsUp
    /\ pc[w] \in {"uiUp", "markAwake"} => ecs["api"] = 1
    /\ pc[w] = "markAwake" => ecs["ui"] = 1

SleepProgress(s) ==
    /\ pc[s] # "idle" => rds \in {"available", "stopping", "stopped"}
    /\ pc[s] \in {"apiDown", "uiDown", "markAsleep"} => ~RdsUp
    /\ pc[s] \in {"uiDown", "markAsleep"} => ecs["api"] = 0
    /\ pc[s] = "markAsleep" => ecs["ui"] = 0

\* The two kinds of handler take turns, and RDS does nothing of its own.
TurnsTaken ==
    /\ ~(Running(Wakes) /\ Running(Sleeps))
    /\ Running(Sleeps) => item # NoItem
    /\ Running(Wakes) => rds # "stopping"
    /\ rds # "backing-up"

\* The stored status is true, unless an invocation in flight will make it so.
StatusWillMatch ==
    /\ item = NoItem => PoweredUp
    /\ item.status = "awake" /\ ~Running(Sleeps) => PoweredUp
    /\ item.status = "asleep" /\ ~Waking => PoweredDown

CalmInv ==
    /\ TypeOK
    /\ TurnsTaken
    /\ \A w \in Wakes : WakeProgress(w)
    /\ \A s \in Sleeps : SleepProgress(s)
    /\ StatusWillMatch

LEMMA CalmInit == Calm /\ Init => CalmInv
<1> SUFFICES ASSUME Calm, Init PROVE CalmInv
  OBVIOUS
<1>1. TypeOK
  BY InitTypeOK
<1>2. \A h \in Handlers : pc[h] = "idle"
  BY DEF Init
<1>3. ~Running(Wakes) /\ ~Running(Sleeps)
  BY <1>2 DEF Running, Handlers
<1>4. PoweredUp /\ rds = "available"
  BY DEF Init, PoweredUp, RdsUp, ServicesUp
<1>5. item.status # "asleep"
  BY DEF Init, SeedItem, NoItem
<1> QED
  BY <1>1, <1>2, <1>3, <1>4, <1>5
  DEF CalmInv, TurnsTaken, WakeProgress, SleepProgress, StatusWillMatch, Handlers

LEMMA CalmStep ==
    ASSUME Calm, CalmInv, [Next]_vars
    PROVE  CalmInv'
<1> USE DEF CalmInv
<1>1. TypeOK'
  BY StepTypeOK
<1>2. /\ "overlap" \notin Environment /\ "transition" \notin Environment
      /\ RegionalWakes = {} /\ Wakes \cap Sleeps = {}
      /\ failures = 0 /\ MaxFailures = 0
  BY HandlersAssumption DEF Calm, TypeOK, Wakes
<1> DEFINE Kept == TurnsTaken' /\ (\A w \in Wakes : WakeProgress(w)')
                   /\ (\A s \in Sleeps : SleepProgress(s)') /\ StatusWillMatch'
<1> USE DEF TurnsTaken, WakeProgress, SleepProgress, StatusWillMatch, Running, Waking,
            PoweredUp, PoweredDown, RdsUp, ServicesUp, ServicesDown, Services, TypeOK,
            Handlers, Go, Scale, RdsStates
<1>3. CASE Seed
  <2>1. ~Running(Sleeps) /\ PoweredUp
    BY <1>3 DEF Seed
  <2>2. item'.status = "awake" /\ item' # NoItem
    BY <1>3 DEF Seed, SeedItem, NoItem
  <2>3. UNCHANGED <<rds, ecs, pc, saw>>
    BY <1>3 DEF Seed
  <2>4. TurnsTaken' /\ StatusWillMatch'
    BY <2>1, <2>2, <2>3
  <2> QED
    BY <2>3, <2>4, <1>1
<1>4. CASE RdsSettles
  BY <1>2, <1>4 DEF RdsSettles
<1>5. CASE RdsBacksUp
  BY <1>2, <1>5 DEF RdsBacksUp
<1>6. CASE Tick
  <2>1. item'.status = item.status /\ (item' = NoItem <=> item = NoItem)
    BY <1>6 DEF Tick, NoItem, Statuses
  <2>2. UNCHANGED <<rds, ecs, pc, saw>>
    BY <1>6 DEF Tick
  <2>3. TurnsTaken' /\ StatusWillMatch'
    BY <2>1, <2>2
  <2> QED
    BY <2>2, <2>3, <1>1
<1>7. ASSUME NEW h \in Handlers, Fail(h) PROVE Kept
  BY <1>2, <1>7 DEF Fail
<1>8. ASSUME NEW w \in Wakes, WakeBegin(w) PROVE Kept
  BY <1>2, <1>8 DEF WakeBegin, Statuses
<1>9. ASSUME NEW w \in Wakes, WakeContinues(w) PROVE Kept
  <2>1. CASE WakeTouch(w)
    <3>1. item'.status = saw[w] /\ item' # NoItem /\ saw[w] \in Statuses
      BY <2>1 DEF WakeTouch, Statuses, NoItem
    <3>2. /\ UNCHANGED <<rds, ecs, saw>>
          /\ pc' = [pc EXCEPT ![w] = IF saw[w] = "awake" THEN "idle" ELSE "start"]
      BY <2>1 DEF WakeTouch
    <3>3. ~Running(Sleeps) /\ ~Running(Sleeps)'
      BY <1>2, <2>1, <3>2 DEF WakeTouch
    <3>4. saw[w] = "awake" => PoweredUp
      BY <2>1 DEF WakeTouch
    <3>5. TurnsTaken'
      BY <2>1, <3>1, <3>2, <3>3 DEF WakeTouch
    <3>6. ASSUME NEW v \in Wakes PROVE WakeProgress(v)'
      BY <2>1, <3>2 DEF WakeTouch
    <3>7. ASSUME NEW s \in Sleeps PROVE SleepProgress(s)'
      BY <1>2, <3>2
    <3>8. saw[w] = "asleep" => Waking'
      BY <3>2
    <3>9. StatusWillMatch'
      BY <3>1, <3>2, <3>3, <3>4, <3>8 DEF Statuses
    <3> QED
      BY <3>5, <3>6, <3>7, <3>9
  <2>2. CASE WakeStart(w)
    <3>1. /\ pc[w] = "start" /\ saw[w] = "asleep"
          /\ UNCHANGED <<item, ecs, saw>>
          /\ pc' = [pc EXCEPT ![w] = "apiUp"]
      BY <1>2, <2>2 DEF WakeStart, Statuses
    <3>2. ~Running(Sleeps) /\ ~Running(Sleeps)'
      BY <1>2, <3>1
    <3>3. /\ rds' \in {"starting", "available"}
          /\ RdsUp => rds' = rds
      BY <2>2, <3>1 DEF WakeStart
    <3>4. ASSUME NEW v \in Wakes PROVE WakeProgress(v)'
      BY <3>1, <3>3
    <3>5. Waking'
      BY <3>1
    <3> QED
      BY <1>2, <3>1, <3>2, <3>3, <3>4, <3>5
  <2>3. CASE WakeApi(w)
    BY <1>2, <2>3 DEF WakeApi
  <2>4. CASE WakeUi(w)
    BY <1>2, <2>4 DEF WakeUi
  <2>5. CASE WakeCommit(w)
    BY <1>2, <2>5 DEF WakeCommit, NoItem
  <2> QED
    BY <1>9, <2>1, <2>2, <2>3, <2>4, <2>5 DEF WakeContinues
<1>10. ASSUME NEW s \in Sleeps, SleepBegin(s) PROVE Kept
  BY <1>2, <1>10 DEF SleepBegin, NoItem
<1>11. ASSUME NEW s \in Sleeps, SleepContinues(s) PROVE Kept
  <2>1. CASE SleepStop(s)
    BY <1>2, <2>1 DEF SleepStop
  <2>2. CASE SleepApi(s)
    BY <1>2, <2>2 DEF SleepApi
  <2>3. CASE SleepUi(s)
    BY <1>2, <2>3 DEF SleepUi
  <2>4. CASE SleepCommit(s)
    BY <1>2, <2>4 DEF SleepCommit, NoItem
  <2> QED
    BY <1>11, <2>1, <2>2, <2>3, <2>4 DEF SleepContinues
<1>12. CASE UNCHANGED vars
  BY <1>12 DEF vars
<1> QED
  BY <1>1, <1>3, <1>4, <1>5, <1>6, <1>7, <1>8, <1>9, <1>10, <1>11, <1>12 DEF Next

\* In a calm deployment the stored status is true of RDS and of both services
\* whenever no handler is in flight, for any number of concurrent viewer
\* requests and sleep runs.
THEOREM CalmStatusMatchesPower ==
    ASSUME Calm
    PROVE  Spec => []StatusMatchesPower
<1>1. Init => CalmInv
  BY CalmInit
<1>2. CalmInv /\ [Next]_vars => CalmInv'
  BY CalmStep
<1>3. CalmInv => StatusMatchesPower
  BY DEF CalmInv, StatusWillMatch, StatusMatchesPower, TypeOK, Running, Waking,
         Handlers, Statuses, NoItem
<1> QED
  BY <1>1, <1>2, <1>3, PTL DEF Spec

-----------------------------------------------------------------------------
(* How far the stored timestamp can lag behind the last visit *)

\* Once no request is in flight, the stored timestamp is at most one
\* invocation's life older than the last visit, and a sleep run in flight was
\* right to start.
TimestampLag ==
    /\ Running(Sleeps) => Threshold <= sinceVisit + LambdaSpan
    /\ item = NoItem => \A w \in Wakes : pc[w] \in {"idle", "touch"}
    /\ ~Running(Wakes) =>
         IF item = NoItem THEN sinceVisit = Threshold
         ELSE item.age <= sinceVisit + LambdaSpan

LEMMA LagInit == Init => TimestampLag
BY TimeAssumption DEF Init, TimestampLag, SeedItem, NoItem, Handlers, Running

LEMMA LagStep ==
    ASSUME Calm, CalmInv, TimestampLag, [Next]_vars
    PROVE  TimestampLag'
<1> USE TimeAssumption DEF TimestampLag
<1>1. /\ "overlap" \notin Environment /\ MaxFailures = 0 /\ failures = 0
      /\ RegionalWakes = {} /\ TypeOK
      /\ Wakes \subseteq Handlers /\ Sleeps \subseteq Handlers /\ Wakes \cap Sleeps = {}
  BY HandlersAssumption DEF Calm, CalmInv, TypeOK, Wakes, Handlers
<1>2. sinceVisit \in 0 .. Threshold
      /\ (item # NoItem => item.age \in 0 .. Threshold /\ item.status \in Statuses)
      /\ (\A h \in Handlers : span[h] \in 0 .. LambdaSpan)
  BY <1>1 DEF TypeOK, Ages
<1>3. CASE Seed
  BY <1>2, <1>3 DEF Seed, SeedItem, NoItem, Running
<1>4. CASE RdsSettles \/ RdsBacksUp
  BY <1>4 DEF RdsSettles, RdsBacksUp, Running
<1>5. CASE Tick
  <2>1. UNCHANGED pc /\ (item' = NoItem <=> item = NoItem)
    BY <1>1, <1>5 DEF Tick, NoItem, TypeOK, Statuses
  <2>2. item # NoItem => item'.age = Older(item.age)
    BY <1>1, <1>5 DEF Tick, TypeOK
  <2>3. sinceVisit' = Older(sinceVisit)
    BY <1>5 DEF Tick
  <2> QED
    BY <1>2, <2>1, <2>2, <2>3 DEF Older, Running
<1>6. ASSUME NEW h \in Handlers, Fail(h) PROVE TimestampLag'
  BY <1>1, <1>6 DEF Fail
<1>7. ASSUME NEW w \in Wakes, WakeBegin(w) PROVE TimestampLag'
  BY <1>1, <1>7 DEF WakeBegin, Running, Go, TypeOK
<1>8. ASSUME NEW w \in Wakes, WakeContinues(w) PROVE TimestampLag'
  <2>1. ~Running(Sleeps)'
    <3>1. pc[w] # "idle" /\ \A s \in Sleeps : pc'[s] = pc[s]
      BY <1>1, <1>8 DEF WakeContinues, WakeTouch, WakeStart, WakeApi, WakeUi, WakeCommit,
                        Go, TypeOK
    <3> QED
      BY <3>1 DEF Running, CalmInv, TurnsTaken
  <2>2. CASE WakeTouch(w) \/ WakeCommit(w)
    <3>1. item' # NoItem /\ item'.age = span[w] /\ UNCHANGED sinceVisit
      BY <1>1, <2>2 DEF WakeTouch, WakeCommit, NoItem, TypeOK, Statuses
    <3> QED
      BY <1>1, <1>2, <2>1, <3>1
  <2>3. CASE WakeStart(w) \/ WakeApi(w) \/ WakeUi(w)
    <3>1. UNCHANGED <<item, sinceVisit>> /\ pc[w] \notin {"idle", "touch"}
      BY <2>3 DEF WakeStart, WakeApi, WakeUi
    <3>2. pc'[w] # "idle"
      BY <1>1, <2>3 DEF WakeStart, WakeApi, WakeUi, Go, TypeOK
    <3>3. Running(Wakes)'
      BY <3>2 DEF Running
    <3> QED
      BY <2>1, <3>1, <3>3
  <2> QED
    BY <1>8, <2>2, <2>3 DEF WakeContinues
<1>9. ASSUME NEW s \in Sleeps, SleepBegin(s) \/ SleepContinues(s)
      PROVE  TimestampLag'
  <2>1. \A w \in Wakes : pc'[w] = pc[w]
    BY <1>1, <1>9 DEF SleepBegin, SleepContinues, SleepStop, SleepApi, SleepUi,
                      SleepCommit, Go, TypeOK
  <2>2. UNCHANGED sinceVisit
    BY <1>9 DEF SleepBegin, SleepContinues, SleepStop, SleepApi, SleepUi, SleepCommit
  <2>3. Threshold <= sinceVisit + LambdaSpan
    <3>1. CASE SleepBegin(s)
      BY <1>1, <1>2, <3>1 DEF SleepBegin, NoItem
    <3>2. CASE SleepContinues(s)
      <4>1. Running(Sleeps)
        BY <3>2 DEF Running, SleepContinues, SleepStop, SleepApi, SleepUi, SleepCommit
      <4> QED
        BY <4>1
    <3> QED
      BY <1>9, <3>1, <3>2
  <2>4. CASE UNCHANGED item
    BY <2>1, <2>2, <2>4, <2>3 DEF Running
  <2>5. CASE SleepCommit(s)
    <3>1. item' # NoItem /\ item'.age = Threshold
      BY <2>5 DEF SleepCommit, NoItem
    <3> QED
      BY <1>1, <1>2, <2>1, <2>2, <2>5, <2>3, <3>1 DEF Running
  <2> QED
    BY <1>9, <2>4, <2>5 DEF SleepBegin, SleepContinues, SleepStop, SleepApi, SleepUi
<1>10. CASE UNCHANGED vars
  BY <1>10 DEF vars, Running
<1> QED
  BY <1>3, <1>4, <1>5, <1>6, <1>7, <1>8, <1>9, <1>10 DEF Next

\* In a calm deployment no sleep run starts within the threshold of the last
\* viewer request, less the life of one invocation, for any number of
\* concurrent requests writing their timestamps over each other.
THEOREM CalmSleepsOnlyWhenIdle ==
    ASSUME Calm
    PROVE  Spec => SleepsOnlyWhenIdle
<1>1. Init => CalmInv /\ TimestampLag
  BY CalmInit, LagInit
<1>2. CalmInv /\ TimestampLag /\ [Next]_vars => CalmInv' /\ TimestampLag'
  BY CalmStep, LagStep
<1> DEFINE RightlySlept ==
      \A s \in Sleeps :
        pc[s] = "idle" /\ pc'[s] = "stop" => sinceVisit + LambdaSpan >= Threshold
<1>3. CalmInv /\ TimestampLag' /\ [Next]_vars => [RightlySlept]_vars
  <2> SUFFICES ASSUME CalmInv, TimestampLag', [Next]_vars, NEW s \in Sleeps,
                      pc[s] = "idle", pc'[s] = "stop"
               PROVE  sinceVisit + LambdaSpan >= Threshold
    OBVIOUS
  <2>1. Running(Sleeps)'
    BY DEF Running
  <2>2. sinceVisit' = sinceVisit
    <3>1. Next /\ pc' # pc
      BY DEF vars
    <3>2. \A w \in Wakes : ~WakeBegin(w)
      BY HandlersAssumption DEF WakeBegin, Go, CalmInv, TypeOK, Handlers
    <3> QED
      BY <3>1, <3>2
      DEF Next, Seed, RdsSettles, RdsBacksUp, Tick, Fail, SleepBegin, WakeContinues,
          WakeTouch, WakeStart, WakeApi, WakeUi, WakeCommit, SleepContinues,
          SleepStop, SleepApi, SleepUi, SleepCommit
  <2> QED
    BY <2>1, <2>2, TimeAssumption DEF TimestampLag, CalmInv, TypeOK, Ages
<1> QED
  BY <1>1, <1>2, <1>3, PTL DEF Spec, SleepsOnlyWhenIdle

-----------------------------------------------------------------------------
(* What a sleep run leaves behind, in every environment *)

\* A wake handler under way is at least as old as the last visit.
WakesAreVisits == \A w \in Wakes : pc[w] # "idle" => sinceVisit <= span[w]

\* A sleep run beside which nobody came scales the services down for good, one by one.
Lonely(s) == sinceVisit > LambdaSpan + span[s]
ServicesFollow ==
    \A s \in Sleeps : Lonely(s) =>
        /\ pc[s] \in {"uiDown", "markAsleep"} => ecs["api"] = 0
        /\ pc[s] = "markAsleep" => ecs["ui"] = 0

DownInv == TypeOK /\ WakesAreVisits /\ ServicesFollow

LEMMA DownInit == Init => DownInv
  BY InitTypeOK DEF Init, DownInv, WakesAreVisits, ServicesFollow, Handlers

LEMMA DownStep == DownInv /\ [Next]_vars => DownInv'
<1> SUFFICES ASSUME DownInv, [Next]_vars PROVE WakesAreVisits' /\ ServicesFollow'
  BY StepTypeOK DEF DownInv
<1> USE HandlersAssumption, TimeAssumption
<1>0. TypeOK /\ TypeOK'
  BY StepTypeOK DEF DownInv
<1>1. /\ Wakes \subseteq Handlers /\ Sleeps \subseteq Handlers /\ Wakes \cap Sleeps = {}
      /\ LambdaSpan \in Nat /\ sinceVisit \in Nat /\ Threshold \in Nat
      /\ \A h \in Handlers : span[h] \in 0 .. LambdaSpan
      /\ WakesAreVisits /\ ServicesFollow
  BY <1>0 DEF TypeOK, DownInv, Handlers, Ages
\* Nobody is alone beside a wake handler.
<1>2. \A w \in Wakes, s \in Sleeps : pc[w] # "idle" => ~Lonely(s)
  <2> SUFFICES ASSUME NEW w \in Wakes, NEW s \in Sleeps, pc[w] # "idle" PROVE ~Lonely(s)
    OBVIOUS
  <2>1. sinceVisit <= span[w] /\ span[w] \in 0 .. LambdaSpan /\ span[s] \in 0 .. LambdaSpan
    BY <1>1 DEF WakesAreVisits
  <2> QED
    BY <1>1, <2>1 DEF Lonely
<1>3. CASE UNCHANGED <<pc, span, sinceVisit, ecs>>
  BY <1>1, <1>3 DEF WakesAreVisits, ServicesFollow, Lonely
<1>4. CASE Tick
  <2>1. pc' = pc /\ ecs' = ecs /\ sinceVisit' = Older(sinceVisit)
        /\ \A h \in Handlers : span'[h] = IF pc[h] = "idle" THEN 0 ELSE span[h] + 1
    BY <1>4 DEF Tick
  <2>2. sinceVisit' <= sinceVisit + 1
    BY <1>1, <2>1 DEF Older
  <2>3. WakesAreVisits'
    BY <1>0, <1>1, <2>1, <2>2 DEF WakesAreVisits, TypeOK, Ages
  <2>4. \A s \in Sleeps : pc[s] # "idle" /\ Lonely(s)' => Lonely(s)
    BY <1>0, <1>1, <2>1, <2>2 DEF Lonely, TypeOK, Ages
  <2>5. ServicesFollow'
    <3> SUFFICES ASSUME NEW s \in Sleeps, Lonely(s)', pc[s] \in {"uiDown", "markAsleep"}
                 PROVE  ecs'["api"] = 0 /\ (pc[s] = "markAsleep" => ecs'["ui"] = 0)
      BY <2>1 DEF ServicesFollow
    <3> QED
      BY <1>1, <2>1, <2>4 DEF ServicesFollow
  <2> QED
    BY <2>3, <2>5
<1>5. ASSUME NEW h \in Handlers, Fail(h)
      PROVE  WakesAreVisits' /\ ServicesFollow'
  <2>1. /\ pc' = [pc EXCEPT ![h] = "idle"] /\ span' = [span EXCEPT ![h] = 0]
        /\ sinceVisit' = sinceVisit /\ ecs' = ecs
    BY <1>5 DEF Fail, Go
  <2> QED
    BY <1>0, <1>1, <2>1 DEF WakesAreVisits, ServicesFollow, Lonely, TypeOK
<1>6. ASSUME NEW w \in Wakes, WakeBegin(w)
      PROVE  WakesAreVisits' /\ ServicesFollow'
  <2>1. /\ pc' = [pc EXCEPT ![w] = "touch"] /\ span' = [span EXCEPT ![w] = 0]
        /\ sinceVisit' = 0 /\ ecs' = ecs
    BY <1>6 DEF WakeBegin, Go
  <2>2. \A s \in Sleeps : ~Lonely(s)'
    BY <1>0, <1>1, <2>1 DEF Lonely, TypeOK
  <2> QED
    BY <1>0, <1>1, <2>1, <2>2 DEF WakesAreVisits, ServicesFollow, TypeOK
<1>7. ASSUME NEW w \in Wakes, WakeContinues(w)
      PROVE  WakesAreVisits' /\ ServicesFollow'
  <2>1. /\ pc[w] # "idle" /\ sinceVisit' = sinceVisit
        /\ \A h \in Handlers \ {w} : pc'[h] = pc[h] /\ span'[h] = span[h]
        /\ pc'[w] # "idle" => span'[w] = span[w]
    BY <1>0, <1>1, <1>7 DEF WakeContinues, WakeTouch, WakeStart, WakeApi, WakeUi, WakeCommit,
                            Go, TypeOK
  <2>2. \A s \in Sleeps : ~Lonely(s)'
    BY <1>1, <1>2, <2>1 DEF Lonely
  <2> QED
    BY <1>1, <2>1, <2>2 DEF WakesAreVisits, ServicesFollow
<1>8. ASSUME NEW s \in Sleeps, SleepBegin(s) \/ SleepContinues(s)
      PROVE  WakesAreVisits' /\ ServicesFollow'
  <2>1. /\ sinceVisit' = sinceVisit
        /\ \A h \in Handlers \ {s} : pc'[h] = pc[h] /\ span'[h] = span[h]
    BY <1>0, <1>1, <1>8 DEF SleepBegin, SleepContinues, SleepStop, SleepApi, SleepUi,
                            SleepCommit, Go, TypeOK
  <2>2. /\ \A svc \in Services : ecs[svc] = 0 => ecs'[svc] = 0
        /\ pc'[s] = "uiDown" => ecs'["api"] = 0
        /\ pc'[s] = "markAsleep" => pc[s] = "uiDown" /\ ecs'["ui"] = 0 /\ span'[s] = span[s]
    BY <1>0, <1>1, <1>8 DEF SleepBegin, SleepContinues, SleepStop, SleepApi, SleepUi,
                            SleepCommit, Go, Scale, TypeOK, Services
  <2>3. WakesAreVisits'
    BY <1>1, <2>1 DEF WakesAreVisits
  <2>4. ServicesFollow'
    BY <1>1, <2>1, <2>2 DEF ServicesFollow, Lonely, Services
  <2> QED
    BY <2>3, <2>4
<1>9. CASE UNCHANGED vars
  BY <1>3, <1>9 DEF vars
<1>10. CASE Seed \/ RdsSettles \/ RdsBacksUp
  BY <1>3, <1>10 DEF Seed, RdsSettles, RdsBacksUp
<1> QED
  BY <1>4, <1>5, <1>6, <1>7, <1>8, <1>9, <1>10 DEF Next

\* In every environment, with refused stops, handlers that die, wakes and sleep runs in
\* any number and interleaving: a sleep run that stores asleep has both services scaled
\* down, unless somebody came while it ran or just before it (sleep_handler.py).
THEOREM SleepRunsTakeServicesDown == Spec => []SleepTakesServicesDown
<1>1. DownInv => SleepTakesServicesDown
  BY DEF DownInv, ServicesFollow, Lonely, SleepTakesServicesDown, ServicesDown, Services
<1> QED
  BY <1>1, DownInit, DownStep, PTL DEF Spec
=============================================================================
