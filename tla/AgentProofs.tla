---------------------------- MODULE AgentProofs ----------------------------
(***************************************************************************)
(* What holds of the agent for every set of companies and every value of   *)
(* the retry caps, and of its index for whatever is documented and however  *)
(* it is cut into batches.  The two are separate systems: the first theorems *)
(* are about Spec of AgentGraph, those of the last part about IndexSpec.    *)
(***************************************************************************)
EXTENDS AgentGraph, RagIndex, FiniteSetTheorems, TLAPS

\* The length of the path to each node: three more nodes per rewrite.
Flow ==
    /\ node = "router" => step = 0
    /\ node \in {"extractor", "retriever_node"} => step = 1
    /\ node = "predictor_node" => step = 2
    /\ node = "responder" => step <= 3 + 3 * retry_count
    /\ node = "judge" => step <= 4 + 3 * retry_count
    /\ node \in {"increment_retry_count", "fallback"}
            => step <= 5 + 3 * retry_count
    /\ node \in Nodes => attempt < ToolRetries
    /\ failure # "out_of_steps"

Accounted ==
    /\ prediction_results \cup prediction_errors = asked
    /\ prediction_results \cap prediction_errors = {}

\* Where each company is while the extractor and the predictor work on it.
Accounting ==
    /\ node \in {"extractor", "predictor_node"}
            => route \in {"case_a", "case_b"}
    /\ node = "retriever_node" => route = "rag"
    /\ node \in {"router", "extractor"}
            => /\ asked = {} /\ prediction_results = {}
               /\ prediction_errors = {}
    /\ node = "predictor_node"
            => /\ resolved \subseteq asked /\ prediction_results = {}
               /\ prediction_errors = asked \ resolved
    /\ ((drafts > 0 \/ node = "responder") /\ route \in {"case_a", "case_b"})
            => Accounted

\* How the drafts, the verdicts and the counter keep in step.
Review ==
    /\ node \in {"router", "extractor", "predictor_node", "retriever_node"}
            => drafts = 0 /\ retry_count = 0 /\ judge_verdict = "none"
               /\ judged = 0
    /\ node = "responder"
            => /\ drafts = retry_count /\ judged = drafts
               /\ judge_verdict = IF drafts = 0 THEN "none" ELSE "rejected"
    /\ node = "judge"
            => /\ drafts = retry_count + 1 /\ judged = retry_count
               /\ judge_verdict = IF retry_count = 0 THEN "none" ELSE "rejected"
               /\ final_answer = "draft" /\ route # "direct"
    /\ node \in {"increment_retry_count", "fallback"}
            => /\ drafts = retry_count + 1 /\ judged = drafts
               /\ judge_verdict = "rejected"
    /\ node = "increment_retry_count" => retry_count < MaxRetries
    /\ node = "fallback" => retry_count = MaxRetries
    /\ ShownAnswerWasJudged
    /\ RewritesAreCorrections

Inv == TypeOK /\ Flow /\ Accounting /\ Review

LEMMA InitInv == Init => Inv
<1> SUFFICES ASSUME Init PROVE Inv
  OBVIOUS
<1> USE RetriesAssumption, RecursionAssumption DEF Init
<1>1. TypeOK
  <2>1. corrected \in BOOLEAN
    OBVIOUS
  <2> QED
    BY <2>1 DEF TypeOK, Nodes, Finished, Companies, Routes, CallErrors
<1>2. Flow
  BY DEF Flow, Nodes
<1>3. Accounting
  BY DEF Accounting, Accounted
<1>4. Review
  BY DEF Review, ShownAnswerWasJudged, RewritesAreCorrections
<1> QED
  BY <1>1, <1>2, <1>3, <1>4 DEF Inv

LEMMA NextInv == Inv /\ [Next]_vars => Inv'
<1> SUFFICES ASSUME Inv, [Next]_vars PROVE Inv'
  OBVIOUS
<1> USE CompaniesAssumption, RetriesAssumption, RecursionAssumption
    DEF Inv, Companies, Nodes, Finished, CallErrors, callVars, materialVars,
        answerVars, verdictVars
<1>1. CASE TryAgain
  <2> USE <1>1 DEF TryAgain, CallsWithRetry, Retried
  <2>1. TypeOK'
    BY DEF TypeOK, Flow, Accounting, Review
  <2>2. Flow'
    BY DEF TypeOK, Flow, Accounting, Review
  <2>3. Accounting'
    BY DEF TypeOK, Accounting, Accounted, Review
  <2>4. Review'
    BY DEF TypeOK, Accounting, Review, ShownAnswerWasJudged,
           RewritesAreCorrections
  <2> QED
    BY <2>1, <2>2, <2>3, <2>4
<1>2. CASE StructuredCallRaises
  <2> USE <1>2 DEF StructuredCallRaises, CallsWithRetry, Retried, Raise
  <2>1. TypeOK'
    BY DEF TypeOK, Flow, Accounting, Review
  <2>2. Flow'
    BY DEF TypeOK, Flow, Accounting, Review
  <2>3. Accounting'
    BY DEF TypeOK, Accounting, Accounted, Review
  <2>4. Review'
    BY DEF TypeOK, Accounting, Review, ShownAnswerWasJudged,
           RewritesAreCorrections
  <2> QED
    BY <2>1, <2>2, <2>3, <2>4
<1>3. CASE Router
  <2> USE <1>3 DEF Router, Goto, RouteAfterRouter, Routes
  <2>1. TypeOK'
    BY DEF TypeOK, Flow, Accounting, Review
  <2>2. Flow'
    BY DEF TypeOK, Flow, Accounting, Review
  <2>3. Accounting'
    BY DEF TypeOK, Accounting, Accounted, Review
  <2>4. Review'
    BY DEF TypeOK, Accounting, Review, ShownAnswerWasJudged,
           RewritesAreCorrections
  <2> QED
    BY <2>1, <2>2, <2>3, <2>4
<1>4. CASE ExtractCaseA
  <2> USE <1>4 DEF ExtractCaseA, Goto
  <2>1. TypeOK'
    BY DEF TypeOK, Flow, Accounting, Review
  <2>2. Flow'
    BY DEF TypeOK, Flow, Accounting, Review
  <2>3. Accounting'
    BY DEF TypeOK, Accounting, Accounted, Review
  <2>4. Review'
    BY DEF TypeOK, Accounting, Review, ShownAnswerWasJudged,
           RewritesAreCorrections
  <2> QED
    BY <2>1, <2>2, <2>3, <2>4
<1>5. CASE ExtractCaseARaises
  <2> USE <1>5 DEF ExtractCaseARaises, Raise
  <2>1. TypeOK'
    BY DEF TypeOK, Flow, Accounting, Review
  <2>2. Flow'
    BY DEF TypeOK, Flow, Accounting, Review
  <2>3. Accounting'
    BY DEF TypeOK, Accounting, Accounted, Review
  <2>4. Review'
    BY DEF TypeOK, Accounting, Review, ShownAnswerWasJudged,
           RewritesAreCorrections
  <2> QED
    BY <2>1, <2>2, <2>3, <2>4
<1>6. CASE ExtractCaseB
  <2> USE <1>6 DEF ExtractCaseB, Goto
  <2>1. TypeOK'
    BY DEF TypeOK, Flow, Accounting, Review
  <2>2. Flow'
    BY DEF TypeOK, Flow, Accounting, Review
  <2>3. Accounting'
    BY DEF TypeOK, Accounting, Accounted, Review
  <2>4. Review'
    BY DEF TypeOK, Accounting, Review, ShownAnswerWasJudged,
           RewritesAreCorrections
  <2> QED
    BY <2>1, <2>2, <2>3, <2>4
<1>7. CASE PredictCaseA
  <2> USE <1>7 DEF PredictCaseA, Goto
  <2>1. TypeOK'
    BY DEF TypeOK, Flow, Accounting, Review
  <2>2. Flow'
    BY DEF TypeOK, Flow, Accounting, Review
  <2>3. Accounting'
    BY DEF TypeOK, Accounting, Accounted, Review
  <2>4. Review'
    BY DEF TypeOK, Accounting, Review, ShownAnswerWasJudged,
           RewritesAreCorrections
  <2> QED
    BY <2>1, <2>2, <2>3, <2>4
<1>8. CASE PredictCaseB
  <2> USE <1>8 DEF PredictCaseB, Goto
  <2>1. TypeOK'
    BY DEF TypeOK, Flow, Accounting, Review
  <2>2. Flow'
    BY DEF TypeOK, Flow, Accounting, Review
  <2>3. Accounting'
    BY DEF TypeOK, Accounting, Accounted, Review
  <2>4. Review'
    BY DEF TypeOK, Accounting, Review, ShownAnswerWasJudged,
           RewritesAreCorrections
  <2> QED
    BY <2>1, <2>2, <2>3, <2>4
<1>9. CASE Retrieve
  <2> USE <1>9 DEF Retrieve, Goto
  <2>1. TypeOK'
    BY DEF TypeOK, Flow, Accounting, Review
  <2>2. Flow'
    BY DEF TypeOK, Flow, Accounting, Review
  <2>3. Accounting'
    BY DEF TypeOK, Accounting, Accounted, Review
  <2>4. Review'
    BY DEF TypeOK, Accounting, Review, ShownAnswerWasJudged,
           RewritesAreCorrections
  <2> QED
    BY <2>1, <2>2, <2>3, <2>4
<1>10. CASE NodeRaises
  <2> USE <1>10 DEF NodeRaises, Raise
  <2>1. TypeOK'
    BY DEF TypeOK, Flow, Accounting, Review
  <2>2. Flow'
    BY DEF TypeOK, Flow, Accounting, Review
  <2>3. Accounting'
    BY DEF TypeOK, Accounting, Accounted, Review
  <2>4. Review'
    BY DEF TypeOK, Accounting, Review, ShownAnswerWasJudged,
           RewritesAreCorrections
  <2> QED
    BY <2>1, <2>2, <2>3, <2>4
<1>11. CASE Responder
  <2> USE <1>11 DEF Responder, Goto, RouteAfterResponder
  <2>1. TypeOK'
    BY DEF TypeOK, Flow, Accounting, Review
  <2>2. Flow'
    BY DEF TypeOK, Flow, Accounting, Review
  <2>3. Accounting'
    BY DEF TypeOK, Accounting, Accounted, Review
  <2>4. Review'
    BY DEF TypeOK, Accounting, Review, ShownAnswerWasJudged,
           RewritesAreCorrections
  <2> QED
    BY <2>1, <2>2, <2>3, <2>4
<1>12. CASE Judge
  <2> USE <1>12 DEF Judge, Goto, RouteAfterJudge
  <2>1. TypeOK'
    BY DEF TypeOK, Flow, Accounting, Review
  <2>2. Flow'
    BY DEF TypeOK, Flow, Accounting, Review
  <2>3. Accounting'
    BY DEF TypeOK, Accounting, Accounted, Review
  <2>4. Review'
    BY DEF TypeOK, Accounting, Review, ShownAnswerWasJudged,
           RewritesAreCorrections
  <2> QED
    BY <2>1, <2>2, <2>3, <2>4
<1>13. CASE JudgeDefaults
  <2> USE <1>13 DEF JudgeDefaults, Retried
  <2>1. TypeOK'
    BY DEF TypeOK, Flow, Accounting, Review
  <2>2. Flow'
    BY DEF TypeOK, Flow, Accounting, Review
  <2>3. Accounting'
    BY DEF TypeOK, Accounting, Accounted, Review
  <2>4. Review'
    BY DEF TypeOK, Accounting, Review, ShownAnswerWasJudged,
           RewritesAreCorrections
  <2> QED
    BY <2>1, <2>2, <2>3, <2>4
<1>14. CASE Increment
  <2> USE <1>14 DEF Increment, Goto
  <2>1. TypeOK'
    BY DEF TypeOK, Flow, Accounting, Review
  <2>2. Flow'
    BY DEF TypeOK, Flow, Accounting, Review
  <2>3. Accounting'
    BY DEF TypeOK, Accounting, Accounted, Review
  <2>4. Review'
    BY DEF TypeOK, Accounting, Review, ShownAnswerWasJudged,
           RewritesAreCorrections
  <2> QED
    BY <2>1, <2>2, <2>3, <2>4
<1>15. CASE Fallback
  <2> USE <1>15 DEF Fallback, Goto
  <2>1. TypeOK'
    BY DEF TypeOK, Flow, Accounting, Review
  <2>2. Flow'
    BY DEF TypeOK, Flow, Accounting, Review
  <2>3. Accounting'
    BY DEF TypeOK, Accounting, Accounted, Review
  <2>4. Review'
    BY DEF TypeOK, Accounting, Review, ShownAnswerWasJudged,
           RewritesAreCorrections
  <2> QED
    BY <2>1, <2>2, <2>3, <2>4
<1>16. CASE UNCHANGED vars
  BY <1>16 DEF Inv, TypeOK, Flow, Accounting, Accounted, Review,
     ShownAnswerWasJudged, RewritesAreCorrections, vars, callVars,
     materialVars, answerVars, verdictVars
<1> QED
  BY <1>1, <1>2, <1>3, <1>4, <1>5, <1>6, <1>7, <1>8, <1>9, <1>10, <1>11,
     <1>12, <1>13, <1>14, <1>15, <1>16 DEF Next

LEMMA SpecInv == Spec => []Inv
  BY InitInv, NextInv, PTL DEF Spec

\* Every variable keeps its type; in particular no request writes more than
\* MaxRetries + 1 drafts and no structured call is tried more than
\* ToolRetries times.
THEOREM TypeCorrect == Spec => []TypeOK
<1>1. Inv => TypeOK
  BY DEF Inv
<1> QED
  BY <1>1, SpecInv, PTL

\* The answer shown is the draft the judge saw last, and not one it rejected,
\* however many companies a request names and whatever the retry caps are.
THEOREM ShownIsJudged == Spec => []ShownAnswerWasJudged
<1>1. Inv => ShownAnswerWasJudged
  BY DEF Inv, Review
<1> QED
  BY <1>1, SpecInv, PTL

\* No company a request names is dropped or reported twice on its way from
\* the extractor through the predictor to the responder.
THEOREM NoCompanyDropped == Spec => []EveryCompanyAccounted
<1>1. Inv => EveryCompanyAccounted
  BY DEF Inv, Accounting, Accounted, EveryCompanyAccounted
<1> QED
  BY <1>1, SpecInv, PTL

\* Every rewrite, and only a rewrite, carries the judge's reason.
THEOREM RewritesCarryTheReason == Spec => []RewritesAreCorrections
<1>1. Inv => RewritesAreCorrections
  BY DEF Inv, Review
<1> QED
  BY <1>1, SpecInv, PTL

\* Under RecursionAssumption the review loop ends before LangGraph's limit:
\* raising MAX_RETRIES is safe up to that arithmetic.
THEOREM WithinRecursionLimit == Spec => []StaysWithinRecursionLimit
<1>1. Inv => StaysWithinRecursionLimit
  BY DEF Inv, Flow, StaysWithinRecursionLimit
<1> QED
  BY <1>1, SpecInv, PTL

-----------------------------------------------------------------------------
\* The safety part of the refinement: a step of the graph is a step of
\* AnswerPolicy, or changes neither the outcome nor the rejections.

LEMMA PolicyInit == Init => Policy!Init
  BY DEF Init, Policy!Init, Rejections, Outcome

LEMMA PolicyNext == Inv /\ [Next]_vars => [Policy!Next]_(Policy!policyVars)
<1> SUFFICES ASSUME Inv, [Next]_vars
             PROVE  [Policy!Next]_(Policy!policyVars)
  OBVIOUS
<1>1. Inv'
  BY NextInv
<1> USE RetriesAssumption DEF Inv, TypeOK, Flow, Review, Rejections, Outcome,
    Nodes, Finished, callVars, materialVars, answerVars, verdictVars
<1>2. CASE TryAgain
  <2>1. UNCHANGED <<Rejections, Outcome>>
    BY <1>1, <1>2 DEF TryAgain, CallsWithRetry
  <2> QED
    BY <2>1 DEF Policy!policyVars
<1>3. CASE Router
  <2>1. UNCHANGED <<Rejections, Outcome>>
    BY <1>1, <1>3 DEF Router, Goto, RouteAfterRouter, Routes
  <2> QED
    BY <2>1 DEF Policy!policyVars
<1>4. CASE ExtractCaseA
  <2>1. UNCHANGED <<Rejections, Outcome>>
    BY <1>1, <1>4 DEF ExtractCaseA, Goto
  <2> QED
    BY <2>1 DEF Policy!policyVars
<1>5. CASE ExtractCaseB
  <2>1. UNCHANGED <<Rejections, Outcome>>
    BY <1>1, <1>5 DEF ExtractCaseB, Goto
  <2> QED
    BY <2>1 DEF Policy!policyVars
<1>6. CASE PredictCaseA
  <2>1. UNCHANGED <<Rejections, Outcome>>
    BY <1>1, <1>6 DEF PredictCaseA, Goto
  <2> QED
    BY <2>1 DEF Policy!policyVars
<1>7. CASE PredictCaseB
  <2>1. UNCHANGED <<Rejections, Outcome>>
    BY <1>1, <1>7 DEF PredictCaseB, Goto
  <2> QED
    BY <2>1 DEF Policy!policyVars
<1>8. CASE Retrieve
  <2>1. UNCHANGED <<Rejections, Outcome>>
    BY <1>1, <1>8 DEF Retrieve, Goto
  <2> QED
    BY <2>1 DEF Policy!policyVars
<1>9. CASE Increment
  <2>1. UNCHANGED <<Rejections, Outcome>>
    BY <1>1, <1>9 DEF Increment, Goto
  <2> QED
    BY <2>1 DEF Policy!policyVars
<1>10. CASE StructuredCallRaises
  <2>1. Policy!Fail
    BY <1>10 DEF StructuredCallRaises, CallsWithRetry, Raise, Policy!Fail
  <2> QED
    BY <2>1 DEF Policy!Next
<1>11. CASE ExtractCaseARaises
  <2>1. Policy!Fail
    BY <1>11 DEF ExtractCaseARaises, Raise, Policy!Fail
  <2> QED
    BY <2>1 DEF Policy!Next
<1>12. CASE NodeRaises
  <2>1. Policy!Fail
    BY <1>12 DEF NodeRaises, Raise, Policy!Fail
  <2> QED
    BY <2>1 DEF Policy!Next
<1>13. CASE Responder
  <2>1. CASE route = "direct"
    <3>1. Policy!Answer
      BY <1>1, <1>13, <2>1 DEF Responder, Goto, RouteAfterResponder,
         Policy!Answer
    <3> QED
      BY <3>1 DEF Policy!Next
  <2>2. CASE route # "direct"
    <3>1. /\ node' = "judge" /\ drafts' = drafts + 1 /\ drafts \in Nat
          /\ UNCHANGED <<judged, judge_verdict>>
      BY <1>1, <1>13, <2>2 DEF Responder, Goto, RouteAfterResponder
    <3>2. UNCHANGED Outcome
      BY <1>13, <3>1 DEF Responder
    <3>3. UNCHANGED Rejections
      BY <1>13, <3>1 DEF Responder
    <3> QED
      BY <3>2, <3>3 DEF Policy!policyVars
  <2> QED
    BY <2>1, <2>2
<1>14. CASE Judge
  <2>1. CASE judge_verdict' = "approved"
    <3>1. Policy!Answer
      BY <1>1, <1>14, <2>1 DEF Judge, Goto, RouteAfterJudge, Policy!Answer
    <3> QED
      BY <3>1 DEF Policy!Next
  <2>2. CASE judge_verdict' = "rejected"
    <3>1. Policy!Reject
      BY <1>1, <1>14, <2>2 DEF Judge, Goto, RouteAfterJudge, Policy!Reject
    <3> QED
      BY <3>1 DEF Policy!Next
  <2> QED
    BY <1>14, <2>1, <2>2 DEF Judge
<1>15. CASE JudgeDefaults
  <2>1. Policy!Answer
    BY <1>1, <1>15 DEF JudgeDefaults, Retried, Policy!Answer
  <2> QED
    BY <2>1 DEF Policy!Next
<1>16. CASE Fallback
  <2>1. Policy!GiveUp
    BY <1>1, <1>16 DEF Fallback, Goto, Policy!GiveUp
  <2> QED
    BY <2>1 DEF Policy!Next
<1>17. CASE UNCHANGED vars
  <2>1. UNCHANGED <<Rejections, Outcome>>
    BY <1>17 DEF vars
  <2> QED
    BY <2>1 DEF Policy!policyVars
<1> QED
  BY <1>2, <1>3, <1>4, <1>5, <1>6, <1>7, <1>8, <1>9, <1>10, <1>11, <1>12, <1>13, <1>14, <1>15, <1>16, <1>17 DEF Next

\* What the caller relies on: an answer, or the fallback message after exactly
\* MaxRetries + 1 rejected drafts, or an exception, and nothing after it.
THEOREM ImplementsPolicy == Spec => Policy!Spec
  BY PolicyInit, PolicyNext, SpecInv, PTL DEF Spec, Policy!Spec

(***************************************************************************)
(* The index: sequences                                                    *)
(***************************************************************************)
\* Induction: a set of numbers that has 0, and with a number the next, has all of them;
\* what it lacks would have a least element.
LEMMA NatInduct ==
    ASSUME NEW S \in SUBSET Nat, 0 \in S, \A n \in S : n + 1 \in S
    PROVE  S = Nat
<1> SUFFICES ASSUME Nat \ S # {} PROVE FALSE
  OBVIOUS
<1>1. IsWellFoundedOn(OpToRel(<, Nat), Nat)
  BY NatLessThanWellFounded
<1>2. PICK x \in Nat \ S : \A y \in Nat \ S : <<y, x>> \notin OpToRel(<, Nat)
  <2>1. Nat \ S \subseteq Nat
    OBVIOUS
  <2> QED
    BY <1>1, <2>1, WFMin, Zenon
<1>3. x # 0 /\ x - 1 \in Nat
  OBVIOUS
<1>4. x - 1 \in S
  <2>1. x - 1 < x /\ <<x - 1, x>> \in Nat \X Nat
    BY <1>3
  <2>2. <<x - 1, x>> \in OpToRel(<, Nat)
    BY <2>1 DEF OpToRel
  <2> QED
    BY <1>2, <1>3, <2>2
<1>5. (x - 1) + 1 \in S
  BY <1>4
<1>6. (x - 1) + 1 = x
  BY <1>3
<1> QED
  BY <1>2, <1>5, <1>6

\* A sequence is one of the elements it has.
LEMMA SequenceTyped ==
    ASSUME NEW S, NEW s \in Seq(S)
    PROVE  /\ IsSequence(s) /\ Len(s) \in Nat /\ DOMAIN s = 1 .. Len(s)
           /\ ToSet(s) = {s[i] : i \in 1 .. Len(s)} /\ ToSet(s) \subseteq S
<1>1. Len(s) \in Nat /\ DOMAIN s = 1 .. Len(s)
  OBVIOUS
<1>2. \A i \in 1 .. Len(s) : s[i] \in S
  OBVIOUS
<1>3. s \in Seq({s[i] : i \in 1 .. Len(s)})
  OBVIOUS
<1> QED
  BY <1>1, <1>2, <1>3 DEF ToSet, IsSequence

\* Joining two sequences loses nothing of either.
LEMMA Joined ==
    ASSUME NEW s, NEW t, IsSequence(s), IsSequence(t)
    PROVE  IsSequence(s \o t) /\ ToSet(s \o t) = ToSet(s) \cup ToSet(t)
<1> DEFINE S == ToSet(s) \cup ToSet(t)
<1>1. s \in Seq(S) /\ t \in Seq(S)
  BY DEF IsSequence
<1>2. /\ s \o t \in Seq(S) /\ Len(s \o t) = Len(s) + Len(t)
      /\ \A i \in 1 .. Len(s) : (s \o t)[i] = s[i]
      /\ \A i \in 1 .. Len(t) : (s \o t)[Len(s) + i] = t[i]
  <2> HIDE DEF S
  <2> QED
    BY <1>1
<1>3. /\ Len(s) \in Nat /\ Len(t) \in Nat /\ ToSet(s) = {s[i] : i \in 1 .. Len(s)}
      /\ ToSet(t) = {t[i] : i \in 1 .. Len(t)}
  BY <1>1, SequenceTyped
<1>4. IsSequence(s \o t) /\ ToSet(s \o t) = {(s \o t)[i] : i \in 1 .. Len(s) + Len(t)}
      /\ ToSet(s \o t) \subseteq S
  BY <1>2, SequenceTyped
<1>5. ToSet(s) \subseteq ToSet(s \o t)
  <2>1. \A i \in 1 .. Len(s) : i \in 1 .. Len(s) + Len(t) /\ s[i] = (s \o t)[i]
    BY <1>2, <1>3
  <2> QED
    BY <1>3, <1>4, <2>1
<1>6. ToSet(t) \subseteq ToSet(s \o t)
  <2>1. \A i \in 1 .. Len(t) : Len(s) + i \in 1 .. Len(s) + Len(t) /\ t[i] = (s \o t)[Len(s) + i]
    BY <1>2, <1>3
  <2> QED
    BY <1>3, <1>4, <2>1
<1> QED
  BY <1>4, <1>5, <1>6

\* FlattenSeq, whose recursive function exists by induction on its length, yields a sequence
\* that has what each of the sequences has.
LEMMA Flattened ==
    ASSUME NEW ss, IsSequence(ss), \A i \in 1 .. Len(ss) : IsSequence(ss[i])
    PROVE  /\ IsSequence(FlattenSeq(ss))
           /\ \A i \in 1 .. Len(ss) : ToSet(ss[i]) \subseteq ToSet(FlattenSeq(ss))
<1>1. Len(ss) \in Nat
  BY SequenceTyped DEF IsSequence
<1>2. CASE Len(ss) = 0
  BY <1>2 DEF FlattenSeq
<1>3. CASE Len(ss) # 0
  <2> DEFINE Step(g, i) == IF i = 1 THEN ss[i] ELSE g[i - 1] \o ss[i]
  <2> DEFINE Good == {m \in Nat : \E g : g = [i \in 1 .. m |-> Step(g, i)]}
  <2>1. 0 \in Good
    <3> DEFINE g0 == [i \in 1 .. 0 |-> 0]
    <3>1. g0 = [i \in 1 .. 0 |-> Step(g0, i)]
      OBVIOUS
    <3> QED
      BY <3>1
  <2>2. ASSUME NEW m \in Good PROVE m + 1 \in Good
    <3>1. PICK g : g = [i \in 1 .. m |-> Step(g, i)]
      OBVIOUS
    <3> DEFINE h == [i \in 1 .. m + 1 |-> IF i = m + 1 THEN Step(g, i) ELSE g[i]]
    <3>2. ASSUME NEW i \in 1 .. m + 1 PROVE h[i] = Step(h, i)
      <4>1. CASE i = 1
        <5>1. h[i] = Step(g, i)
          BY <3>1, <4>1
        <5> QED
          BY <4>1, <5>1
      <4>2. CASE i # 1
        <5>1. h[i] = Step(g, i)
          <6>1. CASE i = m + 1
            BY <6>1
          <6>2. CASE i \in 1 .. m
            BY <3>1, <6>2
          <6> QED
            BY <6>1, <6>2
        <5>2. i - 1 \in 1 .. m /\ h[i - 1] = g[i - 1]
          BY <4>2
        <5> QED
          BY <4>2, <5>1, <5>2
      <4> QED
        BY <4>1, <4>2
    <3>3. h = [i \in 1 .. m + 1 |-> Step(h, i)]
      <4>1. h = [i \in 1 .. m + 1 |-> h[i]]
        OBVIOUS
      <4> HIDE DEF h
      <4> QED
        BY <3>2, <4>1
    <3>4. m + 1 \in Nat
      OBVIOUS
    <3> HIDE DEF h
    <3> QED
      BY <3>3, <3>4
  <2>3. Len(ss) \in Good
    <3> HIDE DEF Good
    <3>1. Good = Nat
      <4>1. Good \in SUBSET Nat
        BY DEF Good
      <4> QED
        BY <2>1, <2>2, <4>1, NatInduct
    <3> QED
      BY <1>1, <3>1
  <2> DEFINE flat == CHOOSE g : g = [i \in 1 .. Len(ss) |-> Step(g, i)]
  <2>4. flat = [i \in 1 .. Len(ss) |-> Step(flat, i)]
    BY <2>3
  <2>5. FlattenSeq(ss) = flat[Len(ss)]
    BY <1>3 DEF FlattenSeq
  <2>6. \A i \in 1 .. Len(ss) : flat[i] = IF i = 1 THEN ss[i] ELSE flat[i - 1] \o ss[i]
    <3> HIDE DEF flat
    <3> QED
      BY <2>4
  <2> HIDE DEF flat
  <2> DEFINE Right(m) == /\ IsSequence(flat[m])
                         /\ \A j \in 1 .. m : ToSet(ss[j]) \subseteq ToSet(flat[m])
  <2> DEFINE Done == {m \in Nat : m \in 1 .. Len(ss) => Right(m)}
  <2>7. 0 \in Done
    BY <1>1
  <2>8. ASSUME NEW m \in Done PROVE m + 1 \in Done
    <3> SUFFICES ASSUME m + 1 \in 1 .. Len(ss) PROVE Right(m + 1)
      OBVIOUS
    <3>1. CASE m = 0
      <4>1. flat[1] = ss[1]
        BY <2>6, <3>1
      <4> QED
        BY <3>1, <4>1
    <3>2. CASE m # 0
      <4>1. m \in 1 .. Len(ss) /\ Right(m)
        BY <1>1, <3>2
      <4>2. flat[m + 1] = flat[m] \o ss[m + 1]
        <5>1. m + 1 # 1 /\ (m + 1) - 1 = m
          BY <3>2
        <5> QED
          BY <2>6, <5>1
      <4>3. /\ IsSequence(flat[m + 1])
            /\ ToSet(flat[m + 1]) = ToSet(flat[m]) \cup ToSet(ss[m + 1])
        BY <4>1, <4>2, Joined
      <4>4. ASSUME NEW j \in 1 .. m + 1 PROVE ToSet(ss[j]) \subseteq ToSet(flat[m + 1])
        <5>1. j \in 1 .. m \/ j = m + 1
          OBVIOUS
        <5> QED
          BY <4>1, <4>3, <5>1
      <4> QED
        BY <4>3, <4>4
    <3> QED
      BY <3>1, <3>2
  <2>9. Len(ss) \in Done
    <3> HIDE DEF Done
    <3>1. Done \in SUBSET Nat
      BY DEF Done
    <3>2. Done = Nat
      BY <2>7, <2>8, <3>1, NatInduct
    <3> QED
      BY <1>1, <3>2
  <2> QED
    BY <1>1, <1>3, <2>5, <2>9
<1> QED
  BY <1>2, <1>3

(***************************************************************************)
(* The index: its invariant                                                *)
(***************************************************************************)
AllChunks == ExtractDocs \o ChunkReadme(readme)

\* What a collection holds once the first n of the chunks are in it.
Placed(all, n) == {[id |-> MakeId(all[k], k), doc |-> all[k]] : k \in {j \in 1 .. Len(all) : j <= n}}

IndexTypes ==
    /\ readme \in Readmes
    /\ IsSequence(docsData.docs) /\ IsSequence(extractor.docs) /\ IsSequence(ingester.chunks)
    /\ extractor = [step |-> extractor.step, docs |-> extractor.docs]
    /\ extractor.step \in {"idle", "open", "write"}
    /\ ingester = [step |-> ingester.step, chunks |-> ingester.chunks, start |-> ingester.start]
    /\ ingester.step \in {"idle", "create", "read", "fill"} /\ ingester.start \in Nat
    /\ collection = [there |-> collection.there, chunks |-> collection.chunks]
    /\ collection.there \in BOOLEAN /\ IsFiniteSet(collection.chunks)
    /\ fresh \in [json : BOOLEAN, reading : BOOLEAN, filling : BOOLEAN, index : BOOLEAN]
    /\ settled \in BOOLEAN

\* A history that says fresh is right about what was read.
FreshMeans ==
    /\ fresh.reading /\ extractor.step # "idle" => extractor.docs = ExtractDocs
    /\ fresh.json => docsData = [state |-> "whole", docs |-> ExtractDocs]
    /\ fresh.filling /\ ingester.step = "fill" => ingester.chunks = AllChunks
    /\ fresh.index => /\ ingester.step = "idle"
                      /\ collection.chunks = Placed(AllChunks, Len(AllChunks))

\* A collection that is being filled holds the chunks of the batches so far, and no others.
FilledInOrder ==
    /\ ingester.step \in {"create", "read"} => collection.chunks = {}
    /\ ingester.step = "fill" => collection.chunks = Placed(ingester.chunks, ingester.start)
    /\ ingester.step \in {"read", "fill"} => collection.there

\* Nobody disturbs a calm reader but an ingest that begins.
CalmMeans ==
    /\ settled => ingester.step = "idle" /\ collection.there
    /\ DOMAIN reader = Readers
    /\ \A q \in Readers : reader[q].calm /\ reader[q].step # "idle" =>
           /\ settled /\ reader[q].handle = "live" /\ reader[q].step # "raised"
           /\ reader[q].step = "answered" =>
                  /\ reader[q].result \subseteq collection.chunks
                  /\ Cardinality(reader[q].result) < NResults
                         => reader[q].result = collection.chunks
    /\ \A q \in Readers : reader[q] = [step |-> reader[q].step, handle |-> reader[q].handle,
                                       result |-> reader[q].result, calm |-> reader[q].calm]

IndexInv == IndexTypes /\ FreshMeans /\ FilledInOrder /\ CalmMeans

\* What is extracted can be counted through.
LEMMA DocsAreSequences == IsSequence(ExtractDocs)
<1> DEFINE ss == [k \in 1 .. Len(Files) |-> DocsOfFile(Files[k])]
<1>1. Len(Files) \in Nat
  BY SequencesAssumption, SequenceTyped DEF IsSequence
<1>2. IsSequence(ss) /\ Len(ss) = Len(Files)
  <2>1. ss \in Seq({DocsOfFile(Files[k]) : k \in 1 .. Len(Files)})
    BY <1>1
  <2>2. IsSequence(ss)
    BY <2>1, SequenceTyped
  <2> QED
    BY <1>1, <2>2
<1>3. ASSUME NEW k \in 1 .. Len(Files) PROVE IsSequence(DocsOfFile(Files[k]))
  <2> DEFINE f == Files[k]
             n == Len(Documented[f.name])
             docs == [j \in 1 .. n |-> Document(f.source, f.name, Documented[f.name][j], <<sources[f.name]>>)]
  <2>1. f.name \in FileNames
    BY DEF FileNames
  <2>2. n \in Nat
    BY <2>1, SequencesAssumption, SequenceTyped DEF IsSequence
  <2>3. IsSequence(docs)
    <3>1. docs \in Seq({docs[j] : j \in 1 .. n})
      BY <2>2
    <3> QED
      BY <3>1, SequenceTyped
  <2>4. IsSequence(<<>>)
    BY DEF IsSequence
  <2> QED
    BY <2>3, <2>4 DEF DocsOfFile
<1>4. IsSequence(FlattenSeq(ss))
  <2>1. \A k \in 1 .. Len(ss) : IsSequence(ss[k])
    BY <1>2, <1>3
  <2> HIDE DEF ss
  <2> QED
    BY <1>2, <2>1, Flattened
<1> QED
  BY <1>4 DEF ExtractDocs

\* So can the chunks of the README, and what any of its headers yields is among them.
LEMMA ChunksAreSequences ==
    ASSUME NEW h \in Readmes
    PROVE  /\ IsSequence(ChunkReadme(h))
           /\ \A i \in 1 .. Len(h) : ToSet(ChunkOfHeader(h, i)) \subseteq ToSet(ChunkReadme(h))
<1> DEFINE ss == [i \in 1 .. Len(h) |-> ChunkOfHeader(h, i)]
<1>1. Len(h) \in Nat
  BY SequencesAssumption, SequenceTyped DEF IsSequence
<1>2. IsSequence(ss) /\ Len(ss) = Len(h)
  <2>1. ss \in Seq({ChunkOfHeader(h, i) : i \in 1 .. Len(h)})
    BY <1>1
  <2>2. IsSequence(ss)
    BY <2>1, SequenceTyped
  <2> QED
    BY <1>1, <2>2
<1>3. ASSUME NEW i \in 1 .. Len(h) PROVE IsSequence(ChunkOfHeader(h, i))
  <2>1. ASSUME NEW c PROVE IsSequence(<<c>>)
    BY SequenceTyped, <<c>> \in Seq({c})
  <2>2. IsSequence(<<>>)
    BY DEF IsSequence
  <2> QED
    BY <2>1, <2>2 DEF ChunkOfHeader
<1>4. /\ IsSequence(FlattenSeq(ss))
      /\ \A i \in 1 .. Len(ss) : ToSet(ss[i]) \subseteq ToSet(FlattenSeq(ss))
  <2>1. \A i \in 1 .. Len(ss) : IsSequence(ss[i])
    BY <1>2, <1>3
  <2> HIDE DEF ss
  <2> QED
    BY <1>2, <2>1, Flattened
<1> QED
  BY <1>2, <1>4 DEF ChunkReadme

\* What should be indexed depends on the files and the README only.
LEMMA SameSources ==
    /\ UNCHANGED sources => ExtractDocs' = ExtractDocs
    /\ UNCHANGED <<sources, readme>> => AllChunks' = AllChunks
<1>1. UNCHANGED sources => ExtractDocs' = ExtractDocs
  BY DEF ExtractDocs, DocsOfFile
<1>2. UNCHANGED readme => ChunkReadme(readme)' = ChunkReadme(readme)
  BY Zenon
<1> QED
  BY <1>1, <1>2 DEF AllChunks

LEMMA IndexInitInv == IndexInit => IndexInv
<1> SUFFICES ASSUME IndexInit PROVE IndexInv
  OBVIOUS
<1> USE DEF IndexInit, NoExtract, NoIngest, NoIndex, NoReader
<1>1. IsSequence(<<>>) /\ IsFiniteSet({})
  BY FS_EmptySet DEF IsSequence
<1>2. IndexTypes
  BY <1>1 DEF IndexTypes
<1>3. FreshMeans
  BY DEF FreshMeans
<1>4. FilledInOrder
  BY DEF FilledInOrder
<1>5. CalmMeans
  BY DEF CalmMeans
<1> QED
  BY <1>2, <1>3, <1>4, <1>5 DEF IndexInv

\* An edit makes what was read before it stale, and nothing else.
LEMMA EditInv == IndexInv /\ (EditSource \/ EditReadme) => IndexInv'
<1> SUFFICES ASSUME IndexInv, EditSource \/ EditReadme PROVE IndexInv'
  OBVIOUS
<1> USE DEF IndexInv
<1>1. UNCHANGED <<docsData, extractor, ingester, collection, reader, settled>>
  BY DEF EditSource, EditReadme
<1>2. CASE EditSource
  <2>1. readme' = readme /\ fresh' = [json |-> FALSE, reading |-> FALSE, filling |-> FALSE, index |-> FALSE]
    BY <1>2 DEF EditSource
  <2>2. IndexTypes'
    BY <1>1, <2>1 DEF IndexTypes
  <2>3. FreshMeans'
    BY <2>1 DEF FreshMeans
  <2> QED
    BY <1>1, <2>2, <2>3 DEF FilledInOrder, CalmMeans
<1>3. CASE EditReadme
  <2>1. readme' \in Readmes /\ UNCHANGED sources
        /\ fresh' = [fresh EXCEPT !.filling = FALSE, !.index = FALSE]
    BY <1>3 DEF EditReadme
  <2>2. IndexTypes'
    BY <1>1, <2>1 DEF IndexTypes
  <2>3. FreshMeans'
    <3>1. /\ fresh'.reading = fresh.reading /\ fresh'.json = fresh.json
          /\ fresh'.filling = FALSE /\ fresh'.index = FALSE
      BY <2>1 DEF IndexTypes
    <3> QED
      BY <1>1, <2>1, <3>1, SameSources DEF FreshMeans
  <2> QED
    BY <1>1, <2>2, <2>3 DEF FilledInOrder, CalmMeans
<1> QED
  BY <1>2, <1>3

LEMMA ExtractorInv ==
    IndexInv /\ (Extract \/ OpenDocsData \/ WriteDocsData \/ ExtractBreaks) => IndexInv'
<1> SUFFICES ASSUME IndexInv, Extract \/ OpenDocsData \/ WriteDocsData \/ ExtractBreaks
             PROVE  IndexInv'
  OBVIOUS
<1> USE DEF IndexInv
<1>1. UNCHANGED <<sources, readme, ingester, collection, reader, settled>>
  BY DEF Extract, OpenDocsData, WriteDocsData, ExtractBreaks
<1>2. IsSequence(<<>>) /\ IsSequence(ExtractDocs)
  BY DocsAreSequences DEF IsSequence
<1>3. (FilledInOrder /\ CalmMeans)'
  BY <1>1 DEF FilledInOrder, CalmMeans
<1>4. ExtractDocs' = ExtractDocs /\ AllChunks' = AllChunks
  BY <1>1, SameSources
<1>5. CASE Extract
  <2>1. /\ extractor' = [step |-> "open", docs |-> ExtractDocs] /\ docsData' = docsData
        /\ fresh' = [fresh EXCEPT !.reading = TRUE]
    BY <1>5 DEF Extract
  <2>2. fresh'.json = fresh.json /\ fresh'.filling = fresh.filling /\ fresh'.index = fresh.index
    BY <2>1 DEF IndexTypes
  <2>3. IndexTypes'
    BY <1>1, <1>2, <2>1 DEF IndexTypes
  <2>4. FreshMeans'
    BY <1>1, <1>4, <2>1, <2>2 DEF FreshMeans
  <2> QED
    BY <1>3, <2>3, <2>4
<1>6. CASE OpenDocsData
  <2>1. /\ extractor.step = "open" /\ extractor' = [extractor EXCEPT !.step = "write"]
        /\ docsData' = [state |-> "torn", docs |-> <<>>]
        /\ fresh' = [fresh EXCEPT !.json = FALSE]
    BY <1>6 DEF OpenDocsData
  <2>2. /\ fresh'.reading = fresh.reading /\ fresh'.filling = fresh.filling
        /\ fresh'.index = fresh.index /\ fresh'.json = FALSE
    BY <2>1 DEF IndexTypes
  <2>3. extractor' = [step |-> "write", docs |-> extractor.docs]
    BY <2>1 DEF IndexTypes
  <2>4. IndexTypes'
    BY <1>1, <1>2, <2>1, <2>3 DEF IndexTypes
  <2>5. FreshMeans'
    BY <1>1, <1>4, <2>1, <2>2, <2>3 DEF FreshMeans
  <2> QED
    BY <1>3, <2>4, <2>5
<1>7. CASE WriteDocsData
  <2>1. /\ extractor.step = "write" /\ extractor' = [step |-> "idle", docs |-> <<>>]
        /\ docsData' = [state |-> "whole", docs |-> extractor.docs]
        /\ fresh' = [fresh EXCEPT !.json = fresh.reading]
    BY <1>7 DEF WriteDocsData, NoExtract
  <2>2. /\ fresh'.reading = fresh.reading /\ fresh'.filling = fresh.filling
        /\ fresh'.index = fresh.index /\ fresh'.json = fresh.reading
    BY <2>1 DEF IndexTypes
  <2>3. IndexTypes'
    BY <1>1, <1>2, <2>1 DEF IndexTypes
  <2>4. FreshMeans'
    BY <1>1, <1>4, <2>1, <2>2 DEF FreshMeans
  <2> QED
    BY <1>3, <2>3, <2>4
<1>8. CASE ExtractBreaks
  <2>1. extractor' = [step |-> "idle", docs |-> <<>>] /\ UNCHANGED <<docsData, fresh>>
    BY <1>8 DEF ExtractBreaks, NoExtract
  <2>2. IndexTypes'
    BY <1>1, <1>2, <2>1 DEF IndexTypes
  <2>3. FreshMeans'
    BY <1>1, <1>4, <2>1 DEF FreshMeans
  <2> QED
    BY <1>3, <2>2, <2>3
<1> QED
  BY <1>5, <1>6, <1>7, <1>8

\* A new ingest begins with nothing, and whoever reads is no longer undisturbed.
LEMMA DeleteInv == IndexInv /\ DeleteCollection => IndexInv'
<1> SUFFICES ASSUME IndexInv, DeleteCollection PROVE IndexInv'
  OBVIOUS
<1> USE DEF IndexInv
<1>1. /\ ingester' = [step |-> "create", chunks |-> <<>>, start |-> 0]
      /\ collection' = [there |-> FALSE, chunks |-> {}] /\ settled' = FALSE
      /\ fresh' = [fresh EXCEPT !.index = FALSE]
      /\ UNCHANGED <<sources, readme, docsData, extractor>>
  BY DEF DeleteCollection, NoIngest, NoIndex
<1>2. IsSequence(<<>>) /\ IsFiniteSet({})
  BY FS_EmptySet DEF IsSequence
<1>3. /\ fresh'.reading = fresh.reading /\ fresh'.filling = fresh.filling
      /\ fresh'.json = fresh.json /\ fresh'.index = FALSE
  BY <1>1 DEF IndexTypes
<1>4. IndexTypes'
  <2>1. fresh' \in [json : BOOLEAN, reading : BOOLEAN, filling : BOOLEAN, index : BOOLEAN]
    BY <1>1 DEF IndexTypes
  <2>2. collection'.there \in BOOLEAN
    <3>1. collection'.there = FALSE
      BY <1>1
    <3> QED
      BY <3>1, Zenon
  <2>3. settled' \in BOOLEAN
    BY <1>1, Zenon
  <2>4. collection' = [there |-> collection'.there, chunks |-> collection'.chunks]
        /\ collection'.chunks = {}
    BY <1>1
  <2> QED
    BY <1>1, <1>2, <2>1, <2>2, <2>3, <2>4 DEF IndexTypes
<1>5. FreshMeans'
  BY <1>1, <1>3, SameSources DEF FreshMeans
<1>6. FilledInOrder'
  BY <1>1 DEF FilledInOrder
<1>7. CalmMeans'
  <2>1. ASSUME NEW q \in Readers
        PROVE  /\ reader'[q].calm = FALSE
               /\ reader'[q] = [step |-> reader'[q].step, handle |-> reader'[q].handle,
                                result |-> reader'[q].result, calm |-> reader'[q].calm]
    <3>1. reader[q] = [step |-> reader[q].step, handle |-> reader[q].handle,
                       result |-> reader[q].result, calm |-> reader[q].calm]
      BY DEF CalmMeans
    <3>2. Disturb(reader)[q] = [step |-> reader[q].step, handle |-> reader[q].handle,
                                result |-> reader[q].result, calm |-> FALSE]
      BY <3>1 DEF Disturb
    <3> DEFINE handle == IF reader[q].handle = "live" THEN "dead" ELSE reader[q].handle
    <3>3. reader'[q] = [Disturb(reader)[q] EXCEPT !.handle = IF @ = "live" THEN "dead" ELSE @]
      BY DEF DeleteCollection
    <3>4. reader'[q] = [step |-> reader[q].step, handle |-> handle,
                        result |-> reader[q].result, calm |-> FALSE]
      <4> DEFINE d == Disturb(reader)[q]
      <4>1. reader'[q] = [d EXCEPT !.handle = IF d.handle = "live" THEN "dead" ELSE d.handle]
        BY <3>3
      <4>2. d = [step |-> reader[q].step, handle |-> reader[q].handle,
                 result |-> reader[q].result, calm |-> FALSE]
        BY <3>2
      <4> HIDE DEF d
      <4> QED
        BY <4>1, <4>2
    <3> HIDE DEF handle
    <3> QED
      BY <3>4
  <2>2. DOMAIN reader' = Readers
    BY DEF DeleteCollection
  <2> QED
    BY <1>1, <2>1, <2>2 DEF CalmMeans
<1> QED
  BY <1>4, <1>5, <1>6, <1>7

LEMMA PrepareInv == IndexInv /\ (CreateCollection \/ ReadChunks) => IndexInv'
<1> SUFFICES ASSUME IndexInv, CreateCollection \/ ReadChunks PROVE IndexInv'
  OBVIOUS
<1> USE DEF IndexInv
<1>1. UNCHANGED <<sources, readme, docsData, extractor, reader, settled>> /\ ingester.step # "idle"
  BY DEF CreateCollection, ReadChunks
<1>2. ExtractDocs' = ExtractDocs /\ AllChunks' = AllChunks
  BY <1>1, SameSources
<1>3. ~fresh.index /\ ~settled
  BY <1>1 DEF FreshMeans, CalmMeans
<1>4. CalmMeans'
  BY <1>1, <1>3 DEF CalmMeans
<1>5. CASE CreateCollection
  <2>1. /\ ingester' = [step |-> "read", chunks |-> ingester.chunks, start |-> ingester.start]
        /\ collection' = [there |-> TRUE, chunks |-> collection.chunks]
        /\ fresh' = fresh /\ ingester.step = "create"
    BY <1>5 DEF CreateCollection, IndexTypes
  <2>2. IndexTypes'
    BY <1>1, <2>1 DEF IndexTypes
  <2>3. FreshMeans'
    BY <1>1, <1>2, <1>3, <2>1 DEF FreshMeans
  <2>4. FilledInOrder'
    BY <2>1 DEF FilledInOrder
  <2> QED
    BY <1>4, <2>2, <2>3, <2>4
<1>6. CASE ReadChunks
  <2>1. collection' = collection /\ ingester.step = "read" /\ fresh' = [fresh EXCEPT !.filling = fresh.json]
    BY <1>6 DEF ReadChunks
  <2>2. /\ fresh'.reading = fresh.reading /\ fresh'.filling = fresh.json
        /\ fresh'.json = fresh.json /\ fresh'.index = fresh.index
    BY <2>1 DEF IndexTypes
  <2>3. fresh' \in [json : BOOLEAN, reading : BOOLEAN, filling : BOOLEAN, index : BOOLEAN]
    BY <2>1 DEF IndexTypes
  <2>4. CASE docsData.state = "whole"
    <3> DEFINE all == docsData.docs \o ChunkReadme(readme)
    <3>1. ingester' = [step |-> "fill", chunks |-> all, start |-> 0]
      BY <1>6, <2>4 DEF ReadChunks
    <3>2. IsSequence(all)
      BY ChunksAreSequences, Joined DEF IndexTypes
    <3>3. IndexTypes'
      BY <1>1, <2>1, <2>3, <3>1, <3>2 DEF IndexTypes
    <3>4. FreshMeans'
      <4>1. fresh.json => all = AllChunks
        BY DEF FreshMeans, AllChunks
      <4> QED
        BY <1>1, <1>2, <1>3, <2>2, <3>1, <4>1 DEF FreshMeans
    <3>5. FilledInOrder'
      <4>1. Placed(all, 0) = {}
        BY DEF Placed
      <4> QED
        BY <2>1, <3>1, <4>1 DEF FilledInOrder
    <3> QED
      BY <1>4, <3>3, <3>4, <3>5
  <2>5. CASE docsData.state # "whole"
    <3>1. ingester' = [step |-> "idle", chunks |-> <<>>, start |-> 0]
      BY <1>6, <2>5 DEF ReadChunks, NoIngest
    <3>2. IsSequence(<<>>)
      BY DEF IsSequence
    <3>3. IndexTypes'
      BY <1>1, <2>1, <2>3, <3>1, <3>2 DEF IndexTypes
    <3>4. FreshMeans'
      BY <1>1, <1>2, <1>3, <2>2, <3>1 DEF FreshMeans
    <3>5. FilledInOrder'
      BY <3>1 DEF FilledInOrder
    <3> QED
      BY <1>4, <3>3, <3>4, <3>5
  <2> QED
    BY <2>4, <2>5
<1> QED
  BY <1>5, <1>6

\* The chunks of a batch, from the one after n to the m-th or the last.
Batch(all, n, m) ==
    {[id |-> MakeId(all[k], k), doc |-> all[k]] :
         k \in n + 1 .. (IF m < Len(all) THEN m ELSE Len(all))}

\* However much is documented, it comes to an end.
LEMMA PlacedIsFinite ==
    ASSUME NEW all, IsSequence(all), NEW n \in Nat
    PROVE  IsFiniteSet(Placed(all, n))
<1> DEFINE K == {j \in 1 .. Len(all) : j <= n}
<1> DEFINE f == [k \in K |-> [id |-> MakeId(all[k], k), doc |-> all[k]]]
<1>1. Len(all) \in Nat
  BY SequenceTyped DEF IsSequence
<1>2. IsFiniteSet(K)
  <2>1. IsFiniteSet(1 .. Len(all)) /\ K \subseteq 1 .. Len(all)
    BY <1>1, FS_Interval
  <2> QED
    BY <2>1, FS_Subset
<1>3. f \in Surjection(K, Placed(all, n))
  BY DEF Surjection, Placed
<1> QED
  BY <1>2, <1>3, FS_Surjection

\* Ids end with the index, so that no chunk takes the place of another.
LEMMA BatchAdds ==
    ASSUME NEW all, IsSequence(all), NEW n \in Nat, NEW m \in Nat, n <= m
    PROVE  {c \in Placed(all, n) : \A d \in Batch(all, n, m) : d.id # c.id}
               \cup Batch(all, n, m) = Placed(all, m)
<1>1. Len(all) \in Nat
  BY SequenceTyped DEF IsSequence
<1> DEFINE new == Batch(all, n, m)
           Old == {j \in 1 .. Len(all) : j <= n}
           Later == n + 1 .. (IF m < Len(all) THEN m ELSE Len(all))
           Both == {j \in 1 .. Len(all) : j <= m}
<1>2. Old \cup Later = Both
  BY <1>1
<1>3. ASSUME NEW c \in Placed(all, n), NEW d \in new PROVE d.id # c.id
  <2>1. PICK k \in Old : c = [id |-> MakeId(all[k], k), doc |-> all[k]]
    BY DEF Placed
  <2>2. PICK j \in Later : d = [id |-> MakeId(all[j], j), doc |-> all[j]]
    BY DEF Batch
  <2>3. k # j
    BY <1>1
  <2>4. c.id[4] = k /\ d.id[4] = j
    BY <2>1, <2>2 DEF MakeId
  <2> QED
    BY <2>3, <2>4
<1>4. {c \in Placed(all, n) : \A d \in new : d.id # c.id} = Placed(all, n)
  BY <1>3
<1>5. Placed(all, n) \cup new = Placed(all, m)
  <2>1. Placed(all, n) = {[id |-> MakeId(all[k], k), doc |-> all[k]] : k \in Old}
    BY DEF Placed
  <2>2. Placed(all, m) = {[id |-> MakeId(all[k], k), doc |-> all[k]] : k \in Both}
    BY DEF Placed
  <2>3. new = {[id |-> MakeId(all[k], k), doc |-> all[k]] : k \in Later}
    BY DEF Batch
  <2> HIDE DEF Old, Both, Later, new
  <2> QED
    BY <1>2, <2>1, <2>2, <2>3
<1> QED
  BY <1>4, <1>5

LEMMA UpsertInv == IndexInv /\ UpsertBatch => IndexInv'
<1> SUFFICES ASSUME IndexInv, UpsertBatch PROVE IndexInv'
  OBVIOUS
<1> USE DEF IndexInv
<1> DEFINE all == ingester.chunks
           n == ingester.start
           m == ingester.start + BatchSize
           new == Batch(all, n, m)
<1>1. IsSequence(all) /\ n \in Nat /\ m \in Nat /\ n <= m
  BY BoundsAssumption DEF IndexTypes
<1>2. /\ ingester.step = "fill"
      /\ collection' = [collection EXCEPT !.chunks = {c \in @ : \A d \in new : d.id # c.id} \cup new]
      /\ ingester' = [ingester EXCEPT !.start = @ + BatchSize]
      /\ UNCHANGED <<sources, readme, docsData, extractor, reader, fresh, settled>>
  BY DEF UpsertBatch, Batch
<1>3. ingester' = [step |-> "fill", chunks |-> all, start |-> m]
  BY <1>2 DEF IndexTypes
<1>4. collection'.chunks = Placed(all, m) /\ collection'.there = collection.there
      /\ collection' = [there |-> collection'.there, chunks |-> collection'.chunks]
  <2>1. collection.chunks = Placed(all, n)
    BY <1>2 DEF FilledInOrder
  <2>2. {c \in Placed(all, n) : \A d \in new : d.id # c.id} \cup new = Placed(all, m)
    <3> HIDE DEF all, n, m
    <3> QED
      BY <1>1, BatchAdds
  <2>3. collection' = [there |-> collection.there, chunks |-> Placed(all, m)]
    BY <1>2, <2>1, <2>2 DEF IndexTypes
  <2> QED
    BY <2>3
<1>5. IndexTypes'
  <2>1. IsFiniteSet(collection'.chunks)
    BY <1>1, <1>4, PlacedIsFinite
  <2> QED
    BY <1>1, <1>2, <1>3, <1>4, <2>1 DEF IndexTypes
<1>6. FreshMeans'
  <2>1. ~fresh.index
    BY <1>2 DEF FreshMeans
  <2> QED
    BY <1>2, <1>3, <2>1, SameSources DEF FreshMeans
<1>7. FilledInOrder'
  BY <1>2, <1>3, <1>4 DEF FilledInOrder
<1>8. CalmMeans'
  <2>1. ~settled
    BY <1>2 DEF CalmMeans
  <2> QED
    BY <1>2, <2>1 DEF CalmMeans
<1> QED
  BY <1>5, <1>6, <1>7, <1>8

\* The index is up to date when the ingest that read what was up to date is through.
LEMMA IngestEndsInv == IndexInv /\ (IngestEnds \/ IngestBreaks) => IndexInv'
<1> SUFFICES ASSUME IndexInv, IngestEnds \/ IngestBreaks PROVE IndexInv'
  OBVIOUS
<1> USE DEF IndexInv
<1>1. /\ ingester' = [step |-> "idle", chunks |-> <<>>, start |-> 0] /\ ingester.step # "idle"
      /\ UNCHANGED <<sources, readme, docsData, extractor, collection, reader>>
  BY DEF IngestEnds, IngestBreaks, NoIngest
<1>2. ExtractDocs' = ExtractDocs /\ AllChunks' = AllChunks /\ IsSequence(<<>>)
  BY <1>1, SameSources DEF IsSequence
<1>3. ~fresh.index /\ ~settled
  BY <1>1 DEF FreshMeans, CalmMeans
<1>4. FilledInOrder'
  BY <1>1 DEF FilledInOrder
<1>5. CASE IngestEnds
  <2>1. /\ ingester.step = "fill" /\ ingester.start >= Len(ingester.chunks)
        /\ fresh' = [fresh EXCEPT !.index = fresh.filling] /\ settled' = TRUE
    BY <1>5 DEF IngestEnds
  <2>2. /\ fresh'.reading = fresh.reading /\ fresh'.filling = fresh.filling
        /\ fresh'.json = fresh.json /\ fresh'.index = fresh.filling
    BY <2>1 DEF IndexTypes
  <2>3. fresh' \in [json : BOOLEAN, reading : BOOLEAN, filling : BOOLEAN, index : BOOLEAN]
    BY <2>1 DEF IndexTypes
  <2>4. settled' \in BOOLEAN
    BY <2>1, Zenon
  <2>5. IndexTypes'
    BY <1>1, <1>2, <2>3, <2>4 DEF IndexTypes
  <2>6. collection.chunks = Placed(ingester.chunks, Len(ingester.chunks))
    <3>1. /\ IsSequence(ingester.chunks) /\ ingester.start \in Nat
          /\ collection.chunks = Placed(ingester.chunks, ingester.start)
      BY <2>1 DEF IndexTypes, FilledInOrder
    <3>2. Len(ingester.chunks) \in Nat
      BY <3>1, SequenceTyped DEF IsSequence
    <3>3. {j \in 1 .. Len(ingester.chunks) : j <= ingester.start}
            = {j \in 1 .. Len(ingester.chunks) : j <= Len(ingester.chunks)}
      BY <2>1, <3>1, <3>2
    <3> QED
      BY <3>1, <3>3 DEF Placed
  <2>7. FreshMeans'
    <3>1. fresh.filling => ingester.chunks = AllChunks
      BY <2>1 DEF FreshMeans
    <3> QED
      BY <1>1, <1>2, <2>2, <2>6, <3>1 DEF FreshMeans
  <2>8. CalmMeans'
    <3>1. collection.there
      BY <2>1 DEF FilledInOrder
    <3> QED
      BY <1>1, <1>3, <2>1, <3>1 DEF CalmMeans
  <2> QED
    BY <1>4, <2>5, <2>7, <2>8
<1>6. CASE IngestBreaks
  <2>1. UNCHANGED <<fresh, settled>>
    BY <1>6 DEF IngestBreaks
  <2>2. IndexTypes'
    BY <1>1, <1>2, <2>1 DEF IndexTypes
  <2>3. FreshMeans'
    BY <1>1, <1>2, <1>3, <2>1 DEF FreshMeans
  <2>4. CalmMeans'
    BY <1>1, <1>3, <2>1 DEF CalmMeans
  <2> QED
    BY <1>4, <2>2, <2>3, <2>4
<1> QED
  BY <1>5, <1>6

\* A reader that found the collection settled is answered from it.
LEMMA ReaderInv ==
    ASSUME IndexInv, NEW q \in Readers, GetCollection(q) \/ Query(q) \/ Return(q)
    PROVE  IndexInv'
<1> USE DEF IndexInv
<1>1. UNCHANGED <<sources, readme, docsData, extractor, ingester, collection, fresh, settled>>
  BY DEF GetCollection, Query, Return
<1>2. (IndexTypes /\ FreshMeans /\ FilledInOrder)'
  BY <1>1, SameSources DEF IndexTypes, FreshMeans, FilledInOrder
<1> DEFINE Calm(r) == r.calm /\ r.step # "idle" =>
               /\ settled /\ r.handle = "live" /\ r.step # "raised"
               /\ r.step = "answered" =>
                      /\ r.result \subseteq collection.chunks
                      /\ Cardinality(r.result) < NResults => r.result = collection.chunks
           Shape(r) == r = [step |-> r.step, handle |-> r.handle, result |-> r.result, calm |-> r.calm]
<1>3. DOMAIN reader = Readers /\ Calm(reader[q]) /\ Shape(reader[q])
  BY DEF CalmMeans
<1>4. PICK r : reader' = [reader EXCEPT ![q] = r] /\ Calm(r) /\ Shape(r)
  <2>1. CASE GetCollection(q)
    <3> DEFINE r == [step |-> IF collection.there THEN "query" ELSE "raised",
                     handle |-> IF collection.there THEN "live" ELSE "none",
                     result |-> {}, calm |-> settled]
    <3>1. reader' = [reader EXCEPT ![q] = r]
      BY <2>1 DEF GetCollection
    <3>2. settled => collection.there
      BY DEF CalmMeans
    <3>3. Calm(r) /\ Shape(r)
      BY <3>2
    <3> HIDE DEF r, Calm, Shape
    <3> QED
      BY <3>1, <3>3
  <2>2. CASE Query(q) /\ reader[q].handle = "dead"
    <3> DEFINE r == [reader[q] EXCEPT !.step = "raised"]
    <3>1. reader' = [reader EXCEPT ![q] = r]
      BY <2>2 DEF Query
    <3>2. r = [step |-> "raised", handle |-> "dead", result |-> reader[q].result,
               calm |-> reader[q].calm]
      BY <1>3, <2>2
    <3>3. ~reader[q].calm
      BY <1>3, <2>2 DEF Query
    <3>4. Calm(r) /\ Shape(r)
      <4> HIDE DEF r
      <4> QED
        BY <3>2, <3>3
    <3> HIDE DEF r, Calm, Shape
    <3> QED
      BY <3>1, <3>4
  <2>3. CASE Query(q) /\ reader[q].handle # "dead"
    <3>1. PICK found \in SUBSET collection.chunks :
              /\ Cardinality(found) = IF Cardinality(collection.chunks) < NResults
                                      THEN Cardinality(collection.chunks) ELSE NResults
              /\ reader' = [reader EXCEPT ![q].step = "answered", ![q].result = found]
      BY <2>3 DEF Query
    <3> DEFINE r == [reader[q] EXCEPT !.step = "answered", !.result = found]
    <3>2. reader' = [reader EXCEPT ![q] = r]
      BY <1>3, <3>1
    <3>3. r = [step |-> "answered", handle |-> reader[q].handle, result |-> found,
               calm |-> reader[q].calm]
      <4> DEFINE d == [reader[q] EXCEPT !.step = "answered"]
      <4>1. d = [step |-> "answered", handle |-> reader[q].handle, result |-> reader[q].result,
                 calm |-> reader[q].calm]
        BY <1>3
      <4>2. r = [d EXCEPT !.result = found]
        OBVIOUS
      <4> HIDE DEF d
      <4> QED
        BY <4>1, <4>2
    <3>4. reader[q].calm => settled /\ reader[q].handle = "live"
      BY <1>3, <2>3 DEF Query
    <3>5. Cardinality(found) < NResults => found = collection.chunks
      <4>1. /\ IsFiniteSet(collection.chunks) /\ IsFiniteSet(found)
            /\ Cardinality(collection.chunks) \in Nat /\ Cardinality(found) \in Nat
        BY FS_Subset, FS_CardinalityType DEF IndexTypes
      <4>2. Cardinality(found) = Cardinality(collection.chunks) => found = collection.chunks
        BY <4>1, FS_Subset
      <4> QED
        BY <3>1, <4>1, <4>2, BoundsAssumption
    <3>6. Calm(r) /\ Shape(r)
      <4> HIDE DEF r
      <4> QED
        BY <3>3, <3>4, <3>5
    <3> HIDE DEF r, Calm, Shape
    <3> QED
      BY <3>2, <3>6
  <2>4. CASE Return(q)
    <3> DEFINE r == [step |-> "idle", handle |-> "none", result |-> {}, calm |-> TRUE]
    <3>1. reader' = [reader EXCEPT ![q] = r]
      BY <2>4 DEF Return, NoReader
    <3>2. Calm(r) /\ Shape(r)
      OBVIOUS
    <3> HIDE DEF r, Calm, Shape
    <3> QED
      BY <3>1, <3>2
  <2> QED
    BY <2>1, <2>2, <2>3, <2>4
<1>5. CalmMeans'
  <2>1. /\ DOMAIN reader' = Readers
        /\ \A p \in Readers : reader'[p] = IF p = q THEN r ELSE reader[p]
    BY <1>3, <1>4
  <2>2. settled => ingester.step = "idle" /\ collection.there
    BY DEF CalmMeans
  <2>3. ASSUME NEW p \in Readers PROVE Calm(reader'[p]) /\ Shape(reader'[p])
    <3>1. CASE p = q
      <4> HIDE DEF Calm, Shape
      <4> QED
        BY <1>4, <2>1, <3>1
    <3>2. CASE p # q
      <4>1. Calm(reader[p]) /\ Shape(reader[p])
        BY DEF CalmMeans
      <4> HIDE DEF Calm, Shape
      <4> QED
        BY <2>1, <3>2, <4>1
    <3> QED
      BY <3>1, <3>2
  <2> QED
    BY <1>1, <2>1, <2>2, <2>3 DEF CalmMeans
<1> QED
  BY <1>2, <1>5

LEMMA IndexSpecInv == IndexSpec => []IndexInv
<1>1. IndexInv /\ UNCHANGED indexVars => IndexInv'
  BY SameSources
  DEF IndexInv, IndexTypes, FreshMeans, FilledInOrder, CalmMeans, indexVars
<1>2. IndexInv /\ [IndexNext]_indexVars => IndexInv'
  BY <1>1, EditInv, ExtractorInv, DeleteInv, PrepareInv, UpsertInv, IngestEndsInv, ReaderInv
  DEF IndexNext
<1> QED
  BY <1>2, IndexInitInv, PTL DEF IndexSpec

\* A request no ingest overlaps is answered, with as many chunks as it asks for if the
\* index has them, however many there are and whichever are nearest (retrieve_context).
THEOREM QuietReadsGetTheirChunks == IndexSpec => []QuietReadsAreWhole
<1>1. IndexInv => QuietReadsAreWhole
  BY DEF IndexInv, CalmMeans, QuietReadsAreWhole
<1> QED
  BY <1>1, IndexSpecInv, PTL

\* An index that is up to date holds what the docstrings, the dbt descriptions and the
\* README say, as often as they say it and nothing else, whatever the batch size and
\* however many extractions and ingests broke off before (ingest, _make_id).
THEOREM IndexIsWhatIsDocumented == IndexSpec => []IndexIsFaithful
<1>1. IndexInv => IndexIsFaithful
  <2> SUFFICES ASSUME IndexInv, fresh.index
               PROVE  /\ Indexed = ToSet(AllChunks)
                      /\ \A doc \in Indexed :
                             Cardinality({c \in collection.chunks : c.doc = doc})
                                 = Count(AllChunks, doc)
    BY DEF IndexIsFaithful, AllChunks
  <2> DEFINE all == AllChunks
             Put(k) == [id |-> MakeId(all[k], k), doc |-> all[k]]
  <2>1. IsSequence(all)
    BY DocsAreSequences, ChunksAreSequences, Joined DEF AllChunks, IndexInv, IndexTypes
  <2>2. Len(all) \in Nat /\ ToSet(all) = {all[k] : k \in 1 .. Len(all)}
    BY <2>1, SequenceTyped DEF IsSequence
  <2>3. collection.chunks = {Put(k) : k \in 1 .. Len(all)}
    <3>1. {j \in 1 .. Len(all) : j <= Len(all)} = 1 .. Len(all)
      BY <2>2
    <3>2. collection.chunks = Placed(all, Len(all))
      BY DEF IndexInv, FreshMeans
    <3> HIDE DEF all
    <3> QED
      BY <3>1, <3>2 DEF Placed
  <2> HIDE DEF all
  <2>4. Indexed = ToSet(all)
    <3>1. \A k \in 1 .. Len(all) : Put(k).doc = all[k]
      OBVIOUS
    <3> HIDE DEF Put
    <3> QED
      BY <2>2, <2>3, <3>1 DEF Indexed
  <2>5. ASSUME NEW doc PROVE Cardinality({c \in collection.chunks : c.doc = doc}) = Count(all, doc)
    <3> DEFINE K == {k \in 1 .. Len(all) : all[k] = doc}
               C == {c \in collection.chunks : c.doc = doc}
               f == [k \in K |-> Put(k)]
    <3>1. IsFiniteSet(K)
      <4>1. IsFiniteSet(1 .. Len(all)) /\ K \subseteq 1 .. Len(all)
        BY <2>2, FS_Interval
      <4> QED
        BY <4>1, FS_Subset
    <3>2. f \in Bijection(K, C)
      <4>1. \A k \in K : Put(k) \in C
        BY <2>3
      <4>2. \A k, j \in K : f[k] = f[j] => k = j
        <5>1. \A k \in K : f[k].id[4] = k
          BY DEF MakeId
        <5> QED
          BY <5>1
      <4>3. \A c \in C : \E k \in K : f[k] = c
        BY <2>3
      <4>4. f \in [K -> C]
        BY <4>1
      <4> HIDE DEF f, K, C
      <4> QED
        BY <4>2, <4>3, <4>4 DEF Bijection, Injection, Surjection, IsInjective
    <3>3. Cardinality(C) = Cardinality(K)
      <4> HIDE DEF K, C, f
      <4> QED
        BY <3>1, <3>2, FS_Bijection DEF ExistsBijection
    <3> QED
      BY <3>3 DEF Count
  <2> QED
    BY <2>4, <2>5 DEF all
<1> QED
  BY <1>1, IndexSpecInv, PTL

(***************************************************************************)
(* The README                                                              *)
(***************************************************************************)
\* A finite set of integers that has an element has a greatest one, the one that
\* has the fewest elements above it.
LEMMA GreatestExists ==
    ASSUME NEW S \in SUBSET Int, IsFiniteSet(S), S # {}
    PROVE  \E x \in S : \A y \in S : x >= y
<1> DEFINE From(x) == {y \in S : y >= x}
<1> DEFINE T == {From(x) : x \in S}
<1>1. T \subseteq FiniteSubsetsOf(S) /\ T # {}
  <2>1. ASSUME NEW x \in S PROVE From(x) \in SUBSET S
    OBVIOUS
  <2>2. T \subseteq SUBSET S /\ T # {}
    BY <2>1
  <2>3. FiniteSubsetsOf(S) = SUBSET S
    BY FS_FiniteSubsetsOfFinite, Zenon
  <2> QED
    BY <2>2, <2>3
<1>2. IsWellFoundedOn(StrictSubsetOrdering(S), FiniteSubsetsOf(S))
  BY FS_StrictSubsetOrderingWellFounded, Zenon
<1>3. PICK U \in T : \A V \in T : <<V, U>> \notin StrictSubsetOrdering(S)
  <2> HIDE DEF T
  <2> QED
    BY <1>1, <1>2, WFMin, Zenon
<1>4. PICK x \in S : U = From(x)
  BY <1>3
<1>5. ASSUME NEW y \in S, y > x PROVE FALSE
  <2>1. From(y) \in T /\ From(y) \subseteq U /\ x \in U /\ x \notin From(y)
    <3>1. y \in Int /\ x \in Int /\ \A z \in S : z \in Int
      OBVIOUS
    <3>2. From(y) \in T
      OBVIOUS
    <3>3. \A z \in From(y) : z >= x
      BY <1>5, <3>1
    <3>4. From(y) \subseteq U
      BY <1>4, <3>3
    <3>5. x \in U /\ x \notin From(y)
      BY <1>4, <1>5, <3>1
    <3> QED
      BY <3>2, <3>4, <3>5, Zenon
  <2>2. <<From(y), U>> \in (SUBSET S) \X (SUBSET S)
    BY <1>4
  <2> QED
    BY <1>3, <2>1, <2>2 DEF StrictSubsetOrdering
<1>6. x \in S /\ \A y \in S : x >= y
  BY <1>5
<1> QED
  BY <1>6

\* A section reaches at least as far as its own header.
LEMMA SectionsEnd ==
    ASSUME NEW h \in Readmes, NEW i \in 1 .. Len(h)
    PROVE  SectionEnd(h, i) \in i .. Len(h)
<1> DEFINE Within == {j \in i .. Len(h) : \A k \in i + 1 .. j : h[k].level > h[i].level}
<1>1. Len(h) \in Nat /\ \A k \in 1 .. Len(h) : h[k].level \in Nat
  BY SequencesAssumption, SequenceTyped DEF IsSequence
<1>2. i \in Within
  BY <1>1
<1>3. PICK j \in Within : \A k \in Within : j >= k
  <2>1. Within \in SUBSET Int
    BY <1>1
  <2>2. IsFiniteSet(Within)
    <3>1. IsFiniteSet(i .. Len(h)) /\ Within \subseteq i .. Len(h)
      BY <1>1, FS_Interval
    <3> QED
      BY <3>1, FS_Subset
  <2> HIDE DEF Within
  <2> QED
    BY <1>2, <2>1, <2>2, GreatestExists
<1>4. j = Len(h) \/ h[j + 1].level <= h[i].level
  <2> SUFFICES ASSUME j # Len(h), ~(h[j + 1].level <= h[i].level) PROVE FALSE
    OBVIOUS
  <2>1. j + 1 \in i .. Len(h)
    BY <1>1
  <2>2. h[j + 1].level > h[i].level
    BY <1>1, <2>1
  <2>3. \A k \in i + 1 .. j + 1 : k \in i + 1 .. j \/ k = j + 1
    BY <1>1
  <2>4. j + 1 \in Within
    BY <2>1, <2>2, <2>3
  <2> QED
    BY <1>1, <1>3, <2>4
<1>5. \E e \in i .. Len(h) :
         /\ \A k \in i + 1 .. e : h[k].level > h[i].level
         /\ e = Len(h) \/ h[e + 1].level <= h[i].level
  BY <1>4
<1> QED
  BY <1>5 DEF SectionEnd

\* No text of the README is lost, however its sections are nested (chunk_readme).
THEOREM ReadmeIsNotLost == IndexSpec => []ReadmeIsCovered
<1>1. IndexInv => ReadmeIsCovered
  <2> SUFFICES ASSUME readme \in Readmes, NEW i \in 1 .. Len(readme), readme[i].body # Blank
               PROVE  \E k \in 1 .. i :
                          /\ \A m \in k + 1 .. i : readme[m].level > readme[k].level
                          /\ \E chunk \in ToSet(ChunkReadme(readme)) :
                                 /\ chunk.name = readme[k].title
                                 /\ readme[i].body \in ToSet(chunk.text)
    BY DEF IndexInv, IndexTypes, ReadmeIsCovered
  <2>1. Len(readme) \in Nat
    BY SequencesAssumption, SequenceTyped DEF IsSequence
  <2>2. PICK j \in i .. Len(readme) : ChunkOfHeader(readme, i) = <<Chunk(readme, i, j)>>
    <3>1. i \in i .. Len(readme) /\ SectionEnd(readme, i) \in i .. Len(readme)
      BY <2>1, SectionsEnd
    <3> QED
      BY <3>1 DEF ChunkOfHeader
  <2> DEFINE chunk == Chunk(readme, i, j)
  <2>3. chunk \in ToSet(ChunkReadme(readme))
    <3>1. chunk \in ToSet(<<chunk>>)
      BY DEF ToSet
    <3> QED
      BY <2>2, <3>1, ChunksAreSequences
  <2>4. chunk.name = readme[i].title /\ readme[i].body \in ToSet(chunk.text)
    <3>1. chunk.text = [k \in 1 .. j - i + 1 |-> readme[i + k - 1].body]
          /\ chunk.name = readme[i].title
      BY DEF Chunk, Document
    <3>2. 1 \in 1 .. j - i + 1 /\ i + 1 - 1 = i
      BY <2>1
    <3>3. 1 \in DOMAIN chunk.text /\ chunk.text[1] = readme[i].body
      BY <3>1, <3>2
    <3> QED
      BY <3>1, <3>3 DEF ToSet
  <2>5. i \in 1 .. i /\ \A m \in i + 1 .. i : readme[m].level > readme[i].level
    BY <2>1
  <2> QED
    BY <2>3, <2>4, <2>5
<1> QED
  BY <1>1, IndexSpecInv, PTL
============================================================================
