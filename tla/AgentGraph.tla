---------------------------- MODULE AgentGraph ----------------------------
(***************************************************************************)
(* One invocation of the compiled LangGraph agent, from user_input to      *)
(* final_answer.  A node runs, returns a partial update, and the graph     *)
(* picks the next node from the updated state in the same superstep, so    *)
(* one action below is one node with its outgoing edge; only a structured  *)
(* LLM call that is retried takes a step per attempt.                      *)
(*                                                                         *)
(* Every LLM reply, lookup and prediction is chosen by the environment.    *)
(* Companies are members of Identifiers, ad hoc company data is AdHoc; a   *)
(* draft is known by its number.                                           *)
(***************************************************************************)
EXTENDS Naturals, FiniteSets

CONSTANTS
    Identifiers,    \* companies a request can mention
    AdHoc,          \* the company described in the request itself (case_b)
    MaxRetries,     \* graph.MAX_RETRIES
    ToolRetries,    \* llm_utils.MAX_RETRIES
    RecursionLimit  \* LangGraph's bound on the nodes one invocation runs

ASSUME CompaniesAssumption == AdHoc \notin Identifiers
ASSUME RetriesAssumption ==
    MaxRetries \in Nat /\ ToolRetries \in Nat \ {0}
ASSUME RecursionAssumption ==
    RecursionLimit \in Nat /\ 6 + 3 * MaxRetries < RecursionLimit

Routes == {"case_a", "case_b", "rag", "direct"}
Nodes == {"router", "extractor", "predictor_node", "retriever_node",
          "responder", "judge", "increment_retry_count", "fallback"}
Finished == {"END", "raised"}
\* How an LLM call fails: the two kinds of BadRequestError the code tells
\* apart, and everything else (rate limit, time-out, connection, parsing).
CallErrors == {"tool_use_failed", "bad_request", "other"}

VARIABLES
    node,           \* the node about to run, or how the invocation ended
    step,           \* nodes run so far
    attempt,        \* attempts made by the latest structured call
    failure,        \* the exception that attempt or node ended with
    route,
    asked,          \* companies to score: identifiers found, or AdHoc
    resolved,       \* those known to the database, or AdHoc if it is valid
    prediction_results,
    prediction_errors,
    drafts,         \* answers the responder has generated
    corrected,      \* the latest draft was asked for with a correction hint
    final_answer,
    judged,         \* the draft judge_verdict is about
    judge_verdict,
    retry_count

callVars == <<attempt, failure>>
materialVars == <<asked, resolved, prediction_results, prediction_errors>>
answerVars == <<drafts, corrected, final_answer>>
verdictVars == <<judged, judge_verdict>>
vars == <<node, step, callVars, route, materialVars, answerVars, verdictVars,
          retry_count>>

Companies == Identifiers \cup {AdHoc}

TypeOK ==
    /\ node \in Nodes \cup Finished
    /\ step \in 0 .. RecursionLimit
    /\ attempt \in 0 .. ToolRetries
    /\ failure \in CallErrors \cup {"none", "out_of_steps"}
    /\ route \in Routes \cup {"none"}
    /\ asked \subseteq Companies
    /\ resolved \subseteq Companies
    /\ prediction_results \subseteq Companies
    /\ prediction_errors \subseteq Companies
    /\ drafts \in 0 .. MaxRetries + 1
    /\ corrected \in BOOLEAN
    /\ final_answer \in {"none", "draft", "fallback"}
    /\ judged \in 0 .. MaxRetries + 1
    /\ judge_verdict \in {"none", "approved", "rejected", "unverified"}
    /\ retry_count \in 0 .. MaxRetries

Init ==
    /\ node = "router" /\ step = 0
    /\ attempt = 0 /\ failure = "none"
    /\ route = "none"
    /\ asked = {} /\ resolved = {}
    /\ prediction_results = {} /\ prediction_errors = {}
    /\ drafts = 0 /\ corrected = FALSE /\ final_answer = "none"
    /\ judged = 0 /\ judge_verdict = "none"
    /\ retry_count = 0

(***************************************************************************)
(* The graph runtime                                                       *)
(***************************************************************************)

\* The current node is done and its outgoing edge leads to next.  LangGraph
\* raises GraphRecursionError rather than run one node too many.
Goto(next) ==
    /\ step' = step + 1
    /\ attempt' = 0
    /\ IF next # "END" /\ step' = RecursionLimit
       THEN node' = "raised" /\ failure' = "out_of_steps"
       ELSE node' = next /\ failure' = "none"

\* The current node raises: the exception leaves agent.invoke.
Raise(exception) ==
    /\ node' = "raised"
    /\ failure' = exception
    /\ UNCHANGED <<step, route, materialVars, answerVars, verdictVars,
                   retry_count>>

(***************************************************************************)
(* Structured calls: invoke_with_retry                                     *)
(***************************************************************************)

\* The nodes that wrap their call in invoke_with_retry; extract_case_a calls
\* its LLM directly.
CallsWithRetry ==
    node \in {"router", "judge"} \/ (node = "extractor" /\ route = "case_b")

Retried(exception) ==
    exception = "tool_use_failed" /\ attempt + 1 < ToolRetries

TryAgain ==
    /\ CallsWithRetry
    /\ \E exception \in CallErrors :
        Retried(exception) /\ failure' = exception
    /\ attempt' = attempt + 1
    /\ UNCHANGED <<node, step, route, materialVars, answerVars, verdictVars,
                   retry_count>>

\* The router and the extractor let the exception through, the judge only
\* what is not a BadRequestError.
StructuredCallRaises ==
    /\ CallsWithRetry
    /\ \E exception \in CallErrors :
        /\ ~Retried(exception)
        /\ node = "judge" => exception = "other"
        /\ Raise(exception)
    /\ attempt' = attempt + 1

(***************************************************************************)
(* The nodes                                                               *)
(***************************************************************************)
RouteAfterRouter(r) ==
    CASE r \in {"case_a", "case_b"} -> "extractor"
      [] r = "rag" -> "retriever_node"
      [] OTHER -> "responder"

Router ==
    /\ node = "router"
    /\ \E r \in Routes : route' = r /\ Goto(RouteAfterRouter(r))
    /\ UNCHANGED <<materialVars, answerVars, verdictVars, retry_count>>

\* extract_case_a: the identifiers the LLM finds, possibly none, each looked
\* up in turn; an unknown one becomes an error, in the same list.
ExtractCaseA ==
    /\ node = "extractor" /\ route = "case_a"
    /\ asked' \in SUBSET Identifiers
    /\ resolved' \in SUBSET asked'
    /\ prediction_errors' = prediction_errors \cup (asked' \ resolved')
    /\ Goto("predictor_node")
    /\ UNCHANGED <<route, prediction_results, answerVars,
                   verdictVars, retry_count>>

\* No retry around this LLM call; SQLAlchemyError from a lookup re-raises.
ExtractCaseARaises ==
    /\ node = "extractor" /\ route = "case_a"
    /\ \E exception \in CallErrors : Raise(exception)
    /\ attempt' = 1

\* extract_case_b: the data found may not validate.
ExtractCaseB ==
    /\ node = "extractor" /\ route = "case_b"
    /\ asked' = {AdHoc}
    /\ resolved' \in SUBSET {AdHoc}
    /\ prediction_errors' = prediction_errors \cup (asked' \ resolved')
    /\ Goto("predictor_node")
    /\ UNCHANGED <<route, prediction_results, answerVars,
                   verdictVars, retry_count>>

\* Mutant: the error lists of the extractor are not carried over.
PredictCaseADropsErrors ==
    /\ node = "predictor_node" /\ route = "case_a"
    /\ \E scored \in SUBSET resolved :
        /\ prediction_results' = prediction_results \cup scored
        /\ prediction_errors' = resolved \ scored
    /\ Goto("responder")
    /\ UNCHANGED <<route, asked, resolved, answerVars, verdictVars,
                   retry_count>>

\* predict_case_a: a database error while scoring one company is recorded
\* and the others are still scored.
PredictCaseA ==
    /\ node = "predictor_node" /\ route = "case_a"
    /\ \E scored \in SUBSET resolved :
        /\ prediction_results' = prediction_results \cup scored
        /\ prediction_errors' = prediction_errors \cup (resolved \ scored)
    /\ Goto("responder")
    /\ UNCHANGED <<route, asked, resolved, answerVars, verdictVars,
                   retry_count>>

\* predict_case_b validates the raw data again: invalid data was reported by
\* the extractor already and is only logged here.
PredictCaseB ==
    /\ node = "predictor_node" /\ route = "case_b"
    /\ prediction_results' = prediction_results \cup resolved
    /\ Goto("responder")
    /\ UNCHANGED <<route, asked, resolved, prediction_errors,
                   answerVars, verdictVars, retry_count>>

\* Whatever the index returns, nothing included, is what the responder gets.
Retrieve ==
    /\ node = "retriever_node"
    /\ Goto("responder")
    /\ UNCHANGED <<route, materialVars, answerVars, verdictVars, retry_count>>

\* The model bundle or an index that cannot be loaded, a company with no
\* snapshot, a failed plain LLM call.
NodeRaises ==
    /\ node \in {"predictor_node", "retriever_node", "responder"}
    /\ Raise("other")
    /\ UNCHANGED attempt

\* Mutant: a rewrite the judge asked for is taken to be right.
RouteAfterResponderOnce ==
    IF route = "direct" \/ retry_count > 0 THEN "END" ELSE "judge"

RouteAfterResponder == IF route = "direct" THEN "END" ELSE "judge"

Responder ==
    /\ node = "responder"
    /\ drafts' = drafts + 1
    /\ corrected' = (judge_verdict = "rejected")
    /\ final_answer' = "draft"
    /\ Goto(RouteAfterResponder)
    /\ UNCHANGED <<route, materialVars, verdictVars, retry_count>>

\* Mutant: the cap is reached one rejection late.
RouteAfterJudgeOffByOne(verdict) ==
    CASE verdict = "approved" -> "END"
      [] verdict # "approved" /\ retry_count <= MaxRetries
            -> "increment_retry_count"
      [] OTHER -> "fallback"

RouteAfterJudge(verdict) ==
    CASE verdict = "approved" -> "END"
      [] verdict # "approved" /\ retry_count < MaxRetries
            -> "increment_retry_count"
      [] OTHER -> "fallback"

Judge ==
    /\ node = "judge"
    /\ \E verdict \in {"approved", "rejected"} :
        judge_verdict' = verdict /\ Goto(RouteAfterJudge(verdict))
    /\ judged' = drafts
    /\ UNCHANGED <<route, materialVars, answerVars, retry_count>>

\* Any BadRequestError that invoke_with_retry lets through counts as approval.
JudgeDefaults ==
    /\ node = "judge"
    /\ failure' \in {"tool_use_failed", "bad_request"} /\ ~Retried(failure')
    /\ judge_verdict' = "unverified"
    /\ judged' = drafts
    /\ node' = "END" /\ step' = step + 1 /\ attempt' = attempt + 1
    /\ UNCHANGED <<route, materialVars, answerVars, retry_count>>

\* Mutant: the counter is never written back.
IncrementForgotten ==
    /\ node = "increment_retry_count"
    /\ Goto("responder")
    /\ UNCHANGED <<route, materialVars, answerVars, verdictVars, retry_count>>

Increment ==
    /\ node = "increment_retry_count"
    /\ retry_count' = retry_count + 1
    /\ Goto("responder")
    /\ UNCHANGED <<route, materialVars, answerVars, verdictVars>>

Fallback ==
    /\ node = "fallback"
    /\ final_answer' = "fallback"
    /\ Goto("END")
    /\ UNCHANGED <<route, materialVars, drafts, corrected, verdictVars,
                   retry_count>>

Next ==
    \/ TryAgain \/ StructuredCallRaises
    \/ Router
    \/ ExtractCaseA \/ ExtractCaseARaises \/ ExtractCaseB
    \/ PredictCaseA \/ PredictCaseB \/ Retrieve \/ NodeRaises
    \/ Responder \/ Judge \/ JudgeDefaults \/ Increment \/ Fallback

Spec == Init /\ [][Next]_vars

\* Every LLM call, query and prediction returns or raises in the end.
FairSpec == Spec /\ WF_vars(Next)

(***************************************************************************)
(* Properties                                                              *)
(***************************************************************************)

\* What the user is shown on a route with material is the very draft the
\* judge was last asked about, and that draft was approved, or passed
\* through unverified; otherwise it is the fallback message, and only once
\* every one of the MaxRetries + 1 drafts allowed has been rejected
\* (README "LLM-as-a-Judge", graph.py route_after_judge).
ShownAnswerWasJudged ==
    (node = "END" /\ route # "direct") =>
        \/ /\ final_answer = "draft" /\ judged = drafts
           /\ judge_verdict \in {"approved", "unverified"}
        \/ /\ final_answer = "fallback" /\ judged = drafts
           /\ judge_verdict = "rejected" /\ drafts = MaxRetries + 1

\* Whatever mixture of unknown companies and database errors a request meets,
\* the responder is told about every company asked for, once: it has either a
\* result or an error (extractor.py and predictor_node.py each append to the
\* other's lists).
EveryCompanyAccounted ==
    (drafts > 0 /\ route \in {"case_a", "case_b"}) =>
        /\ prediction_results \cup prediction_errors = asked
        /\ prediction_results \cap prediction_errors = {}

\* A rewrite, and never a first draft, is asked for with the judge's reason
\* for rejecting the draft before it (responder.py, "On a retry ...").
RewritesAreCorrections == drafts > 0 => corrected = (drafts > 1)

\* No invocation dies of LangGraph's recursion limit: the review loop always
\* ends first.
StaysWithinRecursionLimit == failure # "out_of_steps"

\* The review loop implements the policy of AnswerPolicy, the liveness
\* included: every invocation ends.  A draft counts as rejected from the
\* judge's verdict on, before the counter in the state catches up.
Rejections ==
    IF drafts = 0 \/ (judge_verdict = "rejected" /\ judged = drafts)
    THEN drafts ELSE drafts - 1
Outcome ==
    CASE node = "END" /\ final_answer = "fallback" -> "fallback"
      [] node = "END" /\ final_answer # "fallback" -> "answered"
      [] node = "raised" -> "failed"
      [] OTHER -> "pending"
Policy == INSTANCE AnswerPolicy WITH
    MaxRejections <- MaxRetries + 1, rejections <- Rejections,
    outcome <- Outcome
FollowsPolicy == Policy!FairSpec
===========================================================================
