--------------------------- MODULE AnswerPolicy ---------------------------
(***************************************************************************)
(* What one invocation of the agent promises its caller, whatever route it *)
(* takes: it is answered with a draft, unless MaxRejections drafts were    *)
(* rejected, when it is answered with the fixed fallback message, and then *)
(* only; or it fails with an exception.                                    *)
(***************************************************************************)
EXTENDS Naturals

CONSTANT MaxRejections  \* drafts that may be rejected, the last one included

VARIABLES rejections, outcome

policyVars == <<rejections, outcome>>

Init == rejections = 0 /\ outcome = "pending"

Reject ==
    /\ outcome = "pending"
    /\ rejections < MaxRejections
    /\ rejections' = rejections + 1
    /\ UNCHANGED outcome

Answer ==
    /\ outcome = "pending"
    /\ rejections < MaxRejections
    /\ outcome' = "answered"
    /\ UNCHANGED rejections

GiveUp ==
    /\ outcome = "pending"
    /\ rejections = MaxRejections
    /\ outcome' = "fallback"
    /\ UNCHANGED rejections

Fail ==
    /\ outcome = "pending"
    /\ outcome' = "failed"
    /\ UNCHANGED rejections

Next == Reject \/ Answer \/ GiveUp \/ Fail

Spec == Init /\ [][Next]_policyVars
FairSpec == Spec /\ WF_policyVars(Next)
===========================================================================
