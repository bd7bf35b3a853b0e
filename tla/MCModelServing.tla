-------------------------- MODULE MCModelServing --------------------------
(* Instances of ModelServing for TLC. *)
EXTENDS ModelServing, TLC
CONSTANTS r1, r2, q1, q2, low, high

TwoRuns == {r1, r2}
TwoRequests == {q1, q2}
ApiAndAgent == {"api", "agent"}
TwoCuts == {low, high}
===========================================================================
