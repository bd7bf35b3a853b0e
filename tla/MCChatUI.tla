------------------------------ MODULE MCChatUI ------------------------------
(* A page and the other clients of the service: three requests, from the   *)
(* page or from elsewhere, in two conversations.                           *)
EXTENDS ChatUI, TLC

CONSTANTS r1, r2, r3, s1, s2

MCRequests == {r1, r2, r3}
MCSessions == {s1, s2}
MCSymmetry == Permutations(MCRequests) \cup Permutations(MCSessions)
=============================================================================
