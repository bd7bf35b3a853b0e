---------------------------- MODULE MCWakeSleep ----------------------------
(* Instances of WakeSleep for TLC. *)
EXTENDS WakeSleep
CONSTANTS w1, w2, r1, s1, s2

OneWake == {w1}
TwoWakes == {w1, w2}
NoWakes == {}
OneRegional == {r1}
OneSleep == {s1}
TwoSleeps == {s1, s2}
Unseeded == {"unseeded"}
Overlap == {"overlap"}
Everything == {"overlap", "transition"}
=============================================================================
