---------------------------- MODULE MCLiveDecision ----------------------------
(* Instances of LiveDecision for TLC.                                      *)
EXTENDS LiveDecision, TLC

CONSTANTS w1, w2, r1

\* From 10, an equity of 9 uses the budget up in part and 8 spends the day's.
\* With the same limit on both, 9 on one day and 8 on the next spend the
\* drawdown alone.
TwoTenths == <<2, 10>>

\* Trading days of the ticks.
OverMidnight == <<1, 2>>
WithinTheDay == <<1, 1>>
OneTick == <<1>>

\* The workers differ in name only.
WorkerSymmetry == Permutations(Workers)
==============================================================================
