------------------------------ MODULE MCReplay ------------------------------
(* An instance of Replay for TLC.  From 100, a stop costs 16: two of them  *)
(* spend the day's allowance, three the drawdown.  The week closes at 6.   *)
EXTENDS Replay

Percent(n) == <<n, 100>>
RiskOfATrade == Percent(12)
RiskOfTheBook == Percent(24)
LossOfADay == Percent(30)
DrawdownOfARun == Percent(40)

\* One series inside a week, with its last entry and its deadline; one over a
\* weekend.
TheTimelines == {<<1, 2, 3, 5>>, <<2, 3, 8, 9>>}

Observed(mid, wish) == [mid |-> mid, fit |-> TRUE, wish |-> wish]
Wish(side, regime) == [side |-> side, distance |-> 5, regime |-> regime]

\* Entries that gain and that lose, one for the supervisor to veto, one on
\* stale data.
TheTicks == {
    Observed(20, None), Observed(15, Wish("BUY", "TREND")), Observed(10, Wish("BUY", "TREND")),
    Observed(10, Wish("SELL", "TREND")), Observed(15, Wish("SELL", "UNKNOWN")),
    [mid |-> 10, fit |-> FALSE, wish |-> Wish("BUY", "TREND")]}

DemoAccount == [connected |-> TRUE, tradeAllowed |-> TRUE, expertAllowed |-> TRUE,
                demo |-> TRUE, expected |-> TRUE]

ThePolicy == [enabled |-> TRUE, vetoUnknown |-> TRUE, fullBand |-> TRUE, maxIntents |-> None]
==============================================================================
