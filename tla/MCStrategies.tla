---------------------------- MODULE MCStrategies ----------------------------
(* An instance of Strategies for TLC.  The opening is a market that left a *)
(* swing high and two swing lows; the shapes take out the last ones,       *)
(* displace back through the other and retrace, in either direction.  The  *)
(* fourth bar slides the window, and drops the first swing low with it.    *)
EXTENDS Strategies, TLC

Bar(o, h, l, c) == [open |-> o, high |-> h, low |-> l, close |-> c]

UpOpening == <<Bar(24, 25, 24, 24), Bar(24, 25, 23, 24), Bar(24, 26, 24, 25),
               Bar(25, 25, 22, 23), Bar(23, 24, 23, 24)>>

OneOpening == {UpOpening, [i \in 1..5 |-> MirrorBar(UpOpening[i])]}

Longs == {Bar(24, 24, 21, 23),      \* takes the low out and closes back
          Bar(23, 29, 23, 29),      \* displaces through the high
          Bar(29, 30, 25, 26),      \* leaves a gap behind it
          Bar(26, 26, 24, 24)}      \* retraces into the gap

Both == {Bar(25, 29, 21, 25)}       \* takes both out at once

SomeShapes == Longs \cup {MirrorBar(bar) : bar \in Longs} \cup Both

Quote(bid, weekday, hour) == [bid |-> bid, ask |-> bid + 1, weekday |-> weekday, hour |-> hour]

SomeQuotes == {Quote(23, 1, 3), Quote(26, 1, 3), Quote(24, 1, 3), Quote(23, 1, 13), Quote(23, 5, 3)}

SomeBooks == {{}, {"BUY"}}

AllRequired == {"market_open", "killzone", "liquidity_sweep", "structure_shift", "fair_value_gap",
                "price_in_zone", "discount_premium", "optimal_trade_entry"}

Percent(n) == Reduced(n, 100)
P2 == Percent(2)
P25 == Percent(25)
P10 == Percent(10)
P60 == Percent(60)
P62 == Percent(62)
P79 == Percent(79)
P100 == Percent(100)
P150 == Percent(150)
P160 == Percent(160)
P200 == Percent(200)
=============================================================================
