--------------------------- MODULE MarketStructure ---------------------------
(***************************************************************************)
(* The chart primitives of the ICT entry model: swings, breaks and shifts  *)
(* of structure (trading_agent/structure.py), liquidity pools and sweeps   *)
(* (liquidity.py), true ranges, fair value gaps and order blocks           *)
(* (imbalance.py).                                                         *)
(*                                                                         *)
(* A series of closed bars is a sequence; a bar's index stands for its     *)
(* open time and prices count in points.  Decimal fractions are pairs      *)
(* <<numerator, denominator>>.  The code's tuples of swings are sets of    *)
(* bar indices, oldest first being ascending.                              *)
(***************************************************************************)
EXTENDS Integers, Sequences, FiniteSetsExt, Sums

CONSTANTS
    Strength,           \* swing_strength
    ShiftLookback,      \* structure_lookback_bars
    EqualityTolerance,  \* of find_liquidity_pools, in points
    SweepLookback,      \* sweep_lookback_bars
    AtrPeriod,          \* period of average_true_range
    MinDisplacement,    \* min_displacement_ratio
    MaxGapAge,          \* fvg_max_age_bars
    BlockLookback,      \* max_lookback of find_order_block
    Nothing             \* Python's None

Abs(n) == IF n < 0 THEN -n ELSE n

\* Bar._check_ohlc()
ValidBar(bar) ==
    /\ bar.low <= bar.high
    /\ {bar.open, bar.close} \subseteq bar.low..bar.high

\* The indices of the last n bars; the code's max(0, len(bars) - n).
LastBars(bars, n) == Max({1, Len(bars) - n + 1})..Len(bars)

------------------------------------------------------------------------------
(* structure.py                                                            *)

\* find_swings(): strictly beyond the Strength bars on each side.
Interior(bars) == (1 + Strength)..(Len(bars) - Strength)

Around(i) == ((i - Strength)..(i + Strength)) \ {i}

\* Mutant: at the left edge the bars that are there are enough.
SwingHighsFromTheEdge(bars) ==
    {i \in 1..(Len(bars) - Strength) :
        \A j \in Around(i) \cap DOMAIN bars : bars[i].high > bars[j].high}

SwingHighs(bars) ==
    {i \in Interior(bars) : \A j \in Around(i) : bars[i].high > bars[j].high}

SwingLows(bars) ==
    {i \in Interior(bars) : \A j \in Around(i) : bars[i].low < bars[j].low}

\* _classify_state(): both sides must agree.
Classify(bars, highs, lows) ==
    LET Last(S) == Max(S)
        Before(S) == Max(S \ {Max(S)})
    IN IF Cardinality(highs) < 2 \/ Cardinality(lows) < 2 THEN "UNCLEAR"
       ELSE LET high == bars[Last(highs)].high - bars[Before(highs)].high
                low == bars[Last(lows)].low - bars[Before(lows)].low
            IN CASE high > 0 /\ low > 0 -> "BULLISH"
                 [] high < 0 /\ low < 0 -> "BEARISH"
                 [] OTHER -> "UNCLEAR"

\* The swings that Strength bars had confirmed before the bar at index.
ConfirmedBefore(swings, index) == {s \in swings : s + Strength < index}

\* _find_break(): the most recent bar that closed beyond the then-current swing.
FindBreak(bars, swings, up) ==
    LET Beyond(close, swing) == IF up THEN close > swing.high ELSE close < swing.low
        breaks == {i \in LastBars(bars, ShiftLookback) :
                    LET confirmed == ConfirmedBefore(swings, i) IN
                    confirmed # {} /\ Beyond(bars[i].close, bars[Max(confirmed)])}
    IN IF breaks = {} THEN Nothing ELSE Max(breaks)

\* _state_before()
StateBefore(bars, index) ==
    IF index = Nothing THEN "UNCLEAR"
    ELSE Classify(bars, ConfirmedBefore(SwingHighs(bars), index),
                        ConfirmedBefore(SwingLows(bars), index))

\* read_structure(): a break against the structure before it is a shift.  (The
\* entry model reads neither the breaks in the direction of the structure nor
\* the range between the last swings.)
ReadStructure(bars) ==
    LET highs == SwingHighs(bars)
        lows == SwingLows(bars)
        up == FindBreak(bars, highs, TRUE)
        down == FindBreak(bars, lows, FALSE)
    IN [state |-> Classify(bars, highs, lows), highs |-> highs, lows |-> lows,
        shiftedUp |-> up # Nothing /\ StateBefore(bars, up) # "BULLISH",
        shiftedDown |-> down # Nothing /\ StateBefore(bars, down) # "BEARISH"]

\* DealingRange.position_of(): a band around the midpoint is neither half.
PositionOf(range, price, tolerance) ==
    LET size == range.high - range.low
        offset == (2 * price - range.low - range.high) * tolerance[2]
        band == 2 * size * tolerance[1]
    IN IF size <= 0 THEN "EQUILIBRIUM"
       ELSE IF offset > band THEN "PREMIUM"
       ELSE IF offset < -band THEN "DISCOUNT"
       ELSE "EQUILIBRIUM"

\* DealingRange.retracement_of(): 0 at the high, 1 at the low.
RetracementOf(range, price) == <<range.high - price, range.high - range.low>>

------------------------------------------------------------------------------
(* liquidity.py                                                            *)

\* find_liquidity_pools(): swings sorted by price are chained into one bucket
\* while each is within the tolerance of the one before it.
Bucket(swing, price) ==
    {t \in DOMAIN price :
        LET low == Min({price[swing], price[t]})
            high == Max({price[swing], price[t]})
        IN \A s \in {s \in DOMAIN price : low <= price[s] /\ price[s] < high} :
              \E r \in DOMAIN price :
                 price[s] < price[r] /\ price[r] <= price[s] + EqualityTolerance}

\* _pool_from(): the extreme of the cluster, dated at its latest swing.
BuySidePools(bars, swings) ==
    LET high == [s \in swings |-> bars[s].high] IN
    {LET bucket == Bucket(s, high) IN
     [buySide |-> TRUE, price |-> Max({high[t] : t \in bucket}), time |-> Max(bucket)]
     : s \in swings}

SellSidePools(bars, swings) ==
    LET low == [s \in swings |-> bars[s].low] IN
    {LET bucket == Bucket(s, low) IN
     [buySide |-> FALSE, price |-> Min({low[t] : t \in bucket}), time |-> Max(bucket)]
     : s \in swings}

Through(bar, pool) == IF pool.buySide THEN bar.high > pool.price ELSE bar.low < pool.price

\* _first_touch_index(): a level price traded through has had its stops taken.
Untouched(bars, pool, index) ==
    \A i \in (pool.time + 1)..(index - 1) : ~Through(bars[i], pool)

ClosedBack(bar, pool) == IF pool.buySide THEN bar.close < pool.price ELSE bar.close > pool.price

\* A candidate of detect_sweep(): the level taken out and rejected by one bar.
Sweep(bars, pool, index) ==
    LET extreme == IF pool.buySide THEN bars[index].high ELSE bars[index].low IN
    [direction |-> IF pool.buySide THEN "SELL" ELSE "BUY", level |-> pool.price,
     extreme |-> extreme, index |-> index, depth |-> Abs(extreme - pool.price),
     formed |-> pool.time]

Sweeps(bars, pools) ==
    {Sweep(bars, c[1], c[2]) :
        c \in {c \in pools \X LastBars(bars, SweepLookback) :
                /\ c[1].time < c[2]
                /\ Untouched(bars, c[1], c[2])
                /\ Through(bars[c[2]], c[1])
                /\ ClosedBack(bars[c[2]], c[1])}}

\* The loop keeps the first of the deepest candidates: by bar, the buy-side
\* pools before the sell-side ones, each by time.
Precedes(s, t) ==
    \/ s.depth > t.depth
    \/ s.depth = t.depth /\ s.index < t.index
    \/ s.depth = t.depth /\ s.index = t.index /\ s.direction = "SELL" /\ t.direction = "BUY"
    \/ s.depth = t.depth /\ s.index = t.index /\ s.direction = t.direction /\ s.formed <= t.formed

DetectSweep(bars, pools) ==
    LET sweeps == Sweeps(bars, pools) IN
    IF sweeps = {} THEN Nothing
    ELSE CHOOSE s \in sweeps : \A t \in sweeps : Precedes(s, t)

\* nearest_target()
NearestTarget(pools, from, direction) ==
    LET prices == {p.price : p \in pools}
        beyond == IF direction = "BUY" THEN {p \in prices : p > from} ELSE {p \in prices : p < from}
    IN IF beyond = {} THEN Nothing
       ELSE IF direction = "BUY" THEN Min(beyond)
       ELSE Max(beyond)

------------------------------------------------------------------------------
(* imbalance.py                                                            *)

TrueRange(bars, i) ==
    Max({bars[i].high - bars[i].low,
         Abs(bars[i].high - bars[i - 1].close),
         Abs(bars[i].low - bars[i - 1].close)})

\* The sum of the last n true ranges.
RangeSum(bars, n) ==
    Total([i \in 1..n |-> TrueRange(bars, Len(bars) - n + i)])

\* average_true_range(): zero when there are too few bars.
AverageTrueRange(bars) ==
    IF Len(bars) < AtrPeriod + 1 THEN <<0, 1>> ELSE <<RangeSum(bars, AtrPeriod), AtrPeriod>>

\* FairValueGap.is_mitigated_by(): a later bar traded through the far edge.
MitigatedBy(gap, bar) ==
    IF gap.direction = "BUY" THEN bar.low <= gap.lower ELSE bar.high >= gap.upper

StillOpen(bars, gap) == \A i \in (gap.index + 1)..Len(bars) : ~MitigatedBy(gap, bars[i])

\* The three bars ending at i that never overlapped, if they did not.
GapAt(bars, i) ==
    LET first == bars[i - 2]
        third == bars[i]
        Gap(direction, lower, upper) ==
            {[direction |-> direction, lower |-> lower, upper |-> upper, index |-> i,
              displacement |-> bars[i - 1].high - bars[i - 1].low]}
    IN IF third.low > first.high THEN Gap("BUY", first.high, third.low)
       ELSE IF third.high < first.low THEN Gap("SELL", third.high, first.low)
       ELSE {}

\* displacement_ratio >= min_displacement_ratio
Displaced(gap, atr) ==
    gap.displacement * atr[2] * MinDisplacement[2] >= MinDisplacement[1] * atr[1]

\* find_fair_value_gaps(): the open, displaced gaps of the recent bars.
FairValueGaps(bars) ==
    LET atr == AverageTrueRange(bars) IN
    IF atr[1] <= 0 THEN {}
    ELSE {gap \in UNION {GapAt(bars, i) : i \in LastBars(bars, MaxGapAge) \ {1, 2}} :
            Displaced(gap, atr) /\ StillOpen(bars, gap)}

\* find_order_block(): the last opposing candle before the displacement.
FindOrderBlock(bars, index, direction) ==
    LET opposing == {i \in Max({1, index - BlockLookback})..(index - 1) :
                        IF direction = "BUY" THEN bars[i].close < bars[i].open
                                             ELSE bars[i].close > bars[i].open}
    IN IF opposing = {} THEN Nothing ELSE Max(opposing)
==============================================================================
