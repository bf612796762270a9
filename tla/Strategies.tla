------------------------------ MODULE Strategies ------------------------------
(***************************************************************************)
(* The two built-in strategies, run over the rolling window of closed bars *)
(* that the replay and the live loop both hand them: the ICT entry model   *)
(* (trading_agent/ict.py, with the sessions of sessions.py) and the        *)
(* moving-average baseline (baseline.py, with the features of features.py).*)
(*                                                                         *)
(* Prices count in points and one point is the quoting precision, so that  *)
(* a price computed from an average is rounded as quantize_price does.     *)
(* Identifiers, hashes and wording are left out; a reason is the name of   *)
(* the condition that stopped the evaluation.                              *)
(***************************************************************************)
EXTENDS MarketStructure, SequencesExt

CONSTANTS
    Openings,       \* closed bars the window starts from
    Shapes,         \* bars that may close after them
    Quotes,         \* [bid, ask, weekday, hour], New York local time
    Books,          \* open_position_sides of the AgentContext
    HistoryBars,    \* MAX_HISTORY_BARS, RECENT_BAR_WINDOW: the window's length
    LastBar,        \* bound on the bars that close
    MinimumBars,    \* MINIMUM_BARS
    Required,       \* the IctConditions that are mandatory
    OteLow, OteHigh, Tolerance, StopBuffer, FallbackReward, MinReward,
    MinStopPoints,  \* min_stop_distance_points
    StopsLevel,     \* the instrument's stops_level
    FastPeriod, SlowPeriod, BaselinePeriod,
    HighVolatility, LowVolatility, TrendThreshold,
    StopMultiple, RewardMultiple, MinTrend, MaxTrend,
    MirrorSum       \* a price and its mirror image add up to this

Candles == [open : Int, high : Int, low : Int, close : Int]

Decimals == Int \X (Nat \ {0})

ASSUME BarsAreValid ==
    /\ \A bar \in Shapes : ValidBar(bar)
    /\ \A opening \in Openings : \A i \in DOMAIN opening : ValidBar(opening[i])

\* The types of the inputs; multiples are positive, a buffer is not negative and
\* a retracement that is entered at is not beyond the leg, as in the defaults of
\* IctConfig and StrategyConfig, the only ones that a caller uses.
ASSUME StrategyAssumption ==
    /\ Shapes \subseteq Candles /\ Openings \subseteq Seq(Candles)
    /\ Quotes \subseteq [bid : Int, ask : Int, weekday : 0..6, hour : 0..23]
    /\ {Strength, SweepLookback, MaxGapAge, HistoryBars, MinStopPoints, StopsLevel} \subseteq Nat
    /\ {AtrPeriod, BaselinePeriod} \subseteq Nat \ {0}
    /\ {OteHigh, StopBuffer, FallbackReward, StopMultiple, RewardMultiple, MinDisplacement}
            \subseteq Decimals
    /\ OteHigh[1] <= OteHigh[2] /\ StopBuffer[1] >= 0 /\ MinDisplacement[1] >= 0
    /\ FallbackReward[1] > 0 /\ StopMultiple[1] > 0 /\ RewardMultiple[1] > 0

\* The window holds every gap that is young enough, with the bars it is read from.
ASSUME WindowAssumption == HistoryBars >= MaxGapAge + 2

\* IctConditions: the two defaults that an entry cannot do without.
ASSUME SetupAssumption == {"structure_shift", "optimal_trade_entry"} \subseteq Required

VARIABLES
    chart,      \* the window of closed bars, oldest first
    closed,     \* how many bars have closed since the opening
    quote,      \* the snapshot the strategies look at
    book,       \* the sides already held
    ict,        \* what ict.evaluate() answered
    baseline    \* what baseline.evaluate() answered

strategyVars == <<chart, closed, quote, book, ict, baseline>>

------------------------------------------------------------------------------
(* Fractions, and quantize_price() away from the entry                     *)

LessOrEqual(f, g) == f[1] * g[2] <= g[1] * f[2]

Less(f, g) == f[1] * g[2] < g[1] * f[2]

\* Euclid's algorithm: the greatest common divisor of m and n is Gcd[n][m].
Gcd[n \in Nat] == [m \in Nat |-> IF n = 0 THEN m ELSE Gcd[m % n][n]]

Reduced(m, n) == LET d == Gcd[n][Abs(m)] IN <<m \div d, n \div d>>

Times(f, g) == Reduced(f[1] * g[1], f[2] * g[2])

Minus(f, g) == Reduced(f[1] * g[2] - g[1] * f[2], f[2] * g[2])

Plus(f, g) == Reduced(f[1] * g[2] + g[1] * f[2], f[2] * g[2])

Whole(n) == <<n, 1>>

RoundDown(f) == f[1] \div f[2]

RoundUp(f) == -((-f[1]) \div f[2])

\* The widest of the policy's and the broker's minimum stop distance.
PolicyFloor == Max({MinStopPoints, StopsLevel})

NoTrade(reason) == [side |-> "FLAT", reason |-> reason]

\* Confidence counts in eightieths in the ICT model.
Intent(side, entry, stop, target, confidence, regime) ==
    [side |-> side, reason |-> "intent", entry |-> entry, stop |-> stop, target |-> target,
     confidence |-> confidence, regime |-> regime]

\* The validators of TradeIntent: a stop on the losing side, a target on the other.
AcceptedIntent(d) ==
    IF d.side = "BUY" THEN d.stop < d.entry /\ d.entry < d.target
                      ELSE d.target < d.entry /\ d.entry < d.stop

\* The executable side of the quote.
EntryPrice(q, direction) == IF direction = "BUY" THEN q.ask ELSE q.bid

------------------------------------------------------------------------------
(* sessions.py                                                             *)

\* is_market_open(): weekday 0 is Monday.
IsMarketOpen(q) ==
    /\ q.weekday # 5
    /\ ~(q.weekday = 4 /\ q.hour >= 17)
    /\ ~(q.weekday = 6 /\ q.hour < 17)

\* DEFAULT_WINDOWS
KillzoneWindows ==
    {[zone |-> "ASIAN_RANGE", start |-> 20, end |-> 24],
     [zone |-> "ASIAN_RANGE", start |-> 0, end |-> 2],
     [zone |-> "LONDON_OPEN", start |-> 2, end |-> 5],
     [zone |-> "NEW_YORK_AM", start |-> 7, end |-> 10],
     [zone |-> "LONDON_CLOSE", start |-> 10, end |-> 12]}

KillzoneAt(q) ==
    {w.zone : w \in {w \in KillzoneWindows : w.start <= q.hour /\ q.hour < w.end}}

TradingKillzones == {"LONDON_OPEN", "NEW_YORK_AM"}

------------------------------------------------------------------------------
(* ict.py                                                                  *)

\* _impulse_leg(): from the swept extreme to the furthest point since.
ImpulseLeg(series, sweep) ==
    LET leg == sweep.index..Len(series) IN
    IF sweep.direction = "BUY"
    THEN [low |-> sweep.extreme, high |-> Max({series[i].high : i \in leg})]
    ELSE [low |-> Min({series[i].low : i \in leg}), high |-> sweep.extreme]

\* Mutant: the band is measured from the high on both sides.
OteFromTheHigh(direction, range, entry) ==
    LET retracement == RetracementOf(range, entry) IN
    LessOrEqual(OteLow, retracement) /\ LessOrEqual(retracement, OteHigh)

\* The optimal-trade-entry band, mirrored for a short.
InOte(direction, range, entry) ==
    LET down == RetracementOf(range, entry)
        depth == IF direction = "BUY" THEN down ELSE Minus(Whole(1), down)
    IN LessOrEqual(OteLow, depth) /\ LessOrEqual(depth, OteHigh)

\* Beyond the swept extreme by a multiple of ATR, rounded away from the entry.
BufferedStop(sweep, atr) ==
    LET buffer == Times(atr, StopBuffer) IN
    IF sweep.direction = "BUY" THEN RoundDown(Minus(Whole(sweep.extreme), buffer))
                               ELSE RoundUp(Plus(Whole(sweep.extreme), buffer))

\* Mutant: a stop inside the floor is proposed as it is.
NeverWidened(direction, entry, stop) == stop

\* Widened to the policy floor where it is closer than that.
Widened(direction, entry, stop) ==
    IF Abs(entry - stop) >= PolicyFloor THEN stop
    ELSE IF direction = "BUY" THEN entry - PolicyFloor
    ELSE entry + PolicyFloor

\* The nearest opposing pool that pays for the risk.
LiquidityTarget(pools, direction, entry, distance) ==
    LET level == NearestTarget(pools, entry, direction) IN
    IF level = Nothing \/ Less(<<Abs(level - entry), distance>>, MinReward) THEN Nothing ELSE level

\* The fallback where there is none: a multiple of the risk.
Target(level, direction, entry, distance) ==
    LET reward == Times(Whole(distance), FallbackReward) IN
    IF level # Nothing THEN level
    ELSE IF direction = "BUY" THEN RoundUp(Plus(Whole(entry), reward))
    ELSE RoundDown(Minus(Whole(entry), reward))

\* Mutant: a shift is reported as the structure it broke.
RegimeOfTheSwings(structure) ==
    IF structure.state \in {"BULLISH", "BEARISH"} THEN "TREND" ELSE "UNKNOWN"

\* IctFeatureSnapshot.regime
RegimeOf(structure) ==
    IF \/ structure.shiftedUp \/ structure.shiftedDown
       \/ structure.state \in {"BULLISH", "BEARISH"}
    THEN "TREND" ELSE "UNKNOWN"

\* _confidence(), in eightieths: an eighth per condition met, a tenth more for
\* a displacement above 2.5 ATR.
IctConfidence(met, gap, atr) ==
    LET base == Min({10 * met, 80})
        strong == gap # Nothing /\ 2 * gap.displacement * atr[2] > 5 * atr[1]
    IN IF strong THEN Min({base + 8, 80}) ELSE base

\* The facts the conditions of _evaluate() are about, up to the sweep.
SweepOf(series, structure) ==
    DetectSweep(series, BuySidePools(series, structure.highs)
                        \cup SellSidePools(series, structure.lows))

\* aligned[-1]: the newest gap in the direction of the sweep.
AlignedGap(series, direction) ==
    LET aligned == {gap \in FairValueGaps(series) : gap.direction = direction} IN
    IF aligned = {} THEN Nothing
    ELSE CHOOSE gap \in aligned : \A other \in aligned : other.index <= gap.index

\* The entry, once the sweep is known: stop and target.
IctIntent(series, structure, sweep, gap, atr, entry, met) ==
    LET direction == sweep.direction
        stop == Widened(direction, entry, BufferedStop(sweep, atr))
        distance == Abs(entry - stop)
        opposing == IF direction = "BUY" THEN BuySidePools(series, structure.highs)
                                         ELSE SellSidePools(series, structure.lows)
        level == LiquidityTarget(opposing, direction, entry, distance)
        target == Target(level, direction, entry, distance)
    IN IF distance <= 0 THEN NoTrade("degenerate_stop")
       ELSE IF level = Nothing /\ "liquidity_target" \in Required THEN NoTrade("liquidity_target")
       ELSE IF target <= 0 \/ stop <= 0 THEN NoTrade("degenerate_price_levels")
       ELSE Intent(direction, entry, stop, target,
                IctConfidence(met + (IF level = Nothing THEN 0 ELSE 1), gap, atr),
                RegimeOf(structure))

\* _evaluate() after the session: each condition in the order of the code; the
\* first required one that fails stops the evaluation (_Evaluation.check()).
EvaluateSetup(series, q, sides, atr, session) ==
    LET structure == ReadStructure(series)
        sweep == SweepOf(series, structure)
    IN IF sweep = Nothing THEN NoTrade("liquidity_sweep")
       ELSE IF sweep.direction \in sides THEN NoTrade("already_positioned")
       ELSE
       LET direction == sweep.direction
           entry == EntryPrice(q, direction)
           gap == AlignedGap(series, direction)
           leg == ImpulseLeg(series, sweep)
           wants == IF direction = "BUY" THEN "DISCOUNT" ELSE "PREMIUM"
           holds == [structure_shift |->
                        IF direction = "BUY" THEN structure.shiftedUp ELSE structure.shiftedDown,
                     fair_value_gap |-> gap # Nothing,
                     price_in_zone |-> gap # Nothing /\ gap.lower <= entry /\ entry <= gap.upper,
                     order_block |->
                        gap # Nothing /\ FindOrderBlock(series, gap.index, direction) # Nothing]
           placed == [discount_premium |-> PositionOf(leg, entry, Tolerance) = wants,
                      optimal_trade_entry |-> InOte(direction, leg, entry)]
           Fails(conditions, c) == ~conditions[c] /\ c \in Required
       IN IF Fails(holds, "structure_shift") THEN NoTrade("structure_shift")
          ELSE IF Fails(holds, "fair_value_gap") THEN NoTrade("fair_value_gap")
          ELSE IF Fails(holds, "price_in_zone") THEN NoTrade("price_in_zone")
          ELSE IF Fails(holds, "order_block") THEN NoTrade("order_block")
          ELSE IF leg.high <= leg.low THEN NoTrade("no_dealing_range")
          ELSE IF Fails(placed, "discount_premium") THEN NoTrade("discount_premium")
          ELSE IF Fails(placed, "optimal_trade_entry") THEN NoTrade("optimal_trade_entry")
          ELSE IctIntent(series, structure, sweep, gap, atr, entry,
                   session + 1 + Cardinality({c \in DOMAIN holds : holds[c]})
                   + Cardinality({c \in DOMAIN placed : placed[c]}))

\* evaluate()
IctEvaluate(series, q, sides) ==
    LET atr == AverageTrueRange(series)
        met == (IF IsMarketOpen(q) THEN {"market_open"} ELSE {})
               \cup (IF KillzoneAt(q) \cap TradingKillzones # {} THEN {"killzone"} ELSE {})
    IN IF Len(series) < MinimumBars THEN NoTrade("warming_up")
       ELSE IF "market_open" \in Required \ met THEN NoTrade("market_open")
       ELSE IF "killzone" \in Required \ met THEN NoTrade("killzone")
       ELSE IF atr[1] <= 0 THEN NoTrade("atr_unavailable")
       ELSE EvaluateSetup(series, q, sides, atr, Cardinality(met))

------------------------------------------------------------------------------
(* features.py and baseline.py                                             *)

\* _ema(): seeded with the mean of the first window.
Ema(series, period) ==
    LET closes == [i \in 1..Len(series) |-> series[i].close]
        seed == <<Total(SubSeq(closes, 1, period)), period>>
        alpha == <<2, period + 1>>
    IN FoldLeft(LAMBDA ema, close :
                    Plus(Times(alpha, Whole(close)), Times(Minus(Whole(1), alpha), ema)),
                seed, SubSeq(closes, period + 1, Len(closes)))

\* _classify(): volatility first.
ClassifyRegime(volatility, trend) ==
    IF LessOrEqual(HighVolatility, volatility) THEN "HIGH_VOLATILITY"
    ELSE IF LessOrEqual(volatility, LowVolatility) THEN "LOW_VOLATILITY"
    ELSE IF LessOrEqual(TrendThreshold, <<Abs(trend[1]), trend[2]>>) THEN "TREND"
    ELSE "RANGE"

\* compute_features(); atr_baseline is zero only if every range is.
ComputeFeatures(series) ==
    LET atr == AverageTrueRange(series)
        base == <<RangeSum(series, BaselinePeriod), BaselinePeriod>>
        gap == Minus(Ema(series, FastPeriod), Ema(series, SlowPeriod))
        trend == IF atr[1] > 0 THEN Reduced(gap[1] * atr[2], gap[2] * atr[1]) ELSE Whole(0)
    IN IF base[1] <= 0 THEN Nothing
       ELSE [atr |-> atr, trend |-> trend,
             regime |-> ClassifyRegime(<<atr[1] * base[2], atr[2] * base[1]>>, trend)]

\* _confidence_from(): the trend score over its span, saturating at 1.
BaselineConfidence(trend) ==
    LET magnitude == <<Abs(trend[1]), trend[2]>>
        capped == IF Less(MaxTrend, magnitude) THEN MaxTrend ELSE magnitude
        scaled == Minus(capped, MinTrend)
        span == Minus(MaxTrend, MinTrend)
    IN Reduced(scaled[1] * span[2], scaled[2] * span[1])

\* _decide()
BaselineDecide(features, q, sides) ==
    LET direction == IF features.trend[1] > 0 THEN "BUY" ELSE "SELL"
        volatility == Times(features.atr, StopMultiple)
        distance == IF Less(volatility, Whole(PolicyFloor)) THEN Whole(PolicyFloor) ELSE volatility
        reward == Times(distance, RewardMultiple)
        entry == EntryPrice(q, direction)
        stop == IF direction = "BUY" THEN RoundDown(Minus(Whole(entry), distance))
                                     ELSE RoundUp(Plus(Whole(entry), distance))
        target == IF direction = "BUY" THEN RoundUp(Plus(Whole(entry), reward))
                                       ELSE RoundDown(Minus(Whole(entry), reward))
    IN IF features.regime # "TREND" THEN NoTrade("regime_not_traded")
       ELSE IF direction \in sides THEN NoTrade("already_positioned")
       ELSE IF Less(MaxTrend, <<Abs(features.trend[1]), features.trend[2]>>) THEN NoTrade("trend_overextended")
       ELSE IF features.atr[1] <= 0 THEN NoTrade("atr_unavailable")
       ELSE IF stop <= 0 \/ target <= 0 THEN NoTrade("degenerate_price_levels")
       ELSE Intent(direction, entry, stop, target,
                BaselineConfidence(features.trend), features.regime)

\* evaluate()
BaselineEvaluate(series, q, sides) ==
    IF Len(series) < Max({MinimumBars, BaselinePeriod + 1, SlowPeriod, FastPeriod})
    THEN NoTrade("warming_up")
    ELSE LET features == ComputeFeatures(series) IN
         IF features = Nothing THEN NoTrade("warming_up") ELSE BaselineDecide(features, q, sides)

------------------------------------------------------------------------------
(* A bar closes, and both strategies are asked                             *)

StrategiesInit ==
    /\ chart \in Openings
    /\ closed = 0
    /\ quote \in Quotes
    /\ book \in Books
    /\ ict = IctEvaluate(chart, quote, book)
    /\ baseline = BaselineEvaluate(chart, quote, book)

\* The newest bar pushes the oldest out of a full window: deque(maxlen), and
\* recent_bars(limit).
Slid(window, bar) ==
    IF Len(window) < HistoryBars THEN Append(window, bar) ELSE Append(Tail(window), bar)

BarCloses ==
    /\ closed < LastBar
    /\ closed' = closed + 1
    /\ \E bar \in Shapes : chart' = Slid(chart, bar)
    /\ UNCHANGED <<quote, book>>
    /\ ict' = IctEvaluate(chart', quote, book)
    /\ baseline' = BaselineEvaluate(chart', quote, book)

StrategiesSpec == StrategiesInit /\ [][BarCloses]_strategyVars

------------------------------------------------------------------------------
(* Properties                                                              *)

\* Both strategies only propose what the TradeIntent contract accepts
\* (models.py: a BUY stop below, a SELL stop above the reference price, the
\* target beyond it) at a distance the risk engine accepts, whatever series led
\* up to it; a violation would raise out of the decision window.
IntentsAreProtected ==
    \A d \in {ict, baseline} :
        d.side # "FLAT" => AcceptedIntent(d) /\ Abs(d.entry - d.stop) >= PolicyFloor

\* The supervisor vetoes an unknown regime (pretrade.py), and the ICT model
\* enters where a shift has just broken the structure a regime is read from:
\* its entries still name a regime the supervisor knows.
EntriesSurviveTheSupervisor ==
    ict.side # "FLAT" => ict.regime \in {"TREND", "RANGE", "HIGH_VOLATILITY", "LOW_VOLATILITY"}

\* The market upside down.
MirrorPrice(p) == MirrorSum - p

MirrorBar(bar) ==
    [open |-> MirrorPrice(bar.open), high |-> MirrorPrice(bar.low),
     low |-> MirrorPrice(bar.high), close |-> MirrorPrice(bar.close)]

MirrorSide(side) == CASE side = "BUY" -> "SELL" [] side = "SELL" -> "BUY" [] OTHER -> side

MirrorDecision(d) ==
    IF d.side = "FLAT" THEN d
    ELSE [d EXCEPT !.side = MirrorSide(@), !.entry = MirrorPrice(@),
                   !.stop = MirrorPrice(@), !.target = MirrorPrice(@)]

\* A swept high and a swept low of one depth: the code takes the older one,
\* and of one bar the high.
SweptBothWays(series) ==
    LET structure == ReadStructure(series)
        sweeps == Sweeps(series, BuySidePools(series, structure.highs)
                                 \cup SellSidePools(series, structure.lows))
    IN \E s, t \in sweeps : s.direction # t.direction /\ s.depth = t.depth /\ s.index = t.index

\* The long and the short half of every rule are the same rule: on the
\* mirrored chart each strategy takes the mirrored decision, at the mirrored
\* prices, or stops at the same condition.  The two halves are written out
\* separately throughout structure.py, liquidity.py, imbalance.py and ict.py.
\* Only a level at or below zero, which has no mirror image, is exempt.
LongAndShortAreMirrored ==
    LET mirrored == [i \in DOMAIN chart |-> MirrorBar(chart[i])]
        flipped == [quote EXCEPT !.bid = MirrorPrice(quote.ask), !.ask = MirrorPrice(quote.bid)]
        sides == {MirrorSide(s) : s \in book}
        Agree(d, m) == \/ "degenerate_price_levels" \in {d.reason, m.reason}
                       \/ m = MirrorDecision(d)
    IN /\ SweptBothWays(chart) \/ Agree(ict, IctEvaluate(mirrored, flipped, sides))
       /\ Agree(baseline, BaselineEvaluate(mirrored, flipped, sides))

\* Nothing is repainted.  When a bar closes and the window slides by
\* one bar, or grows, a swing that stays inside with Strength bars on its left is
\* still there, none appears where there was none (at the left edge neither,
\* where the bar that outdid it has just been dropped), and an open gap is
\* lost only to the bar that closed it, to its age or to ATR.  A gap of the
\* past is found only because ATR has come down: it is the latest ATR that
\* find_fair_value_gaps() measures every displacement by.
NothingIsRepainted ==
    [][ LET dropped == Len(chart) + 1 - Len(chart')
            before == AverageTrueRange(chart)
            after == AverageTrueRange(chart')
            Kept(swings) == {i - dropped : i \in swings} \cap Interior(chart')
            past == 1..(Len(chart) - dropped - Strength)
            Moved(gap) == [gap EXCEPT !.index = @ - dropped]
            gaps == {Moved(gap) : gap \in FairValueGaps(chart)}
        IN /\ SwingHighs(chart') \cap past = Kept(SwingHighs(chart))
           /\ SwingLows(chart') \cap past = Kept(SwingLows(chart))
           /\ \A gap \in FairValueGaps(chart') \ gaps :
                 gap.index < Len(chart') => before[1] <= 0 \/ Less(after, before)
           /\ \A gap \in gaps \ FairValueGaps(chart') :
                 \/ MitigatedBy(gap, chart'[Len(chart')])
                 \/ gap.index <= Len(chart') - MaxGapAge
                 \/ after[1] <= 0 \/ Less(before, after)
      ]_strategyVars
==============================================================================
