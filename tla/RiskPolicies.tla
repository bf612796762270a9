---------------------------- MODULE RiskPolicies ----------------------------
(***************************************************************************)
(* The pre-trade gates as operators: the trading week and its deadlines    *)
(* (risk/calendars.py, risk/trading_window.py, trading_agent/sessions.py), *)
(* the risk of the open book (risk/portfolio_risk.py), sizing              *)
(* (risk/sizing.py), the risk gateway (risk/policies.py) and the           *)
(* supervisor's policy (evaluator/pretrade.py).                            *)
(*                                                                         *)
(* Time is a natural number in which the trading week, opening at 0, and   *)
(* the trading day have fixed lengths.  One tick of price is worth one     *)
(* unit of account per lot, and volumes step by one lot.                   *)
(***************************************************************************)
EXTENDS RiskLedger, Sequences, SequencesExt, Sums

CONSTANTS
    DayLength, WeekLength,
    CloseAt,            \* time of the weekly close within its week
    LastEntryOffset,    \* IntradayPolicy, counted back from the weekly close
    FlattenOffset,
    AssetClass,         \* "FX", "METAL" or "CRYPTO"
    SessionApproved,    \* session_policy_approved of the market
    MinStopDistance,    \* RiskConfig.min_stop_distance_points
    StopsLevel,         \* of the instrument
    VolumeMin, VolumeMax,
    MaxRiskPerTrade,    \* fractions of equity
    MaxOpenRisk,
    MaxOpenPositions,
    MaxSpread,
    MaxOrdersPerHour

ASSUME WeekAssumption ==
    /\ DayLength \in Nat \ {0} /\ WeekLength \in Nat /\ WeekLength % DayLength = 0
    /\ CloseAt \in 1..WeekLength /\ CloseAt % DayLength = 0

\* IntradayPolicy.__post_init__()
OffsetsAreOrdered == 0 <= FlattenOffset /\ FlattenOffset <= LastEntryOffset

\* RiskConfig._check_budget_ordering()
BudgetsAreOrdered ==
    AtLeast(MaxOpenRisk, MaxRiskPerTrade) /\ AtLeast(MaxDrawdown, MaxDailyLoss)

ASSUME ConfigAssumption == OffsetsAreOrdered /\ BudgetsAreOrdered

------------------------------------------------------------------------------
(* Calendars: FX and metals trade the FX week, crypto has no weekly close  *)

TradesTheFxWeek == AssetClass \in {"FX", "METAL"}

FxOpen(t) == t % WeekLength < CloseAt

IsMarketOpen(t) == TradesTheFxWeek => FxOpen(t)

\* sessions.trading_day(): a moment of the weekend belongs to the first trading
\* day of the next week.  The daily loss is measured against this day whatever
\* the market's calendar is.
TradingDay(t) ==
    IF FxOpen(t) THEN t \div DayLength
    ELSE (t \div WeekLength + 1) * (WeekLength \div DayLength)

WeeklyClose(t) ==
    IF TradesTheFxWeek
    THEN ((TradingDay(t) * DayLength) \div WeekLength) * WeekLength + CloseAt
    ELSE None

\* phase_at(), with the policy enabled
PhaseAt(t) ==
    LET close == WeeklyClose(t) IN
    IF ~IsMarketOpen(t) THEN "CLOSED"
    ELSE IF close = None THEN (IF SessionApproved THEN "OPEN" ELSE "CLOSED")
    ELSE IF t >= close - FlattenOffset THEN "FLATTEN_REQUIRED"
    ELSE IF t >= close - LastEntryOffset THEN "NO_NEW_ENTRIES"
    ELSE "OPEN"

PermitsNewEntry(t) == PhaseAt(t) = "OPEN"

RequiresFlat(t) == PhaseAt(t) \in {"FLATTEN_REQUIRED", "CLOSED"}

\* A position carries the weekly close of its opening.
HasCrossedWeeklyClose(position, t) == position.week # WeeklyClose(t)

OvernightBreach(open, t) ==
    \E i \in DOMAIN open : RequiresFlat(t) \/ HasCrossedWeeklyClose(open[i], t)

------------------------------------------------------------------------------
(* Open risk and sizing                                                    *)

Over(f, g) == ~AtLeast(g, f)

Plus(f, g) == <<f[1] * g[2] + g[1] * f[2], f[2] * g[2]>>

\* realised_risk(): what a volume loses at a stop this far away.
RealisedRisk(volume, distance) == volume * distance

\* _adverse_distance(): a stop past the entry risks nothing.
AdverseDistance(position) ==
    Greater(0, IF position.side = "BUY" THEN position.entry - position.stop
                                        ELSE position.stop - position.entry)

BookRisk(open) ==
    Total([i \in DOMAIN open |-> RealisedRisk(open[i].volume, AdverseDistance(open[i]))])

\* assess_open_risk(): a fraction of equity, or None when the book cannot be
\* valued.
OpenRisk(open, equity) ==
    CASE open = <<>> -> Zero
      [] open # <<>> /\ (equity <= 0 \/ \E i \in DOMAIN open : open[i].stop = None) -> None
      [] OTHER -> <<BookRisk(open), equity>>

\* size_position() and normalise_volume(): rounded down to whole lots, clamped
\* from above and refused below the broker's minimum.
SizePosition(equity, fraction, distance) ==
    LET lots == (equity * fraction[1]) \div (fraction[2] * distance)
        volume == IF lots <= VolumeMax THEN lots ELSE VolumeMax
    IN IF equity <= 0 \/ volume < VolumeMin THEN None ELSE volume

------------------------------------------------------------------------------
(* The risk gateway                                                        *)

HaltReasons == {"LIVE_ACCOUNT_IN_PAPER_MODE", "WRONG_ACCOUNT", "RECONCILIATION_MISMATCH",
                "MAX_DRAWDOWN", "DAILY_LOSS_LIMIT", "OVERNIGHT_EXPOSURE",
                "FLATTEN_STATE_UNKNOWN"}

StopDistance(intent) ==
    IF intent.side = "BUY" THEN intent.entry - intent.stop ELSE intent.stop - intent.entry

\* Mutant: the book may carry what one trade may, however much is open.
PerTradeBudgetOnly(intent, portfolio) == Over(intent.risk, MaxOpenRisk)

ExceedsOpenRisk(intent, portfolio) ==
    /\ portfolio.openRisk # None
    /\ Over(Plus(portfolio.openRisk, intent.risk), MaxOpenRisk)

OrdersAtTheLimit(portfolio) == portfolio.ordersInLastHour >= MaxOrdersPerHour

\* The checklist of evaluate() in its order, each reason with its condition.
Checklist(intent, snapshot, portfolio, halted) ==
    LET distance == StopDistance(intent) IN
    [SYSTEM_HALTED |-> halted,
     ACCOUNT_NOT_CONNECTED |-> ~portfolio.account.connected,
     MARKET_DISABLED |-> ~portfolio.account.tradeAllowed,
     EXPERT_TRADING_DISABLED |-> ~portfolio.account.expertAllowed,
     LIVE_ACCOUNT_IN_PAPER_MODE |-> ~portfolio.account.demo,
     WRONG_ACCOUNT |-> ~portfolio.account.expected,
     SYMBOL_NOT_ALLOWED |-> ~intent.symbolAllowed,
     STALE_MARKET_DATA |-> ~snapshot.tradeable,
     INVALID_QUOTE |-> snapshot.bid > snapshot.ask \/ snapshot.bid <= 0,
     SPREAD_TOO_WIDE |-> snapshot.ask - snapshot.bid > MaxSpread,
     SESSION_BLACKOUT |-> ~PermitsNewEntry(snapshot.at),
     INTENT_EXPIRED |-> snapshot.at >= intent.expires,
     DUPLICATE_INTENT |-> intent.window \in portfolio.seen,
     INVALID_STOP |-> distance <= 0 \/ distance < MinStopDistance,
     STOP_DISTANCE_VIOLATION |->
        distance > 0 /\ distance >= MinStopDistance /\ distance < StopsLevel,
     OVERNIGHT_EXPOSURE |-> OvernightBreach(portfolio.open, snapshot.at),
     MAX_OPEN_POSITIONS |-> Len(portfolio.open) >= MaxOpenPositions,
     ORDER_FREQUENCY_LIMIT |-> OrdersAtTheLimit(portfolio),
     RISK_PER_TRADE_LIMIT |-> Over(intent.risk, MaxRiskPerTrade),
     OPEN_RISK_UNKNOWN |-> portfolio.openRisk = None,
     OPEN_RISK_LIMIT |-> ExceedsOpenRisk(intent, portfolio),
     DAILY_LOSS_LIMIT |->
        AtLeast(Fall(portfolio.ledger.start, portfolio.ledger.current), MaxDailyLoss),
     MAX_DRAWDOWN |->
        AtLeast(Fall(portfolio.ledger.peak, portfolio.ledger.current), MaxDrawdown)]

\* _refuse(): BLOCK, or HALT when the system itself is unsafe.
Refuse(reasons) ==
    [verdict |-> IF reasons \cap HaltReasons # {} THEN "HALT" ELSE "BLOCK",
     reasons |-> reasons, volume |-> None]

\* evaluate(): sizing comes last.
Evaluate(intent, snapshot, portfolio, halted) ==
    LET checks == Checklist(intent, snapshot, portfolio, halted)
        reasons == {r \in DOMAIN checks : checks[r]}
        volume == SizePosition(portfolio.equity, intent.risk, StopDistance(intent))
    IN CASE reasons # {} -> Refuse(reasons)
         [] reasons = {} /\ volume = None -> Refuse({"VOLUME_OUT_OF_RANGE"})
         [] OTHER -> [verdict |-> "PASS", reasons |-> {}, volume |-> volume]

------------------------------------------------------------------------------
(* The supervisor's policy                                                 *)

KnownRegimes == {"TREND", "RANGE", "HIGH_VOLATILITY", "LOW_VOLATILITY"}

\* uncalibrated_checks(): the checks of a policy that cannot fail.
Uncalibrated(policy) ==
    (IF policy.fullBand THEN {"CONFIDENCE_BAND"} ELSE {})
    \cup (IF policy.maxIntents = None THEN {"SIGNAL_FREQUENCY"} ELSE {})

PolicyChecklist(intent, policy, context) ==
    [STRATEGY_NOT_ENABLED |-> ~intent.strategyAllowed,
     MODEL_VERSION_NOT_ALLOWED |-> ~intent.modelAllowed,
     UNKNOWN_REGIME |-> intent.regime \notin KnownRegimes /\ policy.vetoUnknown,
     CONFIDENCE_OUT_OF_RANGE |->
        "CONFIDENCE_BAND" \notin Uncalibrated(policy) /\ ~intent.confident,
     SIGNAL_FREQUENCY_ANOMALY |->
        "SIGNAL_FREQUENCY" \notin Uncalibrated(policy) /\ context.intents > policy.maxIntents,
     ACTIVE_INCIDENT |-> context.incidents = "ACTIVE",
     INCIDENT_STATE_UNKNOWN |-> context.incidents = "UNKNOWN"]

Decision(verdict, reasons) == [verdict |-> verdict, reasons |-> reasons]

\* pretrade.evaluate(): the safety state is judged even by a supervisor that is
\* switched off.
Supervise(intent, policy, context) ==
    LET checks == PolicyChecklist(intent, policy, context)
        reasons == {r \in DOMAIN checks : checks[r]}
    IN CASE context.reconciliation = "MISMATCHED" -> Decision("HALT", {"RECONCILIATION_MISMATCH"})
         [] context.reconciliation = "UNKNOWN" -> Decision("HALT", {"RECONCILIATION_UNKNOWN"})
         [] context.reconciliation = "MATCHED" /\ policy.enabled /\ reasons # {} ->
                Decision("VETO", reasons)
         [] OTHER -> Decision("APPROVE", {})
==============================================================================
