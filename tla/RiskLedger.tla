------------------------------ MODULE RiskLedger ------------------------------
(***************************************************************************)
(* The loss and drawdown ledger (EquityLedger, risk/kill_switch.py) and    *)
(* its recovery from the last record (recover_session, risk/session.py),   *)
(* which the live decision loop, PAPER_LITE, FINAL Risk and the agent path *)
(* share.  Decimal fractions are pairs compared by cross multiplication.   *)
(***************************************************************************)
EXTENDS Integers

CONSTANTS
    Equities,       \* values of the account's equity
    MaxDailyLoss,   \* RiskConfig limits, as <<numerator, denominator>>
    MaxDrawdown,
    None

Fractions == Nat \X (Nat \ {0})

------------------------------------------------------------------------------
(* EquityLedger (risk/kill_switch.py)                                      *)

AtLeast(f, g) == f[1] * g[2] >= g[1] * f[2]

Zero == <<0, 1>>

Worse(f, g) == IF AtLeast(f, g) THEN f ELSE g

Greater(m, n) == IF m >= n THEN m ELSE n

\* session_loss_fraction and drawdown_fraction: the fall from a base.
Fall(base, equity) ==
    IF equity < base THEN <<base - equity, base>> ELSE Zero

Ledgers == [start : Equities, current : Equities, peak : Equities,
            drawdown : Fractions, loss : Fractions]

Fresh(equity) ==
    [start |-> equity, current |-> equity, peak |-> equity,
     drawdown |-> Zero, loss |-> Zero]

Updated(ledger, equity) ==
    LET peak == Greater(ledger.peak, equity) IN
    [ledger EXCEPT !.current = equity, !.peak = peak,
                   !.drawdown = Worse(@, Fall(peak, equity)),
                   !.loss = Worse(@, Fall(ledger.start, equity))]

\* The instantaneous fractions, not the worst ones, open the gates.
AtItsLimit(ledger) ==
    \/ AtLeast(Fall(ledger.peak, ledger.current), MaxDrawdown)
    \/ AtLeast(Fall(ledger.start, ledger.current), MaxDailyLoss)

------------------------------------------------------------------------------
(* recover_session() (risk/session.py)                                     *)

NoRecord == [ledger |-> None]

\* Mutant (before ADR-013): worst values on record are not held to the limits.
ExhaustedNever(ledger) == FALSE

Exhausted(ledger) ==
    AtLeast(ledger.drawdown, MaxDrawdown) \/ AtLeast(ledger.loss, MaxDailyLoss)

\* A new day renews the daily allowance and keeps the drawdown.
Carried(row, d) ==
    IF row.day = d
    THEN row.ledger
    ELSE [row.ledger EXCEPT !.start = row.ledger.current, !.loss = Zero]

Resumed(row, equity, d) == Updated(Carried(row, d), equity)

\* A record from a later day and a book that disagrees.
Disagrees(row, open, d) == row.day > d \/ row.open # open

MustHalt(row, equity, open, d) ==
    /\ row # NoRecord
    /\ Disagrees(row, open, d) \/ Exhausted(Resumed(row, equity, d))

\* _halt() starts a ledger that has lost nothing, so that the run can go on
\* observing.
Recovered(row, equity, open, d) ==
    IF row = NoRecord \/ MustHalt(row, equity, open, d)
    THEN Fresh(equity) ELSE Resumed(row, equity, d)
==============================================================================
