------------------------------ MODULE PaperLite ------------------------------
(***************************************************************************)
(* PaperLiteOrchestrator.process() (application/paper_lite.py), called in  *)
(* a loop by scripts/paper_lite.py, over three durable stores: the journal *)
(* of the paper broker, the risk session and the safety state.  In one     *)
(* call it recovers the risk session, advances the book to the newest      *)
(* snapshot, flattens it on a Friday evening, persists the session, claims *)
(* the bar, asks the external agent, takes its proposal through Risk, the  *)
(* platform policy and the external supervisor (agent_gateway/             *)
(* decision_path.py) and fills it.  The process may die between any two    *)
(* writes and in the middle of an append.                                  *)
(*                                                                         *)
(* Of the AUDIT_FACT entries only the claims of decision windows are kept: *)
(* the others (the asserted incident clearance, the results, the blocks    *)
(* and the reviews) are appended and never read back.                      *)
(***************************************************************************)
EXTENDS RiskLedger, PaperBroker

CONSTANTS
    Mids,           \* mid prices of the quotes
    FirstMid,       \* the price before the first quote
    StopDistance,   \* distance of a proposal's stop and target from the mid
    MaxOpen,        \* operational_max_open_positions
    MarginPerLot,
    LastTick,       \* bound on quotes
    LastWeek,       \* bound on trading weeks
    MaxFaults,      \* bound on crashes and failed transactions
    MaxResets       \* bound on --initialize-paper-safety

\* The snapshots that move the book.
MarketTicks ==
    [n : Nat, bar : Nat, low : Int, high : Int, mid : Int, week : Nat,
     phase : {"OPEN", "NO_NEW_ENTRIES", "FLATTEN_REQUIRED", "CLOSED"}, applied : BOOLEAN]

ASSUME TickAssumption == Mids \subseteq Int /\ FirstMid \in Int /\ Absent \notin MarketTicks

VARIABLES
    feed,       \* the newest tick and closed bar that the reader has stored
    time,       \* [week, phase] of the wall clock
    journal,    \* the paper journal
    torn,       \* TRUE once a crash has left an incomplete last line
    record,     \* the last row of the risk session
    safety,     \* the durable safety state: TRUE when halted
    halted,     \* the KillSwitch in memory
    book,       \* the DurablePaperBroker in memory
    session,    \* [ledger, day] of _risk_ledger and _risk_trading_day
    run,        \* where the process is, and its locals
    gap,        \* history: the process died with a book that the session
                \* record does not describe, and no operator has intervened
    faults,
    resets

world == <<feed, time>>
durable == <<journal, torn, record>>
switch == <<safety, halted>>
bounds == <<faults, resets>>
vars == <<world, durable, switch, book, session, run, gap, bounds>>

Off == [at |-> "off", tick |-> Absent, now |-> Absent, side |-> Absent]

NoSession == [ledger |-> None, day |-> None]

At(label) == run.at = label

\* A call that returns forgets its locals.
Goto(label) ==
    run' = IF label \in {"idle", "off"} THEN [Off EXCEPT !.at = label]
                                       ELSE [run EXCEPT !.at = label]

\* _append(): a key that is on record already is not written again.
Write(entry) == journal' = Append(journal, entry)

WriteOnce(entry) ==
    journal' = IF OnRecord(journal, entry) THEN journal ELSE Append(journal, entry)

\* _trip_risk_session_at() and decision_path._trip()
TripIf(condition) ==
    /\ safety' = (safety \/ (condition /\ ~halted))
    /\ halted' = (halted \/ condition)

------------------------------------------------------------------------------
(* The market and the clock                                                *)

\* The process reads the feed when it is idle and the clock in "session"; what
\* happens at another point is indistinguishable from its happening there.
WorldMoves == run.at \in {"idle", "session"}

Phases == <<"OPEN", "NO_NEW_ENTRIES", "FLATTEN_REQUIRED", "CLOSED">>

Lower(m, n) == IF m <= n THEN m ELSE n

\* A quote arrives while the market is open; the bar that it may complete has
\* the range of the quotes since the last one.
Quote(mid, completes) ==
    /\ WorldMoves
    /\ feed.tick < LastTick /\ time.phase # "CLOSED"
    /\ LET low == Lower(feed.formLow, mid)  high == Greater(feed.formHigh, mid) IN
       feed' = [feed EXCEPT
            !.tick = @ + 1, !.mid = mid, !.week = time.week, !.phase = time.phase,
            !.formLow = IF completes THEN mid ELSE low,
            !.formHigh = IF completes THEN mid ELSE high,
            !.bar = IF completes THEN @ + 1 ELSE @,
            !.low = IF completes THEN low ELSE @,
            !.high = IF completes THEN high ELSE @]
    /\ UNCHANGED <<time, durable, switch, book, session, run, gap, bounds>>

\* phase_at() over the trading week: the deadlines of a Friday in their order,
\* then the weekend, then the next week.
Clock ==
    /\ WorldMoves
    /\ LET i == CHOOSE i \in DOMAIN Phases : Phases[i] = time.phase IN
       IF i < Len(Phases)
       THEN time' = [time EXCEPT !.phase = Phases[i + 1]]
       ELSE /\ time.week < LastWeek
            /\ time' = [week |-> time.week + 1, phase |-> "OPEN"]
    /\ UNCHANGED <<feed, durable, switch, book, session, run, gap, bounds>>

------------------------------------------------------------------------------
(* main(): start-up                                                        *)

\* A torn journal is refused for good; a halted safety state until an operator
\* passes --initialize-paper-safety.  PaperLiteIncidentClearAssertion.record()
\* appends an audit fact.
Start(reset) ==
    /\ At("off") /\ ~torn
    /\ Trustworthy(journal)
    /\ IF reset
       THEN /\ resets < MaxResets /\ resets' = resets + 1
            /\ safety' = FALSE /\ gap' = FALSE
       ELSE /\ ~safety /\ UNCHANGED <<safety, gap, resets>>
    /\ halted' = FALSE
    /\ book' = Replayed(journal)
    /\ IF journal = <<>> THEN Write(Created) ELSE UNCHANGED journal
    /\ session' = NoSession
    /\ Goto("idle")
    /\ UNCHANGED <<world, torn, record, faults>>

------------------------------------------------------------------------------
(* process()                                                               *)

Exposed == book.open # <<>>

\* _recover_risk_session(), with the book as it is now.
Recovery(b, row, d) ==
    LET equity == Equity(b)
        lost == row = NoRecord /\ b.open # <<>>
        must == lost \/ MustHalt(row, equity, Len(b.open), d)
    IN [halts |-> must,
        session |-> [ledger |-> IF lost THEN Fresh(equity)
                                ELSE Recovered(row, equity, Len(b.open), d),
                     day |-> d]]

\* The lock or the read failed: a new ledger and a halt.
FailedRecovery(b, d) ==
    [halts |-> TRUE, session |-> [ledger |-> Fresh(Equity(b)), day |-> d]]

\* Recover from book b, or, with one fault more, fail to.
Recover(b, d) ==
    \/ /\ session' = Recovery(b, record, d).session
       /\ TripIf(Recovery(b, record, d).halts)
       /\ UNCHANGED faults
    \/ /\ faults < MaxFaults /\ faults' = faults + 1
       /\ session' = FailedRecovery(b, d).session
       /\ TripIf(TRUE)

\* trading_day() of the snapshot: here the days of one week are one.
MarketDay(tick) == tick.week

\* The newest snapshot; none before the first bar has closed.  The session is
\* recovered before the book moves, once the broker has a clock.
Observe ==
    /\ At("idle") /\ feed.bar > 0
    /\ run' = [run EXCEPT !.at = "advance",
                          !.tick = [n |-> feed.tick, bar |-> feed.bar, low |-> feed.low,
                                    high |-> feed.high, mid |-> feed.mid, week |-> feed.week,
                                    phase |-> feed.phase, applied |-> TRUE]]
    /\ IF book.tick # Absent
       THEN Recover(book, MarketDay(feed))
       ELSE UNCHANGED <<switch, session, faults>>
    /\ UNCHANGED <<world, durable, book, gap, resets>>

\* Mutant: every observation replays the range of its bar.
AdvanceWithRange ==
    /\ At("advance")
    /\ LET entry == Market(run.tick)
           moved == [Advanced(book, run.tick) EXCEPT !.ranges = @ \cup {run.tick.bar}]
       IN /\ journal' = Append(journal, entry)
          /\ book' = moved
          /\ IF session.ledger = None
             THEN Recover(moved, MarketDay(run.tick))
             ELSE UNCHANGED <<switch, session, faults>>
    /\ Goto("session")
    /\ UNCHANGED <<world, torn, record, gap, resets>>

\* Mutant: the range that moves the book is not marked as consumed.
AdvanceUnmarked ==
    /\ At("advance")
    /\ LET sim == SimulationTick(book, run.tick)
           moved == IF OnRecord(journal, Market(sim)) THEN book ELSE Advanced(book, sim)
       IN /\ WriteOnce(Market(sim))
          /\ book' = moved
          /\ IF session.ledger = None
             THEN Recover(moved, MarketDay(run.tick))
             ELSE UNCHANGED <<switch, session, faults>>
    /\ Goto("session")
    /\ UNCHANGED <<world, torn, record, gap, resets>>

\* advance_snapshot(); the first observation of all recovers the session now.
Advance ==
    /\ At("advance")
    /\ LET sim == SimulationTick(book, run.tick)
           known == OnRecord(journal, Market(sim))
           moved == IF known THEN book
                    ELSE [Advanced(book, sim) EXCEPT !.ranges = @ \cup {run.tick.bar}]
       IN /\ WriteOnce(Market(sim))
          /\ book' = moved
          /\ IF session.ledger = None
             THEN Recover(moved, MarketDay(run.tick))
             ELSE UNCHANGED <<switch, session, faults>>
    /\ Goto("session")
    /\ UNCHANGED <<world, torn, record, gap, resets>>

\* The session phase of the wall clock.  A flatten whose key is on record
\* already closes nothing, and the call fails.
EnforceWeek ==
    /\ At("session")
    /\ LET late == time.phase = "FLATTEN_REQUIRED" /\ Exposed
           over == time.phase = "CLOSED" /\ Exposed
           done == OnRecord(journal, FlattenOf(time.week))
       IN /\ IF late THEN WriteOnce(FlattenOf(time.week)) ELSE UNCHANGED journal
          /\ book' = IF late /\ ~done THEN Flattened(book) ELSE book
          /\ TripIf(over)
          /\ run' = CASE over -> [run EXCEPT !.at = "fail"]
                      [] late /\ done -> Off
                      [] OTHER -> [run EXCEPT !.at = "persist", !.now = time]
    /\ UNCHANGED <<world, torn, record, session, gap, bounds>>

\* _persist_risk_session(): a transaction of its own, after the recovery's.
Persist(label) ==
    /\ \/ /\ record' = [ledger |-> Updated(session.ledger, Equity(book)),
                        day |-> session.day, open |-> Len(book.open)]
          /\ session' = [session EXCEPT !.ledger = record'.ledger]
          /\ UNCHANGED <<switch, faults>>
       \/ /\ faults < MaxFaults /\ faults' = faults + 1
          /\ session' = [session EXCEPT !.ledger = Updated(@, Equity(book))]
          /\ TripIf(TRUE)
          /\ UNCHANGED record
    /\ Goto(label)
    /\ UNCHANGED <<world, journal, torn, book, gap, resets>>

PersistObserved == At("persist") /\ Persist("claim")

\* The PaperLiteSafetyError of a weekend ends the process.
PersistAndFail == At("fail") /\ Persist("off")

PersistOutcome == At("outcome") /\ Persist("idle")

Window == Audit("PAPER_LITE_DECISION_WINDOW_CLAIMED", run.tick.bar)

\* Mutant: the window is claimed by tick instead of by bar.
ClaimByTick ==
    /\ At("claim")
    /\ WriteOnce(Audit("PAPER_LITE_DECISION_WINDOW_CLAIMED", run.tick.n))
    /\ Goto(IF OnRecord(journal, Audit("PAPER_LITE_DECISION_WINDOW_CLAIMED", run.tick.n))
            THEN "idle" ELSE "decide")
    /\ UNCHANGED <<world, torn, record, switch, book, session, gap, bounds>>

\* One decision per assignment and bar; the others are ALREADY_PROCESSED.
ClaimWindow ==
    /\ At("claim")
    /\ WriteOnce(Window)
    /\ Goto(IF OnRecord(journal, Window) THEN "idle" ELSE "decide")
    /\ UNCHANGED <<world, torn, record, switch, book, session, gap, bounds>>

\* Mutant: the phase of the wall clock does not block.
DecideAnyPhase(side) ==
    /\ At("decide")
    /\ IF side = "NO_TRADE" \/ halted
       THEN Goto("outcome")
       ELSE run' = [run EXCEPT !.at = "risk", !.side = side]
    /\ UNCHANGED <<world, durable, switch, book, session, gap, bounds>>

\* The context is published, the agent decides and the gateway answers: no
\* trade (or a proposal that it rejects), or a proposal that it accepts.  A
\* halt and a session phase other than OPEN, both as the call found them,
\* block the proposal.
Decide(side) ==
    /\ At("decide")
    /\ IF side = "NO_TRADE" \/ halted \/ run.now.phase # "OPEN"
       THEN Goto("outcome")
       ELSE run' = [run EXCEPT !.at = "risk", !.side = side]
    /\ UNCHANGED <<world, durable, switch, book, session, gap, bounds>>

\* overnight_breach() at the time of the snapshot.
OvernightBreach(tick) ==
    /\ Exposed
    /\ \/ tick.phase \in {"FLATTEN_REQUIRED", "CLOSED"}
       \/ \E i \in DOMAIN book.open : book.open[i].week # tick.week

\* STALE_MARKET_DATA: max_market_data_age_ms is far shorter than a weekend.
StaleMarketData == run.now.week # run.tick.week

\* Mutant: the session legs of evaluate() are dropped.
RiskOfTheDay(ledger) ==
    [halt |-> AtItsLimit(ledger), block |-> Len(book.open) >= MaxOpen]

\* The legs of policies.evaluate() that the state decides.
Risk(ledger) ==
    [halt |-> AtItsLimit(ledger) \/ OvernightBreach(run.tick),
     block |-> StaleMarketData \/ run.tick.phase # "OPEN" \/ Len(book.open) >= MaxOpen]

\* evaluate_agent_trade_intent(): the ledger is recovered under the lock and
\* not written; Risk may HALT or refuse for a reason the model leaves open.
\* The policy gate approves: the paper book is MATCHED and incidents asserted
\* CLEAR.
EvaluateRisk ==
    /\ At("risk")
    /\ LET day == run.now.week
           must == MustHalt(record, Equity(book), Len(book.open), day)
           risk == Risk(Recovered(record, Equity(book), Len(book.open), day))
       IN \/ /\ must \/ risk.halt
             /\ TripIf(TRUE) /\ Goto("outcome") /\ UNCHANGED faults
          \/ /\ ~must /\ ~risk.halt
             /\ Goto("outcome") /\ UNCHANGED <<switch, faults>>
          \/ /\ ~must /\ ~risk.halt /\ ~risk.block
             /\ Goto("review") /\ UNCHANGED <<switch, faults>>
          \/ /\ faults < MaxFaults /\ faults' = faults + 1
             /\ TripIf(TRUE) /\ Goto("outcome")
    /\ UNCHANGED <<world, durable, book, session, gap, resets>>

\* The external supervisor: skipped in paper mode, or asked; then only APPROVE
\* lets the proposal pass.
Review(passes) ==
    /\ At("review")
    /\ Goto(IF passes THEN "check" ELSE "outcome")
    /\ UNCHANGED <<world, durable, switch, book, session, gap, bounds>>

\* The order's id is derived from the decision hash, which the tick tells apart.
NewOrder ==
    LET sign == IF run.side = "BUY" THEN 1 ELSE -1 IN
    Order(run.tick.n, run.side, run.tick.mid - sign * StopDistance,
          run.tick.mid + sign * StopDistance, run.tick.bar, run.now.week)

OrderCheck ==
    /\ At("check")
    /\ Goto(IF CheckPasses(book, MarginPerLot, NewOrder.volume) THEN "submit" ELSE "outcome")
    /\ UNCHANGED <<world, durable, switch, book, session, gap, bounds>>

\* submit(): the journal first, then the book.
Submit ==
    /\ At("submit")
    /\ Write(NewOrder)
    /\ book' = Filled(book, NewOrder)
    /\ Goto("outcome")
    /\ UNCHANGED <<world, torn, record, switch, session, gap, bounds>>

------------------------------------------------------------------------------
\* Labels of a process that is about to append to the journal.
Appending == {"idle", "advance", "session", "claim", "decide", "review", "check", "submit"}

\* The durable record does not describe the book that a replay rebuilds.
Unaccounted ==
    LET open == Len(Replayed(journal).open) IN
    IF record = NoRecord THEN open # 0 ELSE record.open # open

\* The process dies, perhaps in the middle of an append.
Crash ==
    /\ ~At("off") /\ faults < MaxFaults
    /\ faults' = faults + 1
    /\ torn' \in IF run.at \in Appending THEN BOOLEAN ELSE {FALSE}
    /\ book' = NewBook /\ session' = NoSession /\ halted' = FALSE
    /\ run' = Off
    /\ gap' = (gap \/ Unaccounted)
    /\ UNCHANGED <<world, journal, record, safety, resets>>

Init ==
    /\ feed = [tick |-> 0, bar |-> 0, low |-> FirstMid, high |-> FirstMid, mid |-> FirstMid,
               formLow |-> FirstMid, formHigh |-> FirstMid, week |-> 1, phase |-> "OPEN"]
    /\ time = [week |-> 1, phase |-> "OPEN"]
    /\ journal = <<>> /\ torn = FALSE
    /\ record = NoRecord
    /\ safety = FALSE /\ halted = FALSE
    /\ book = NewBook
    /\ session = NoSession
    /\ run = Off
    /\ gap = FALSE
    /\ faults = 0 /\ resets = 0

Next ==
    \/ \E mid \in Mids, completes \in BOOLEAN : Quote(mid, completes)
    \/ Clock
    \/ \E reset \in BOOLEAN : Start(reset)
    \/ Observe \/ Advance \/ EnforceWeek
    \/ PersistObserved \/ PersistAndFail \/ PersistOutcome
    \/ ClaimWindow \/ EvaluateRisk \/ OrderCheck \/ Submit
    \/ \E side \in {"BUY", "SELL", "NO_TRADE"} : Decide(side)
    \/ \E passes \in BOOLEAN : Review(passes)
    \/ Crash

Spec == Init /\ [][Next]_vars
------------------------------------------------------------------------------
Orders == {i \in DOMAIN journal : journal[i].event = "PAPER_ORDER_ACCEPTED"}

\* A restart rebuilds exactly the book that the process held, whatever was
\* observed twice, skipped or flattened: _load_and_replay() against advance(),
\* submit() and flatten_all().
ReplayRebuildsTheBook == ~At("off") => Replayed(journal) = book

\* However the process crashes and however often a bar is observed, at most
\* one order is filled for it.
OneOrderPerBar ==
    \A i, j \in Orders : journal[i].bar = journal[j].bar => i = j

\* A position is never closed by the range of a bar that had closed before the
\* position was opened (_quote_only_tick(), kept across restarts).
OldRangesCloseNothing ==
    \A i \in DOMAIN book.closed :
        book.closed[i].by # Absent => book.closed[i].by > book.closed[i].bar

\* Nothing is filled in a week after that week's book has been flattened: the
\* flatten of a week is keyed by its date and could not close it again.
NothingAfterTheFlatten ==
    \A i \in DOMAIN journal, j \in Orders :
        journal[i].event = "PAPER_FLATTEN_REQUESTED" /\ i < j
        => journal[j].week # journal[i].id

\* Nothing is filled beside a position that has survived a weekend, or after
\* the process has died with a book that the risk session does not describe.
FillsAreAccountedFor ==
    [][Orders' # Orders
        => /\ ~gap
           /\ \A i \in DOMAIN book.open : book.open[i].week = run.now.week]_vars
==============================================================================
