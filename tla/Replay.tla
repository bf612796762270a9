------------------------------- MODULE Replay -------------------------------
(***************************************************************************)
(* ReplayOrchestrator (application/orchestration.py): a series of ticks is *)
(* driven through the simulated broker, the strategy, the risk gateway,    *)
(* the supervisor and execution, window by window, and the run is written  *)
(* down by JournalRecorder (application/recording.py) and by the stores of *)
(* the risk session and of the safety state.  The process may die between  *)
(* any two writes; scripts/run_replay.py then runs the same series again,  *)
(* against a new broker and the stores that the earlier runs have left.    *)
(*                                                                         *)
(* An event is its type, its window and its payload, which is what         *)
(* event_identity() derives its id from.  The features of a window, written*)
(* at once under an id of their own, the causation ids, the tally and the  *)
(* injected spread spikes are left out.  Every state change between two    *)
(* writes is of one process, so a crash there is the crash before it.      *)
(***************************************************************************)
EXTENDS RiskPolicies, PaperBroker, FiniteSets

CONSTANTS
    Timelines,      \* the possible sequences of event times of a series
    FirstMid,
    Ticks,          \* ticks: the mid price, whether the data are fit to trade on, and
                    \* what the strategy will propose, [side, distance, regime] or None
    Account,        \* what the account guard finds out about the broker's account
    Policy,         \* SupervisorPolicy
    MarginPerLot,
    MinBars,        \* minimum_bars of the strategy
    MarketDataBatch,
    Hour,
    MaxRuns,        \* bound on processes
    MaxResets       \* bound on resets by an operator

Wishes == [side : {"BUY", "SELL"}, distance : Int, regime : STRING]

\* The persisted keys: day, baseline, worst drawdown, worst loss, book, valued.
Keys == Int \X Int \X (Int \X Int) \X (Int \X Int) \X Nat \X BOOLEAN

ASSUME ReplayAssumption ==
    /\ Timelines \subseteq Seq(Int)
    /\ FirstMid \in Int
    /\ Ticks \subseteq [mid : Int, fit : BOOLEAN, wish : Wishes \cup {None}]
    /\ StartBalance \in Int /\ HalfSpread \in Int /\ EntrySlip \in Nat /\ ExitSlip \in Nat
    /\ VolumeMax \in Int
    /\ MaxRiskPerTrade \in Fractions /\ MaxOpenRisk \in Fractions
    /\ None \notin Wishes /\ None \notin Keys

VARIABLES
    times,      \* event times of the series
    series,     \* the part of the series that a run has seen
    journal,    \* events
    capsules,   \* sealed capsules
    stored,     \* indices of the observations in the market data store
    row,        \* the last record of the risk session
    safety,     \* the durable safety state
    run,        \* the process: where it is and what it has in memory
    runs,
    resets

input == <<times, series>>
record == <<journal, capsules, stored, row>>
bounds == <<runs, resets>>
replayVars == <<input, record, safety, run, bounds>>

Off == [at |-> "off"]

At(label) == run.at = label

Now == times[run.n]

Tick == series[run.n]

------------------------------------------------------------------------------
(* scripts/run_replay.py: start-up and the end of a process                *)

\* build_durable_runtime(), KillSwitch.on_startup() and _open_runtime(): only an
\* explicit RUNNING record, perhaps of this operator, opens the switch.
Start(reset) ==
    /\ At("off") /\ runs < MaxRuns
    /\ runs' = runs + 1
    /\ IF reset
       THEN safety # "RUNNING" /\ resets < MaxResets
            /\ resets' = resets + 1 /\ safety' = "RUNNING"
       ELSE UNCHANGED <<safety, resets>>
    /\ run' = [at |-> "tick", n |-> 0, then |-> None, book |-> NewBook,
               ledger |-> Fresh(StartBalance), day |-> None, key |-> None,
               halted |-> safety' # "RUNNING", orders |-> <<>>, intents |-> <<>>,
               seen |-> {}, pending |-> {}, ticks |-> {}, window |-> None]
    /\ UNCHANGED <<input, record>>

\* Places whose durable state differs from the place before.
ProcessDies ==
    /\ run.at \in {"tick", "flush", "seal", "gates", "boundary", "persist"}
    /\ run' = Off
    /\ UNCHANGED <<input, record, safety, bounds>>

------------------------------------------------------------------------------
(* JournalRecorder and _trip()                                             *)

Event(type, payload) == [type |-> type, window |-> run.n, payload |-> payload]

Recorded(memory, events) == [memory EXCEPT !.pending = @ \cup events]

\* _trip(): the switch writes the safety state; the halt and what is pending
\* are flushed in a second write, after which the run goes on at label.
Goto(memory, trips, reasons, label) ==
    IF trips /\ ~memory.halted
    THEN /\ safety' = "HALTED"
         /\ run' = [Recorded(memory, {Event("HALT", reasons)}) EXCEPT
                        !.halted = TRUE, !.at = "flush", !.then = label]
    ELSE /\ UNCHANGED safety
         /\ run' = [memory EXCEPT !.at = label]

\* flush(): the market data, then the events.
Flush ==
    /\ At("flush")
    /\ journal' = journal \cup run.pending
    /\ stored' = stored \cup run.ticks
    /\ run' = [run EXCEPT !.at = run.then, !.then = None, !.pending = {}, !.ticks = {}]
    /\ UNCHANGED <<input, capsules, row, safety, bounds>>

\* Mutant: the events of a window and its capsule are two transactions.
SealEventsFirst ==
    /\ At("seal")
    /\ IF run.pending # {}
       THEN /\ journal' = journal \cup run.pending
            /\ run' = [run EXCEPT !.pending = {}]
            /\ UNCHANGED capsules
       ELSE /\ capsules' = IF \E c \in capsules : c.window = run.n THEN capsules
                           ELSE capsules \cup {run.window}
            /\ journal' = journal \cup {Event("SEALED", run.window)}
            /\ run' = [run EXCEPT !.at = "gates"]
    /\ UNCHANGED <<input, stored, row, safety, bounds>>

\* _seal() and seal(): events, sealing and capsule in one transaction; the
\* first capsule of a window stays.
Seal ==
    /\ At("seal")
    /\ journal' = journal \cup run.pending \cup {Event("SEALED", run.window)}
    /\ capsules' = IF \E c \in capsules : c.window = run.n THEN capsules
                   ELSE capsules \cup {run.window}
    /\ run' = [run EXCEPT !.at = "gates", !.pending = {}]
    /\ UNCHANGED <<input, stored, row, safety, bounds>>

------------------------------------------------------------------------------
(* run(): a tick arrives                                                   *)

Lower(m, n) == IF m <= n THEN m ELSE n

\* The bar's range runs from the last price to this one.
GeneratedTick(n, mid) ==
    LET last == IF n = 1 THEN FirstMid ELSE series[n - 1].mid IN
    [bar |-> n, mid |-> mid, low |-> Lower(last, mid), high |-> Greater(last, mid),
     week |-> WeeklyClose(times[n]), applied |-> TRUE]

\* The next tick: one of the series, or, past what any run has seen, any.
Advance(tick) ==
    /\ At("tick") /\ run.n < Len(times)
    /\ LET n == run.n + 1 IN
       /\ IF n <= Len(series) THEN tick = series[n] /\ UNCHANGED series
                              ELSE series' = Append(series, tick)
       /\ run' = [run EXCEPT !.at = IF n = 1 THEN "recover" ELSE "account", !.n = n,
                             !.book = Advanced(@, GeneratedTick(n, tick.mid))]
    /\ UNCHANGED <<times, record, safety, bounds>>

\* _recover_session(), on the first tick.
RecoverSession ==
    /\ At("recover")
    /\ LET equity == Equity(run.book)
           open == Len(run.book.open)
           day == TradingDay(Now)
       IN Goto([run EXCEPT !.ledger = Recovered(row, equity, open, day), !.day = day],
               MustHalt(row, equity, open, day), "SESSION", "account")
    /\ UNCHANGED <<input, record, bounds>>

\* start_new_session(): the baseline moves, the worst loss stays.
NewSession(ledger) == [ledger EXCEPT !.start = ledger.current]

\* _roll_session(), the ledger's update and observe().  A window too early to
\* decide ends here.
Observe ==
    /\ At("account")
    /\ LET rolls == TradingDay(Now) # run.day
           ledger == IF rolls THEN NewSession(run.ledger) ELSE run.ledger
           ticks == run.ticks \cup {run.n}
           full == Cardinality(ticks) >= MarketDataBatch
       IN /\ stored' = IF full THEN stored \cup ticks ELSE stored
          /\ run' = [run EXCEPT !.day = TradingDay(Now),
                                !.ledger = Updated(ledger, Equity(run.book)),
                                !.ticks = IF full THEN {} ELSE ticks,
                                !.at = IF run.n < MinBars THEN "gates" ELSE "decide"]
    /\ UNCHANGED <<input, journal, capsules, row, safety, bounds>>

------------------------------------------------------------------------------
(* _process_window(): the decision                                         *)

Snapshot ==
    [at |-> Now, tradeable |-> Tick.fit, bid |-> Bid(run.book.tick), ask |-> Ask(run.book.tick)]

\* The strategy's intent for its wish, one per window and good for less than a
\* tick.
Intent(wish) ==
    LET entry == IF wish.side = "BUY" THEN Snapshot.ask ELSE Snapshot.bid
        sign == IF wish.side = "BUY" THEN 1 ELSE -1
    IN [window |-> run.n, side |-> wish.side, entry |-> entry,
        stop |-> entry - sign * wish.distance, target |-> entry + sign * wish.distance,
        risk |-> MaxRiskPerTrade, regime |-> wish.regime, expires |-> Now + 1,
        symbolAllowed |-> TRUE, strategyAllowed |-> TRUE, modelAllowed |-> TRUE,
        confident |-> TRUE]

\* _portfolio(): the orders of the last hour are those that are in the deque.
Portfolio ==
    [account |-> Account, equity |-> Equity(run.book), open |-> run.book.open,
     ledger |-> run.ledger, ordersInLastHour |-> Len(run.orders), seen |-> run.seen,
     openRisk |-> OpenRisk(run.book.open, Equity(run.book))]

\* _trim_window()
Trimmed(entries, now) == SelectSeq(entries, LAMBDA t : now - t <= Hour)

Capsule(intent, risk, supervisor, filled) ==
    [window |-> run.n, intent |-> intent, risk |-> risk, supervisor |-> supervisor,
     filled |-> filled]

\* The signal, the intent and its risk decision; a HALT trips the switch with
\* the window still open.
Decide ==
    /\ At("decide")
    /\ IF Tick.wish = None
       THEN /\ run' = [Recorded(run, {Event("SIGNAL", None)}) EXCEPT
                           !.at = "seal", !.window = Capsule(None, None, None, FALSE)]
            /\ UNCHANGED safety
       ELSE LET intent == Intent(Tick.wish)
                risk == Evaluate(intent, Snapshot, Portfolio, run.halted)
                memory == [Recorded(run, {Event("SIGNAL", intent.side), Event("INTENT", intent),
                                          Event("RISK", risk)}) EXCEPT
                               !.intents = Trimmed(Append(@, Now), Now),
                               !.window = Capsule(intent, risk, None, FALSE)]
            IN Goto(memory, risk.verdict = "HALT", risk.reasons,
                    IF risk.verdict = "PASS" THEN "supervise" ELSE "seal")
    /\ UNCHANGED <<input, record, bounds>>

\* _reconciliation_status() and _incident_status(): the replay's only book
\* agrees with itself and nothing in it opens an incident.
Context == [reconciliation |-> "MATCHED", incidents |-> "CLEAR", intents |-> Len(run.intents)]

SuperviseIntent ==
    /\ At("supervise")
    /\ LET decision == Supervise(run.window.intent, Policy, Context)
           memory == [Recorded(run, {Event("SUPERVISOR", decision)}) EXCEPT
                          !.window.supervisor = decision]
       IN Goto(memory, decision.verdict = "HALT", decision.reasons,
               IF decision.verdict = "APPROVE" THEN "execute" ELSE "seal")
    /\ UNCHANGED <<input, record, bounds>>

\* The order of a window: its intent with the volume that risk approved.
ApprovedOrder ==
    LET intent == run.window.intent IN
    [side |-> intent.side, stop |-> intent.stop, target |-> intent.target,
     volume |-> run.window.risk.volume]

\* _execute(): pre-flight, submission, fill.  The order times are trimmed when
\* one is added.
Execute ==
    /\ At("execute")
    /\ LET order == ApprovedOrder
           accepted == CheckPasses(run.book, MarginPerLot, order.volume)
           book == Filled(run.book, order)
           checked == Recorded([run EXCEPT !.at = "seal", !.seen = @ \cup {run.n}],
                               {Event("CHECK", accepted)})
       IN run' = IF ~accepted THEN checked
                 ELSE [Recorded(checked,
                            {Event("SUBMITTED", order.side), Event("RESULT", book.open[Len(book.open)]),
                             Event("POSITION", Len(book.open))}) EXCEPT
                           !.book = book, !.window.filled = TRUE,
                           !.orders = Trimmed(Append(@, Now), Now)]
    /\ UNCHANGED <<input, record, safety, bounds>>

------------------------------------------------------------------------------
(* run(): after the window                                                 *)

CheckLossGates ==
    /\ At("gates")
    /\ Goto(run, AtItsLimit(run.ledger), "LOSS", "boundary")
    /\ UNCHANGED <<input, record, bounds>>

CheckSessionBoundary ==
    /\ At("boundary")
    /\ Goto(run, OvernightBreach(run.book.open, Now), "OVERNIGHT_EXPOSURE", "persist")
    /\ UNCHANGED <<input, record, bounds>>

State ==
    [ledger |-> run.ledger, day |-> run.day, open |-> Len(run.book.open),
     valued |-> OpenRisk(run.book.open, Equity(run.book)) # None]

\* Mutant: the book is not part of what makes the record stale.
KeyWithoutBook(state) ==
    <<state.day, state.ledger.start, state.ledger.drawdown, state.ledger.loss, state.valued>>

Key(state) ==
    <<state.day, state.ledger.start, state.ledger.drawdown, state.ledger.loss, state.open,
      state.valued>>

\* _persist_session(): only when the key has changed.
PersistSession ==
    /\ At("persist")
    /\ run' = [run EXCEPT !.at = "tick", !.key = Key(State)]
    /\ row' = IF Key(State) = run.key THEN row ELSE State
    /\ UNCHANGED <<input, journal, capsules, stored, safety, bounds>>

\* The end of the series: what is pending is flushed.
EndOfSeries ==
    /\ At("tick") /\ run.n = Len(times)
    /\ journal' = journal \cup run.pending
    /\ stored' = stored \cup run.ticks
    /\ run' = Off
    /\ UNCHANGED <<input, capsules, row, safety, bounds>>

------------------------------------------------------------------------------
ReplayInit ==
    /\ times \in Timelines
    /\ series = <<>>
    /\ journal = {} /\ capsules = {} /\ stored = {}
    /\ row = NoRecord
    /\ safety = "UNKNOWN"
    /\ run = Off
    /\ runs = 0 /\ resets = 0

ReplayNext ==
    \/ \E reset \in BOOLEAN : Start(reset)
    \/ \E tick \in Ticks : Advance(tick)
    \/ RecoverSession \/ Observe \/ Decide \/ SuperviseIntent \/ Execute \/ Seal
    \/ CheckLossGates \/ CheckSessionBoundary \/ PersistSession
    \/ Flush \/ EndOfSeries \/ ProcessDies

ReplaySpec == ReplayInit /\ [][ReplayNext]_replayVars
------------------------------------------------------------------------------
\* A window commits once or not at all: the journal holds a risk decision only
\* with the capsule of its window, or with a halt of that window, and it holds
\* a fill only with every stage before it (JournalRecorder.seal() and _trip()).
WindowsCommitOnce ==
    \A e \in journal :
        /\ e.type = "RISK" =>
            \/ \E c \in capsules : c.window = e.window
            \/ \E h \in journal : h.type = "HALT" /\ h.window = e.window
        /\ e.type = "RESULT" =>
            \A stage \in {"SIGNAL", "INTENT", "RISK", "SUPERVISOR", "CHECK", "SUBMITTED"} :
                \E f \in journal : f.type = stage /\ f.window = e.window

\* A fill leaves the whole book, at the entries it really has, within the
\* budget for open risk, up to the slippage of the new position: the requested
\* fraction, the rounded volume and the valued book of evaluate() together.
BookRiskIsBudgeted ==
    [][At("execute") /\ run'.window.filled =>
        LET new == run'.book.open[Len(run'.book.open)] IN
        (BookRisk(run'.book.open) - new.volume * EntrySlip) * MaxOpenRisk[2]
            <= MaxOpenRisk[1] * Equity(run.book)]_replayVars

\* Between two ticks the durable record has the day, the baseline, the worst
\* loss, the worst drawdown and the book of the process (_persist_session()).
RecordKeepsUp ==
    At("tick") /\ run.n > 0 =>
        /\ row.day = run.day /\ row.open = Len(run.book.open)
        /\ row.ledger.start = run.ledger.start
        /\ row.ledger.loss = run.ledger.loss /\ row.ledger.drawdown = run.ledger.drawdown

------------------------------------------------------------------------------
(* What comments of the code say and the code does not do                  *)

\* _trim_window(): "Drop entries that have aged out of the rolling rate-limit
\* window".  An intent is refused for its frequency only when that many orders
\* were filled in the last hour.
RateLimitIsRolling ==
    At("seal") /\ run.window.risk # None =>
        ("ORDER_FREQUENCY_LIMIT" \in run.window.risk.reasons
            => Len(Trimmed(run.orders, Now)) >= MaxOrdersPerHour)

\* JournalRecorder: "Re-running an identical replay against a journal that
\* already holds it is a no-op".  The capsule of a window whose fill is on
\* record says that it was filled.
CapsulesTellTheFills ==
    \A e \in journal : e.type = "RESULT" =>
        \E c \in capsules : c.window = e.window /\ c.filled
==============================================================================
