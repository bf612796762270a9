----------------------------- MODULE LiveDecision -----------------------------
(***************************************************************************)
(* LiveDecisionOrchestrator.decide_once() (application/live_decision.py)   *)
(* over three durable stores: the risk session (risk/session.py,           *)
(* persistence/risk_session.py), the decision window                       *)
(* (application/decision_window.py, persistence/decision_window.py) and    *)
(* the sealed capsules (persistence/journal.py).                           *)
(*                                                                         *)
(* Every cycle recovers the loss and drawdown ledger from the last record, *)
(* folds the account's equity in and appends a new record, all under one   *)
(* advisory lock; then it checks the loss gates, claims the bar's window   *)
(* and only then lets the strategy, the risk gateway and the supervisor    *)
(* speak.  Readers (ExecutionOrchestrator's FINAL Risk, the agent decision *)
(* path) recover the same ledger under the same lock and write nothing.    *)
(*                                                                         *)
(* Each process holds its own KillSwitch in memory and reads the durable   *)
(* safety state only when it starts.                                       *)
(***************************************************************************)
EXTENDS RiskLedger, Sequences

CONSTANTS
    Workers,        \* live decision processes, each with a strategy of its own
    Readers,        \* processes that only read the ledger
    Books,          \* numbers of open positions
    LastBar,        \* bound on closed bars
    TradingDay,     \* the trading days of the ticks to come, which it bounds
    MaxFaults,      \* bound on crashes, failed reads and failed transactions
    MaxResets       \* bound on operator resets

Processes == Workers \cup Readers

Ticks == DOMAIN TradingDay

Days == {TradingDay[t] : t \in Ticks}

ASSUME LiveDecisionAssumption ==
    /\ Equities \subseteq Nat \ {0} /\ Equities # {}
    /\ Books \subseteq Nat /\ Books # {}
    /\ LastBar \in Nat
    /\ TradingDay \in Seq(Nat \ {0}) /\ TradingDay # <<>>
    /\ \A t, u \in Ticks : t <= u => TradingDay[t] <= TradingDay[u]
    /\ MaxDailyLoss \in Fractions /\ MaxDrawdown \in Fractions
    /\ MaxFaults \in Nat /\ MaxResets \in Nat
    /\ Workers \cap Readers = {}
    /\ None \notin Processes

VARIABLES
    bar,        \* the newest closed bar when a worker last looked; 0: none yet
    tick,       \* the newest tick when a worker last looked
    record,     \* risk_session_states: the last row, or NoRecord
    lock,       \* holder of the risk-ledger lock, or None
    window,     \* decision_window_states: worker -> its last row
    safety,     \* the durable safety state: TRUE when halted
    halt,       \* process -> its KillSwitch in memory: TRUE when halted
    mem,        \* worker -> [recovered, last, seen]
    proc,       \* worker -> where it is in decide_once(), and its locals
    capsules,   \* decision_capsules
    passes,     \* what readers let pass
    burnt,      \* history: <<w, d>>, w found the loss of day d at its limit or,
                \* with d = 0, the drawdown, and committed its record
    faults,
    resets

world == <<bar, tick>>
switch == <<safety, halt>>
history == <<capsules, passes, burnt>>
bounds == <<faults, resets>>
vars == <<world, record, lock, window, switch, mem, proc, history, bounds>>

------------------------------------------------------------------------------
Records == [ledger : Ledgers, day : Days, open : Books]

At(w, label) == proc[w].at = label

Goto(w, label) == proc' = [proc EXCEPT ![w].at = label]

\* trading_day(tick.event_time_utc)
MarketDay(w) == TradingDay[proc[w].tick]

\* TradeIntent.decision_hash: a decision is told from another by its bars and
\* by its tick, whose time and price it carries.
Hash(w) == <<proc[w].bar, proc[w].tick>>

Idle == [at |-> "idle", equity |-> None, open |-> None, bar |-> None,
         tick |-> None, ledger |-> None, verdict |-> None, spent |-> {}, after |-> {}]

NewMem == [recovered |-> FALSE, last |-> 0, seen |-> {}]

\* Every caller: "if is_halted: return", else KillSwitch.trip().
Trip(p) ==
    /\ safety' = (safety \/ ~halt[p])
    /\ halt' = [halt EXCEPT ![p] = TRUE]

TripIf(p, condition) == IF condition THEN Trip(p) ELSE UNCHANGED switch

\* The budgets that this recovery finds at their limits, for the history.
Spent(row, equity, open, d) ==
    IF row = NoRecord \/ Disagrees(row, open, d) THEN {}
    ELSE LET ledger == Resumed(row, equity, d) IN
         {b \in {0, d} : IF b = 0 THEN AtLeast(ledger.drawdown, MaxDrawdown)
                                  ELSE AtLeast(ledger.loss, MaxDailyLoss)}

\* Who found a budget spent that still binds on day d.
SpentBy(d) == {w \in Workers : <<w, 0>> \in burnt \/ <<w, d>> \in burnt}

------------------------------------------------------------------------------
(* decide_once()                                                           *)

\* Mutant: a record that could not be read is an absent one.
RecoverWindowOpen(w) ==
    /\ At(w, "idle") /\ ~mem[w].recovered
    /\ \/ /\ mem' = [mem EXCEPT ![w] = [window[w] EXCEPT !.recovered = TRUE]]
          /\ UNCHANGED <<switch, bounds>>
       \/ /\ faults < MaxFaults
          /\ faults' = faults + 1
          /\ mem' = [mem EXCEPT ![w] = [NewMem EXCEPT !.recovered = TRUE]]
          /\ UNCHANGED <<switch, resets>>
    /\ UNCHANGED <<world, record, lock, window, proc, history>>

\* _recover_decision_window(), once per process.
RecoverWindow(w) ==
    /\ At(w, "idle") /\ ~mem[w].recovered
    /\ \/ /\ mem' = [mem EXCEPT ![w] = [window[w] EXCEPT !.recovered = TRUE]]
          /\ UNCHANGED <<switch, bounds>>
       \/ /\ faults < MaxFaults
          /\ faults' = faults + 1
          /\ mem' = [mem EXCEPT ![w] = [NewMem EXCEPT !.recovered = TRUE]]
          /\ Trip(w)
          /\ UNCHANGED resets
    /\ UNCHANGED <<world, record, lock, window, proc, history>>

\* _skip() before the lock: no instrument, no bar, tick or snapshot yet, or no
\* bar that is new.
Skip(w) ==
    /\ At(w, "idle") /\ mem[w].recovered
    /\ UNCHANGED vars

\* What a cycle works on: a bar, the newest tick and the newest account
\* snapshot.  Bars and ticks have gone on since the last look, the account has
\* moved anywhere.
Look(w) ==
    /\ bar' \in bar..LastBar
    /\ tick' \in {t \in Ticks : t >= tick}
    /\ \E equity \in Equities, open \in Books :
        proc' = [proc EXCEPT ![w] =
                  [Idle EXCEPT !.at = "recover", !.equity = equity, !.open = open,
                               !.bar = bar', !.tick = tick']]
    /\ UNCHANGED <<record, lock, window, switch, mem, history, bounds>>

Observe(w) == At(w, "idle") /\ mem[w].recovered /\ Look(w) /\ bar' > mem[w].last

\* _recover_session() up to its halt.  A record that cannot be read halts
\* like one that disagrees.
Rebuild(w) ==
    LET p == proc[w]
        d == MarketDay(w)
        must == MustHalt(record, p.equity, p.open, d)
    IN  \/ /\ proc' = [proc EXCEPT ![w] =
                 [@ EXCEPT !.ledger = Recovered(record, p.equity, p.open, d),
                           !.spent = Spent(record, p.equity, p.open, d),
                           !.after = SpentBy(d),
                           !.at = IF must THEN "trip" ELSE "persist"]]
           /\ UNCHANGED bounds
        \/ /\ faults < MaxFaults
           /\ faults' = faults + 1
           /\ proc' = [proc EXCEPT ![w] = [@ EXCEPT !.ledger = Fresh(p.equity),
                                                   !.after = SpentBy(d), !.at = "trip"]]
           /\ UNCHANGED resets

\* The lock is held from the read to the commit.
RecoverSession(w) ==
    /\ At(w, "recover") /\ lock = None
    /\ lock' = w
    /\ Rebuild(w)
    /\ UNCHANGED <<world, record, window, switch, mem, history>>

\* Mutant: the recovery's halt is left for after the cycle.
TripRecoverySilently(w) ==
    /\ At(w, "trip")
    /\ Goto(w, "persist")
    /\ UNCHANGED <<world, record, lock, window, switch, mem, history, bounds>>

\* The trip goes to the safety store while the ledger's lock is held.
TripRecovery(w) ==
    /\ At(w, "trip")
    /\ Trip(w)
    /\ Goto(w, "persist")
    /\ UNCHANGED <<world, record, lock, window, mem, history, bounds>>

\* update(), _persist_session(), commit: the lock goes with the transaction.
PersistSession(w) ==
    /\ At(w, "persist")
    /\ LET p == proc[w]
           ledger == Updated(p.ledger, p.equity)
       IN  /\ record' = [ledger |-> ledger, day |-> MarketDay(w), open |-> p.open]
           /\ proc' = [proc EXCEPT ![w] = [Idle EXCEPT !.at = "gates", !.open = p.open,
                            !.bar = p.bar, !.tick = p.tick, !.ledger = ledger, !.after = p.after]]
           /\ burnt' = burnt \cup {w} \X p.spent
    /\ lock' = None
    /\ UNCHANGED <<world, window, switch, mem, capsules, passes, bounds>>

\* The lock, the recovery or the write fails: roll back, halt, skip.
LedgerFails(w) ==
    /\ proc[w].at \in {"recover", "trip", "persist"}
    /\ faults < MaxFaults
    /\ faults' = faults + 1
    /\ lock' = IF lock = w THEN None ELSE lock
    /\ Trip(w)
    /\ proc' = [proc EXCEPT ![w] = Idle]
    /\ UNCHANGED <<world, record, window, mem, history, resets>>

\* _check_loss_gates(), then _check_session_boundary(), whose deadline is
\* the flatten module's and free here.
CheckGates(w) ==
    /\ At(w, "gates")
    /\ \E overnight \in BOOLEAN :
        /\ overnight => proc[w].open > 0
        /\ TripIf(w, AtItsLimit(proc[w].ledger) \/ overnight)
    /\ Goto(w, "claim")
    /\ UNCHANGED <<world, record, lock, window, mem, history, bounds>>

\* The window is on disk before anyone judges it.
ClaimWindow(w) ==
    /\ At(w, "claim")
    /\ mem' = [mem EXCEPT ![w].last = proc[w].bar]
    /\ window' = [window EXCEPT ![w] = [mem[w] EXCEPT !.last = proc[w].bar]]
    /\ Goto(w, "evaluate")
    /\ UNCHANGED <<world, record, lock, switch, history, bounds>>

\* policies.evaluate(): what PASS needs of the state kept here; every other
\* leg may refuse.
RiskPasses(w) ==
    /\ ~halt[w]
    /\ ~AtItsLimit(proc[w].ledger)
    /\ Hash(w) \notin mem[w].seen

\* The strategy, the risk gateway, the supervisor.
Evaluate(w) ==
    /\ At(w, "evaluate")
    /\ \/ /\ proc' = [proc EXCEPT ![w] = Idle]      \* too little history
          /\ UNCHANGED switch
       \/ /\ proc' = [proc EXCEPT ![w].verdict = "NO_TRADE", ![w].at = "seal"]
          /\ UNCHANGED switch
       \/ \E verdict \in {"BLOCK", "HALT"} :
            /\ AtItsLimit(proc[w].ledger) => verdict = "HALT"
            /\ proc' = [proc EXCEPT ![w].verdict = verdict, ![w].at = "seal"]
            /\ TripIf(w, verdict = "HALT")
       \/ /\ RiskPasses(w)
          /\ \E verdict \in {"APPROVE", "VETO", "SUPERVISOR_HALT"} :
                /\ proc' = [proc EXCEPT ![w].verdict = verdict, ![w].at = "remember"]
                /\ TripIf(w, verdict = "SUPERVISOR_HALT")
    /\ UNCHANGED <<world, record, lock, window, mem, history, bounds>>

\* The decision hash joins the durable window before the capsule is sealed.
RememberDecision(w) ==
    /\ At(w, "remember")
    /\ mem' = [mem EXCEPT ![w].seen = @ \cup {Hash(w)}]
    /\ window' = [window EXCEPT ![w] = [mem[w] EXCEPT !.seen = @ \cup {Hash(w)}]]
    /\ Goto(w, "seal")
    /\ UNCHANGED <<world, record, lock, switch, history, bounds>>

\* JournalRecorder.seal().  A capsule's id is that of its tick, and a capsule
\* whose id is taken is dropped.
Seal(w) ==
    /\ At(w, "seal")
    /\ capsules' = IF \E capsule \in capsules : capsule.tick = proc[w].tick
                   THEN capsules
                   ELSE capsules \cup
                        {[by |-> w, bar |-> proc[w].bar, tick |-> proc[w].tick,
                          after |-> proc[w].after,
                          approved |-> proc[w].verdict = "APPROVE"]}
    /\ proc' = [proc EXCEPT ![w] = Idle]
    /\ UNCHANGED <<world, record, lock, window, switch, mem, passes, burnt, bounds>>

------------------------------------------------------------------------------
(* FINAL Risk and the agent decision path                                  *)

\* One locked read against the live account, on the day of the clock, then the
\* risk gateway, whose other legs may refuse.  A recovery that must halt, a
\* lock or a record out of reach and, on the agent path, a verdict of HALT trip
\* the reader's switch.
ReadLedger(r) ==
    /\ lock = None
    /\ \E equity \in Equities, open \in Books, t \in Ticks :
        LET d == TradingDay[t]
            must == MustHalt(record, equity, open, d)
            ledger == Recovered(record, equity, open, d)
        IN  /\ t >= tick
            /\ \/ ~must /\ UNCHANGED <<switch, passes>>
               \/ Trip(r) /\ UNCHANGED passes
               \/ /\ ~must /\ ~halt[r] /\ ~AtItsLimit(ledger)
                  /\ passes' = passes \cup {[by |-> r, after |-> SpentBy(d)]}
                  /\ UNCHANGED switch
    /\ UNCHANGED <<world, record, lock, window, mem, proc, capsules, burnt, bounds>>

------------------------------------------------------------------------------
Step(w) ==
    \/ RecoverWindow(w) \/ Skip(w) \/ Observe(w) \/ RecoverSession(w) \/ TripRecovery(w)
    \/ PersistSession(w) \/ CheckGates(w) \/ ClaimWindow(w) \/ Evaluate(w)
    \/ RememberDecision(w) \/ Seal(w)

\* The process dies; its transaction rolls back; a new one starts from the
\* durable safety state.
Crash(w) ==
    /\ faults < MaxFaults
    /\ faults' = faults + 1
    /\ lock' = IF lock = w THEN None ELSE lock
    /\ halt' = [halt EXCEPT ![w] = safety]
    /\ mem' = [mem EXCEPT ![w] = NewMem]
    /\ proc' = [proc EXCEPT ![w] = Idle]
    /\ UNCHANGED <<world, record, window, safety, history, resets>>

\* An operator clears the durable halt from a process of its own; a process
\* halted in memory stays so until it is restarted.
OperatorReset ==
    /\ safety /\ resets < MaxResets
    /\ resets' = resets + 1
    /\ safety' = FALSE
    /\ UNCHANGED <<world, record, lock, window, halt, mem, proc, history, faults>>

Init ==
    /\ bar = 0
    /\ tick = 1
    /\ record = NoRecord
    /\ lock = None
    /\ window = [w \in Workers |-> NewMem]
    /\ safety = FALSE
    /\ halt = [p \in Processes |-> FALSE]
    /\ mem = [w \in Workers |-> NewMem]
    /\ proc = [w \in Workers |-> Idle]
    /\ capsules = {}
    /\ passes = {}
    /\ burnt = {}
    /\ faults = 0
    /\ resets = 0

Next ==
    \/ OperatorReset
    \/ \E w \in Workers : Step(w) \/ LedgerFails(w) \/ Crash(w)
    \/ \E r \in Readers : ReadLedger(r)

Spec == Init /\ [][Next]_vars
------------------------------------------------------------------------------
Verdicts == {"NO_TRADE", "BLOCK", "HALT", "APPROVE", "VETO", "SUPERVISOR_HALT"}

Labels == {"idle", "recover", "trip", "persist", "gates", "claim", "evaluate",
           "remember", "seal"}

Windows == [recovered : BOOLEAN, last : 0..LastBar,
            seen : SUBSET ((1..LastBar) \X Ticks)]

Locals == [at : Labels, equity : Equities \cup {None}, open : Books \cup {None},
           bar : 1..LastBar \cup {None}, tick : Ticks \cup {None},
           ledger : Ledgers \cup {None}, verdict : Verdicts \cup {None},
           spent : SUBSET ({0} \cup Days), after : SUBSET Workers]

Capsules == [by : Workers, bar : 1..LastBar, tick : Ticks,
             after : SUBSET Workers, approved : BOOLEAN]

\* The values every variable takes.
TypeOK ==
    /\ bar \in 0..LastBar /\ tick \in Ticks
    /\ record \in Records \cup {NoRecord}
    /\ lock \in Workers \cup {None}
    /\ window \in [Workers -> Windows]
    /\ safety \in BOOLEAN /\ halt \in [Processes -> BOOLEAN]
    /\ mem \in [Workers -> Windows]
    /\ proc \in [Workers -> Locals]
    /\ capsules \subseteq Capsules
    /\ passes \subseteq [by : Readers, after : SUBSET Workers]
    /\ burnt \subseteq Workers \X ({0} \cup Days)
    /\ faults \in 0..MaxFaults /\ resets \in 0..MaxResets

\* A record that gives headroom back: a lower high-water mark, a smaller
\* drawdown or, within the day, a smaller loss.
GivesBack(old, new) ==
    /\ old # NoRecord
    /\ \/ new.ledger.peak < old.ledger.peak
       \/ ~AtLeast(new.ledger.drawdown, old.ledger.drawdown)
       \/ new.day = old.day /\ ~AtLeast(new.ledger.loss, old.ledger.loss)

\* Recovery is never more generous than the record, whatever the workers,
\* their order and their crashes, unless the worker that writes is halted.
\* recover_session() and the lock around recover, update and persist.
OnlyTheHaltedGiveBack ==
    [][record' # record /\ GivesBack(record, record')
        => \E w \in Workers : proc'[w] # proc[w] /\ halt[w]]_vars

\* A worker that found a budget spent approves nothing more while the budget
\* binds, before an operator intervenes: not after it died at any point past
\* its commit, and not when equity has come back.
SpentBudgetStopsItsWriter ==
    resets = 0 =>
        \A capsule \in capsules : capsule.approved => capsule.by \notin capsule.after

\* A budget that a worker found spent stops everyone who recovers the ledger
\* afterwards while it binds, until an operator intervenes.
SpentBudgetStopsEveryone ==
    resets = 0 =>
        /\ \A capsule \in capsules : capsule.approved => capsule.after = {}
        /\ \A pass \in passes : pass.after = {}

\* A bar is approved at most once by a worker: whatever crashes, restarts and
\* unreadable records come between, no two capsules of one worker approve
\* decisions on the same bar, not even at different ticks.
NoBarApprovedTwice ==
    \A one, other \in capsules :
        /\ one.approved /\ other.approved
        /\ one.by = other.by /\ one.bar = other.bar
        => one = other
==============================================================================
