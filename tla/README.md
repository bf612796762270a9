# Crumblr: TLA+ models of the decision and execution paths

Crumblr is a trading platform: market data comes in, strategy agents (in the
process or behind an agent gateway) propose intents, a risk engine and a
supervisor approve them, the approved decision is sealed in a *decision
capsule*, and an execution worker turns a capsule into at most one order at a
MetaTrader 5 broker.  A weekly session policy closes every position before the
market closes for the weekend, a kill switch stops new orders, and
reconciliation compares the broker's book with what the platform's own history
says it should be.  Everything that has to survive a process lives in
PostgreSQL (append-only event logs, claims) and, for the safety state, in a
second local file.

This directory models the parts where a mistake costs money and a unit test
hardly reaches: several workers, crashes between any two writes, broker calls
whose answer is late or lost, and reads that are stale when they are used.

Source paths below are relative to `src/src/crumblr/`.

## Inventory

| Component | State it keeps | Operations | Talks to | What makes it hard | What makes it correct |
|---|---|---|---|---|---|
| Execution orchestrator, entries (`application/execution.py`) | none of its own; position in a pass | `run_once`, `_process`, `_start_submission`, `_attempt_real_entry_submission`, `_recover_ambiguous_submission`, `resolve_pending_once` | request, event, permit and safety stores; broker | two workers, crash anywhere, lost answers | never two orders for one decision; commitment before side effect; recovery tells the truth |
| Execution stores (`persistence/execution.py`) | claims, event rows | `claim`, `append`, `events_for` | PostgreSQL | racing inserts | insert once, conflict raises |
| Canary permits (`persistence/canary_permit.py`) | permits, consumptions | `issue`, `permit_for`, `consume` | same transaction as the commitment | check-then-consume race | one permit, one order |
| Entry gates (`risk/execution_eligibility.py`, `execution_preflight_gate.py`, `submission_gate.py`) | none | `evaluate_*` | kill switch, config, clock | verdict stale when used | a refused request is never sent |
| Weekly flatten (`flatten_once` and below, `application/flatten_plan.py`, `risk/flatten_gate.py`, `persistence/flatten.py`) | claims and events per trading day | claim, gate, commit, close, re-observe, resolve | broker, safety store, clock | day roll, partial closes, failed reads, several workers | halt first; close only what was committed; record only what is true |
| Trading window (`risk/trading_window.py`, `trading_agent/sessions.py`, `risk/calendars.py`) | none | `phase_at`, `requires_flat`, `has_crossed_weekly_close`, `trading_day` | clock | boundaries | one phase per instant |
| Broker-state capture (`application/broker_state.py`) | snapshots | `capture_broker_state`, `record` | broker | a failed read looks empty | completeness survives |
| Kill switch and safety state (`risk/kill_switch.py`, `risk/safety_state.py`, `persistence/safety_state.py`, `application/bootstrap.py`, `risk/operator_controls.py`) | in-memory state per process, journal, latch file | `on_startup`, `trip`, `reset`, `load`, `save` | every gate | two stores, partial writes, several processes | never prefer the permissive store |
| Post-fill reconciliation (`application/reconciliation.py`, `expected_state.py`) | derived | `reconcile_once`, `derive_expected_exposure`, `verify_protective_stops` | both event logs, snapshots | two logs and a moving book | unknown is never flat |
| Risk session (`risk/session.py`, `persistence/risk_session.py`) | session ledger rows, advisory lock | `recover_session`, `save`, `held` | decision loop writes; FINAL Risk and agent path read | several writers, restarts, equity that comes back (ADR-013, ADR-021) | never more generous than the record |
| Risk policies (`risk/policies.py`, `sizing.py`, `portfolio_risk.py`) | none | evaluation, sizing | snapshot, portfolio | rounding, limits | never above the limit |
| Agent gateway (`agent_gateway/`, `persistence/agent_gateway.py`, `scripts/agent_canary_execution.py`) | identities, credentials, assignments, contexts, outcomes, settlements | publish, submit, retry, review, seal | external agents, HTTP, the demo driver | lost replies, retries, two processes at the rate limit | one answer per outcome id; the limit holds |
| Live decision loop (`application/live_decision.py`, `decision_window.py`) | decision windows | claim a window, decide, journal | reader, risk, supervisor | restart in a window | one decision per window |
| Live reader, market data (`application/live_reader.py`, `market_data/pipeline.py`) | ticks, bars, cursor | read, validate, store | MT5 | gaps, duplicates, order | no bar from bad ticks |
| Paper trading (`application/paper_lite.py`, `persistence/paper_lite.py`, `mt5_gateway/simulated.py`) | simulated book in memory, append-only journal, risk session | observe, advance, flatten, claim a bar, decide, fill, replay at start | reader's tables, agent, risk, safety store | crash between any two writes, a torn line, bars seen twice | the replayed journal is the book; one order per bar |
| Replay (`application/orchestration.py`, `recording.py`, `persistence/journal.py`) | events, capsules, market data, risk session | window by window: observe, decide, supervise, execute, seal, persist | simulated broker, risk, journal | crash inside a window, second run over the first one's stores | a window commits once or not at all; the book stays within its budget |
| Host supervisor (`scripts/host_supervisor.ps1` and the Python checks it calls) | boot marker file | eligibility, claim, spawn | safety store | dies between claim and spawn, reboots | one automatic clear per boot |
| Strategy agents (`trading_agent/`) | none | `evaluate` of both strategies over structure, liquidity, imbalance, features, sessions | bars, quote, open sides | two written-out halves, rounding, repainting | a valid protected intent; long and short mirrored |
| Dashboard (`dashboard/`) | none | renders stores and the health file | reader | a frozen file | never shows a dead reader as connected |
| Local admin, trainer bridge | files | backup, credentials, export | operator | file I/O | - |

## Modules

| Module | Models | Kind |
|---|---|---|
| `EntrySubmission` | entry half of the orchestrator over its stores and the broker | state machine, properties, inductive invariant |
| `OneShotSubmission` | what the entry path promises: spend a permit once, then send once | abstract specification |
| `MCEntrySubmission` | instances for TLC | constants |
| `EntrySubmissionProofs` | theorems about `EntrySubmission`, and the invariants of its recorded outcomes | TLAPS |
| `Flatten` | the weekly flatten over its stores, the calendar and the broker | state machine, properties, inductive invariant |
| `MCFlatten` | instances for TLC | constants |
| `FlattenProofs` | theorems about `Flatten`, and the invariant of its outcomes | TLAPS |
| `LiveDecision` | `decide_once` over the risk session, the decision window, the safety state and the capsules; the ledger's readers | state machine, properties |
| `MCLiveDecision` | instances for TLC | constants, symmetry |
| `LiveDecisionProofs` | inductive invariants and theorems about `LiveDecision` | TLAPS |
| `RiskLedger` | the loss and drawdown ledger and its recovery, shared by `LiveDecision`, `PaperLite` and `RiskPolicies` | operators |
| `Reconciliation`, `MCReconciliation` | post-fill reconciliation over both event logs and the broker's book | state machine, properties |
| `ReconciliationProofs` | inductive invariant and theorems about `Reconciliation` | TLAPS |
| `HostSafety`, `MCHostSafety` | kill switches over journal and latch file; the host supervisor | state machine, properties |
| `RuntimeProofs` | inductive invariants and theorems about `Replay` and `HostSafety` | TLAPS |
| `AgentGateway`, `MCAgentGateway` | submission of agents' decisions and the demo driver | state machine, properties, fairness |
| `AgentGatewayProofs` | inductive invariants and theorems about `AgentGateway` | TLAPS |
| `LiveReader`, `MCLiveReader` | the MT5 reader, its tables, its health file and the dashboard's reading of it | state machine, properties, fairness |
| `MarketProofs` | invariants and theorems about `LiveReader` and `Strategies` | TLAPS |
| `Sums` | the sum of a sequence, shared by the books, the budgets and the averages | operators |
| `PaperBroker` | simulated broker and its durable journal, used by `PaperLite` and `Replay` | operators |
| `PaperLite`, `MCPaperLite` | the paper loop, composed of `PaperBroker` and `RiskLedger` | state machine, properties |
| `PaperLiteProofs` | lemmas about `PaperBroker`'s books and journals, inductive invariant and theorems about `PaperLite` | TLAPS |
| `RiskPolicies` | trading week, book risk, sizing, risk gateway, supervisor policy | operators |
| `Replay`, `MCReplay` | the replay orchestrator and its recorder, composed of `RiskPolicies` and `PaperBroker` | state machine, properties |
| `MarketStructure` | swings, breaks, pools, sweeps, gaps, order blocks | operators |
| `Strategies`, `MCStrategies` | the ICT entry model and the baseline over a sliding window of bars | state machine, properties |

`ReplaySpec`, `ReplayNext`, `StrategiesSpec` and the like carry the name of their
module so that one proof module can extend two components.

### EntrySubmission

State: `claims` is table `execution_requests` (request to approval-chain
fingerprint), `events` is `execution_events` (rows in sequence order, one per
event type), `issued` and `consumed` are the permit tables, `latch` the durable
safety state; `halted` is each worker's in-memory `KillSwitch`, `proc` its place
in a pass with its locals; `order` and `sends` are the broker's side.

One action per durable write or broker read, so a crash can fall between any
two.  `ClaimWon`/`ClaimLost` are the two outcomes of `ExecutionRequestStore.claim`
(a fingerprint that differs raises, and nothing happens); `Eligibility`,
`PreflightGate`, `CapturePositions`, `CapturePending`, `RecordSnapshot`,
`Reconcile`, `FinalRisk`, `OrderCheck` and `SubmissionGate` are the stages of
`_process`, in its order, the gates among them either recording their refusal and
ending the pass or going on; `flat` is what the newest snapshot on record shows,
whichever worker recorded it.  `CheckPermit` and
`ConsumePermit` are `_attempt_real_entry_submission`, the second being one
transaction with the commitment; `OrderSend`, `RecordResult` and
`TransportFails` the broker call; `ReadHistory`, `ReadPositions`, `ReadPending`,
`AppendResolution` and `TripIntegrityAmbiguous` are
`_recover_ambiguous_submission`; `StartResolvePending`, `ReadTicket`,
`ReadSubmitted` and `AppendTicketFate` are `resolve_pending_once`.

An answer is a retcode, decoded as `_decode_order_send_result()` does it, by the
code alone (`Retcodes`, `Decoded`): DONE is FILLED even when a LIMIT order rests,
PLACED is SUBMITTED even for a market order, and every other code, a timeout
included, is REJECTED although the order may be in flight or live.  A FILLED that
`order_send` answered is therefore no claim about a position; what recovery or the
resolver attributes is (`AttributedPositionIsReal`).

What is abstracted: the contribution of configuration, clock, prices and risk
policy to a gate is a free choice of verdict (the gate may always refuse); the
legs that are state of the model (kill switch, book, permit, capsule) are kept.
Event payloads are reduced to recovery's verdict and the tickets it names.  Of
`PARTIALLY_FILLED` the event log keeps only `FILLED`
(`application/execution_outcome.py`).

The broker is external: an order in flight is accepted, rejected or lost, a
resting order fills or disappears, a position closes.  `Strangers` are orders on
the account that no capsule asked for, resting or open, which may have the magic
number of one that was.  `LateDelivery` says whether an order may land after a later
read of the book.

### Flatten

Time is a constant sequence of instants, each with its trading day, trading
week and session phase, standing for what `phase_at`, `trading_day` and
`weekly_close` return; a pass reads the clock once, as `flatten_once` does.
`claims` and `events` are `flatten_requests` and `flatten_events`, keyed by the
trading day; `halt` distinguishes the halts the flatten gate tolerates from the
others.

`StartPass` is the durable-history-first early return; `Observe`
`capture_broker_state` at its three call sites; `Decide` the deadline and
weekly-close test with the `FLATTEN_STATE_UNKNOWN` trip before it; `Claim`
`FlattenRequestStore.claim`; `TripOvernightExposure` the halt before anything is
committed; `AppendClaimed`, `FlattenGate`, `StartFlatten` `_commit_flatten`;
`ReadEvents`, `Attempt`, `ClosePosition`, `Conclude`
`_resolve_flatten_outcome` and `_attempt_and_resolve_flatten`; `early` marks the
loser of a claim, which resolves a plan with a look at the broker that is older than
the plan.  `OtherHalt`
stands for every halt tripped elsewhere.  An operator's reset is not modelled:
`OccurrenceOnRecordHalts` is about the platform's own steps.

### LiveDecision

State: `record` is the last row of `risk_session_states`, `window` that of
`decision_window_states` (per worker, which stands for a strategy on the one
symbol modelled), `capsules` the sealed decisions; `lock` is the risk-ledger
advisory lock; `safety` the durable safety state and `halt` each process's
`KillSwitch`; `mem` what an orchestrator keeps between cycles, `proc` its place
in `decide_once()` with its locals.  `burnt` and the `after` fields are history:
who had found a budget spent, that still binds, when a ledger was recovered.

`RecoverWindow`, `Skip`, `Observe`, `RecoverSession`, `TripRecovery`,
`PersistSession`, `LedgerFails`, `CheckGates`, `ClaimWindow`, `Evaluate`,
`RememberDecision` and `Seal` are the steps of `decide_once()` in its order, cut
at every durable write so that a crash falls between any two; recover, update
and persist happen under the lock, and `TripRecovery` is a step of its own
because the safety store is another transaction than the ledger.  `ReadLedger`
is the read-only recovery, at FINAL Risk and on the agent path; `OperatorReset`
an operator's process clearing the durable halt.  `EquityLedger` and
`recover_session()` are operators over integer equities and exact fractions:
the code's `Decimal` values compared by cross multiplication.

What is abstracted: the account moves to any equity and book before each look;
bars and ticks go on by any amount; a tick carries its trading day, the
identity of its capsule and, with the bar, that of a decision; a reader takes
its day from the clock, at or after the newest tick.  What the strategy, the
supervisor and the other risk legs answer is free; the legs over kill switch,
loss gates and seen decisions are kept.  The deadline of
`_check_session_boundary` is `Flatten`'s and free here.  A record or window that
cannot be read, a lock or a write that fails and a crash are faults.  A start
with an unreadable safety state is a halted one.

### Reconciliation

State: `events` are the rows of `execution_events` from `SUBMISSION_STARTED` on,
`occurrence` the flatten events, `order` and `book` the broker's side, `safety`
and `halted` the durable halt and each process's switch, `proc` a pass with its
locals.  A pass is `Start`, `ReadHistory` (one request at a time),
`ReadFlattenHistories`, `ReadPositions`, `ReadPendingAndRecord`, `Compare`,
`RecordReconciled` with the halt before it, `Finish`: `reconcile_once()` in its
order, cut at every read and write.  `DeriveExpectedExposure` is
`derive_expected_exposure()` branch by branch, `Reconcile` the comparison with
its five kinds of mismatch, `ProtectiveStopIssues` the stop verification.  The
entry path (`Commit`, `Answer`, `Recover`, `ResolvePending`) and the flatten
(`FlattenCommits`, `FlattenResolves`) go on between any two steps; they are here
by what they append, since their own control is in `EntrySubmission` and
`Flatten`.  They are wrong where those are: an answer is decoded by its retcode, it may
come after recovery has been quicker, recovery finds nothing while the order is in
flight (`hasty` remembers orders that a row gave a fate before the broker did), and the
flatten may name a ticket that is still open, by a read that failed or was old
(`phantom`).  `OtherCapture` is the live reader's snapshot, which may be the newest
when a pass compares.  A ticket has the name of its request; stop prices are the
intended one, another one, or none.

### HostSafety

A save is three writes: the journal row takes its sequence number when inserted
and is visible once committed, the latch file is replaced, the switch in memory
changes (`Insert`, `Commit`, `Finish`).  A start-up reads the journal and then the
latch (`ReadJournal`, `ReadLatch`) and takes the less permissive of the two.
`RollBack` wipes or restores the database, `LoseLatch` loses the file.  The host
supervisor is `CheckCoherent`, `CheckEligible`, `Claim`, `Spawn`; `Bootstrap` sets
the marker of a new host and `Reboot` starts another boot.

### AgentGateway

A submission takes the lock of its assignment, claims the outcome id, evaluates,
settles and commits; its writes become visible at the commit and a crash rolls
them back, while the lookups of identity, credential, assignment and context see
what is committed at their own moment.  `Post` is the HTTP service, `DriverStep`
and `Decide` the demo driver: publish a context, ask, submit, run the decision
path, seal, execute.  `Admin` issues assignments, rotates credentials, suspends
agents and publishes evidence.  Prices and confidence of a decision are small
integers; the contracts' validators are kept.

### LiveReader

The reader's process is a record with its place in a poll, its cursor, its
gateway and the cached clock offset; only `ticks`, `bars`, `specs`, `snapshot` and
`file` outlive it.  A poll is a sequence of calls (account, offset, ticks, bars,
capture, health file), and `TickArrives`, `LateTick`, `TerminalChanges`,
`LinkDrops` and `Tick` fall between any two.  Times are small integers; the
broker's clock runs ahead of UTC by half hours, and the offset is computed from
the newest tick as the code does, rounding included.  The broker may change its offset
at any time (`TerminalChanges`): put back, the clock reopens bars that were over
(`Reopened`), which count as revised by the broker.  Bars divide half an hour
(`TimeframeAssumption`), as those of M5, the script's default, do.  A bar is its tick
volume.

### PaperBroker, PaperLite

A book holds open positions, closed trades, the balance, the last tick and the
ranges already consumed; the journal's entries are what `DurablePaperBroker`
appends, and `Replayed` is `_load_and_replay()`, a recursive function over the
lengths of the journal, as are `Among` (the positions of a book that satisfy a
test, in their order) and `Total` (a sum, in `Sums`), so that they can be reasoned
about.  `PaperLite` runs one call of
`process()` in steps cut at the journal, session and safety writes, over `feed`
(the reader's newest tick and bar) and the wall clock's week and phase.  The
agent's answer and the external supervisor's are free; Core Risk is
`evaluate()` with the legs that are state of the model.  A crash may tear the
line being appended, which stops every later start, as in the code.

### RiskPolicies, Replay

`RiskPolicies` translates the legs of `risk/policies.py` one by one, the sizing
with its rounding down to the volume step and its limits, the valued risk of the
open book, the weekly deadlines and the supervisor's policy.  One tick of price
is worth one unit of account per lot.  `Replay` drives them: `Observe`, `Decide`,
`SuperviseIntent`, `Execute`, `Seal`, `CheckLossGates`, `CheckSessionBoundary`,
`PersistSession` per window, `Flush` after a halt and `EndOfSeries` at the end;
`ProcessDies` and a second `Start` give the later run the earlier one's stores and
a new broker.  `ApprovedOrder` is the order that risk sized, which `Execute` sends.  An event is
its type, window and payload, from which the code derives its id.

### MarketStructure, Strategies

Pure functions of a window of bars in integer points.  Each `BarCloses` appends
any bar of `Shapes`, pushes the oldest out of a full window (`Slid`: `HistoryBars` is
`MAX_HISTORY_BARS` of the replay and `RECENT_BAR_WINDOW` of the live loop, both 400)
and asks both strategies.  The reference definitions are
`AcceptedIntent` (the contract), the mirrored chart (`LongAndShortAreMirrored`)
and the same operators on the window before (`NothingIsRepainted`).  That property
says what may come and go when the window slides: nothing of the swings that stay
inside it with their left neighbours; of the gaps what price closed, what is too old,
and, since displacement is measured by the latest average range, what a change of that
range hides or shows.  `RoundDown` and `RoundUp` round to the tick as `ROUND_DOWN` and
`ROUND_UP` do for the positive prices that an intent may have.  Sessions
are an hour and a weekday in New York time.  Where the code returns early the model
has a chain of IFs; a CASE whose guards overlap would leave the choice open.
`StrategyAssumption` and `SetupAssumption` say of the parameters what the defaults
of `IctConfig` and `StrategyConfig` satisfy, the only ones the code is run with:
nothing in the code keeps an `IctConfig` whose required conditions leave out
`optimal_trade_entry` from quoting an entry beyond the extreme its stop protects.
`Gcd` is Euclid's algorithm, by which fractions are kept in lowest terms.

## Runs

| Run | Bounds | Shows |
|---|---|---|
| `EntryTwoWorkers` | 2 workers, 3 capsules, 2 requests, 1 permit, 1 fault, late delivery | one order per request; what authorises it; the approval chain; the refinement of `OneShotSubmission` |
| `EntryRecovery` | 2 workers, a LIMIT request and a stranger with its magic number, 1 permit, 1 fault, fairness | integrity ambiguities halt; attributed positions are real; ambiguous submissions are resolved |
| `FlattenProgress` | 1 worker, 2 tickets, a weekend, 1 fault, fairness | only planned tickets are closed, under a halt; recorded closures are true; overdue exposure halts; the day's commitment is resolved |
| `LedgerRestarts` | 1 worker, 1 reader, 3 equities, 2 books, 2 bars, 2 ticks in a day, 2 faults, 1 reset | headroom comes back only under a halt; a spent budget stops its writer; no bar approved twice |
| `Reconciliation` | 2 workers (symmetric), 1 request of either entry type, 1 fault | reconciled means accounted for; unprotected means halted; MATCHED means settled |
| `ReconcileFilled` (violation) | 1 worker, 1 request, no faults | a `FILLED` request is unknown to the derivation and the verdict is not UNKNOWN |
| `HostSafety` | 2 processes, 3 saves, 2 faults, 3 boots | a halt outlives database and latch file; start-ups see every trip; one clear per boot |
| `AgentGateway` | HTTP service and driver, 2 contexts, 2 calls, 1 fault, clock to 2, fairness | rate limit, one answer per outcome id, every call ends |
| `LiveReader` | 3 ticks, clock to 2, 1 fault, changing clock offset, fairness | bars are final, ticks contiguous, a dead reader is not shown connected, a live one catches up |
| `PaperLite` | 2 quotes, 2 weeks, 1 fault, 1 reset | journal and book agree, one order per bar, consumed ranges and flattened weeks stay closed, no fill over an unexplained book |
| `Replay` | 4 ticks over 2 timelines, 2 runs, 2 resets | windows commit once; the book stays in its budget; the session on record keeps up |
| `Strategies` | an opening of 5 and 4 further bars of any of the shapes, a window of 8 | valid protected intents, known regimes, mirror symmetry, no repainting |

Why the bounds are enough: every race in these protocols is between two
workers over one key, so two workers and two keys (one shared, one not) give
each pair of steps in both orders; `c1` and `c3` carry one intent under two
approval chains, which is the conflict the fingerprint exists for; one permit in
the scope of two requests is the double spend; one fault suffices because a
restarted worker is again an idle one and every label of a pass can be hit;
the weekend calendar has one instant of each phase before and after the roll of
the day and the week.  `MaxFaults` bounds crashes and exceptions, nothing else
grows.  In the ledger run both limits are two tenths of equities up to ten:
nine uses part of a budget, eight spends it exactly (the comparison is `>=`),
and ten restores it; two faults are a crash and an unreadable record.  In
`Reconciliation` a pass that races another pass, a close and a snapshot of the
live reader needs two workers and one request; the fault is a crash, a failed read, a
flatten that is wrong about an open ticket or a stranger's position, one at a time,
while early recoveries and late or wrong answers need none.  Workers are interchangeable
in its invariants, so their permutations are a sound symmetry.  `HostSafety` has
three saves for a trip that overlaps a reset and is followed by another.  A
reader needs two bars' time, a tick that shares an instant with the last one
read, and one late tick.  Paper prices are three spreads apart, so that one bar
reaches a stop or a target and the next restores it; two weeks hold a Friday, a
weekend and the Monday after it.  The replay's timelines stay inside a week or
cross its close, its limits let two of three positions fit the budget.  Bars of
`Strategies` are few shapes chosen so that sweeps, shifts and gaps of both
directions occur within the lookbacks; the fourth bar slides the window and takes the
opening's first swing low with it.

Further instances, kept beside these and checked by hand: `FlattenTwoWorkers.cfg`
(two workers, failing reads, one Friday: `FlattenInv`, `NoCloseBeforeTheDeadline`,
`HistoryOnlyGrows`, `OnlyBlindPassesAreWrong`) and `LedgerTwoWorkers.cfg` (two workers over a midnight).  The
theorems below hold for any number of workers.

Fairness: `run_once()` is called in a polling loop and walks every approved
capsule on each pass, so no worker stops in the middle of a pass (weak fairness
of its step) and no capsule is passed over for ever (strong fairness of its
claim, which other capsules' passes disable now and then).  The broker gives a
sent order a fate, and in `Flatten` a position asked to close again and again
eventually closes; without that no flatten can end.  `AgentGateway` assumes that a
call that has begun is carried on by its process (the server's thread), and
`LiveReader` that `run_forever()` goes on polling.  No fairness is given to
crashes, to failed calls, to the clock of these two or to the choice of a gate.
The other modules state safety only and assume none.

## Known disagreements

Where the code does not do what its comments or documents say.  One is a run of
the project (`ReconcileFilled`); the others are reproduced by the configuration
named, each with the module's MC module, and end in a counterexample.

| Where | What | Reproduce |
|---|---|---|
| `application/expected_state.py:277` | `FILLED` is declared UNDETERMINED, "fail closed", but has no branch: zero exposure, no reason, never reconciled, stop never verified | `ReconcileFilled.cfg` |
| `application/execution.py:1087` | an order that fills between recovery's reads of positions and of pending orders is recorded `submitted=False` | `EntryLimitRace.cfg` |
| `application/execution.py:1059` | a second worker recovers a submission still being sent; FILLED and `submitted=False` end in one history | `EntryTwoRecoverers.cfg` |
| `application/execution.py:1273` | a failed read of the positions is recorded as a closed book | `FlattenFailedRead.cfg` |
| `application/execution.py:1364` | the loser of a flatten claim resolves the winner's plan with positions read before it | `FlattenTwoWorkers.cfg` with `ReadsMayFail = FALSE` and `ClosedTicketsAreClosed` |
| `application/execution.py:1254` | a commitment left open over the day roll is never visited again | `FlattenDayRolls.cfg` |
| `application/execution.py:1817` | `reconcile_once()` says a ticket of a RECONCILED request is open or "already removed by a resolved flatten": a request that recovery attributed a position to and that order_send then answers REJECTED has its open ticket written off | `ReconcileFilled.cfg` with `ReconciledIsRemoved` |
| `application/live_decision.py:418` | the ledger persisted after a breach shows no loss, so other processes do not see it | `LedgerForgets.cfg` |
| `scripts/agent_canary_execution.py:704` | the driver executes a proposal the external Supervisor vetoed | `AgentVeto.cfg` |
| `application/live_reader.py:651` | the capture after a reconnect raises out of `poll_once()` with an open position and no recent tick | `ReaderRaises.cfg` |
| `persistence/instrument_specs.py:55` | `latest()` is the first row of a version, not the most recently observed spec | `SpecLatest.cfg` |
| `application/orchestration.py:545` | the order times are trimmed only after a fill: once the hourly limit is reached the rest of the run is refused | `ReplayOrderRate.cfg` |
| `persistence/journal.py:252` | a second run over the same journal fills a window whose sealed capsule says it was refused | `ReplayRerun.cfg` |

Further limits that the models show or that were met while modelling:

- With `LateDelivery` a market order that lands after recovery looked is also
  recorded `submitted=False`, and so is a position that opened and was stopped
  out before recovery looked.  A crash between the append of an integrity
  ambiguity and its trip leaves it on record without a halt (hence "unless a
  process died" in `IntegrityAmbiguityHalts`).
- `recover_session()` answers a breach with a halt and with the ledger of
  `_halt()`, which has lost nothing; `decide_once()` persists that ledger.  The
  worker itself is halted, durably (`SpentBudgetStopsItsWriter`), but FINAL Risk
  and the agent path run in processes with kill switches of their own.  ADR-013
  and the head of `risk/session.py` promise more than that.
- A LIMIT order recovered as submitted, an integrity ambiguity, an order cancelled
  while SUBMITTED, or a flatten left open over the day roll makes every later
  verdict of its market UNKNOWN, so that no other request there is reconciled.  A
  position closed by its stop before the first reconciliation is never reconciled
  and the book stays MISMATCHED (nothing produces CLOSED).  A stop is verified
  once, when its request is reconciled.
- `liquidity.py:130` speaks of "the most recent sweep"; what wins is the deepest, as
  the rest of its docstring says (`Precedes`).  `liquidity.py:193` speaks of the
  "nearest untouched" pool; no touch is tested (`NearestTarget`).
- `recording.py:51` says the market-data batch is flushed whenever a window
  seals; `seal()` does not.  `_persist_session()` leaves the peak equity out of
  the key that decides whether a row is written.  `start_new_session()` keeps
  yesterday's worst session loss.

## Proofs

Each theorem holds for every value of the constants that its module's named
assumption admits; each line below says which invariant it needs beyond the
property itself.  The inductive invariants that TLC can evaluate were checked by it
on the bounds of the module's run as well.

`EntrySubmissionProofs` proves, for any sets of workers, capsules, requests and
permits and any bound on faults (assumption `ConstantsAssumption`):
`TypeCorrect`; `SubmissionSafe`, the inductive invariant `SubmissionInv`; from it
`NeverSentTwice`, `ClaimIsExclusive`, `SentIsCommittedPaidAndNotRefused`,
`ApprovalChainIsBound`; and `EntryImplementsOneShot`, the refinement.

"Sent at most once" is not inductive: nothing in it stops a second worker from
standing before the send.  `SubmissionInv` adds why none does: a request nobody
claimed has no rows and no order (`UnclaimedIsUntouched`); whoever drives a
request holds its claim and is alone (`OneDriverPerRequest`, `BusyMeansClaimed`);
before the commitment nothing was sent and no permit is spent on the request
(`BeforeTheCommitment`), between commitment and send the commitment is on
record, a permit is spent, nothing is sent and nothing refused
(`BetweenCommitmentAndSend`, `DriverIsNotRefused`); and a permit names one
request (`OnePermitPerRequest`).  The proof classifies a worker's steps once
(what a step appends, which label it reaches) and then goes conjunct by
conjunct.

Two theorems are about what the event log says.  `AmbiguityHaltsNewOrders`: an
integrity ambiguity on record means a durable halt, by `HaltIsDurable` (a switch
that is on is on in the store) and the fact that its recorder stays at
`tripIntegrity` until the store is halted or a process has died.
`AttributionsAreReal` is about what recovery and the resolver find: one position
under the request's magic number that has opened, the resolver's only once the submitted
ticket is off the book, and several orders where they call it an ambiguity.  Whose
a lone position is, 31 bits cannot tell, so the theorem does not say; magic numbers may
be shared.  `FillInv` adds that an order which was not sent has no fate (`FatesOK`),
that a request on record as SUBMITTED was taken by the broker (`SubmittedIsTaken`), and
that what a worker has matched has opened under its magic and never comes undone
(`MatchesOK`, `Forward`): the read is stale when the row is written, and the row is
true nevertheless (`RowsAreReal`).

`FlattenProofs` proves, for any calendar (`FlattenAssumption`), `FlattenSafe`
(the inductive invariant `FlattenInv`), `ClosesAreCommitted` and
`RecordMeansHalted`.  The invariant ties every label to what the pass has seen
and what is on record: a pass that claims saw a position (`SawPositions`), an
in-memory halt is durable (`HaltIsDurable`), committing happens halted
(`CommittingIsHalted`), resolving has a history (`ResolvingHasHistory`) and what
is left to close is planned (`ClosingIsPlanned`).

`ClosedTicketsAreClosed`, which `FlattenProgress` checks for one worker whose reads
succeed, is false in general: the table above names the instances that show it.  What
holds for any number of workers and with failing reads is `WrongOutcomesAreBlind`, the
action property `OnlyBlindPassesAreWrong`: a ticket is recorded closed while it is not
only by a pass whose last look failed or was earlier than the plan (`early`).
`OutcomeInv` says that what was seen or planned has been opened (`SeenWereOpened`),
that the plan a pass works on stands (`PlansStand`), and that what a pass which can see
misses of its plan after looking is closed (`UnseenIsClosed`); whoever comes to another's
plan either reads the broker after the history or is marked early (`LoserIs`,
`LookIs`).

`LiveDecisionProofs` proves, for any workers, readers, equities, books,
calendar, limits and bounds (`LiveDecisionAssumption`): `TypeCorrect`, over
fractions whose denominators are shown never to be zero; `RecoveryIsConservative`;
`WriterStaysStopped`; `BarIsApprovedOnce`.

- `RecoveryIsConservative` is an action property.  It follows from `LedgerInv`:
  whoever is between recovery and commit holds the lock, hence is alone
  (`Locked`), and either is halted or holds a ledger that resumes the record
  still on disk (`Resumes`).  Its arithmetic is a handful of lemmas on
  fractions: that `AtLeast` is a total preorder, and that `Updated` and `Resumed`
  only get worse.
- `WriterStaysStopped` rests on `StopInv`: before any reset a halt in memory is
  durable (`HaltIsDurable`), and a worker with a budget on `burnt`, or about to
  commit one, is halted (`Stopped`).  The property alone is not inductive
  because the crash between halt and seal restarts the worker from the durable
  state.
- `BarIsApprovedOnce` rests on `OnceInv`: a worker past its claim has the bar in
  memory and in its durable window; no approved capsule of a worker is ahead of
  its window, nor, unless it is halted, of its memory; and a worker that may
  still approve a bar has approved only earlier ones.  A worker that could not
  read its window knows nothing of them, and is halted.

`RuntimeProofs`, on `HostSafety` (assumption `MissingAssumption`: "missing" is no
state and no boot), has an invariant for each of its three properties, over any
processes, saves, faults and boots.

- `HaltIsNeverForgotten` rests on `OwedIsLatched`: while a halt is owed, the latch
  file is not RUNNING and no reset is under way.  The property speaks of
  start-ups; this is why the database, which may be wiped or restored, does not
  matter to it.
- `ClearIsIssuedOncePerBoot` rests on the order in which the supervisor works: the
  marker is older than the boot when a process has passed the check, names the
  boot when it is about to start the run, and every clear issued is of a marked
  boot (`Marked`, `ClearsAreMarked`).
- `StartUpSeesEveryTrip` is an action property.  `JournalInv` says that, unless the
  database was rolled back, a sequence number belongs to one row or to one insert
  in doubt, that every trip which returned is a row, and that a process which read
  RUNNING read a reset ordered after each trip it had to see (`ReadersSaw`): what
  it read stays answered while others append.

`RuntimeProofs`, on `Replay`, proves `ReplaySafe` and from its invariant `IInv`
`RiskDecisionsAreCommitted`, `SessionRecordKeepsUp` and `FillsAreBudgeted`, for any
series, number of runs and crashes (`ReplayAssumption`: prices and balances are
integers, slippages are not negative, the limits are fractions, "none" is no wish
and no key; `WeekAssumption` and `ConfigAssumption`: what the calendar is and what the
configuration's validators enforce).  The invariant has three parts beside the types.

- `CommitInv`, for `WindowsCommitOnce`: the events in memory are of the window that is
  open, every stage reached has its event among them, and at a flush outside a window
  they hold the halt (`PendingIsOfTheWindow`); the capsule being filled is of that
  window (`WindowIsOpen`).  A crash loses all of them or none, hence what is on record
  of a window came with its capsule or its halt.
- `KeyIsOnRecord`, for `RecordKeepsUp`: what the key in memory says is what the row
  says, and between two ticks the key is that of the state.  The peak equity is not in
  the key and may lag; the property says only what follows.
- `GrantHolds`, for the action property `BookRiskIsBudgeted`: from risk to execution
  nothing touches the book, so the room that risk found is still there and the volume
  is still the one sized for the intent's stop.  The order fills `EntrySlip` worse than
  the price that was sized; the theorem says that this is all the budget is exceeded by.
  It needs that a volume is rounded down, that adding a position adds its risk to the
  sum (`Total` of an appended sequence, by `SetInduction`), and a few facts on fractions.

`ReconciliationProofs` (assumption `ReconciliationAssumption`) proves
`ReconciliationSafe`, and from its invariant `ReconciledAccountsForEverything`,
`UnprotectedPositionsHalt` and `MatchedMeansSettled`.  The properties are about
what a pass writes, the difficulty is what it read earlier; so `ReconInv` says,
for each place of a pass, which of its reads are still true.  What a pass read is how
the histories began (`ReadOK`, `Grew`), and a row that gave a request its tickets is
there for good (`Gives`); unless its exposure is undetermined, what was derived from it
lacks nothing but tickets a flatten recorded closed or a later refusal disowned
(`KnownOK`, `Gone`); at the recording, a row accounts for exactly the tickets given
(`RowOK`).  Beside that it relates history and broker (`OrdersOK`: an order under way
has no fate on record, unless one came too early; `ClosedOK`: a ticket the flatten
recorded closed is closed for good, unless it was open at that moment) and keeps what is
on record as reconciled (`RecordOK`).  The lemmas split by what may move: appends to a
history, the broker's book, a flatten's outcome.  Nothing is assumed of the answers,
of recovery or of the flatten beyond what the model lets them do: recovery may look at
an order in flight, an answer may contradict it, and an outcome may name an open ticket.

`AgentGatewayProofs` (`ContractAssumption`: what the contracts' validators and the
schema enforce) proves `GatewaySafe`, `EveryRetryHearsTheSame` and
`AcceptancesAreWithinTheRate`.  One answer per outcome id is not inductive: a
reply is composed after the transaction, from a row another process may have
written.  `GatewayInv` says who holds which assignment's lock (`LockHeld`), that an
outcome id is claimed by one row or by one transaction in doubt (`ClaimedOnce`) and
settled once (`SettledOnce`), and that what a caller was or is about to be told is
the verdict on record (`AnswersAreOnRecord`).  For the rate, a transaction about to
accept counted, under the lock, what is still the count when it commits
(`CommitsAreWithinTheRate`); `WithinTheRate` then says it of every window of an hour,
the later ones too, because the driver claims with the time at which its cycle
began.  The proof counts finite sets of claims, and needs that an assignment id
stands for one assignment (`AssignmentsAreUnique`).

`PaperLiteProofs` (`TickAssumption`) proves `PaperSafe` and from it
`RestartsRebuildTheBook`, `BarsAreFilledOnce`, `RangesCloseOlderPositions`,
`FlattenedWeeksAreOver` and the action property `FillsFollowTheRecord`, for any
prices, any number of weeks and bars and a journal of any length.  `PaperInv` has
five parts: what the journal may hold (an order stands behind the claim of its bar,
a flatten behind its week's deadline, and the replayed book has consumed the range
of its last tick and holds no younger position: `BookOK`); what a call has
established at each of its places (`CallIsGrounded`: the claim of its bar, no order
for it, the phase it read, no position of another week); that memory is the
replayed journal (`MemoryAgrees`); and that a gap between journal and session record
is known to the kill switch or still to be found by the next recovery
(`GapIsGuarded`).  That replaying an extended journal is applying its last entry to
the replayed book, and that filtering a sequence of positions yields positions of
it, are inductions over the length.  The library's induction theorems take an
operator as a parameter, which the provers cannot instantiate; `SetInduction`
states induction for a set, from the well-foundedness of `<`, and serves instead.

`MarketProofs`, on `LiveReader` (`ReaderAssumption`: buffers, limits and batches are
numbers, the market never puts a whole batch of ticks into one millisecond, and no
unset value is a number; `TimeframeAssumption`: the interval divides half an hour)
proves its three properties from three invariants over the types of a running
process, for any interval, settle buffer, batch and age.

- `DeadReadersAreDisbelieved` rests on `HeartbeatInv`: every heartbeat, in memory
  or in the file, is the end of a poll, hence no later than that of the last one.
- `NoTickIsSkipped` rests on `CursorInv`.  The property becomes inductive with one
  more fact, that the cursor is not in the future, because a tick that arrives would
  otherwise fall behind it.  The step is `BatchesHaveNoHoles`: a tick that a batch
  left out has a whole batch before it, so it is not older than the newest of those
  read.
- `StoredBarsAreFinal` has no hypothesis about the broker's clock.  `BarInv` says that a
  stored bar is one of the broker's that is over by the broker's own clock, its settle
  buffer included, with the broker's volume, or one the broker revised or reopened; a
  tick that arrives belongs to a younger bar (`ArrivalsSpareStoredBars`), a late one to a
  younger bar or to one the broker revises (`LateTicksReviseStoredBars`), and a clock
  that is put back reopens, hence marks, every bar to which it brings new ticks
  (`NewClocksSpareStoredBars`, `StampedTicks`).  That bars keep their bounds when the clock
  moves by half hours is what `TimeframeAssumption` is for (`BucketsMove`).  The property
  itself excuses a reader whose cached offset was not the broker's (`mistimed`).

`MarketProofs`, on `Strategies` (`StrategyAssumption`, `SetupAssumption`,
`WindowAssumption`), proves `EntriesAreProtected`, `EntriesNameARegime` and
`PastIsNotRepainted` for windows of any length and any bars, lookbacks, buffers and multiples.  `Asked` is the invariant: the
variables are what the two strategies answer about the chart, the quote and the book.
What has to be shown is about their answers.

- An ICT entry lies inside the leg from the swept extreme to the high or low that broke
  the structure, because it is in the band of the optimal trade entry
  (`EntryIsInsideTheLeg`); so a stop buffered beyond the extreme is on the losing
  side, and rounding a stop or a target away from the entry keeps at least its distance
  (`StopIsBeyond`, `LevelIsBeyond`, `TargetIsBeyond`).  A fraction in lowest terms is the
  same number (`ReducedIs`), which is what Euclid's algorithm has to be shown to do
  (`GcdDivides`).  The sweep that a setup starts from exists because sweeps are
  finitely many and `Precedes` orders them (`FirstSweepExists`).
- The baseline's stop and target are multiples of a positive average range
  (`BaselineIsProtected`, with `TotalIsInt`).
- `PastIsNotRepainted` is an action property.  A swing is decided by the bars around it,
  which slide with it (`SwingsStay`), and the left edge of the window has none; a gap is
  decided by three bars, by what came after and by the average range, and `GapsMove` and
  `GapsStay` tell these apart.  It needs that the window holds every gap that is young
  enough (`WindowAssumption`).

`FlattenProofs` also proves two action properties that `FlattenTwoWorkers.cfg`
checks.  `ClaimsAndPlansStand` is `HistoryOnlyGrows`: claims, plans and rows are
appended to and nothing is rewritten, whatever fails and however many workers there
are.  `ClosesComeAfterADeadline` is `NoCloseBeforeTheDeadline`, under the hypothesis
`WeeksEndFlat`, that between two instants of different weeks the calendar shows one
that requires a flat account; without it a position may be overdue for a deadline that
the calendar skipped.  `DeadlineInv` dates every position by an instant that has been
(`PositionsAreDated`), lets a pass decide only about positions that had been opened
(`SeenWereHeld`), and says that before the first deadline no pass has a reason to close,
no plan is on record and nothing was asked of the broker (`NothingIsEarly`).

Only model-checked: the liveness properties (`AmbiguityIsResolved`,
`OverdueExposureHalts`, `TodaysCommitmentIsResolved`, `EveryCallEnds`, `CatchesUp`;
fairness and `ENABLED` are outside the prover) and `LongAndShortAreMirrored`, which
needs an induction over the fold of the exponential averages and a mirror lemma for
every operator of `MarketStructure`.  Of the numbers that averages and regimes
produce nothing is proved beyond their signs and types.

## Not modelled

The trainer bridge and most of the dashboard only read or export; domain types,
configuration and schema are declarations, and what they constrain appears as the
types and assumptions of the modules; backups, credentials and settings are
operating-system I/O.  Time zones and daylight saving, HTTP framing,
credential hashing, the decoding of MetaTrader records and the reconstruction of
a run from its journal are left out.  In `Entry gates` the legs over
configuration, clock and account are a free verdict.

## Plan

Done, in this order: `EntrySubmission` with its abstract specification, `Flatten`,
`LiveDecision`; then `RiskLedger` taken out of it, `PaperBroker` and `PaperLite`,
`HostSafety`, `AgentGateway`, `LiveReader`, `MarketStructure` and `Strategies`,
`RiskPolicies` and `Replay`, `Reconciliation`.

Proved, in this order: `EntrySubmission` with its refinement, `Flatten`,
`LiveDecision`, `HostSafety`, `Reconciliation`, `AgentGateway`, `PaperLite`, the
recorded outcomes of `EntrySubmission` and `Flatten`, `LiveReader`, `Replay`,
`Strategies`, and the histories and deadlines of `Flatten`.

Worth proving next: `LongAndShortAreMirrored`, operator by operator, with the averages
as recursive functions.

Beyond that: a composition of `LiveDecision` and `EntrySubmission` over the
capsules, with the abstract specification "one bar, one decision, at most one
order".
