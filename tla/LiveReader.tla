------------------------------ MODULE LiveReader ------------------------------
(***************************************************************************)
(* The continuous MT5 reader (application/live_reader.py, run by           *)
(* scripts/mt5_live_reader.py): it connects to a terminal, verifies the    *)
(* account, measures how far the broker's clock runs ahead of UTC, and     *)
(* then polls ticks and bars into PostgreSQL (persistence/market_data.py), *)
(* with the symbol specification, broker-state snapshots and a health file *)
(* that the dashboard reads (dashboard/state.py).                          *)
(*                                                                         *)
(* A poll is a sequence of calls to the terminal and the database.  The    *)
(* market, the clock, the terminal's account and the dashboard move        *)
(* between any two of them, and the process may die there.  Only the       *)
(* tables and the file outlive the process: its cursor, its gateway and    *)
(* the offset cached in the gateway do not.                                *)
(***************************************************************************)
EXTENDS Integers, FiniteSets, Sequences, FiniteSetsExt

CONSTANTS
    Interval,       \* length of a bar
    Settle,         \* _BAR_SETTLE_BUFFER
    HalfHour,       \* granularity of a broker's clock offset
    MaxOffset,      \* _MAX_PLAUSIBLE_CLOCK_OFFSET
    StaleAfter,     \* --stale-after
    Grace,          \* HEARTBEAT_GRACE_MULTIPLIER
    Lookback,       \* DEFAULT_TICK_LOOKBACK
    BarCount,       \* DEFAULT_BAR_WINDOW
    TickBatch,      \* tick_batch
    StateInterval,  \* --broker-state-interval
    None,
    LastTime,       \* bound on the clock
    MaxTicks,       \* bound on the ticks of the market
    Changeable,     \* what may change at the terminal
    MaxFaults       \* bound on faults and operator actions at the terminal

ASSUME ReaderAssumption ==
    /\ {Interval, HalfHour, BarCount, Grace} \subseteq Nat \ {0}
    /\ {Settle, StaleAfter, Lookback, StateInterval} \subseteq Nat
    /\ TickBatch \in Nat \ {0, 1}   \* fewer than TickBatch ticks share a millisecond
    /\ Changeable \subseteq {"account", "margin", "symbol", "open", "version", "tickValue", "offset"}
    /\ None \notin Int

\* Bars of --timeframe M5, the default, up to M30.
ASSUME TimeframeAssumption == HalfHour % Interval = 0

VARIABLES
    clock,          \* UTC
    feed,           \* the broker's ticks, in order: [at: UTC, time: the server's clock]
    late,           \* ticks the broker attributed to a bar after its interval
    revised,        \* bars it revised after the settle buffer, or reopened
    server,         \* what the terminal is connected to and reports
    linked,         \* the terminal answers the calls of the present connection
    reader,         \* the process
    ticks,          \* market_ticks: the index of the tick and the event time it was stored under
    bars,           \* market_bars, by open time
    specs,          \* instrument_specs
    snapshot,       \* the newest broker_account_snapshots row, with its children
    file,           \* the health file
    observed,       \* history: the specification last read from the broker
    polled,         \* history: when the last poll ended
    mistimed,       \* history: a read used an offset that was not the broker's
    raised,         \* history: poll_once() raised
    faults

market == <<clock, feed, late, revised>>
tables == <<ticks, bars, specs, snapshot>>
history == <<observed, polled, mistimed, raised>>
vars == <<market, server, linked, reader, tables, file, history, faults>>

HeartbeatMaxAge == StaleAfter * Grace

------------------------------------------------------------------------------
(* The market and the terminal                                             *)

BucketStart(t) == t - (t % Interval)

\* The terminal's own bars, keyed by the server's clock; an interval without a
\* tick has no bar.
RawOpens == {BucketStart(feed[i].time) : i \in DOMAIN feed}
RawVolume(o) ==
    Cardinality({i \in DOMAIN feed : BucketStart(feed[i].time) = o}) + (IF o \in late THEN 1 ELSE 0)

TickArrives ==
    /\ Len(feed) < MaxTicks
    /\ Cardinality({i \in DOMAIN feed : feed[i].at = clock}) < TickBatch - 1
    /\ feed' = Append(feed, [at |-> clock, time |-> clock + server.offset])
    /\ UNCHANGED <<clock, late, revised, server, linked, reader, tables, file, history, faults>>

\* MT5 attributes a very late tick to a bar whose interval is over.
LateTick(o) ==
    /\ o \notin late
    /\ clock + server.offset >= o + Interval
    /\ late' = late \cup {o}
    /\ \/ clock + server.offset < o + Interval + Settle /\ UNCHANGED <<revised, faults>>
       \/ /\ clock + server.offset >= o + Interval + Settle
          /\ faults < MaxFaults /\ faults' = faults + 1
          /\ revised' = revised \cup {o}
    /\ UNCHANGED <<clock, feed, server, linked, reader, tables, file, history>>

\* Another account is logged in, netting for hedging, the symbol hidden, the
\* contract or the tick value changed, a position opened, the server's clock put
\* forward or back.  Put back, it reopens bars that were over: they may receive
\* ticks again.
Reopened(s) ==
    {o \in RawOpens : s.offset < server.offset /\ clock + s.offset < o + Interval + Settle}

TerminalChanges(s) ==
    /\ s # server
    /\ faults < MaxFaults /\ faults' = faults + 1
    /\ server' = s
    /\ revised' = revised \cup Reopened(s)
    /\ UNCHANGED <<clock, feed, late, linked, reader, tables, file, history>>

Values ==
    [account |-> {"demo", "other"}, margin |-> {"hedging", "netting"}, symbol |-> BOOLEAN,
     open |-> BOOLEAN, version |-> {"v1", "v2"}, tickValue |-> {1, 2}, offset |-> {0, HalfHour}]

ServerStates == UNION {{[server EXCEPT ![f] = v] : v \in Values[f]} : f \in Changeable}

LinkDrops ==
    /\ linked
    /\ faults < MaxFaults /\ faults' = faults + 1
    /\ linked' = FALSE
    /\ UNCHANGED <<market, server, reader, tables, file, history>>

Tick ==
    /\ clock < LastTime
    /\ clock' = clock + 1
    /\ UNCHANGED <<feed, late, revised, server, linked, reader, tables, file, history, faults>>

------------------------------------------------------------------------------
(* The gateway (mt5_gateway/readonly.py, client.py)                        *)

\* account(): the account is the one of the guard.
VerifyAccount == server.account = "demo"

\* resolve_symbol(): the pinned symbol is among the terminal's.
ResolveSymbol == server.symbol

\* instrument(), and spec_version, which leaves the tick value and the time out.
Instrument == [version |-> server.version, tickValue |-> server.tickValue, captured |-> clock]

\* positions() and pending_orders(): a failed call is never an empty book.
PositionSetState == IF linked THEN "COMPLETE" ELSE "FAILED"
PendingOrderSetState == IF linked THEN "COMPLETE" ELSE "FAILED"

\* The offset is the gap between the terminal's newest tick and UTC, accepted when
\* it is near a multiple of half an hour, and kept for the life of the gateway.
RawOffset == feed[Len(feed)].time - clock
Plausible == feed # <<>> /\ RawOffset % HalfHour = 0 /\ RawOffset \in -MaxOffset..MaxOffset
ClockOffset == IF reader.offset # None THEN reader.offset ELSE RawOffset
ClockOffsetKnown == reader.offset # None \/ Plausible

ToUtc(time) == time - ClockOffset

\* A mutant: after the newest tick stored, not from it.
AfterCursor == IF reader.cursor # None THEN reader.cursor + 1 ELSE clock - Lookback

\* ticks(): the first TickBatch ticks from `since`, which is shifted to the server's clock.
Since == IF reader.cursor # None THEN reader.cursor ELSE clock - Lookback

Ticks ==
    LET from == {i \in DOMAIN feed : feed[i].time >= Since + ClockOffset}
    IN {i \in from : Cardinality({j \in from : j < i}) < TickBatch}

\* bars(): of the last BarCount bars, those whose interval and settle buffer are over.
Window ==
    {o \in RawOpens : Cardinality({p \in RawOpens : p > o}) < BarCount}

\* A mutant: without the settle buffer.
ClosedBars == {o \in Window : ToUtc(o) + Interval <= clock}

Bars == {o \in Window : ToUtc(o) + Interval + Settle <= clock}

MissingIntervals(previous, open) == Max({0, (open - previous) \div Interval - 1})

\* normalize_bars(): a bar after missing intervals is GAPPED.
NormalizeBars(delivered) ==
    [u \in {ToUtc(o) : o \in delivered} |->
        LET earlier == {t \in {ToUtc(p) : p \in delivered} : t < u}
        IN [volume |-> RawVolume(u + ClockOffset),
            quality |-> IF earlier # {} /\ MissingIntervals(Max(earlier), u) > 0
                        THEN "GAPPED" ELSE "GOOD"]]

------------------------------------------------------------------------------
(* The stores                                                              *)

\* record_ticks(): the identity is the content, so a tick read again is no new row.
TickFromRaw(i) == [i |-> i, at |-> ToUtc(feed[i].time)]

RecordTicks(read) == ticks' = ticks \cup {TickFromRaw(i) : i \in read}

\* record_bars(): one transaction; a bar stored with other values raises, and then
\* nothing of the batch stays.
Unchanged(new) == \A u \in DOMAIN new \cap DOMAIN bars : bars[u].volume = new[u].volume

RecordBars(new) ==
    bars' = [u \in DOMAIN bars \cup DOMAIN new |-> IF u \in DOMAIN bars THEN bars[u] ELSE new[u]]

\* BrokerStateStore.record(): the account row and its children in one transaction.
RecordSnapshot(row) == snapshot' = row

\* InstrumentSpecStore.record(): keyed by the version, which leaves the tick value
\* and the time of the observation out; a version already stored stays as it is.
RecordSpec(spec) ==
    IF \E s \in specs : s.version = spec.version THEN specs' = specs ELSE specs' = specs \cup {spec}

\* What a specification says, without the time it was captured.
Terms(spec) == <<spec.version, spec.tickValue>>

\* InstrumentSpecStore.latest()
LatestSpec == CHOOSE s \in specs : \A t \in specs : t.captured <= s.captured

------------------------------------------------------------------------------
(* The process                                                             *)

Off == [at |-> "off"]

NewReader ==
    [at |-> "sleep", status |-> "DISCONNECTED", gateway |-> FALSE, offset |-> None,
     cursor |-> None, from |-> None, now |-> None, lastBar |-> None, margin |-> None,
     reconnectAt |-> None, capturedAt |-> None, heartbeat |-> None,
     next |-> None]

At(step) == reader.at = step

\* main(): load, build and start to poll.
Start ==
    /\ At("off")
    /\ reader' = NewReader
    /\ UNCHANGED <<market, server, linked, tables, file, history, faults>>

\* poll_once() of a reader without a gateway connects first; one with a gateway reads.
Connecting == At("sleep") /\ ~reader.gateway
Reading == At("ticks") \/ (At("sleep") /\ reader.gateway)

ConnectFails ==
    /\ Connecting
    /\ faults < MaxFaults /\ faults' = faults + 1
    /\ linked' = FALSE
    /\ reader' = [reader EXCEPT !.at = "write", !.status = "DISCONNECTED", !.reconnectAt = clock]
    /\ UNCHANGED <<market, server, tables, file, history>>

\* account(), instrument() or the margin mode refuse what the terminal reports: sticky.
\* The margin mode is compared with the first one read; a read that fails is None.
RevalidationFails(margin) ==
    \/ ~VerifyAccount
    \/ ~ResolveSymbol
    \/ reader.margin # None /\ margin # None /\ margin # reader.margin

Refuse(margin) ==
    /\ Connecting
    /\ RevalidationFails(margin)
    /\ linked' = TRUE
    /\ reader' = [reader EXCEPT !.at = "write", !.status = "UNHEALTHY", !.reconnectAt = clock]
    /\ UNCHANGED <<market, server, tables, file, history, faults>>

\* A new gateway knows no offset yet.  The specification is stored best-effort.
Reconnect(margin, unstored) ==
    /\ Connecting
    /\ ~RevalidationFails(margin)
    /\ linked' = TRUE
    /\ LET lost == unstored + (IF margin = None THEN 1 ELSE 0)
       IN /\ faults + lost <= MaxFaults /\ faults' = faults + lost
          /\ observed' = IF unstored = 1 THEN observed ELSE Terms(Instrument)
          /\ IF unstored = 1 THEN UNCHANGED specs ELSE RecordSpec(Instrument)
    /\ reader' = [reader EXCEPT !.at = "account", !.next = "ticks", !.status = "HEALTHY",
                                !.gateway = TRUE, !.offset = None, !.reconnectAt = clock,
                                !.margin = IF @ = None THEN margin ELSE @]
    /\ UNCHANGED <<market, server, ticks, bars, snapshot, file, polled, mistimed, raised>>

\* After a capture, or instead of one, the poll goes on.
Continue(r) ==
    [r EXCEPT !.at = r.next, !.next = None]

\* capture_broker_state(): the account is read and verified first ...
CaptureAccount ==
    /\ At("account")
    /\ reader' = IF linked /\ VerifyAccount
                 THEN [reader EXCEPT !.at = "book"]
                 ELSE Continue(reader)
    /\ UNCHANGED <<market, server, linked, tables, file, history, faults>>

\* ... then positions and orders, each of which may fail by itself.  The opening time
\* of a position is converted to UTC, which measures the offset if it is not known yet.
CaptureBook ==
    /\ At("book")
    /\ ~linked \/ ~server.open \/ ClockOffsetKnown
    /\ RecordSnapshot([account |-> "demo", bookOf |-> server.account,
                       positions |-> PositionSetState, orders |-> PendingOrderSetState])
    /\ reader' = Continue([reader EXCEPT !.capturedAt = clock,
                              !.offset = IF linked /\ server.open THEN ClockOffset ELSE @])
    /\ UNCHANGED <<market, server, linked, ticks, bars, specs, file, history, faults>>

\* The conversion raises ClockOffsetUnavailableError, which no handler around
\* _reconnect() catches.
CaptureRaises ==
    /\ At("book")
    /\ linked /\ server.open /\ ~ClockOffsetKnown
    /\ raised' = TRUE
    /\ reader' = Off
    /\ UNCHANGED <<market, server, linked, tables, file, observed, polled, mistimed, faults>>

\* A mutant: the gateway of a lost connection is kept.
KeptDisconnected == [reader EXCEPT !.at = "write", !.status = "DISCONNECTED", !.now = None]

\* Mt5CallFailedError while reading: the gateway is given up.
Disconnected ==
    [reader EXCEPT !.at = "write", !.status = "DISCONNECTED", !.gateway = FALSE, !.offset = None,
                     !.now = None]

ReadFails ==
    /\ Reading \/ At("bars")
    /\ ~linked
    /\ reader' = Disconnected
    /\ UNCHANGED <<market, server, linked, tables, file, history, faults>>

\* ClockOffsetUnavailableError: the gateway is kept and tried again.
OffsetUnavailable ==
    /\ Reading
    /\ linked /\ ~ClockOffsetKnown
    /\ reader' = [reader EXCEPT !.at = "write", !.status = "DISCONNECTED"]
    /\ UNCHANGED <<market, server, linked, tables, file, history, faults>>

Mistimed == \E i \in DOMAIN feed : ToUtc(feed[i].time) # feed[i].at

\* _read_and_persist(), first half
ReadTicks ==
    /\ Reading
    /\ linked /\ ClockOffsetKnown
    /\ RecordTicks(Ticks)
    /\ LET newest == Max({ToUtc(feed[i].time) : i \in Ticks})
           moved == [reader EXCEPT !.at = "bars", !.now = clock, !.offset = ClockOffset]
       IN reader' = IF Ticks = {} THEN moved
                    ELSE [moved EXCEPT !.cursor = IF @ = None THEN newest ELSE Max({@, newest}),
                                       !.from = IF reader.cursor = None THEN Since ELSE @]
    /\ mistimed' = (mistimed \/ Mistimed)
    /\ UNCHANGED <<market, server, linked, bars, specs, snapshot, file, observed, polled, raised, faults>>

\* _read_and_persist(), second half: staleness is judged by the time the read began.
Stale(r) ==
    LET reference == CHOOSE t \in {r.cursor, r.lastBar, r.reconnectAt} :
                        \/ t # None /\ t = r.cursor
                        \/ r.cursor = None /\ t # None /\ t = r.lastBar
                        \/ r.cursor = None /\ r.lastBar = None /\ t = r.reconnectAt
    IN r.now - reference > StaleAfter

CaptureDue(r) == r.capturedAt = None \/ r.now - r.capturedAt >= StateInterval

ReadBars ==
    /\ At("bars")
    /\ linked
    /\ LET new == NormalizeBars(Bars)
       IN /\ Unchanged(new)
          /\ RecordBars(new)
          /\ LET seen == [reader EXCEPT !.lastBar = IF new = <<>> THEN @ ELSE Max(DOMAIN new)]
             IN reader' = [seen EXCEPT !.status = IF Stale(seen) THEN "STALE" ELSE "HEALTHY",
                                       !.at = IF CaptureDue(seen) THEN "account" ELSE "write",
                                       !.next = IF CaptureDue(seen) THEN "write" ELSE None,
                                       !.now = None]
    /\ mistimed' = (mistimed \/ Mistimed)
    /\ UNCHANGED <<market, server, linked, ticks, specs, snapshot, file, observed, polled, raised, faults>>

\* JournalIntegrityError: sticky, and the ticks of this poll are already stored.
DataConflict ==
    /\ At("bars")
    /\ linked
    /\ ~Unchanged(NormalizeBars(Bars))
    /\ reader' = [reader EXCEPT !.at = "write", !.status = "UNHEALTHY", !.now = None]
    /\ UNCHANGED <<market, server, linked, tables, file, history, faults>>

\* The heartbeat is stamped at the end of every poll; the file is replaced, or the
\* write is skipped after three failures.  An unhealthy reader polls no more.
HealthFile(r) == [status |-> r.status, heartbeat |-> r.heartbeat]

EndPoll ==
    /\ At("write")
    /\ polled' = clock
    /\ LET done == [reader EXCEPT !.heartbeat = clock,
                                  !.at = IF reader.status = "UNHEALTHY" THEN "halted" ELSE "sleep"]
       IN /\ reader' = done
          /\ \/ file' = HealthFile(done) /\ UNCHANGED faults
             \/ faults < MaxFaults /\ faults' = faults + 1 /\ UNCHANGED file
    /\ UNCHANGED <<market, server, linked, tables, observed, mistimed, raised>>

\* acknowledge(): try again from a new connection.
Acknowledge ==
    /\ At("halted")
    /\ reader' = [reader EXCEPT !.at = "sleep", !.status = "DISCONNECTED", !.gateway = FALSE,
                                !.offset = None]
    /\ UNCHANGED <<market, server, linked, tables, file, history, faults>>

\* The loop ends on UNHEALTHY or Ctrl+C: the last health is written once more.
Stop ==
    /\ reader.at \in {"halted", "sleep"}
    /\ reader.heartbeat # None
    /\ faults < MaxFaults /\ faults' = faults + 1
    /\ file' = HealthFile(reader)
    /\ reader' = Off
    /\ UNCHANGED <<market, server, linked, tables, history>>

Crash ==
    /\ ~At("off")
    /\ faults < MaxFaults /\ faults' = faults + 1
    /\ reader' = Off
    /\ UNCHANGED <<market, server, linked, tables, file, history>>

------------------------------------------------------------------------------
(* The dashboard (dashboard/state.py)                                      *)

\* A mutant: the last status is believed for ever.
HeartbeatIgnored == FALSE

HeartbeatExpired == clock - file.heartbeat > HeartbeatMaxAge

Connectivity ==
    IF file = None THEN "UNKNOWN"
    ELSE IF HeartbeatExpired \/ file.status \in {"DISCONNECTED", "UNHEALTHY"} THEN "DISCONNECTED"
    ELSE "CONNECTED"

------------------------------------------------------------------------------
Init ==
    /\ clock = 0 /\ feed = <<>> /\ late = {} /\ revised = {}
    /\ server = [account |-> "demo", margin |-> "hedging", symbol |-> TRUE, open |-> FALSE,
                 version |-> "v1", tickValue |-> 1, offset |-> 0]
    /\ linked = FALSE
    /\ reader = Off
    /\ ticks = {} /\ bars = <<>> /\ specs = {} /\ snapshot = None /\ file = None
    /\ observed = None /\ polled = None /\ mistimed = FALSE /\ raised = FALSE
    /\ faults = 0

ReaderStep ==
    \/ \E margin \in {server.margin, None} : Refuse(margin)
    \/ \E margin \in {server.margin, None}, unstored \in 0..1 : Reconnect(margin, unstored)
    \/ CaptureAccount \/ CaptureBook \/ CaptureRaises
    \/ ReadFails \/ OffsetUnavailable \/ ReadTicks \/ ReadBars \/ DataConflict \/ EndPoll

Next ==
    \/ ReaderStep \/ Start \/ ConnectFails \/ Acknowledge \/ Stop \/ Crash
    \/ Tick \/ TickArrives \/ LinkDrops
    \/ \E o \in RawOpens : LateTick(o)
    \/ \E s \in ServerStates : TerminalChanges(s)

\* A started reader goes on polling; the terminal's failures are bounded by faults.
Spec == Init /\ [][Next]_vars /\ WF_vars(ReaderStep)
------------------------------------------------------------------------------
(* Properties                                                              *)

\* A stored bar has the values the broker ended up with for that interval: no poll
\* stores a bar that is still forming or still receives late ticks
\* (ReadOnlyMt5Gateway.bars).  Left out are bars the broker revises after the
\* settle buffer or reopens, and readers whose offset was not the broker's.
BarsAreFinal ==
    mistimed \/ \A u \in DOMAIN bars :
        \E i \in DOMAIN feed :
            LET o == BucketStart(feed[i].time)
            IN /\ BucketStart(feed[i].at) = u
               /\ bars[u].volume = RawVolume(o) \/ o \in revised

\* Whatever batches a process reads, and whenever a tick arrives between two polls,
\* no tick between its first read and its cursor is missing in the table
\* (LiveReader._read_and_persist).
TicksAreContiguous ==
    At("off") \/ mistimed \/ reader.from = None \/
        \A i \in DOMAIN feed :
            feed[i].at \in reader.from..(reader.cursor - 1) => \E t \in ticks : t.i = i

\* The dashboard says CONNECTED only while polls end: whatever a dead or stuck
\* process wrote last, it is disbelieved after heartbeat_max_age.
ShownConnectedIsAlive ==
    Connectivity = "CONNECTED" => clock - polled <= HeartbeatMaxAge

\* A running reader catches up with the market again and again, through lost
\* connections and failed polls, unless it is halted or cannot tell the broker's
\* clock (run_forever, poll_once).
Stored(i) == \E t \in ticks : t.i = i
Horizon == IF reader.from # None THEN reader.from ELSE clock - Lookback
CatchesUp ==
    []<>(\/ At("off") \/ At("halted") \/ mistimed \/ ~ClockOffsetKnown
         \/ \A i \in DOMAIN feed : feed[i].at < Horizon \/ Stored(i))

\* poll_once() "never raises for an ordinary MT5 failure".
PollNeverRaises == ~raised

\* latest() is "the most recently observed spec".
LatestIsLastObserved == observed # None => Terms(LatestSpec) = observed
===============================================================================
