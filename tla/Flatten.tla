------------------------------- MODULE Flatten -------------------------------
(***************************************************************************)
(* The automatic weekly flatten: ExecutionOrchestrator.flatten_once()      *)
(* (application/execution.py) over flatten_requests and flatten_events     *)
(* (persistence/flatten.py).                                               *)
(*                                                                         *)
(* One pass claims the day's occurrence, halts, asks the gate and commits  *)
(* to a plan naming every open ticket.  A later pass closes what is still  *)
(* open of the plan, looks again, and records the outcome or leaves the    *)
(* commitment for the next pass.  Workers interleave and die between any   *)
(* two reads or writes; positions open and close under their hands.        *)
(*                                                                         *)
(* Time is a finite calendar of instants, each with its trading day, its   *)
(* trading week and its session phase.  A pass reads the clock once.       *)
(***************************************************************************)
EXTENDS Naturals, Sequences, FiniteSets

CONSTANTS
    Workers,
    Tickets,        \* position tickets the broker will ever hand out
    Days,           \* trading days, the key of an occurrence
    Weeks,
    Calendar,       \* sequence of [day, week, phase]
    Policies,       \* fingerprints of the intraday policy
    PolicyOf,       \* worker -> the policy it was configured with
    Enabled,        \* workers with flatten_submission_enabled
    CanClose,       \* those of them with a FlattenCloseSink
    ReadsMayFail,   \* TRUE: positions() may fail, the book is then FAILED
    MaxFaults,      \* bound on crashes and exceptions, together
    None

Phases == {"OPEN", "NO_NEW_ENTRIES", "FLATTEN_REQUIRED", "CLOSED"}

Instants == [day : Days, week : Weeks, phase : Phases]

ASSUME FlattenAssumption ==
    /\ Calendar \in Seq(Instants) /\ Len(Calendar) > 0
    /\ PolicyOf \in [Workers -> Policies]
    /\ CanClose \subseteq Enabled /\ Enabled \subseteq Workers
    /\ ReadsMayFail \in BOOLEAN
    /\ MaxFaults \in Nat
    /\ None \notin Policies /\ None \notin Weeks

VARIABLES
    now,        \* the present instant, an index of Calendar
    claims,     \* flatten_requests: day -> policy fingerprint, or None
    events,     \* flatten_events: day -> rows in sequence order
    latch,      \* the durable safety state
    halt,       \* worker -> its KillSwitch in memory
    proc,       \* worker -> where it is in flatten_once(), and its locals
    book,       \* broker: ticket -> its fate
    opened,     \* broker: ticket -> the week of opened_at_utc, or None
    asked,      \* tickets some close_position() call has named
    faults

broker == <<book, opened>>
vars == <<now, claims, events, latch, halt, proc, broker, asked, faults>>

------------------------------------------------------------------------------
EventType == {"FLATTEN_REQUEST_CLAIMED", "FLATTEN_GATE_BLOCKED",
              "FLATTEN_GATE_PASSED", "FLATTEN_SUBMISSION_STARTED",
              "FLATTEN_OUTCOME_RESOLVED"}

\* targets: the plan of a commitment.  closed: an outcome's closed_tickets.
Events == [type : EventType, targets : SUBSET Tickets, closed : SUBSET Tickets]

Plain(type) == [type |-> type, targets |-> {}, closed |-> {}]

Has(history, type) == \E i \in DOMAIN history : history[i].type = type

LastIs(history, type) == history # <<>> /\ history[Len(history)].type = type

\* flatten_event_id_for(): one row per (occurrence, type).  A second append
\* converges or raises, and either way leaves the table as it was.
Appended(history, event) ==
    IF Has(history, event.type) THEN history ELSE Append(history, event)

\* A kill switch is RUNNING, or halted for a reason the flatten gate
\* tolerates, or for another one.
Halts == {"RUNNING", "TOLERATED", "OTHER"}

Idle == [at |-> "idle", t |-> 1, saw |-> {}, complete |-> TRUE,
         early |-> FALSE, todo |-> {}, tried |-> FALSE]

At(w, label) == proc[w].at = label

Goto(w, label) == proc' = [proc EXCEPT ![w].at = label]

Done(w) == proc' = [proc EXCEPT ![w] = Idle]

\* The instant of the pass's one clock read.
When(w) == Calendar[proc[w].t]

Day(w) == When(w).day

Record(d, event) == events' = [events EXCEPT ![d] = Appended(@, event)]

\* The targets of the day's commitment, from its persisted payload.
Plan(d) == UNION {events[d][i].targets : i \in DOMAIN events[d]}

MarketOpen == Calendar[now].phase # "CLOSED"

Held == {x \in Tickets : book[x] \in {"open", "closing"}}

RequiresFlat(instant) == instant.phase \in {"FLATTEN_REQUIRED", "CLOSED"}

\* has_crossed_weekly_close() of any position the pass saw.
CrossedWeeklyClose(w) == \E x \in proc[w].saw : opened[x] # When(w).week

\* Every _trip_* is "if not is_halted: trip()": the store, then memory.
Trip(w) ==
    /\ latch' = IF halt[w] = "RUNNING" THEN "TOLERATED" ELSE latch
    /\ halt' = [halt EXCEPT ![w] = IF @ = "RUNNING" THEN "TOLERATED" ELSE @]

NoTrip == UNCHANGED <<latch, halt>>

------------------------------------------------------------------------------
(* The clock and the broker.                                               *)

Tick ==
    /\ now < Len(Calendar)
    /\ now' = now + 1
    /\ UNCHANGED <<claims, events, latch, halt, proc, broker, asked, faults>>

BrokerMoves(x, from, to) ==
    /\ book[x] = from /\ MarketOpen
    /\ book' = [book EXCEPT ![x] = to]
    /\ UNCHANGED <<now, claims, events, latch, halt, proc, asked, faults>>

PositionOpens(x) ==
    /\ BrokerMoves(x, "unopened", "open")
    /\ opened' = [opened EXCEPT ![x] = Calendar[now].week]

\* By its stop or its target, or by the operator's hand.
PositionCloses(x) == BrokerMoves(x, "open", "closed") /\ UNCHANGED opened

\* A close whose answer was lost takes effect late, or not at all.
CloseExecutes(x) == BrokerMoves(x, "closing", "closed") /\ UNCHANGED opened

CloseDropped(x) == BrokerMoves(x, "closing", "open") /\ UNCHANGED opened

BrokerStep(x) ==
    PositionOpens(x) \/ PositionCloses(x) \/ CloseExecutes(x) \/ CloseDropped(x)

------------------------------------------------------------------------------
(* flatten_once(): durable history first, then the broker.                 *)

\* Mutant: any occurrence already on record is left alone.
StartPassOnce(w) ==
    /\ At(w, "idle")
    /\ IF events[Calendar[now].day] = <<>>
       THEN proc' = [proc EXCEPT ![w] = [Idle EXCEPT !.t = now, !.at = "observe"]]
       ELSE UNCHANGED proc
    /\ UNCHANGED <<events, latch, halt>>

\* An occurrence already blocked, resolved or stopped short of a commitment
\* is left alone.
StartPass(w) ==
    /\ At(w, "idle")
    /\ LET history == events[Calendar[now].day] IN
       IF history = <<>> \/ LastIs(history, "FLATTEN_SUBMISSION_STARTED")
       THEN proc' = [proc EXCEPT ![w] =
                [Idle EXCEPT !.t = now,
                             !.at = IF history = <<>> THEN "observe" ELSE "observeCommitted"]]
       ELSE UNCHANGED proc
    /\ UNCHANGED <<events, latch, halt>>

\* capture_broker_state(): a failed positions() is an empty tuple, FAILED.
Capture(w, label) ==
    \E complete \in IF ReadsMayFail THEN BOOLEAN ELSE {TRUE} :
        proc' = [proc EXCEPT ![w].saw = IF complete THEN Held ELSE {},
                             ![w].complete = complete, ![w].early = FALSE, ![w].at = label]

Observe(w) ==
    /\ \/ At(w, "observe") /\ Capture(w, "decide")
       \/ At(w, "observeCommitted") /\ Capture(w, "tripCommitted")
       \/ At(w, "reobserve") /\ Capture(w, "conclude")
    /\ UNCHANGED <<events, latch, halt>>

\* FLATTEN_STATE_UNKNOWN trips before the emptiness shortcut.
Decide(w) ==
    /\ At(w, "decide")
    /\ IF When(w).phase = "FLATTEN_REQUIRED" /\ ~proc[w].complete
       THEN Trip(w) ELSE NoTrip
    /\ IF proc[w].saw # {} /\ (RequiresFlat(When(w)) \/ CrossedWeeklyClose(w))
       THEN Goto(w, "claim") ELSE Done(w)
    /\ UNCHANGED events

\* A different policy under the same key raises out of the pass.
Claim(w) ==
    /\ At(w, "claim")
    /\ CASE claims[Day(w)] = None ->
              /\ claims' = [claims EXCEPT ![Day(w)] = PolicyOf[w]]
              /\ Goto(w, "tripWon")
         [] claims[Day(w)] = PolicyOf[w] -> Goto(w, "tripLost") /\ UNCHANGED claims
         [] OTHER -> Done(w) /\ UNCHANGED claims
    /\ UNCHANGED <<now, events, latch, halt, broker, asked, faults>>

\* Mutant: only a pass that finds a commitment halts.
TripOnlyCommitted(w) ==
    /\ \/ At(w, "tripWon") /\ Goto(w, "append") /\ NoTrip
       \/ At(w, "tripLost") /\ Goto(w, "readEvents") /\ NoTrip
       \/ At(w, "tripCommitted") /\ Goto(w, "attempt")
          /\ IF proc[w].saw = {} THEN NoTrip ELSE Trip(w)
    /\ UNCHANGED events

TripOvernightExposure(w) ==
    /\ \/ At(w, "tripWon") /\ Goto(w, "append")
       \/ At(w, "tripLost") /\ Goto(w, "readEvents")
       \/ At(w, "tripCommitted") /\ Goto(w, "attempt")
    /\ IF proc[w].saw = {} THEN NoTrip ELSE Trip(w)
    /\ UNCHANGED events

------------------------------------------------------------------------------
(* _commit_flatten()                                                       *)

AppendClaimed(w) ==
    /\ At(w, "append")
    /\ Record(Day(w), Plain("FLATTEN_REQUEST_CLAIMED"))
    /\ Goto(w, "gate")
    /\ NoTrip

\* Account, terminal, reconciliation and approval legs may each close it.
GateOpen(w) == w \in Enabled /\ halt[w] # "OTHER" /\ proc[w].complete

FlattenGate(w) ==
    /\ At(w, "gate")
    /\ \/ /\ GateOpen(w)
          /\ Record(Day(w), Plain("FLATTEN_GATE_PASSED"))
          /\ Goto(w, "start")
       \/ Record(Day(w), Plain("FLATTEN_GATE_BLOCKED")) /\ Done(w)
    /\ NoTrip

\* build_flatten_plan(): one instruction for every position the pass saw.
StartFlatten(w) ==
    /\ At(w, "start")
    /\ Record(Day(w), [Plain("FLATTEN_SUBMISSION_STARTED") EXCEPT !.targets = proc[w].saw])
    /\ Done(w)
    /\ NoTrip

------------------------------------------------------------------------------
(* _resolve_flatten_outcome() and _attempt_and_resolve_flatten()           *)

\* The loser of the claim reads the history again, not the broker: it goes on
\* with a plan made after it looked.
ReadEvents(w) ==
    /\ At(w, "readEvents")
    /\ IF LastIs(events[Day(w)], "FLATTEN_SUBMISSION_STARTED")
       THEN proc' = [proc EXCEPT ![w].at = "attempt", ![w].early = TRUE] ELSE Done(w)
    /\ UNCHANGED <<events, latch, halt>>

StillOpen(w) == Plan(Day(w)) \cap proc[w].saw

\* Mutant: everything seen open is closed, not what the plan names.
AttemptWholeBook(w) ==
    /\ At(w, "attempt")
    /\ IF proc[w].saw # {} /\ w \in CanClose
       THEN proc' = [proc EXCEPT ![w].at = "closing",
                                 ![w].todo = proc[w].saw, ![w].tried = TRUE]
       ELSE Goto(w, "conclude")
    /\ UNCHANGED <<events, latch, halt>>

Attempt(w) ==
    /\ At(w, "attempt")
    /\ IF StillOpen(w) # {} /\ w \in CanClose
       THEN proc' = [proc EXCEPT ![w].at = "closing",
                                 ![w].todo = StillOpen(w), ![w].tried = TRUE]
       ELSE Goto(w, "conclude")
    /\ UNCHANGED <<events, latch, halt>>

\* Mutant: the answer to the close is trusted, the broker not read again.
ClosePositionTrusted(w, x, fate) ==
    /\ At(w, "closing") /\ x \in proc[w].todo
    /\ fate \in {"open", "closed", "closing"}
    /\ book' = IF book[x] = "open" /\ MarketOpen
               THEN [book EXCEPT ![x] = fate] ELSE book
    /\ asked' = asked \cup {x}
    /\ proc' = [proc EXCEPT ![w].todo = @ \ {x}, ![w].saw = @ \ {x},
                            ![w].at = IF proc[w].todo = {x} THEN "conclude" ELSE @]
    /\ UNCHANGED <<now, claims, events, latch, halt, opened, faults>>

\* close_position(): filled; rejected, partially filled or failed; or its
\* answer lost.  An exception is swallowed and the next ticket tried.
ClosePosition(w, x, fate) ==
    /\ At(w, "closing") /\ x \in proc[w].todo
    /\ fate \in {"open", "closed", "closing"}
    /\ book' = IF book[x] = "open" /\ MarketOpen
               THEN [book EXCEPT ![x] = fate] ELSE book
    /\ asked' = asked \cup {x}
    /\ proc' = [proc EXCEPT ![w].todo = @ \ {x},
                            ![w].at = IF proc[w].todo = {x} THEN "reobserve" ELSE @]
    /\ UNCHANGED <<now, claims, events, latch, halt, opened, faults>>

\* A residual after a real attempt halts and leaves the commitment open.
Conclude(w) ==
    /\ At(w, "conclude")
    /\ IF StillOpen(w) # {} /\ proc[w].tried
       THEN Trip(w) /\ UNCHANGED events
       ELSE /\ NoTrip
            /\ Record(Day(w), [Plain("FLATTEN_OUTCOME_RESOLVED") EXCEPT
                                 !.closed = Plan(Day(w)) \ proc[w].saw])
    /\ Done(w)

------------------------------------------------------------------------------
LocalStep(w) ==
    /\ \/ StartPass(w) \/ Observe(w) \/ Decide(w) \/ TripOvernightExposure(w)
       \/ AppendClaimed(w) \/ FlattenGate(w) \/ StartFlatten(w)
       \/ ReadEvents(w) \/ Attempt(w) \/ Conclude(w)
    /\ UNCHANGED <<now, claims, broker, asked, faults>>

CloseStep(w) ==
    \E x \in Tickets, fate \in {"open", "closed", "closing"} : ClosePosition(w, x, fate)

Step(w) == LocalStep(w) \/ Claim(w) \/ CloseStep(w)

\* Another producer (drawdown, reconciliation, an operator) halts.
OtherHalt(w) ==
    /\ halt[w] # "OTHER"
    /\ latch' = "OTHER"
    /\ halt' = [halt EXCEPT ![w] = "OTHER"]
    /\ UNCHANGED <<now, claims, events, proc, broker, asked, faults>>

\* The pass dies, of an exception or with its process; a new process starts
\* from the durable safety state.
Raise(w) ==
    /\ ~At(w, "idle") /\ faults < MaxFaults
    /\ faults' = faults + 1
    /\ Done(w)
    /\ UNCHANGED <<now, claims, events, latch, halt, broker, asked>>

Crash(w) ==
    /\ faults < MaxFaults
    /\ faults' = faults + 1
    /\ Done(w)
    /\ halt' = [halt EXCEPT ![w] = latch]
    /\ UNCHANGED <<now, claims, events, latch, broker, asked>>

Init ==
    /\ now = 1
    /\ claims = [d \in Days |-> None]
    /\ events = [d \in Days |-> <<>>]
    /\ latch = "RUNNING"
    /\ halt = [w \in Workers |-> "RUNNING"]
    /\ proc = [w \in Workers |-> Idle]
    /\ book = [x \in Tickets |-> "unopened"]
    /\ opened = [x \in Tickets |-> None]
    /\ asked = {}
    /\ faults = 0

Next ==
    \/ Tick
    \/ \E x \in Tickets : BrokerStep(x)
    \/ \E w \in Workers : Step(w) \/ OtherHalt(w) \/ Raise(w) \/ Crash(w)

Spec == Init /\ [][Next]_vars

\* flatten_once() is called at the top of every run_once(); a broker that is
\* read, or asked to close a position, again and again eventually complies.
Fairness ==
    /\ \A w \in Workers :
        /\ WF_vars(Step(w))
        /\ SF_vars(Observe(w) /\ proc'[w].complete
                   /\ UNCHANGED <<now, claims, broker, asked, faults>>)
        /\ \A x \in Tickets : SF_vars(book[x] = "open" /\ ClosePosition(w, x, "closed"))
    /\ \A x \in Tickets : SF_vars(CloseExecutes(x))
    /\ WF_vars(Tick)

FairSpec == Spec /\ Fairness

------------------------------------------------------------------------------
Labels == {"idle", "observe", "observeCommitted", "decide", "claim", "tripWon",
           "tripLost", "tripCommitted", "append", "gate", "start",
           "readEvents", "attempt", "closing", "reobserve", "conclude"}

Locals == [at : Labels, t : 1..Len(Calendar), saw : SUBSET Tickets,
           complete : BOOLEAN, early : BOOLEAN, todo : SUBSET Tickets,
           tried : BOOLEAN]

\* The values every variable takes; a pass's clock read is never in the
\* future.
TypeOK ==
    /\ now \in 1..Len(Calendar)
    /\ claims \in [Days -> Policies \cup {None}]
    /\ events \in [Days -> Seq(Events)]
    /\ latch \in Halts
    /\ halt \in [Workers -> Halts]
    /\ proc \in [Workers -> Locals]
    /\ \A w \in Workers : proc[w].t <= now
    /\ book \in [Tickets -> {"unopened", "open", "closing", "closed"}]
    /\ opened \in [Tickets -> Weeks \cup {None}]
    /\ asked \subseteq Tickets
    /\ faults \in 0..MaxFaults

\* close_position() is only ever called for a ticket that a durable plan
\* names: the commitment comes before the side effect.
OnlyCommittedTicketsClosed == \A x \in asked : \E d \in Days : x \in Plan(d)

\* An occurrence on record means new orders are durably halted: whoever wrote
\* its first event tripped the switch, or found it tripped, before that.
OccurrenceOnRecordHalts ==
    \A d \in Days : events[d] # <<>> => latch # "RUNNING"

\* No position is closed by the flatten before some instant required the
\* account to be flat.
NoCloseBeforeTheDeadline ==
    asked # {} => \E i \in 1..now : RequiresFlat(Calendar[i])

\* What an outcome records as closed is closed at the broker; later expected
\* exposure drops those tickets (application/expected_state.py).
ClosedTicketsAreClosed ==
    \A d \in Days : \A i \in DOMAIN events[d] :
        \A x \in events[d][i].closed : book[x] = "closed"

ClosedBy(d) == UNION {events[d][i].closed : i \in DOMAIN events[d]}

\* An outcome names a ticket that is not closed only when the pass that writes
\* it could not see: its last look at the broker failed, or came before the
\* plan it resolves (execution.py:1273, 1364, 1592-1622).
OnlyBlindPassesAreWrong ==
    [][\A d \in Days : \A x \in ClosedBy(d)' \ ClosedBy(d) :
         book[x] = "closed"
           \/ \E w \in Workers : /\ At(w, "conclude") /\ ~At(w, "conclude")'
                                 /\ ~proc[w].complete \/ proc[w].early]_vars

\* No step rewrites or drops a claim or an event of an occurrence: the first
\* claim, the first plan and the first outcome stand.
HistoryOnlyGrows ==
    [][\A d \in Days :
         /\ claims[d] # None => claims'[d] = claims[d]
         /\ Len(events'[d]) >= Len(events[d])
         /\ \A i \in DOMAIN events[d] : events'[d][i] = events[d][i]]_vars

\* A position held past its deadline does not go unnoticed: it is closed, or
\* new orders are durably halted.
OverdueExposureHalts ==
    \A x \in Tickets :
        (x \in Held /\ RequiresFlat(Calendar[now])) ~> (x \notin Held \/ latch # "RUNNING")

\* The commitment of the day is retried until its outcome is on record or the
\* day is over.
TodaysCommitmentIsResolved ==
    \A d \in Days :
        Has(events[d], "FLATTEN_SUBMISSION_STARTED")
            ~> (Has(events[d], "FLATTEN_OUTCOME_RESOLVED") \/ Calendar[now].day # d)

\* A committed flatten is retried until its outcome is on record.
CommitmentIsResolved ==
    \A d \in Days :
        Has(events[d], "FLATTEN_SUBMISSION_STARTED")
            ~> Has(events[d], "FLATTEN_OUTCOME_RESOLVED")

------------------------------------------------------------------------------
(* The inductive invariant behind the safety properties.                   *)

\* Labels of a pass that saw a position and asked for the claim.
Claiming == {"claim", "tripWon", "tripLost"}

Committing == {"append", "gate", "start"}

Resolving == {"observeCommitted", "tripCommitted", "attempt", "closing",
              "reobserve", "conclude"}

SawPositions ==
    \A w \in Workers : proc[w].at \in Claiming => proc[w].saw # {}

HaltIsDurable ==
    \A w \in Workers : halt[w] # "RUNNING" => latch # "RUNNING"

CommittingIsHalted ==
    \A w \in Workers : proc[w].at \in Committing => latch # "RUNNING"

ResolvingHasHistory ==
    \A w \in Workers : proc[w].at \in Resolving => events[Day(w)] # <<>>

ClosingIsPlanned ==
    \A w \in Workers : proc[w].todo \subseteq Plan(Day(w))

\* The safety properties of the flatten and the facts they rest on.
FlattenInv ==
    /\ TypeOK
    /\ OnlyCommittedTicketsClosed
    /\ OccurrenceOnRecordHalts
    /\ SawPositions
    /\ HaltIsDurable
    /\ CommittingIsHalted
    /\ ResolvingHasHistory
    /\ ClosingIsPlanned

==============================================================================
