---------------------------- MODULE Reconciliation ----------------------------
(***************************************************************************)
(* Post-fill reconciliation (ExecutionOrchestrator.reconcile_once in       *)
(* application/execution.py): what the platform expects at the broker is   *)
(* derived from its own execution and flatten events                       *)
(* (application/expected_state.py), compared with a fresh capture of the   *)
(* broker's book (application/reconciliation.py), and each request that is *)
(* accounted for gets one RECONCILED event, after its protective stop was  *)
(* verified.                                                               *)
(*                                                                         *)
(* A pass reads one history after the other, then the flatten events, then *)
(* positions and orders, then the newest snapshot, whoever recorded it.    *)
(* The entry path, the flatten and the broker go on between any two of     *)
(* them; they are modelled in EntrySubmission and Flatten, and here by     *)
(* what they append and what happens to the book.                          *)
(***************************************************************************)
EXTENDS Naturals, Sequences, FiniteSets

CONSTANTS
    Workers,        \* processes that call reconcile_once()
    Requests,       \* order requests; a request's position has its name as ticket
    Foreign,        \* a ticket the platform never asked for
    None,
    MaxFaults       \* bound on crashes, failed reads and surprises at the broker

ASSUME ReconciliationAssumption ==
    /\ Foreign \notin Requests
    /\ MaxFaults \in Nat

VARIABLES
    events,         \* execution_events of each request, from SUBMISSION_STARTED on
    occurrence,     \* flatten_events of the week's occurrence
    order,          \* what became of each request's order at the broker
    book,           \* every position there was: ticket to the stop the broker
                    \* reports, or "closed"
    hasty,          \* requests whose fate is recorded while their order has none yet
    phantom,        \* open tickets that a flatten recorded closed
    safety,         \* the durable safety state
    halted,         \* each process's KillSwitch
    proc,           \* where each pass is, with its locals
    faults

stores == <<events, occurrence, safety>>
broker == <<order, book>>
past == <<hasty, phantom>>
vars == <<stores, broker, past, halted, proc, faults>>

Tickets == Requests \cup {Foreign}
\* "wrong": none, or at another price.
Stops == {"intended", "wrong"}
Moving == {"sent", "resting"}
Idle == [at |-> "idle"]

Fault == faults < MaxFaults /\ faults' = faults + 1

------------------------------------------------------------------------------
(* The platform's history                                                  *)

\* The commitment carries the approved order.
Started(entry) == [type |-> "SUBMISSION_STARTED", entry |-> entry]
Plain(type) == [type |-> type]
Resolved(tickets, integrity) ==
    [type |-> "AMBIGUOUS_OUTCOME_RESOLVED", tickets |-> tickets, integrity |-> integrity]

\* _EXPOSURE_BY_EVENT, for the events that follow a commitment.
Exposure ==
    [SUBMISSION_STARTED |-> "UNDETERMINED", SUBMITTED |-> "UNDETERMINED", FILLED |-> "UNDETERMINED",
     AMBIGUOUS_OUTCOME_RESOLVED |-> "DETERMINED", REJECTED |-> "DETERMINED",
     RECONCILED |-> "NOT_EXPOSURE_RELEVANT"]

Has(history, type) == \E i \in DOMAIN history : history[i].type = type

LastExposureRelevant(history) ==
    LET relevant == {i \in DOMAIN history : Exposure[history[i].type] # "NOT_EXPOSURE_RELEVANT"}
    IN history[CHOOSE i \in relevant : \A j \in relevant : j <= i]

\* _flatten_removed_and_undetermined(): a commitment is not an outcome.
ClosedByFlatten(flatten) ==
    IF flatten = None \/ flatten.closed = None THEN {} ELSE flatten.closed

FlattenUndetermined(flatten) == flatten # None /\ flatten.closed = None /\ flatten.targets # {}

\* _entry_type_of()
EntryTypeOf(history) ==
    history[CHOOSE i \in DOMAIN history : history[i].type = "SUBMISSION_STARTED"].entry

\* A mutant: a resting order is nothing to record.
StuckOnly(hist, r) == LastExposureRelevant(hist[r]).type = "SUBMISSION_STARTED"

\* The branches of derive_expected_exposure() that append a reason.
IsUndetermined(hist, r) ==
    LET last == LastExposureRelevant(hist[r])
    IN \/ last.type \in {"SUBMISSION_STARTED", "SUBMITTED"}
       \/ /\ last.type = "AMBIGUOUS_OUTCOME_RESOLVED"
          /\ last.integrity \/ (last.tickets # {} /\ EntryTypeOf(hist[r]) # "MARKET")

IsDetermined(hist, r) ==
    LET last == LastExposureRelevant(hist[r])
    IN last.type = "REJECTED" \/ (last.type = "AMBIGUOUS_OUTCOME_RESOLVED" /\ ~last.integrity)

RawMatching(hist, r) ==
    LET last == LastExposureRelevant(hist[r])
    IN IF last.type = "AMBIGUOUS_OUTCOME_RESOLVED" THEN last.tickets ELSE {}

\* `raw_matching` of reconcile_once(): whatever came after it.
AmbiguousMatching(history) ==
    UNION {history[i].tickets : i \in {j \in DOMAIN history : history[j].type = "AMBIGUOUS_OUTCOME_RESOLVED"}}

\* DerivedExposure
DeriveExpectedExposure(hist, flatten) ==
    LET determined == {r \in DOMAIN hist : IsDetermined(hist, r)}
        tickets == [r \in determined |-> RawMatching(hist, r) \ ClosedByFlatten(flatten)]
    IN [determined |-> determined,
        byRequest |-> tickets,
        tickets |-> UNION {tickets[r] : r \in determined},
        undetermined |-> FlattenUndetermined(flatten) \/ \E r \in DOMAIN hist : IsUndetermined(hist, r)]

------------------------------------------------------------------------------
(* The comparison                                                          *)

\* Server, account, currency and leverage; the contract.
AccountMismatches(seen) == "account" \in seen.drift
InstrumentSpecMismatches(seen) == "contract" \in seen.drift

PositionMismatches(seen, exposure) == seen.positions # exposure.tickets

\* No pending order is ever expected.
PendingOrderMismatches(seen) == seen.pending # {}

\* reconcile(): the snapshot is younger than its caller's `now`, so age is no issue here.
Reconcile(seen, exposure) ==
    IF seen.positionSet # "COMPLETE" \/ seen.pendingSet # "COMPLETE" \/ exposure.undetermined
    THEN "UNKNOWN"
    ELSE IF \/ AccountMismatches(seen) \/ PositionMismatches(seen, exposure)
            \/ PendingOrderMismatches(seen) \/ InstrumentSpecMismatches(seen)
    THEN "MISMATCHED" ELSE "MATCHED"

\* verify_protective_stops(): missing and moved stops alike.
ProtectiveStopIssues(stops, attributed) == 
    {t \in attributed : t \notin DOMAIN stops \/ stops[t] # "intended"}

------------------------------------------------------------------------------
(* reconcile_once()                                                        *)

At(w, label) == proc[w].at = label
Goto(w, step) == proc' = [proc EXCEPT ![w] = step]

\* request_ids_with_event(SUBMISSION_STARTED)
Candidates == {r \in Requests : events[r] # <<>>}

Start(w) ==
    /\ At(w, "idle")
    /\ Candidates # {}
    /\ Goto(w, [at |-> "histories", unread |-> Candidates, hist |-> <<>>, moving |-> {}])
    /\ UNCHANGED <<stores, broker, past, halted, faults>>

\* events_for(); `moving` remembers whose order was under way at that moment without an
\* event that had given it a fate.
ReadHistory(w, r) ==
    LET pass == proc[w] IN
    /\ At(w, "histories")
    /\ r \in pass.unread
    /\ Goto(w, [at |-> "histories", unread |-> pass.unread \ {r},
                hist |-> [q \in DOMAIN pass.hist \cup {r} |-> IF q = r THEN events[r] ELSE pass.hist[q]],
                moving |-> IF order[r] \in Moving /\ r \notin hasty THEN pass.moving \cup {r} ELSE pass.moving])
    /\ UNCHANGED <<stores, broker, past, halted, faults>>

Unclear(hist) ==
    {r \in DOMAIN hist : Exposure[LastExposureRelevant(hist[r]).type] = "UNDETERMINED"}

Pending(hist) == {r \in DOMAIN hist : ~Has(hist[r], "RECONCILED")}

\* What the rest of the pass uses of the histories: with something undetermined the
\* verdict is UNKNOWN whatever is seen.  `moving` and `unclear` are for the properties.
Known(hist, moving) ==
    LET exposure == DeriveExpectedExposure(hist, occurrence)
    IN IF exposure.undetermined THEN [exposure |-> [undetermined |-> TRUE]]
       ELSE
       [exposure |-> exposure, moving |-> moving, unclear |-> Unclear(hist),
        raw |-> [r \in Pending(hist) \cap exposure.determined |-> AmbiguousMatching(hist[r])]]

\* With nothing left to reconcile the broker is not read; else the flatten events are.
ReadFlattenHistories(w) ==
    /\ At(w, "histories")
    /\ proc[w].unread = {}
    /\ Goto(w, IF Pending(proc[w].hist) = {} THEN Idle
               ELSE [at |-> "positions", known |-> Known(proc[w].hist, proc[w].moving)])
    /\ UNCHANGED <<stores, broker, past, halted, faults>>

\* capture_broker_state(): positions and orders are read one after the other, and
\* a read that fails is FAILED and empty.
PendingOrders == {r \in Requests : order[r] = "resting"}
Open == {t \in DOMAIN book : book[t] # "closed"}
Positions == [t \in Open |-> book[t]]

ReadPositions(w, ok) ==
    /\ At(w, "positions")
    /\ IF ok THEN UNCHANGED faults ELSE Fault
    /\ Goto(w, [at |-> "orders", known |-> proc[w].known, stops |-> IF ok THEN Positions ELSE <<>>,
                positionSet |-> IF ok THEN "COMPLETE" ELSE "FAILED"])
    /\ UNCHANGED <<stores, broker, past, halted>>

Snapshot(positions, positionSet, pending, pendingSet, drift) ==
    [positions |-> positions, positionSet |-> positionSet, pending |-> pending,
     pendingSet |-> pendingSet, drift |-> drift]

\* BrokerStateStore.record(): the newest row for everyone who is about to compare.
Recorded(steps, row) ==
    [w \in Workers |-> IF steps[w].at = "compare" THEN [steps[w] EXCEPT !.newest = row] ELSE steps[w]]

\* `drift` is what is not as expected, of the account and of the contract.  With an
\* exposure that is undetermined the verdict is UNKNOWN, and nothing is left to do.
ReadPendingAndRecord(w, ok, drift) ==
    LET pass == proc[w]
        row == Snapshot(DOMAIN pass.stops, pass.positionSet,
                        IF ok THEN PendingOrders ELSE {}, IF ok THEN "COMPLETE" ELSE "FAILED", drift)
        next == IF pass.known.exposure.undetermined THEN Idle
                ELSE [at |-> "compare", known |-> pass.known, stops |-> pass.stops, newest |-> None]
    IN /\ At(w, "orders")
       /\ IF ok /\ drift = {} THEN UNCHANGED faults ELSE Fault
       /\ proc' = Recorded([proc EXCEPT ![w] = next], row)
       /\ UNCHANGED <<stores, broker, past, halted>>

\* The live reader records snapshots of its own.
OtherCapture ==
    /\ \E w \in Workers : At(w, "compare")
    /\ proc' = Recorded(proc, Snapshot(Open, "COMPLETE", PendingOrders, "COMPLETE", {}))
    /\ UNCHANGED <<stores, broker, past, halted, faults>>

\* reconcile() takes the newest snapshot, the requests their tickets from this capture.
Attributed(w, r) == proc[w].known.exposure.byRequest[r]

\* A mutant: a ticket that is gone is as good as accounted for.
DueIfDetermined(w) == DOMAIN proc[w].known.raw

\* Of the pending and determined requests, those whose tickets are all open or
\* closed by a flatten.
Due(w) == {r \in DOMAIN proc[w].known.raw : Attributed(w, r) \subseteq DOMAIN proc[w].stops}

Issues(w, r) == ProtectiveStopIssues(proc[w].stops, Attributed(w, r))

\* `closed_by_flatten` is what is attributed no more, for whatever reason.
ReconciledEvent(w, r, status) ==
    [type |-> "RECONCILED", expected |-> Attributed(w, r),
     observed |-> Attributed(w, r) \cap DOMAIN proc[w].stops,
     closed |-> proc[w].known.raw[r] \ Attributed(w, r),
     book |-> status, issues |-> Issues(w, r)]

\* What is left to do is settled here: the events to append, one request after the other.
Compare(w) ==
    /\ At(w, "compare")
    /\ LET status == Reconcile(proc[w].newest, proc[w].known.exposure)
       IN Goto(w, IF status = "UNKNOWN" THEN Idle
                  ELSE [at |-> "record", status |-> status,
                        moving |-> proc[w].known.moving, unclear |-> proc[w].known.unclear,
                        rows |-> [r \in Due(w) |-> ReconciledEvent(w, r, status)]])
    /\ UNCHANGED <<stores, broker, past, halted, faults>>

ToRecord(w, r) == At(w, "record") /\ r \in DOMAIN proc[w].rows

\* _trip_protective_stop_issue(): before the event, and only if not halted already.
TripProtectiveStopIssue(w, r) ==
    /\ ToRecord(w, r)
    /\ proc[w].rows[r].issues # {} /\ ~halted[w]
    /\ halted' = [halted EXCEPT ![w] = TRUE]
    /\ safety' = "HALTED"
    /\ UNCHANGED <<events, occurrence, broker, past, proc, faults>>

\* append(): one row of a type; other content raises and ends the pass.
AppendReconciled(w, r) ==
    LET event == proc[w].rows[r]
        left == DOMAIN proc[w].rows \ {r}
        first == ~Has(events[r], "RECONCILED")
        raises == \E i \in DOMAIN events[r] : events[r][i].type = "RECONCILED" /\ events[r][i] # event
    IN /\ events' = IF first THEN [events EXCEPT ![r] = Append(@, event)] ELSE events
       /\ Goto(w, IF raises THEN Idle
                  ELSE [proc[w] EXCEPT !.rows = [q \in left |-> proc[w].rows[q]]])

\* A mutant: recorded before it is escalated.
RecordFirst(w, r) ==
    /\ ToRecord(w, r)
    /\ AppendReconciled(w, r)
    /\ UNCHANGED <<occurrence, safety, broker, past, halted, faults>>

RecordReconciled(w, r) ==
    /\ ToRecord(w, r)
    /\ proc[w].rows[r].issues # {} => halted[w]
    /\ AppendReconciled(w, r)
    /\ UNCHANGED <<occurrence, safety, broker, past, halted, faults>>

Finish(w) ==
    /\ At(w, "record")
    /\ DOMAIN proc[w].rows = {}
    /\ Goto(w, Idle)
    /\ UNCHANGED <<stores, broker, past, halted, faults>>

\* A new process takes its halt from the durable state.
Crash(w) ==
    /\ Fault
    /\ Goto(w, Idle)
    /\ halted' = [halted EXCEPT ![w] = safety = "HALTED"]
    /\ UNCHANGED <<stores, broker, past>>

Step(w) ==
    \/ Start(w) \/ ReadFlattenHistories(w) \/ Compare(w) \/ Finish(w)
    \/ \E r \in Requests :
          ReadHistory(w, r) \/ TripProtectiveStopIssue(w, r) \/ RecordReconciled(w, r)
    \/ ReadPositions(w, TRUE) \/ ReadPendingAndRecord(w, TRUE, {})

FailedRead(w) ==
    \/ ReadPositions(w, FALSE) \/ ReadPendingAndRecord(w, FALSE, {})
    \/ \E d \in {"account", "contract"} : ReadPendingAndRecord(w, TRUE, {d})

------------------------------------------------------------------------------
(* The entry path: a commitment, the broker's answer, recovery, and the    *)
(* resolver of resting orders.  Each reads the broker, then appends; what  *)
(* it appends is what was there when it looked, and it may come late.      *)

Log(r, event) == events' = [events EXCEPT ![r] = Append(@, event)]

\* A row that gives the order a fate; `hasty` remembers that the broker's had none.
Decide(r, event) ==
    /\ Log(r, event)
    /\ hasty' = IF order[r] \in Moving THEN hasty \cup {r} ELSE hasty

\* A process may die between the commitment and the send.
Commit(r, entry, sent) ==
    /\ events[r] = <<>>
    /\ Log(r, Started(entry))
    /\ order' = [order EXCEPT ![r] = IF sent THEN "sent" ELSE "never"]
    /\ UNCHANGED <<occurrence, safety, book, past, halted, proc, faults>>

\* DONE and PLACED are for an order the broker took; every other retcode, a timeout
\* among them, may come of any order, one under way included.
Retcodes(r) == IF order[r] \in {"sent", "rejected"} THEN {"OTHER"} ELSE {"DONE", "PLACED", "OTHER"}

\* _decode_order_send_result() and normalize_execution_result(), by the code alone.
Decoded(retcode) ==
    CASE retcode = "DONE" -> "FILLED"
      [] retcode = "PLACED" -> "SUBMITTED"
      [] OTHER -> "REJECTED"

Answered(r) == \E i \in DOMAIN events[r] : events[r][i].type \in {"FILLED", "SUBMITTED", "REJECTED"}

\* The one answer of order_send(), recorded; recovery may have been quicker.
Answer(r) ==
    /\ order[r] \notin {"none", "never"}
    /\ ~Answered(r)
    /\ \E code \in Retcodes(r) :
          IF Decoded(code) = "SUBMITTED" THEN Log(r, Plain("SUBMITTED")) /\ UNCHANGED hasty
          ELSE Decide(r, Plain(Decoded(code)))
    /\ UNCHANGED <<occurrence, phantom, safety, broker, halted, proc, faults>>

\* The positions with the request's magic number when they were read: its own, none
\* before it opened or after it closed, or, a surprise, a stranger's too.
Matching(r, matches) ==
    /\ matches \subseteq DOMAIN book
    /\ IF matches \subseteq {r} THEN UNCHANGED faults ELSE Fault

\* _recover_ambiguous_submission(), which found the commitment the last event and then
\* looked for positions and, without one, for pending orders: several of either are an
\* integrity ambiguity.  The order may be in flight still.
Recover(r) ==
    /\ events[r] # <<>> /\ ~Has(events[r], "AMBIGUOUS_OUTCOME_RESOLVED")
    /\ \/ \E matches \in SUBSET DOMAIN book :
             Matching(r, matches) /\ Decide(r, Resolved(matches, Cardinality(matches) > 1))
       \/ Fault /\ Decide(r, Resolved({}, TRUE))
    /\ UNCHANGED <<occurrence, phantom, safety, broker, halted, proc>>

\* resolve_pending_once(): the submitted ticket no longer rests.
ResolvePending(r) ==
    /\ Has(events[r], "SUBMITTED") /\ order[r] \notin Moving
    /\ \E matches \in SUBSET DOMAIN book \ {{}} :
          /\ Matching(r, matches)
          /\ IF Cardinality(matches) > 1
             THEN ~Has(events[r], "AMBIGUOUS_OUTCOME_RESOLVED") /\ Decide(r, Resolved(matches, TRUE))
             ELSE ~Has(events[r], "FILLED") /\ Decide(r, Plain("FILLED"))
    /\ UNCHANGED <<occurrence, phantom, safety, broker, halted, proc>>

------------------------------------------------------------------------------
(* The weekly flatten: commit to what is open, close, record what is gone. *)

FlattenCommits ==
    /\ occurrence = None
    /\ Open # {}
    /\ occurrence' = [targets |-> Open, closed |-> None]
    /\ UNCHANGED <<events, safety, broker, past, halted, proc, faults>>

\* The targets matter no more.  `closed` is what the last read of the flatten's pass
\* did not show.  A read that failed, or was taken before a position opened, does not
\* show open ones either: a surprise, counted in faults.
FlattenResolves(closed) ==
    /\ occurrence # None /\ occurrence.closed = None
    /\ closed \subseteq occurrence.targets
    /\ IF closed \cap Open = {} THEN UNCHANGED faults ELSE Fault
    /\ occurrence' = [targets |-> {}, closed |-> closed]
    /\ phantom' = closed \cap Open
    /\ UNCHANGED <<events, hasty, safety, broker, halted, proc>>

------------------------------------------------------------------------------
(* The broker                                                              *)

With(t, state) == [u \in DOMAIN book \cup {t} |-> IF u = t THEN state ELSE book[u]]

Fill(r, stop) ==
    /\ \/ order[r] = "sent" /\ EntryTypeOf(events[r]) = "MARKET"
       \/ order[r] = "resting"
    /\ order' = [order EXCEPT ![r] = "filled"]
    /\ book' = With(r, stop)
    /\ hasty' = hasty \ {r}
    /\ UNCHANGED <<stores, phantom, halted, proc, faults>>

Place(r) ==
    /\ order[r] = "sent" /\ EntryTypeOf(events[r]) = "LIMIT"
    /\ order' = [order EXCEPT ![r] = "resting"]
    /\ UNCHANGED <<stores, book, past, halted, proc, faults>>

\* An order is rejected or lost, or cancelled while it rests.
NoFill(r) ==
    /\ \/ order[r] = "sent" /\ order' = [order EXCEPT ![r] = "rejected"]
       \/ order[r] = "resting" /\ order' = [order EXCEPT ![r] = "cancelled"]
    /\ hasty' = hasty \ {r}
    /\ UNCHANGED <<stores, book, phantom, halted, proc, faults>>

\* By its stop or target, by hand, or by a flatten; its ticket is not used again.
Close(t) ==
    /\ t \in Open
    /\ book' = With(t, "closed")
    /\ phantom' = phantom \ {t}
    /\ UNCHANGED <<stores, order, hasty, halted, proc, faults>>

\* A stop is moved, removed or put back, or a position opened, by hand.
Surprise ==
    /\ Fault
    /\ \E t \in Open \cup ({Foreign} \ DOMAIN book), stop \in Stops : book' = With(t, stop)
    /\ UNCHANGED <<stores, order, past, halted, proc>>

------------------------------------------------------------------------------
Init ==
    /\ events = [r \in Requests |-> <<>>]
    /\ occurrence = None
    /\ order = [r \in Requests |-> "none"]
    /\ book = <<>>
    /\ hasty = {} /\ phantom = {}
    /\ safety = "RUNNING"
    /\ halted = [w \in Workers |-> FALSE]
    /\ proc = [w \in Workers |-> Idle]
    /\ faults = 0

EntryPath(r) ==
    \/ Answer(r) \/ Recover(r) \/ ResolvePending(r)
    \/ \E entry \in {"MARKET", "LIMIT"}, sent \in BOOLEAN : Commit(r, entry, sent)

Next ==
    \/ \E w \in Workers : Step(w) \/ FailedRead(w) \/ Crash(w)
    \/ \E r \in Requests : EntryPath(r) \/ Place(r) \/ NoFill(r) \/ \E stop \in Stops : Fill(r, stop)
    \/ FlattenCommits \/ \E closed \in SUBSET Tickets : FlattenResolves(closed)
    \/ \E t \in Tickets : Close(t)
    \/ Surprise \/ OtherCapture

Spec == Init /\ [][Next]_vars

------------------------------------------------------------------------------
(* Properties                                                              *)

\* The rows that settle which tickets a request has.
Settles(row) == row.type \in {"REJECTED", "AMBIGUOUS_OUTCOME_RESOLVED"}
TicketsOf(row) == IF row.type = "REJECTED" THEN {} ELSE row.tickets

\* Recovery found the order's positions, and then its answer was a refusal.
Disowned(history) ==
    \E i, k \in DOMAIN history :
        i < k /\ history[i].type = "AMBIGUOUS_OUTCOME_RESOLVED" /\ history[k].type = "REJECTED"

\* A RECONCILED event accounts for every ticket that an earlier event of the request's
\* own history gave it: it was open when the pass looked, or was recorded closed.  One
\* recorded closed is open afterwards only if it was when the flatten said so, or if a
\* refusal that came after recovery disowned it (reconcile_once); closes, flattens,
\* late answers and other workers may race the pass.
ReconciledIsAccountedFor ==
    \A r \in Requests : \A j \in DOMAIN events[r] :
        LET e == events[r][j] IN
        e.type = "RECONCILED" =>
            /\ \E i \in 1..j : Settles(events[r][i]) /\ e.observed \cup e.closed = TicketsOf(events[r][i])
            /\ e.closed \cap Open \subseteq phantom \/ Disowned(events[r])

\* What reconcile_once()'s docstring says: "observed open at the broker, or already
\* removed by a resolved flatten".
ReconciledIsRemoved ==
    \A r \in Requests : \A j \in DOMAIN events[r] :
        events[r][j].type = "RECONCILED" => events[r][j].closed \subseteq ClosedByFlatten(occurrence)

\* No request is reconciled over a stop that was missing or not the intended one
\* unless the platform is durably halted, at whatever point a process dies
\* (_trip_protective_stop_issue).
UnprotectedIsHalted ==
    \A r \in Requests : \A j \in DOMAIN events[r] :
        events[r][j].type = "RECONCILED" /\ events[r][j].issues # {} => safety = "HALTED"

\* A book is called MATCHED with an order of a committed request in flight or resting
\* when the history was read only if some event had given that order a fate the broker
\* had not (derive_expected_exposure): what follows a commitment is never overlooked,
\* however late the broker's answer or whoever recovers.
MatchedIsSettled ==
    \A w \in Workers : At(w, "record") /\ proc[w].status = "MATCHED" => proc[w].moving = {}

\* "Cannot honestly say either way; fail closed": a request whose last event is
\* UNDETERMINED makes the verdict UNKNOWN (_Exposure.UNDETERMINED).
UndeterminedIsUnknown ==
    \A w \in Workers : At(w, "record") => proc[w].unclear = {}
===============================================================================
