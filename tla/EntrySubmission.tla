--------------------------- MODULE EntrySubmission ---------------------------
(***************************************************************************)
(* The entry half of ExecutionOrchestrator (application/execution.py):     *)
(* run_once() walks the approved decision capsules, claims one execution   *)
(* request for each, takes the claimed request through the gates, commits  *)
(* to one broker submission, and on a later pass recovers a submission     *)
(* whose outcome was never recorded.                                       *)
(*                                                                         *)
(* Several worker processes share the durable stores (requests, events,    *)
(* canary permits, safety state) and one broker account.  A worker may     *)
(* die between any two of its steps, a broker call may fail or its reply   *)
(* may be lost, and an order may reach the broker later than the reply.    *)
(*                                                                         *)
(* Every durable write is one transaction and one step; so is every read   *)
(* of the broker.  What the clock, the configuration, the market data and  *)
(* the risk policy contribute to a gate is a free choice of verdict.       *)
(***************************************************************************)
EXTENDS Naturals, Sequences

CONSTANTS
    Workers,        \* worker processes (worker_id)
    Capsules,       \* decision capsules in the journal
    Approved,       \* those with a Risk PASS and a Supervisor APPROVE
    Requests,       \* order_request_ids
    RequestOf,      \* capsule -> uuid5 of its intent's decision_hash
    FingerprintOf,  \* capsule -> fingerprint of its whole approval chain
    Fingerprints,
    EntryTypeOf,    \* request -> MARKET or LIMIT
    Magic,          \* request -> mt5_magic_number, 31 bits of a hash
    Strangers,      \* orders on the account that no capsule here asked for
    Permits,        \* canary permit ids
    PermitScope,    \* permit -> requests every scope leg of it admits
    PermitOf,       \* worker -> canary_config.permit_id
    CanaryCapsule,  \* worker -> canary_config.capsule_id, None: no adapter
    LateDelivery,   \* TRUE: an order may land after later broker reads
    MaxFaults,      \* bound on crashes and exceptions, together
    None

ASSUME ConstantsAssumption ==
    /\ Approved \subseteq Capsules
    /\ RequestOf \in [Capsules -> Requests]
    /\ FingerprintOf \in [Capsules -> Fingerprints]
    /\ EntryTypeOf \in [Requests -> {"MARKET", "LIMIT"}]
    /\ DOMAIN Magic = Requests
    /\ Strangers \subseteq Requests
    /\ \A c \in Capsules : RequestOf[c] \notin Strangers
    /\ PermitScope \in [Permits -> SUBSET Requests]
    /\ PermitOf \in [Workers -> Permits]
    /\ CanaryCapsule \in [Workers -> Capsules \cup {None}]
    /\ LateDelivery \in BOOLEAN
    /\ MaxFaults \in Nat
    /\ None \notin Capsules /\ None \notin Requests /\ None \notin Fingerprints

VARIABLES
    claims,     \* execution_requests: request -> fingerprint, or None
    events,     \* execution_events: request -> rows in sequence order
    issued,     \* canary_permits
    consumed,   \* canary_permit_consumptions: permit -> request, or None
    flat,       \* the newest broker snapshot on record shows an empty book
    latch,      \* the durable safety state
    halted,     \* worker -> its KillSwitch.is_halted, in memory
    proc,       \* worker -> where it is in run_once(), and its locals
    order,      \* broker: request -> what became of its order
    sends,      \* broker: request -> order_send calls that left the platform
    faults      \* crashes and exceptions so far

stores == <<claims, events, issued, consumed, flat, latch>>
memory == <<halted, proc>>
broker == <<order, sends>>
vars == <<stores, memory, broker, faults>>

------------------------------------------------------------------------------
(* The vocabulary of the durable history.                                  *)

Refusals == {"INELIGIBLE", "GATE_CLOSED", "RECONCILIATION_BLOCKED",
             "FINAL_RISK_BLOCKED", "ORDER_CHECK_REJECTED",
             "SUBMISSION_GATE_BLOCKED", "CANARY_PERMIT_BLOCKED"}

EventType == Refusals \cup
             {"REQUEST_CLAIMED", "FINAL_RISK_PASSED", "ORDER_CHECKED",
              "SUBMISSION_GATE_PASSED", "SUBMISSION_STARTED", "SUBMITTED",
              "FILLED", "REJECTED", "AMBIGUOUS_OUTCOME_RESOLVED"}

\* What a recovery found, the content of AMBIGUOUS_OUTCOME_RESOLVED, and the
\* "resolved_from" of the pending resolver's FILLED.
Verdicts == {"NONE", "INTEGRITY", "SUBMITTED", "NOT_SUBMITTED", "FROM_PENDING"}

Events == [type : EventType, verdict : Verdicts, tickets : SUBSET Requests]

Plain(type) == [type |-> type, verdict |-> "NONE", tickets |-> {}]

Resolved(verdict, tickets) ==
    [type |-> "AMBIGUOUS_OUTCOME_RESOLVED", verdict |-> verdict, tickets |-> tickets]

Has(history, type) == \E i \in DOMAIN history : history[i].type = type

LastIs(history, type) == history # <<>> /\ history[Len(history)].type = type

\* event_id_for() derives the row's key from (request, type): at most one
\* row of a type, ever.  A second append with equal content converges, with
\* different content it raises; neither changes the table.
Appended(history, event) ==
    IF Has(history, event.type) THEN history ELSE Append(history, event)

Conflicts(history, event) ==
    \E i \in DOMAIN history : history[i].type = event.type /\ history[i] # event

\* A worker's locals: the capsule it processes, and what its last reads of
\* positions() and pending_orders() matched by magic.
Idle == [at |-> "idle", cap |-> None, pos |-> {}, pend |-> {}]

Busy(label, c, matches) == [at |-> label, cap |-> c, pos |-> matches, pend |-> {}]

At(w, label) == proc[w].at = label

Req(w) == RequestOf[proc[w].cap]

Record(r, event) == events' = [events EXCEPT ![r] = Appended(@, event)]

Goto(w, label) == proc' = [proc EXCEPT ![w].at = label]

Done(w) == proc' = [proc EXCEPT ![w] = Idle]

Refuse(w, type) == Record(Req(w), Plain(type)) /\ Done(w)

\* KillSwitch.trip behind "if not is_halted": the store first, then memory.
Trip(w) ==
    /\ latch' = IF halted[w] THEN latch ELSE "HALTED"
    /\ halted' = [halted EXCEPT ![w] = TRUE]

------------------------------------------------------------------------------
(* The broker.                                                             *)

Fates == {"none", "inflight", "resting", "open",
          "rejected", "lost", "cancelled", "closed"}

\* The retcode of order_send.  DONE and PLACED say that the broker has taken
\* the order, and neither says which of a deal and a resting order came of it;
\* every other code, a timeout among them, may come of any order, one that is
\* still under way or live included.
Taken(r) == order[r] \in {"resting", "open", "cancelled", "closed"}

Retcodes(r) == IF Taken(r) THEN {"DONE", "PLACED", "OTHER"} ELSE {"OTHER"}

\* _decode_order_send_result() and normalize_execution_result(): by the code
\* alone, whatever the order's type.  DONE_PARTIAL is DONE here.
Decoded(retcode) ==
    CASE retcode = "DONE" -> "FILLED"
      [] retcode = "PLACED" -> "SUBMITTED"
      [] OTHER -> "REJECTED"

\* The book a worker reads is up to date with every order already sent,
\* unless orders may arrive late.
Settled(r) == LateDelivery \/ order[r] # "inflight"

Positions == {q \in Requests : order[q] = "open"}

PendingOrders == {q \in Requests : order[q] = "resting"}

MatchingPositions(r) == {q \in Positions : Magic[q] = Magic[r]}

MatchingPending(r) == {q \in PendingOrders : Magic[q] = Magic[r]}

BrokerMoves(r, from, to) ==
    /\ order[r] = from
    /\ order' = [order EXCEPT ![r] = to]
    /\ UNCHANGED <<stores, memory, sends, faults>>

BrokerAccepts(r) ==
    BrokerMoves(r, "inflight", IF EntryTypeOf[r] = "LIMIT" THEN "resting" ELSE "open")

BrokerRejects(r) == BrokerMoves(r, "inflight", "rejected")

OrderLost(r) == BrokerMoves(r, "inflight", "lost")

PendingFills(r) == BrokerMoves(r, "resting", "open")

PendingRemoved(r) == BrokerMoves(r, "resting", "cancelled")

PositionCloses(r) == BrokerMoves(r, "open", "closed")

\* Another instance, or a person, puts an order or a position of any magic
\* on the account.
StrangerAppears(r) ==
    r \in Strangers /\ \E to \in {"open", "resting"} : BrokerMoves(r, "none", to)

BrokerStep(r) ==
    \/ StrangerAppears(r)
    \/ BrokerAccepts(r) \/ BrokerRejects(r) \/ OrderLost(r)
    \/ PendingFills(r) \/ PendingRemoved(r) \/ PositionCloses(r)

------------------------------------------------------------------------------
(* The operator's permits.                                                 *)

IssuePermit(p) ==
    /\ p \notin issued
    /\ issued' = issued \cup {p}
    /\ UNCHANGED <<claims, events, consumed, flat, latch, memory, broker, faults>>

------------------------------------------------------------------------------
(* _process(): the claim and the gates.                                    *)

\* A conflicting fingerprint raises: neither disjunct, nothing changes.
ClaimWon(w, c) ==
    /\ At(w, "idle") /\ c \in Approved
    /\ claims[RequestOf[c]] = None
    /\ claims' = [claims EXCEPT ![RequestOf[c]] = FingerprintOf[c]]
    /\ proc' = [proc EXCEPT ![w] = Busy("claimed", c, {})]
    /\ UNCHANGED <<events, issued, consumed, flat, latch, halted, broker, faults>>

\* Mutant: the losing claim does not compare fingerprints.
ClaimLostUnchecked(w, c) ==
    /\ At(w, "idle") /\ c \in Approved
    /\ claims[RequestOf[c]] # None
    /\ proc' = [proc EXCEPT ![w] = Busy("recover", c, {})]
    /\ UNCHANGED <<stores, halted, broker, faults>>

ClaimLost(w, c) ==
    /\ At(w, "idle") /\ c \in Approved
    /\ claims[RequestOf[c]] = FingerprintOf[c]
    /\ proc' = [proc EXCEPT ![w] = Busy("recover", c, {})]
    /\ UNCHANGED <<stores, halted, broker, faults>>

AppendClaimed(w) ==
    /\ At(w, "claimed")
    /\ Record(Req(w), Plain("REQUEST_CLAIMED"))
    /\ Goto(w, "eligibility")

Eligibility(w) ==
    /\ At(w, "eligibility")
    /\ \/ Goto(w, "preflight") /\ UNCHANGED events
       \/ Refuse(w, "INELIGIBLE")

PreflightGate(w) ==
    /\ At(w, "preflight")
    /\ \/ ~halted[w] /\ Goto(w, "capture") /\ UNCHANGED events
       \/ Refuse(w, "GATE_CLOSED")

\* capture_broker_state(): positions, then pending orders, whoever's they are.
CapturePositions(w) ==
    /\ At(w, "capture")
    /\ proc' = [proc EXCEPT ![w].pos = Positions, ![w].at = "capturePending"]

CapturePending(w) ==
    /\ At(w, "capturePending")
    /\ proc' = [proc EXCEPT ![w].pend = PendingOrders, ![w].at = "record"]

\* The newest snapshot is the one whose capture began last: this one, unless
\* another worker's is on record already.
RecordSnapshot(w) ==
    /\ At(w, "record")
    /\ \/ flat' = (proc[w].pos \cup proc[w].pend = {})
       \/ Workers # {w} /\ UNCHANGED flat
    /\ proc' = [proc EXCEPT ![w] = Busy("reconcile", proc[w].cap, {})]

\* reconcile() against ExpectedState.flat, on the newest snapshot: a failed or
\* incomplete read is UNKNOWN, anything on the book MISMATCHED.
Reconcile(w) ==
    /\ At(w, "reconcile")
    /\ \/ flat /\ Goto(w, "finalRisk") /\ UNCHANGED events
       \/ Refuse(w, "RECONCILIATION_BLOCKED")

FinalRisk(w) ==
    /\ At(w, "finalRisk")
    /\ \/ /\ ~halted[w]
          /\ Record(Req(w), Plain("FINAL_RISK_PASSED"))
          /\ Goto(w, "orderCheck")
       \/ Refuse(w, "FINAL_RISK_BLOCKED")

\* The ledger lock is unavailable or the recovered session must halt: the
\* kill switch trips first, the refusal is appended after it.
FinalRiskHalts(w) ==
    /\ At(w, "finalRisk")
    /\ Trip(w)
    /\ Goto(w, "riskRefused")

AppendRiskRefusal(w) ==
    /\ At(w, "riskRefused")
    /\ Refuse(w, "FINAL_RISK_BLOCKED")

OrderCheck(w) ==
    /\ At(w, "orderCheck")
    /\ \/ Record(Req(w), Plain("ORDER_CHECKED")) /\ Goto(w, "gate")
       \/ Refuse(w, "ORDER_CHECK_REJECTED")

SubmissionGate(w) ==
    /\ At(w, "gate")
    /\ \/ /\ ~halted[w]
          /\ Record(Req(w), Plain("SUBMISSION_GATE_PASSED"))
          /\ Goto(w, IF CanaryCapsule[w] = None THEN "start" ELSE "permit")
       \/ Refuse(w, "SUBMISSION_GATE_BLOCKED")

\* No entry adapter was injected: commit, and do not send.
StartSubmission(w) ==
    /\ At(w, "start")
    /\ Record(Req(w), Plain("SUBMISSION_STARTED"))
    /\ Done(w)

PermitScopeHolds(w) ==
    /\ proc[w].cap = CanaryCapsule[w]
    /\ PermitOf[w] \in issued
    /\ Req(w) \in PermitScope[PermitOf[w]]

\* valid_until_utc is held against the clock as FINAL Risk read it: an
\* admitted request may still find the permit expired.
CheckPermit(w) ==
    /\ At(w, "permit")
    /\ \/ PermitScopeHolds(w) /\ Goto(w, "consume") /\ UNCHANGED events
       \/ Refuse(w, "CANARY_PERMIT_BLOCKED")

\* Mutant: a second consumption converges instead of being refused.
ConsumeConverges(w) ==
    /\ At(w, "consume")
    /\ consumed' = [consumed EXCEPT ![PermitOf[w]] = IF @ = None THEN Req(w) ELSE @]
    /\ Record(Req(w), Plain("SUBMISSION_STARTED"))
    /\ Goto(w, "send")

\* One transaction consumes the permit and commits to the submission.
ConsumePermit(w) ==
    /\ At(w, "consume")
    /\ IF consumed[PermitOf[w]] = None
       THEN /\ consumed' = [consumed EXCEPT ![PermitOf[w]] = Req(w)]
            /\ Record(Req(w), Plain("SUBMISSION_STARTED"))
            /\ Goto(w, "send")
       ELSE Refuse(w, "CANARY_PERMIT_BLOCKED") /\ UNCHANGED consumed

OrderSend(w) ==
    /\ At(w, "send")
    /\ sends' = [sends EXCEPT ![Req(w)] = @ + 1]
    /\ order' = [order EXCEPT ![Req(w)] = "inflight"]
    /\ Goto(w, "await")

\* order_send returns, and what its retcode decodes to is appended.
RecordResult(w) ==
    /\ At(w, "await")
    /\ \E retcode \in Retcodes(Req(w)) : Record(Req(w), Plain(Decoded(retcode)))
    /\ Done(w)

\* Mutant: a failed call is retried.
TransportRetries(w) ==
    /\ At(w, "send") \/ At(w, "await")
    /\ Goto(w, "send")

\* Mt5CallFailedError: before the order left, or in place of its answer.
TransportFails(w) ==
    /\ At(w, "send") \/ At(w, "await")
    /\ Done(w)

------------------------------------------------------------------------------
(* _recover_ambiguous_submission(): durable history, then the broker.      *)

\* Mutants: recovery sends again; a losing claim never recovers.
ReadHistoryResends(w) ==
    /\ At(w, "recover")
    /\ IF LastIs(events[Req(w)], "SUBMISSION_STARTED")
       THEN Goto(w, "send") ELSE Done(w)

ReadHistoryNever(w) == At(w, "recover") /\ Done(w)

ReadHistory(w) ==
    /\ At(w, "recover")
    /\ IF LastIs(events[Req(w)], "SUBMISSION_STARTED")
       THEN Goto(w, "readPositions") ELSE Done(w)

ReadPositions(w) ==
    /\ At(w, "readPositions") /\ Settled(Req(w))
    /\ LET matches == MatchingPositions(Req(w)) IN
       proc' = [proc EXCEPT ![w].pos = matches,
                            ![w].at = IF matches = {} THEN "readPending" ELSE "resolve"]

Several(S) == \E x, y \in S : x # y

\* Exactly one resting order: still open at the broker, nothing is recorded.
ReadPending(w) ==
    /\ At(w, "readPending") /\ Settled(Req(w))
    /\ LET matches == MatchingPending(Req(w)) IN
       IF matches # {} /\ ~Several(matches)
       THEN Done(w)
       ELSE proc' = [proc EXCEPT ![w].pend = matches, ![w].at = "resolve"]

RecoveryEvent(w) ==
    LET found == proc[w].pos \cup proc[w].pend IN
    Resolved(CASE Several(found) -> "INTEGRITY"
               [] found = {} -> "NOT_SUBMITTED"
               [] OTHER -> "SUBMITTED",
             found)

\* Mutant: the integrity ambiguity is recorded and the halt forgotten.
AppendResolutionNoHalt(w) ==
    /\ At(w, "resolve")
    /\ Record(Req(w), RecoveryEvent(w))
    /\ Done(w)

AppendResolution(w) ==
    /\ At(w, "resolve")
    /\ Record(Req(w), RecoveryEvent(w))
    /\ IF /\ RecoveryEvent(w).verdict = "INTEGRITY"
          /\ ~Conflicts(events[Req(w)], RecoveryEvent(w))
       THEN Goto(w, "tripIntegrity") ELSE Done(w)

TripIntegrityAmbiguous(w) ==
    /\ At(w, "tripIntegrity")
    /\ Trip(w)
    /\ Done(w)

------------------------------------------------------------------------------
(* resolve_pending_once(): the fate of a resting order, SUBMITTED requests *)
(* only.  Positions are read first, then pending orders, then the history. *)

StartResolvePending(w, c) ==
    /\ At(w, "idle") /\ Has(events[RequestOf[c]], "SUBMITTED")
    /\ proc' = [proc EXCEPT ![w] =
                  Busy("readTicket", c, MatchingPositions(RequestOf[c]))]
    /\ UNCHANGED <<stores, halted, broker, faults>>

\* Of the pending orders only the submitted ticket itself is looked for.
ReadTicket(w) ==
    /\ At(w, "readTicket")
    /\ proc' = [proc EXCEPT ![w].pend = PendingOrders \cap {Req(w)},
                            ![w].at = "readSubmitted"]

\* Mutant: a position of its magic is its fill, resting ticket or not.
ReadSubmittedByMagic(w) ==
    /\ At(w, "readSubmitted")
    /\ IF LastIs(events[Req(w)], "SUBMITTED") /\ proc[w].pos # {}
       THEN Goto(w, "resolveTicket") ELSE Done(w)

\* Never FILLED while the submitted ticket itself still rests; gone with no
\* position of its magic is left alone, and so is a row that names no ticket.
ReadSubmitted(w) ==
    /\ At(w, "readSubmitted")
    /\ \/ /\ LastIs(events[Req(w)], "SUBMITTED")
          /\ proc[w].pend = {}
          /\ proc[w].pos # {}
          /\ Goto(w, "resolveTicket")
       \/ Done(w)

PendingEvent(w) ==
    IF Several(proc[w].pos)
    THEN Resolved("INTEGRITY", proc[w].pos)
    ELSE [type |-> "FILLED", verdict |-> "FROM_PENDING", tickets |-> proc[w].pos]

AppendTicketFate(w) ==
    /\ At(w, "resolveTicket")
    /\ Record(Req(w), PendingEvent(w))
    /\ IF /\ Several(proc[w].pos)
          /\ ~Conflicts(events[Req(w)], PendingEvent(w))
       THEN Goto(w, "tripIntegrity") ELSE Done(w)

------------------------------------------------------------------------------
(* A worker's steps, each with what it leaves alone.                       *)

AppendStep(w) ==
    /\ \/ AppendClaimed(w) \/ Eligibility(w) \/ PreflightGate(w)
       \/ Reconcile(w) \/ FinalRisk(w) \/ AppendRiskRefusal(w)
       \/ OrderCheck(w) \/ SubmissionGate(w) \/ StartSubmission(w)
       \/ CheckPermit(w) \/ RecordResult(w) \/ AppendResolution(w)
       \/ AppendTicketFate(w)
    /\ UNCHANGED <<claims, issued, consumed, flat, latch>>
    /\ UNCHANGED <<halted, broker, faults>>

CaptureStep(w) ==
    /\ \/ (CapturePositions(w) \/ CapturePending(w)) /\ UNCHANGED flat
       \/ RecordSnapshot(w)
    /\ UNCHANGED <<claims, events, issued, consumed, latch>>
    /\ UNCHANGED <<halted, broker, faults>>

ConsumeStep(w) ==
    /\ ConsumePermit(w)
    /\ UNCHANGED <<claims, issued, flat, latch>>
    /\ UNCHANGED <<halted, broker, faults>>

TripStep(w) ==
    /\ FinalRiskHalts(w) \/ TripIntegrityAmbiguous(w)
    /\ UNCHANGED <<claims, events, issued, consumed, flat>>
    /\ UNCHANGED <<broker, faults>>

SendStep(w) ==
    /\ OrderSend(w)
    /\ UNCHANGED <<stores, halted, faults>>

FailStep(w) ==
    /\ TransportFails(w)
    /\ UNCHANGED <<stores, halted, broker, faults>>

ReadStep(w) ==
    /\ \/ ReadHistory(w) \/ ReadPositions(w) \/ ReadPending(w)
       \/ ReadTicket(w) \/ ReadSubmitted(w)
    /\ UNCHANGED <<stores, halted, broker, faults>>

Step(w) ==
    \/ AppendStep(w) \/ CaptureStep(w) \/ ConsumeStep(w) \/ TripStep(w)
    \/ SendStep(w) \/ FailStep(w) \/ ReadStep(w)

\* An exception leaves run_once(): the pass ends, the process lives on.
Raise(w) ==
    /\ ~At(w, "idle") /\ faults < MaxFaults
    /\ faults' = faults + 1
    /\ Done(w)
    /\ UNCHANGED <<stores, halted, broker>>

\* The process dies and a new one starts: bootstrap loads the safety state.
Crash(w) ==
    /\ faults < MaxFaults
    /\ faults' = faults + 1
    /\ Done(w)
    /\ halted' = [halted EXCEPT ![w] = latch # "RUNNING"]
    /\ UNCHANGED <<stores, broker>>

------------------------------------------------------------------------------
Init ==
    /\ claims = [r \in Requests |-> None]
    /\ events = [r \in Requests |-> <<>>]
    /\ issued = {}
    /\ consumed = [p \in Permits |-> None]
    /\ flat = FALSE
    /\ latch = "RUNNING"
    /\ halted = [w \in Workers |-> FALSE]
    /\ proc = [w \in Workers |-> Idle]
    /\ order = [r \in Requests |-> "none"]
    /\ sends = [r \in Requests |-> 0]
    /\ faults = 0

Next ==
    \/ \E w \in Workers, c \in Capsules :
          ClaimWon(w, c) \/ ClaimLost(w, c) \/ StartResolvePending(w, c)
    \/ \E w \in Workers : Step(w) \/ Raise(w) \/ Crash(w)
    \/ \E r \in Requests : BrokerStep(r)
    \/ \E p \in Permits : IssuePermit(p)

Spec == Init /\ [][Next]_vars

\* run_once() is called again and again, and its loop visits every approved
\* capsule on every pass: no capsule is passed over for ever.  A worker in
\* the middle of a pass keeps going, and a sent order reaches its fate.
Fairness ==
    /\ \A w \in Workers : WF_vars(Step(w))
    /\ \A w \in Workers, c \in Capsules :
          SF_vars(ClaimWon(w, c) \/ ClaimLost(w, c))
    /\ \A r \in Requests :
          WF_vars(BrokerAccepts(r) \/ BrokerRejects(r) \/ OrderLost(r))

FairSpec == Spec /\ Fairness

------------------------------------------------------------------------------
Labels == {"idle", "claimed", "eligibility", "preflight", "capture",
           "capturePending", "record", "reconcile", "finalRisk",
           "riskRefused", "orderCheck", "gate", "start", "permit", "consume",
           "send", "await", "recover", "readPositions", "readPending",
           "resolve", "tripIntegrity", "readTicket", "readSubmitted",
           "resolveTicket"}

\* Where only the winner of a request's claim can be.
Driving == {"claimed", "eligibility", "preflight", "capture",
            "capturePending", "record", "reconcile", "finalRisk",
            "riskRefused", "orderCheck", "gate", "start", "permit", "consume",
            "send", "await"}

Locals == [at : Labels, cap : Capsules \cup {None},
           pos : SUBSET Requests, pend : SUBSET Requests]

\* The values every variable takes; the durable stores hold only rows the
\* tables admit, and a busy worker always has a capsule.
TypeOK ==
    /\ claims \in [Requests -> Fingerprints \cup {None}]
    /\ events \in [Requests -> Seq(Events)]
    /\ issued \subseteq Permits
    /\ consumed \in [Permits -> Requests \cup {None}]
    /\ flat \in BOOLEAN
    /\ latch \in {"RUNNING", "HALTED"}
    /\ halted \in [Workers -> BOOLEAN]
    /\ proc \in [Workers -> Locals]
    /\ \A w \in Workers : ~At(w, "idle") => proc[w].cap \in Capsules
    /\ order \in [Requests -> Fates]
    /\ sends \in [Requests -> Nat]
    /\ faults \in 0..MaxFaults

\* A request is driven through _process() by at most one worker at a time:
\* the winning INSERT is the only way in (persistence/execution.py claim).
OneDriverPerRequest ==
    \A v, w \in Workers :
        /\ proc[v].at \in Driving /\ proc[w].at \in Driving
        /\ Req(v) = Req(w)
        => v = w

\* However workers crash, retry and race, one order_request_id reaches the
\* broker's order_send at most once.
AtMostOneSend == \A r \in Requests : sends[r] <= 1

\* Nothing leaves the platform before SUBMISSION_STARTED is durable.
CommitBeforeSend ==
    \A r \in Requests : sends[r] > 0 => Has(events[r], "SUBMISSION_STARTED")

\* Every order that left is the one order its canary permit was spent on, so
\* one permit never covers two orders.
EverySendSpentAPermit ==
    \A r \in Requests : sends[r] > 0 => \E p \in Permits : consumed[p] = r

\* A request any gate refused, in this pass or an earlier one, by this worker
\* or another, is never sent.
RefusedNeverSent ==
    \A r \in Requests :
        (\E t \in Refusals : Has(events[r], t)) => sends[r] = 0

\* What authorises an order, at whatever step the worker that sends it was
\* interrupted and whatever another worker did meanwhile: a durable commitment,
\* a permit spent on this request and on no other, and no refusal on record.
SentIsAuthorised == CommitBeforeSend /\ EverySendSpentAPermit /\ RefusedNeverSent

\* Two capsules with one decision hash but different approvals never share a
\* request: whoever works on a request carries the claimed fingerprint.
OneApprovalChain ==
    \A w \in Workers :
        proc[w].at \notin {"idle", "readTicket", "readSubmitted",
                          "resolveTicket", "tripIntegrity"}
        => claims[Req(w)] = FingerprintOf[proc[w].cap]

\* Whatever recovery or the pending resolver attributes to a request is one
\* position that really opened under its magic, and for the resolver's FILLED
\* the request's own ticket has stopped resting; where it found an ambiguity
\* there really are several orders of that magic.  Whose they are is more than
\* 31 bits can tell, and order_send's own FILLED claims no position at all.
AttributedPositionIsReal ==
    \A r \in Requests : \A i \in DOMAIN events[r] :
        LET e == events[r][i] IN
        /\ \A q \in e.tickets : Taken(q) /\ Magic[q] = Magic[r]
        /\ e.verdict \in {"SUBMITTED", "FROM_PENDING"} =>
              \E q \in Requests : e.tickets = {q} /\ order[q] \in {"open", "closed"}
        /\ e.verdict = "FROM_PENDING" => order[r] # "resting"
        /\ e.verdict = "INTEGRITY" => Several(e.tickets)

NotSubmitted(r) ==
    \E i \in DOMAIN events[r] : events[r][i].verdict = "NOT_SUBMITTED"

\* Recovery's durable submitted=False is never recorded for an order that is,
\* or will be, live at the broker.
NothingLiveIfNotSubmitted ==
    \A r \in Requests : NotSubmitted(r) => order[r] \notin {"inflight", "resting", "open"}

\* No request's history says both that the broker took the order and that the
\* order was never submitted.
HistoryNeverContradictsItself ==
    \A r \in Requests :
        NotSubmitted(r) => ~Has(events[r], "FILLED") /\ ~Has(events[r], "SUBMITTED")

\* Once an integrity ambiguity is on record and its recorder has moved on, new
\* orders are durably halted, unless a process died in between.
IntegrityAmbiguityHalts ==
    \A r \in Requests : \A i \in DOMAIN events[r] :
        events[r][i].verdict = "INTEGRITY" =>
            \/ faults > 0
            \/ latch = "HALTED"
            \/ \E w \in Workers : At(w, "tripIntegrity")

\* A submission left without an outcome does not stay so: unless an order of
\* its magic rests at the broker, some later pass records what became of it.
AmbiguityIsResolved ==
    \A r \in Requests :
        []<>(~LastIs(events[r], "SUBMISSION_STARTED") \/ MatchingPending(r) # {})

------------------------------------------------------------------------------
(* The inductive invariant behind the safety properties: what is true of a *)
(* request while nobody, or its one driver, has taken it so far.           *)

Spent(r) == \E p \in Permits : consumed[p] = r

Refused(r) == \E t \in Refusals : Has(events[r], t)

UnclaimedIsUntouched ==
    \A r \in Requests :
        claims[r] = None => /\ events[r] = <<>>
                            /\ sends[r] = 0
                            /\ ~Spent(r)

BusyMeansClaimed ==
    \A w \in Workers : ~At(w, "idle") => claims[Req(w)] # None

DriverIsNotRefused ==
    \A w \in Workers : proc[w].at \in Driving => ~Refused(Req(w))

BeforeTheCommitment ==
    \A w \in Workers :
        proc[w].at \in Driving \ {"send", "await"} =>
            /\ ~Spent(Req(w))
            /\ sends[Req(w)] = 0

BetweenCommitmentAndSend ==
    \A w \in Workers :
        At(w, "send") => /\ Spent(Req(w))
                         /\ Has(events[Req(w)], "SUBMISSION_STARTED")
                         /\ sends[Req(w)] = 0

OnePermitPerRequest ==
    \A p, q \in Permits : consumed[p] = consumed[q] /\ consumed[p] # None => p = q

\* The safety properties above and the facts they rest on, each about one
\* worker's locals and the durable rows of the request it works on.
SubmissionInv ==
    /\ TypeOK
    /\ OneDriverPerRequest
    /\ AtMostOneSend
    /\ CommitBeforeSend
    /\ EverySendSpentAPermit
    /\ RefusedNeverSent
    /\ OneApprovalChain
    /\ UnclaimedIsUntouched
    /\ BusyMeansClaimed
    /\ DriverIsNotRefused
    /\ BeforeTheCommitment
    /\ BetweenCommitmentAndSend
    /\ OnePermitPerRequest

OneShot == INSTANCE OneShotSubmission WITH spent <- consumed, sent <- sends

\* The entry path with all its workers, crashes and late orders implements
\* the one-shot authorisation.
ImplementsOneShot == OneShot!Spec

==============================================================================
