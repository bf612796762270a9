------------------------ MODULE EntrySubmissionProofs ------------------------
(***************************************************************************)
(* Proofs about EntrySubmission, for any number of workers, capsules,      *)
(* requests and permits, any bound on faults, any magic numbers and both   *)
(* settings of LateDelivery.                                               *)
(***************************************************************************)
EXTENDS EntrySubmission, SequenceTheorems, TLAPS

USE ConstantsAssumption

------------------------------------------------------------------------------
(* What an append does to a history.                                       *)

\* Appending a row to a history of rows gives a history of rows.
LEMMA AppendedType ==
    ASSUME NEW h \in Seq(Events), NEW e \in Events
    PROVE  Appended(h, e) \in Seq(Events)
BY DEF Appended

\* A history has a row of a type after an append exactly when it had one or
\* the appended row is of that type: _append never drops or relabels a row.
LEMMA AppendedHas ==
    ASSUME NEW h \in Seq(Events), NEW e \in Events, NEW t
    PROVE  Has(Appended(h, e), t) <=> Has(h, t) \/ e.type = t
<1>1. CASE Has(h, e.type)
  BY <1>1 DEF Appended, Has
<1>2. CASE ~Has(h, e.type)
  <2>1. /\ Appended(h, e) = Append(h, e)
        /\ Len(Append(h, e)) = Len(h) + 1
        /\ DOMAIN h = 1..Len(h)
        /\ DOMAIN Append(h, e) = 1..(Len(h) + 1)
        /\ \A i \in 1..Len(h) : Append(h, e)[i] = h[i]
        /\ Append(h, e)[Len(h) + 1] = e
        /\ Len(h) \in Nat
    BY <1>2 DEF Appended
  <2>2. ASSUME Has(h, t) PROVE Has(Append(h, e), t)
    BY <2>1, <2>2 DEF Has
  <2>3. ASSUME e.type = t PROVE Has(Append(h, e), t)
    <3>1. Len(h) + 1 \in DOMAIN Append(h, e)
      BY <2>1
    <3>2. QED BY <3>1, <2>1, <2>3 DEF Has
  <2>4. ASSUME Has(Append(h, e), t) PROVE Has(h, t) \/ e.type = t
    <3>1. PICK i \in DOMAIN Append(h, e) : Append(h, e)[i].type = t
      BY <2>4 DEF Has
    <3>2. i \in 1..Len(h) \/ i = Len(h) + 1
      BY <2>1, <3>1
    <3>3. QED BY <3>1, <3>2, <2>1 DEF Has
  <2>5. QED BY <2>1, <2>2, <2>3, <2>4
<1>3. QED BY <1>1, <1>2

\* Every plain row, and every recovery's row, is a row of the table.
LEMMA RowsAreEvents ==
    /\ \A t \in EventType : Plain(t) \in Events
    /\ \A v \in Verdicts, S \in SUBSET Requests : Resolved(v, S) \in Events
BY DEF Plain, Resolved, Events, EventType, Verdicts

------------------------------------------------------------------------------
(* The shape of a worker's appends, shared by the thirteen of them.        *)

Early == Driving \ {"send", "await"}

\* Labels at which a worker's capsule need not be the one that claimed.
Exempt == {"idle", "readTicket", "readSubmitted", "resolveTicket", "tripIntegrity"}

\* The worker's own locals change, and only within the request it is on.
Advances(w) ==
    /\ proc' \in [Workers -> Locals]
    /\ \A v \in Workers : v # w => proc'[v] = proc[v]
    /\ proc'[w].at # "idle" => proc'[w].cap = proc[w].cap
    /\ proc'[w].at \in Driving => proc'[w].at \in Early /\ proc[w].at \in Early
    /\ proc'[w].at \in {"tripIntegrity", "idle"} \cup Driving

\* A history gains one row or none; a refusal ends the drive.
Gains(w, e) ==
    /\ e \in Events
    /\ events' = [events EXCEPT ![Req(w)] = Appended(@, e)]
    /\ e.type \in Refusals => proc[w].at \in Early /\ proc'[w].at = "idle"

\* Goto and Done change only the worker's own locals.
LEMMA LocalMoves ==
    ASSUME TypeOK, NEW w \in Workers
    PROVE  /\ \A l \in Labels : Goto(w, l) =>
                /\ proc' \in [Workers -> Locals]
                /\ \A v \in Workers : v # w => proc'[v] = proc[v]
                /\ proc'[w].at = l /\ proc'[w].cap = proc[w].cap
           /\ Done(w) =>
                /\ proc' \in [Workers -> Locals]
                /\ \A v \in Workers : v # w => proc'[v] = proc[v]
                /\ proc'[w].at = "idle"
<1>1. proc \in [Workers -> Locals] /\ proc[w] \in Locals
  BY DEF TypeOK
<1>2. ASSUME NEW l \in Labels PROVE [proc[w] EXCEPT !.at = l] \in Locals
  BY <1>1 DEF Locals
<1>3. Idle \in Locals /\ Idle.at = "idle"
  BY DEF Idle, Locals, Labels
<1>4. ASSUME NEW l \in Labels, Goto(w, l)
      PROVE  /\ proc' \in [Workers -> Locals]
             /\ \A v \in Workers : v # w => proc'[v] = proc[v]
             /\ proc'[w].at = l /\ proc'[w].cap = proc[w].cap
  <2>1. proc' = [proc EXCEPT ![w] = [proc[w] EXCEPT !.at = l]]
    BY <1>4 DEF Goto
  <2>2. [proc[w] EXCEPT !.at = l].at = l /\ [proc[w] EXCEPT !.at = l].cap = proc[w].cap
    BY <1>1 DEF Locals
  <2>3. QED BY <1>1, <1>2, <2>1, <2>2
<1>5. QED BY <1>1, <1>3, <1>4 DEF Done

\* Every append of _process(), of the recovery and of the pending resolver
\* is one row added to the history of the worker's own request.
LEMMA AppendShape ==
    ASSUME TypeOK, NEW w \in Workers, AppendStep(w)
    PROVE  /\ ~At(w, "idle")
           /\ Advances(w)
           /\ UNCHANGED events \/ \E e : Gains(w, e)
<1> USE DEF At
<1>a. proc[w].pos \in SUBSET Requests /\ proc[w].pend \in SUBSET Requests
  BY DEF TypeOK, Locals
<1>1. CASE AppendClaimed(w)
  <2>1. Gains(w, Plain("REQUEST_CLAIMED"))
    BY <1>1, RowsAreEvents DEF AppendClaimed, Record, Gains, Plain, Refusals, EventType
  <2>2. QED BY <1>1, <2>1, LocalMoves DEF AppendClaimed, Advances, Labels, Driving, Early
<1>2. CASE Eligibility(w)
  <2>1. CASE Refuse(w, "INELIGIBLE")
    <3>1. Gains(w, Plain("INELIGIBLE"))
      BY <1>2, <2>1, RowsAreEvents, LocalMoves
      DEF Eligibility, Refuse, Record, Gains, Plain, Refusals, EventType, Early, Driving
    <3>2. QED BY <1>2, <2>1, <3>1, LocalMoves DEF Eligibility, Refuse, Advances, Driving
  <2>2. CASE Goto(w, "preflight") /\ UNCHANGED events
    BY <1>2, <2>2, LocalMoves DEF Eligibility, Advances, Labels, Driving, Early
  <2>3. QED BY <1>2, <2>1, <2>2 DEF Eligibility
<1>3. CASE PreflightGate(w)
  <2>1. CASE Refuse(w, "GATE_CLOSED")
    <3>1. Gains(w, Plain("GATE_CLOSED"))
      BY <1>3, <2>1, RowsAreEvents, LocalMoves
      DEF PreflightGate, Refuse, Record, Gains, Plain, Refusals, EventType, Early, Driving
    <3>2. QED BY <1>3, <2>1, <3>1, LocalMoves DEF PreflightGate, Refuse, Advances, Driving
  <2>2. CASE Goto(w, "capture") /\ UNCHANGED events
    BY <1>3, <2>2, LocalMoves DEF PreflightGate, Advances, Labels, Driving, Early
  <2>3. QED BY <1>3, <2>1, <2>2 DEF PreflightGate
<1>4. CASE Reconcile(w)
  <2>1. CASE Refuse(w, "RECONCILIATION_BLOCKED")
    <3>1. Gains(w, Plain("RECONCILIATION_BLOCKED"))
      BY <1>4, <2>1, RowsAreEvents, LocalMoves
      DEF Reconcile, Refuse, Record, Gains, Plain, Refusals, EventType, Early, Driving
    <3>2. QED BY <1>4, <2>1, <3>1, LocalMoves DEF Reconcile, Refuse, Advances, Driving
  <2>2. CASE Goto(w, "finalRisk") /\ UNCHANGED events
    BY <1>4, <2>2, LocalMoves DEF Reconcile, Advances, Labels, Driving, Early
  <2>3. QED BY <1>4, <2>1, <2>2 DEF Reconcile
<1>5. CASE FinalRisk(w)
  <2>1. CASE Refuse(w, "FINAL_RISK_BLOCKED")
    <3>1. Gains(w, Plain("FINAL_RISK_BLOCKED"))
      BY <1>5, <2>1, RowsAreEvents, LocalMoves
      DEF FinalRisk, Refuse, Record, Gains, Plain, Refusals, EventType, Early, Driving
    <3>2. QED BY <1>5, <2>1, <3>1, LocalMoves DEF FinalRisk, Refuse, Advances, Driving
  <2>2. CASE Record(Req(w), Plain("FINAL_RISK_PASSED")) /\ Goto(w, "orderCheck")
    <3>1. Gains(w, Plain("FINAL_RISK_PASSED"))
      BY <2>2, RowsAreEvents DEF Record, Gains, Plain, Refusals, EventType
    <3>2. QED BY <1>5, <2>2, <3>1, LocalMoves DEF FinalRisk, Advances, Labels, Driving, Early
  <2>3. QED BY <1>5, <2>1, <2>2 DEF FinalRisk
<1>6. CASE AppendRiskRefusal(w)
  <2>1. Gains(w, Plain("FINAL_RISK_BLOCKED"))
    BY <1>6, RowsAreEvents, LocalMoves
    DEF AppendRiskRefusal, Refuse, Record, Gains, Plain, Refusals, EventType, Early, Driving
  <2>2. QED BY <1>6, <2>1, LocalMoves DEF AppendRiskRefusal, Refuse, Advances, Driving
<1>7. CASE OrderCheck(w)
  <2>1. CASE Refuse(w, "ORDER_CHECK_REJECTED")
    <3>1. Gains(w, Plain("ORDER_CHECK_REJECTED"))
      BY <1>7, <2>1, RowsAreEvents, LocalMoves
      DEF OrderCheck, Refuse, Record, Gains, Plain, Refusals, EventType, Early, Driving
    <3>2. QED BY <1>7, <2>1, <3>1, LocalMoves DEF OrderCheck, Refuse, Advances, Driving
  <2>2. CASE Record(Req(w), Plain("ORDER_CHECKED")) /\ Goto(w, "gate")
    <3>1. Gains(w, Plain("ORDER_CHECKED"))
      BY <2>2, RowsAreEvents DEF Record, Gains, Plain, Refusals, EventType
    <3>2. QED BY <1>7, <2>2, <3>1, LocalMoves DEF OrderCheck, Advances, Labels, Driving, Early
  <2>3. QED BY <1>7, <2>1, <2>2 DEF OrderCheck
<1>8. CASE SubmissionGate(w)
  <2>1. CASE Refuse(w, "SUBMISSION_GATE_BLOCKED")
    <3>1. Gains(w, Plain("SUBMISSION_GATE_BLOCKED"))
      BY <1>8, <2>1, RowsAreEvents, LocalMoves
      DEF SubmissionGate, Refuse, Record, Gains, Plain, Refusals, EventType, Early, Driving
    <3>2. QED BY <1>8, <2>1, <3>1, LocalMoves DEF SubmissionGate, Refuse, Advances, Driving
  <2>2. CASE /\ Record(Req(w), Plain("SUBMISSION_GATE_PASSED"))
             /\ Goto(w, "start") \/ Goto(w, "permit")
    <3>1. Gains(w, Plain("SUBMISSION_GATE_PASSED"))
      BY <2>2, RowsAreEvents DEF Record, Gains, Plain, Refusals, EventType
    <3>2. QED BY <1>8, <2>2, <3>1, LocalMoves DEF SubmissionGate, Advances, Labels, Driving, Early
  <2>3. QED BY <1>8, <2>1, <2>2 DEF SubmissionGate
<1>9. CASE StartSubmission(w)
  <2>1. Gains(w, Plain("SUBMISSION_STARTED"))
    BY <1>9, RowsAreEvents DEF StartSubmission, Record, Gains, Plain, Refusals, EventType
  <2>2. QED BY <1>9, <2>1, LocalMoves DEF StartSubmission, Advances, Driving
<1>10. CASE CheckPermit(w)
  <2>1. CASE Refuse(w, "CANARY_PERMIT_BLOCKED")
    <3>1. Gains(w, Plain("CANARY_PERMIT_BLOCKED"))
      BY <1>10, <2>1, RowsAreEvents, LocalMoves
      DEF CheckPermit, Refuse, Record, Gains, Plain, Refusals, EventType, Early, Driving
    <3>2. QED BY <1>10, <2>1, <3>1, LocalMoves DEF CheckPermit, Refuse, Advances, Driving
  <2>2. CASE Goto(w, "consume") /\ UNCHANGED events
    BY <1>10, <2>2, LocalMoves DEF CheckPermit, Advances, Labels, Driving, Early
  <2>3. QED BY <1>10, <2>1, <2>2 DEF CheckPermit
<1>11. CASE RecordResult(w)
  <2>1. PICK code \in Retcodes(Req(w)) : Record(Req(w), Plain(Decoded(code)))
    BY <1>11 DEF RecordResult
  <2>2. Decoded(code) \in EventType \ Refusals
    BY DEF Decoded, EventType, Refusals
  <2>3. Gains(w, Plain(Decoded(code)))
    BY <2>1, <2>2, RowsAreEvents DEF Record, Gains, Plain
  <2>4. QED BY <1>11, <2>3, LocalMoves DEF RecordResult, Advances, Driving
<1>12. CASE AppendResolution(w)
  <2>1. RecoveryEvent(w) \in Events /\ RecoveryEvent(w).type \notin Refusals
    BY <1>a, RowsAreEvents DEF RecoveryEvent, Resolved, Verdicts, Refusals
  <2>2. Gains(w, RecoveryEvent(w))
    BY <1>12, <2>1 DEF AppendResolution, Record, Gains
  <2>3. QED BY <1>12, <2>2, LocalMoves DEF AppendResolution, Advances, Driving, Labels
<1>13. CASE AppendTicketFate(w)
  <2>1. PendingEvent(w) \in Events /\ PendingEvent(w).type \notin Refusals
    BY <1>a, RowsAreEvents
    DEF PendingEvent, Resolved, Verdicts, Refusals, Events, EventType
  <2>2. Gains(w, PendingEvent(w))
    BY <1>13, <2>1 DEF AppendTicketFate, Record, Gains
  <2>3. QED BY <1>13, <2>2, LocalMoves DEF AppendTicketFate, Advances, Driving, Labels
<1>14. QED
  BY <1>1, <1>2, <1>3, <1>4, <1>5, <1>6, <1>7, <1>8, <1>9, <1>10, <1>11,
     <1>12, <1>13 DEF AppendStep

------------------------------------------------------------------------------
(* Type correctness.                                                       *)

\* What a worker that was idle holds when it takes up a capsule.
LEMMA TakesUp ==
    ASSUME TypeOK, NEW w \in Workers, NEW c \in Capsules, NEW l \in Labels,
           NEW S \in SUBSET Requests,
           proc' = [proc EXCEPT ![w] = Busy(l, c, S)]
    PROVE  /\ proc' \in [Workers -> Locals]
           /\ \A v \in Workers : v # w => proc'[v] = proc[v]
           /\ proc'[w].at = l /\ proc'[w].cap = c
<1>1. Busy(l, c, S) \in Locals /\ Busy(l, c, S).at = l /\ Busy(l, c, S).cap = c
  BY DEF Locals, Busy
<1>2. QED BY <1>1 DEF TypeOK

\* A worker's reads of durable history and of the broker change only its own
\* locals, never the request it is on.
LEMMA ReadShape ==
    ASSUME TypeOK, NEW w \in Workers, ReadStep(w)
    PROVE  /\ ~At(w, "idle") /\ proc[w].at \notin Driving
           /\ proc' \in [Workers -> Locals]
           /\ \A v \in Workers : v # w => proc'[v] = proc[v]
           /\ proc'[w].at # "idle" => proc'[w].cap = proc[w].cap
           /\ proc'[w].at \notin Driving
           /\ proc[w].at \in Exempt => proc'[w].at \in Exempt
<1> USE DEF At
<1>0. proc[w] \in Locals /\ proc \in [Workers -> Locals]
  BY DEF TypeOK
<1>1. CASE ReadHistory(w)
  BY <1>1, LocalMoves DEF ReadHistory, Labels, Driving, Exempt
<1>2. CASE ReadPositions(w)
  <2> DEFINE l == [proc[w] EXCEPT !.pos = MatchingPositions(Req(w)),
                     !.at = IF MatchingPositions(Req(w)) = {} THEN "readPending" ELSE "resolve"]
  <2>1. MatchingPositions(Req(w)) \in SUBSET Requests
    BY DEF MatchingPositions, Positions
  <2>2. l \in Locals /\ l.cap = proc[w].cap /\ l.at \in {"readPending", "resolve"}
    BY <1>0, <2>1 DEF Locals, Labels
  <2>3. proc' = [proc EXCEPT ![w] = l]
    BY <1>0, <1>2 DEF ReadPositions, Locals
  <2> HIDE DEF l
  <2>4. proc[w].at = "readPositions"
    BY <1>2 DEF ReadPositions
  <2>5. /\ proc' \in [Workers -> Locals] /\ proc'[w] = l
        /\ \A v \in Workers : v # w => proc'[v] = proc[v]
    BY <1>0, <2>2, <2>3
  <2>6. QED BY <2>2, <2>4, <2>5 DEF Driving, Exempt
<1>3. CASE ReadPending(w)
  <2> DEFINE l == [proc[w] EXCEPT !.pend = MatchingPending(Req(w)), !.at = "resolve"]
  <2>1. MatchingPending(Req(w)) \in SUBSET Requests
    BY DEF MatchingPending, PendingOrders
  <2>2. l \in Locals /\ l.cap = proc[w].cap /\ l.at = "resolve"
    BY <1>0, <2>1 DEF Locals, Labels
  <2>3. CASE Done(w)
    BY <1>3, <2>3, LocalMoves DEF ReadPending, Driving, Exempt
  <2>4. CASE proc' = [proc EXCEPT ![w].pend = MatchingPending(Req(w)), ![w].at = "resolve"]
    <3>1. proc' = [proc EXCEPT ![w] = l]
      BY <1>0, <2>4 DEF Locals
    <3> HIDE DEF l
    <3>2. QED BY <1>0, <1>3, <2>2, <3>1 DEF ReadPending, Driving, Exempt
  <2>5. QED BY <1>3, <2>3, <2>4 DEF ReadPending
<1>4. CASE ReadTicket(w)
  <2> DEFINE m == PendingOrders \cap {Req(w)}
             l == [proc[w] EXCEPT !.pend = m, !.at = "readSubmitted"]
  <2>1. m \in SUBSET Requests
    BY DEF PendingOrders
  <2>2. l \in Locals /\ l.cap = proc[w].cap /\ l.at = "readSubmitted"
    BY <1>0, <2>1 DEF Locals, Labels
  <2>3. proc' = [proc EXCEPT ![w] = l] /\ proc[w].at = "readTicket"
    BY <1>0, <1>4 DEF ReadTicket, Locals
  <2> HIDE DEF l
  <2>4. QED BY <1>0, <2>2, <2>3 DEF Driving, Exempt
<1>5. CASE ReadSubmitted(w)
  BY <1>5, LocalMoves DEF ReadSubmitted, Labels, Driving, Exempt
<1>6. QED BY <1>1, <1>2, <1>3, <1>4, <1>5 DEF ReadStep

\* The three steps of a capture: the reads and the record of what they saw stay
\* within the drive and touch no history.
LEMMA CaptureShape ==
    ASSUME TypeOK, NEW w \in Workers, CaptureStep(w)
    PROVE  ~At(w, "idle") /\ Advances(w) /\ flat' \in BOOLEAN
<1> USE DEF At
<1>0. /\ proc[w] \in Locals /\ proc \in [Workers -> Locals] /\ flat \in BOOLEAN
      /\ Positions \in SUBSET Requests /\ PendingOrders \in SUBSET Requests
  BY DEF TypeOK, Positions, PendingOrders
<1>1. ASSUME NEW l \in Locals, proc' = [proc EXCEPT ![w] = l], l.cap = proc[w].cap,
             l.at \in Early, proc[w].at \in Early
      PROVE  ~At(w, "idle") /\ Advances(w)
  BY <1>0, <1>1 DEF Advances, Early, Driving
<1>2. CASE CapturePositions(w) /\ UNCHANGED flat
  <2> DEFINE l == [proc[w] EXCEPT !.pos = Positions, !.at = "capturePending"]
  <2>1. l \in Locals /\ l.cap = proc[w].cap /\ l.at = "capturePending"
    BY <1>0 DEF Locals, Labels
  <2>2. proc' = [proc EXCEPT ![w] = l] /\ proc[w].at = "capture"
    BY <1>0, <1>2 DEF CapturePositions, Locals
  <2> HIDE DEF l
  <2>3. QED BY <1>0, <1>1, <1>2, <2>1, <2>2 DEF Early, Driving
<1>3. CASE CapturePending(w) /\ UNCHANGED flat
  <2> DEFINE l == [proc[w] EXCEPT !.pend = PendingOrders, !.at = "record"]
  <2>1. l \in Locals /\ l.cap = proc[w].cap /\ l.at = "record"
    BY <1>0 DEF Locals, Labels
  <2>2. proc' = [proc EXCEPT ![w] = l] /\ proc[w].at = "capturePending"
    BY <1>0, <1>3 DEF CapturePending, Locals
  <2> HIDE DEF l
  <2>3. QED BY <1>0, <1>1, <1>3, <2>1, <2>2 DEF Early, Driving
<1>4. CASE RecordSnapshot(w)
  <2> DEFINE l == Busy("reconcile", proc[w].cap, {})
  <2>1. l \in Locals /\ l.cap = proc[w].cap /\ l.at = "reconcile"
    BY <1>0 DEF Busy, Locals, Labels
  <2>2. /\ proc' = [proc EXCEPT ![w] = l] /\ proc[w].at = "record"
        /\ flat' \in BOOLEAN
    BY <1>0, <1>4 DEF RecordSnapshot
  <2> HIDE DEF l
  <2>3. QED BY <1>0, <1>1, <2>1, <2>2 DEF Early, Driving
<1>5. QED BY <1>2, <1>3, <1>4 DEF CaptureStep

\* The stores, a worker's locals and the broker's book keep their types
\* through every step of every worker, of the broker and of the operator.
LEMMA TypePreserved == TypeOK /\ [Next]_vars => TypeOK'
<1> SUFFICES ASSUME TypeOK, [Next]_vars PROVE TypeOK'
  OBVIOUS
<1> USE DEF At, vars, stores, memory, broker
<1>1. ASSUME NEW w \in Workers, NEW c \in Capsules, ClaimWon(w, c) PROVE TypeOK'
  <2>1. proc' = [proc EXCEPT ![w] = Busy("claimed", c, {})] /\ "claimed" \in Labels
        /\ {} \in SUBSET Requests
    BY <1>1 DEF ClaimWon, Labels
  <2>2. /\ proc' \in [Workers -> Locals]
        /\ \A v \in Workers : v # w => proc'[v] = proc[v]
        /\ proc'[w].cap = c
    BY <2>1, TakesUp
  <2>3. claims' \in [Requests -> Fingerprints \cup {None}]
    BY <1>1 DEF ClaimWon, TypeOK
  <2>4. QED BY <1>1, <2>2, <2>3 DEF ClaimWon, TypeOK
<1>2. ASSUME NEW w \in Workers, NEW c \in Capsules, ClaimLost(w, c) PROVE TypeOK'
  <2>1. proc' = [proc EXCEPT ![w] = Busy("recover", c, {})] /\ "recover" \in Labels
        /\ {} \in SUBSET Requests
    BY <1>2 DEF ClaimLost, Labels
  <2>2. /\ proc' \in [Workers -> Locals]
        /\ \A v \in Workers : v # w => proc'[v] = proc[v]
        /\ proc'[w].cap = c
    BY <2>1, TakesUp
  <2>3. QED BY <1>2, <2>2 DEF ClaimLost, TypeOK
<1>3. ASSUME NEW w \in Workers, NEW c \in Capsules, StartResolvePending(w, c) PROVE TypeOK'
  <2>1. MatchingPositions(RequestOf[c]) \in SUBSET Requests /\ "readTicket" \in Labels
    BY DEF MatchingPositions, Positions, Labels
  <2>2. /\ proc' \in [Workers -> Locals]
        /\ \A v \in Workers : v # w => proc'[v] = proc[v]
        /\ proc'[w].cap = c
    BY <1>3, <2>1, TakesUp DEF StartResolvePending
  <2>3. QED BY <1>3, <2>2 DEF StartResolvePending, TypeOK
<1>4. ASSUME NEW w \in Workers, AppendStep(w) PROVE TypeOK'
  <2>1. ~At(w, "idle") /\ Advances(w) /\ (UNCHANGED events \/ \E e : Gains(w, e))
    BY <1>4, AppendShape
  <2>2. events' \in [Requests -> Seq(Events)]
    <3>1. CASE UNCHANGED events
      BY <3>1 DEF TypeOK
    <3>2. CASE \E e : Gains(w, e)
      <4>1. PICK e : Gains(w, e)
        BY <3>2
      <4>2. Req(w) \in Requests
        BY <2>1 DEF TypeOK, Req
      <4>3. events[Req(w)] \in Seq(Events)
        BY <4>2 DEF TypeOK
      <4>4. Appended(events[Req(w)], e) \in Seq(Events)
        BY <4>1, <4>3, AppendedType DEF Gains
      <4>5. QED BY <4>1, <4>2, <4>4 DEF Gains, TypeOK
    <3>3. QED BY <2>1, <3>1, <3>2
  <2>3. QED BY <1>4, <2>1, <2>2 DEF AppendStep, Advances, TypeOK
<1>5. ASSUME NEW w \in Workers, ConsumeStep(w) PROVE TypeOK'
  <2>1. /\ Req(w) \in Requests /\ events[Req(w)] \in Seq(Events)
        /\ events \in [Requests -> Seq(Events)]
    BY <1>5 DEF ConsumeStep, ConsumePermit, TypeOK, Req
  <2>2. Plain("SUBMISSION_STARTED") \in Events /\ Plain("CANARY_PERMIT_BLOCKED") \in Events
    BY RowsAreEvents DEF EventType, Refusals
  <2>3. /\ Appended(events[Req(w)], Plain("SUBMISSION_STARTED")) \in Seq(Events)
        /\ Appended(events[Req(w)], Plain("CANARY_PERMIT_BLOCKED")) \in Seq(Events)
    BY <2>1, <2>2, AppendedType
  <2>4. events' \in [Requests -> Seq(Events)]
    <3>1. \/ Record(Req(w), Plain("SUBMISSION_STARTED"))
          \/ Record(Req(w), Plain("CANARY_PERMIT_BLOCKED"))
      BY <1>5 DEF ConsumeStep, ConsumePermit, Refuse
    <3>2. QED BY <2>1, <2>3, <3>1 DEF Record
  <2>5. consumed' \in [Permits -> Requests \cup {None}]
    BY <1>5, <2>1 DEF ConsumeStep, ConsumePermit, TypeOK
  <2>6. Goto(w, "send") \/ Done(w)
    BY <1>5 DEF ConsumeStep, ConsumePermit, Refuse
  <2>7. /\ proc' \in [Workers -> Locals]
        /\ \A v \in Workers : proc'[v].at # "idle" => proc'[v].cap \in Capsules
    BY <1>5, <2>6, LocalMoves DEF ConsumeStep, ConsumePermit, TypeOK, Labels
  <2>8. QED BY <1>5, <2>4, <2>5, <2>7 DEF ConsumeStep, TypeOK
<1>6. ASSUME NEW w \in Workers, TripStep(w) PROVE TypeOK'
  <2>1. ~At(w, "idle") /\ Trip(w) /\ (Goto(w, "riskRefused") \/ Done(w))
    BY <1>6 DEF TripStep, FinalRiskHalts, TripIntegrityAmbiguous
  <2>2. /\ proc' \in [Workers -> Locals]
        /\ \A v \in Workers : proc'[v].at # "idle" => proc'[v].cap \in Capsules
    BY <2>1, LocalMoves DEF TypeOK, Labels
  <2>3. latch' \in {"RUNNING", "HALTED"}
    BY <2>1 DEF Trip, TypeOK
  <2>4. halted' \in [Workers -> BOOLEAN]
    BY <2>1 DEF Trip, TypeOK
  <2>5. QED BY <1>6, <2>2, <2>3, <2>4 DEF TripStep, TypeOK
<1>7. ASSUME NEW w \in Workers, SendStep(w) PROVE TypeOK'
  <2>1. ~At(w, "idle") /\ Goto(w, "await")
    BY <1>7 DEF SendStep, OrderSend
  <2>2. /\ proc' \in [Workers -> Locals]
        /\ \A v \in Workers : proc'[v].at # "idle" => proc'[v].cap \in Capsules
    BY <2>1, LocalMoves DEF TypeOK, Labels
  <2>3. order' \in [Requests -> Fates]
    BY <1>7 DEF SendStep, OrderSend, TypeOK, Fates
  <2>4. sends' \in [Requests -> Nat]
    <3>1. Req(w) \in Requests
      BY <2>1 DEF TypeOK, Req
    <3>2. sends[Req(w)] + 1 \in Nat
      BY <3>1 DEF TypeOK
    <3>3. QED BY <1>7, <3>1, <3>2 DEF SendStep, OrderSend, TypeOK
  <2>5. QED BY <1>7, <2>2, <2>3, <2>4 DEF SendStep, TypeOK
<1>8. ASSUME NEW w \in Workers, FailStep(w) PROVE TypeOK'
  <2>1. /\ proc' \in [Workers -> Locals]
        /\ \A v \in Workers : proc'[v].at # "idle" => proc'[v].cap \in Capsules
    BY <1>8, LocalMoves DEF FailStep, TransportFails, TypeOK
  <2>2. QED BY <1>8, <2>1 DEF FailStep, TypeOK
<1>9. ASSUME NEW w \in Workers, ReadStep(w) PROVE TypeOK'
  <2>1. /\ proc' \in [Workers -> Locals]
        /\ \A v \in Workers : proc'[v].at # "idle" => proc'[v].cap \in Capsules
    BY <1>9, ReadShape DEF TypeOK
  <2>2. QED BY <1>9, <2>1 DEF ReadStep, TypeOK
<1>10. ASSUME NEW w \in Workers, Raise(w) PROVE TypeOK'
  <2>1. /\ proc' \in [Workers -> Locals]
        /\ \A v \in Workers : proc'[v].at # "idle" => proc'[v].cap \in Capsules
    BY <1>10, LocalMoves DEF Raise, TypeOK
  <2>2. faults' \in 0..MaxFaults
    BY <1>10 DEF Raise, TypeOK
  <2>3. QED BY <1>10, <2>1, <2>2 DEF Raise, TypeOK
<1>11. ASSUME NEW w \in Workers, Crash(w) PROVE TypeOK'
  <2>1. /\ proc' \in [Workers -> Locals]
        /\ \A v \in Workers : proc'[v].at # "idle" => proc'[v].cap \in Capsules
    BY <1>11, LocalMoves DEF Crash, TypeOK
  <2>2. faults' \in 0..MaxFaults
    BY <1>11 DEF Crash, TypeOK
  <2>3. halted' \in [Workers -> BOOLEAN]
    BY <1>11 DEF Crash, TypeOK
  <2>4. QED BY <1>11, <2>1, <2>2, <2>3 DEF Crash, TypeOK
<1>12. ASSUME NEW r \in Requests, BrokerStep(r) PROVE TypeOK'
  <2>1. PICK to : to \in Fates /\ order' = [order EXCEPT ![r] = to]
                  /\ UNCHANGED <<stores, memory, sends, faults>>
    BY <1>12
    DEF BrokerStep, StrangerAppears, BrokerAccepts, BrokerRejects, OrderLost, PendingFills,
        PendingRemoved, PositionCloses, BrokerMoves, Fates
  <2>2. order' \in [Requests -> Fates]
    BY <2>1 DEF TypeOK
  <2>3. QED BY <2>1, <2>2 DEF TypeOK
<1>13. ASSUME NEW p \in Permits, IssuePermit(p) PROVE TypeOK'
  BY <1>13 DEF IssuePermit, TypeOK
<1>14. CASE UNCHANGED vars
  BY <1>14 DEF TypeOK
<1>15. ASSUME NEW w \in Workers, CaptureStep(w) PROVE TypeOK'
  <2>1. ~At(w, "idle") /\ Advances(w) /\ flat' \in BOOLEAN
    BY <1>15, CaptureShape
  <2>2. QED BY <1>15, <2>1 DEF CaptureStep, Advances, TypeOK
<1>16. QED
  BY <1>1, <1>2, <1>3, <1>4, <1>5, <1>6, <1>7, <1>8, <1>9, <1>10, <1>11,
     <1>12, <1>13, <1>14, <1>15 DEF Next, Step

\* The empty stores, the idle workers and the empty book have their types.
LEMMA TypeAtInit == Init => TypeOK
<1> SUFFICES ASSUME Init PROVE TypeOK
  OBVIOUS
<1>1. Idle \in Locals /\ Idle.at = "idle"
  BY DEF Idle, Locals, Labels
<1>2. proc \in [Workers -> Locals] /\ \A w \in Workers : At(w, "idle")
  BY <1>1 DEF Init, At
<1>3. events \in [Requests -> Seq(Events)]
  BY DEF Init
<1>4. order \in [Requests -> Fates] /\ sends \in [Requests -> Nat]
  BY DEF Init, Fates
<1>5. faults \in 0..MaxFaults
  BY ConstantsAssumption DEF Init, ConstantsAssumption
<1>6. flat \in BOOLEAN
  BY DEF Init
<1>7. QED BY <1>2, <1>3, <1>4, <1>5, <1>6 DEF Init, TypeOK

\* The durable stores, the workers' locals and the broker's book always hold
\* values of their types.
THEOREM TypeCorrect == Spec => []TypeOK
<1>1. Init => TypeOK
  BY TypeAtInit
<1>2. QED BY <1>1, TypePreserved, PTL DEF Spec

------------------------------------------------------------------------------
(* The safety invariant.                                                   *)

\* Any step of worker w that takes no claim, spends no permit and sends no
\* order: it stays on its request and never re-enters the drive.
Quiet(w) ==
    /\ \A v \in Workers : v # w => proc'[v] = proc[v]
    /\ proc'[w].at # "idle" => proc[w].at # "idle" /\ proc'[w].cap = proc[w].cap
    /\ proc'[w].at \in Driving => proc'[w].at \in Early /\ proc[w].at \in Early
    /\ proc'[w].at \notin Exempt => proc[w].at \notin Exempt
    /\ UNCHANGED <<claims, consumed, sends>>

\* Histories keep their commitment, start only after a claim, and gain a
\* refusal only from a driver that stops there.
HistoryKept(w) ==
    \A r \in Requests :
        /\ Has(events[r], "SUBMISSION_STARTED") => Has(events'[r], "SUBMISSION_STARTED")
        /\ claims[r] = None => events'[r] = <<>>
        /\ (\E t \in Refusals : Has(events'[r], t)) =>
              \/ Refused(r)
              \/ r = Req(w) /\ proc[w].at \in Early /\ proc'[w].at = "idle"

\* Quiet steps preserve the invariant: this is the bulk of the entry path,
\* every gate, refusal, recovery and result.
LEMMA QuietPreserves ==
    ASSUME SubmissionInv, TypeOK', NEW w \in Workers, Quiet(w), HistoryKept(w)
    PROVE  SubmissionInv'
<1>0. TypeOK /\ DOMAIN claims = Requests
  BY DEF SubmissionInv, TypeOK
<1>1. ASSUME NEW v \in Workers, proc'[v].at \in Driving
      PROVE  /\ proc[v].at \in Driving
             /\ RequestOf[proc'[v].cap] = RequestOf[proc[v].cap]
             /\ proc'[v].at = proc[v].at \/ (proc'[v].at \in Early /\ proc[v].at \in Early)
  BY <1>1 DEF Quiet, Early, Driving
<1>2. ASSUME NEW v \in Workers, proc'[v].at # "idle"
      PROVE  proc[v].at # "idle" /\ proc'[v].cap = proc[v].cap /\ Req(v) \in Requests
  BY <1>0, <1>2 DEF Quiet, TypeOK, Req, At
<1>3. OneDriverPerRequest'
  BY <1>1 DEF SubmissionInv, OneDriverPerRequest, Req
<1>4. AtMostOneSend' /\ EverySendSpentAPermit' /\ OnePermitPerRequest'
  BY DEF Quiet, SubmissionInv, AtMostOneSend, EverySendSpentAPermit, OnePermitPerRequest
<1>5. CommitBeforeSend'
  BY DEF Quiet, HistoryKept, SubmissionInv, CommitBeforeSend
<1>6. RefusedNeverSent'
  <2>1. proc[w].at \in Early => sends[Req(w)] = 0
    BY DEF SubmissionInv, BeforeTheCommitment, Early
  <2>2. QED BY <2>1 DEF Quiet, HistoryKept, SubmissionInv, RefusedNeverSent, Refused
<1>7. OneApprovalChain'
  <2>1. ASSUME NEW v \in Workers, proc'[v].at \notin Exempt
        PROVE  proc[v].at \notin Exempt /\ proc'[v].cap = proc[v].cap
    BY <1>2, <2>1 DEF Quiet, Exempt
  <2>2. QED BY <2>1 DEF Quiet, SubmissionInv, OneApprovalChain, Exempt, At, Req
<1>8. UnclaimedIsUntouched'
  BY DEF Quiet, HistoryKept, SubmissionInv, UnclaimedIsUntouched, Spent
<1>9. BusyMeansClaimed'
  BY <1>2 DEF Quiet, SubmissionInv, BusyMeansClaimed, At, Req
<1>10. DriverIsNotRefused'
  <2> SUFFICES ASSUME NEW v \in Workers, proc'[v].at \in Driving,
                      \E t \in Refusals : Has(events'[Req(v)], t)
               PROVE  FALSE
    <3>1. ASSUME NEW v \in Workers, proc'[v].at \in Driving PROVE Req(v)' = Req(v)
      BY <1>1, <3>1 DEF Req
    <3>2. QED BY <3>1 DEF DriverIsNotRefused, Refused
  <2>1. proc[v].at \in Driving /\ ~Refused(Req(v)) /\ Req(v) \in Requests
    BY <1>1, <1>2 DEF SubmissionInv, DriverIsNotRefused, Driving
  <2>2. Req(v) = Req(w) /\ proc[w].at \in Early /\ proc'[w].at = "idle"
    BY <2>1 DEF HistoryKept
  <2>3. v = w
    BY <2>1, <2>2 DEF SubmissionInv, OneDriverPerRequest, Early
  <2>4. QED BY <2>2, <2>3 DEF Driving
<1>11. BeforeTheCommitment'
  <2>1. ASSUME NEW v \in Workers, proc'[v].at \in Early
        PROVE  proc[v].at \in Early /\ RequestOf[proc'[v].cap] = RequestOf[proc[v].cap]
    BY <1>1, <2>1 DEF Early
  <2>2. QED BY <2>1 DEF Quiet, SubmissionInv, BeforeTheCommitment, Early, Spent, Req
<1>12. BetweenCommitmentAndSend'
  <2>1. ASSUME NEW v \in Workers, proc'[v].at = "send"
        PROVE  /\ proc[v].at = "send" /\ Req(v) \in Requests
               /\ RequestOf[proc'[v].cap] = RequestOf[proc[v].cap]
    BY <1>1, <1>2, <2>1 DEF Early, Driving
  <2>2. QED BY <2>1
    DEF Quiet, HistoryKept, SubmissionInv, BetweenCommitmentAndSend, At, Spent, Req
<1>13. QED
  BY <1>3, <1>4, <1>5, <1>6, <1>7, <1>8, <1>9, <1>10, <1>11, <1>12 DEF SubmissionInv

\* A step that leaves every history alone keeps histories as they should be.
LEMMA UnchangedKeepsHistory ==
    ASSUME SubmissionInv, NEW w \in Workers, UNCHANGED events
    PROVE  HistoryKept(w)
BY DEF HistoryKept, SubmissionInv, UnclaimedIsUntouched, Refused

\* So does a step that adds one row to the worker's own, claimed, request.
LEMMA GainKeepsHistory ==
    ASSUME SubmissionInv, NEW w \in Workers, ~At(w, "idle"), NEW e, Gains(w, e)
    PROVE  HistoryKept(w)
<1>1. /\ Req(w) \in Requests /\ claims[Req(w)] # None
      /\ events \in [Requests -> Seq(Events)] /\ events[Req(w)] \in Seq(Events)
  BY DEF SubmissionInv, TypeOK, BusyMeansClaimed, Req
<1>2. ASSUME NEW r \in Requests, r # Req(w) PROVE events'[r] = events[r]
  BY <1>1, <1>2 DEF Gains
<1>3. events'[Req(w)] = Appended(events[Req(w)], e) /\ e \in Events
  BY <1>1 DEF Gains
<1>4. ASSUME NEW t
      PROVE  Has(events'[Req(w)], t) <=> Has(events[Req(w)], t) \/ e.type = t
  BY <1>1, <1>3, AppendedHas
<1>5. ASSUME NEW r \in Requests
      PROVE  /\ Has(events[r], "SUBMISSION_STARTED") => Has(events'[r], "SUBMISSION_STARTED")
             /\ claims[r] = None => events'[r] = <<>>
             /\ (\E t \in Refusals : Has(events'[r], t)) =>
                   \/ Refused(r)
                   \/ r = Req(w) /\ proc[w].at \in Early /\ proc'[w].at = "idle"
  <2>1. CASE r # Req(w)
    BY <1>2, <2>1 DEF SubmissionInv, UnclaimedIsUntouched, Refused
  <2>2. CASE r = Req(w)
    BY <1>1, <1>4, <2>2 DEF Refused, Gains
  <2>3. QED BY <2>1, <2>2
<1>6. QED BY <1>5 DEF HistoryKept

\* Appends of the gates, of the results and of the recoveries.
LEMMA AppendPreserves ==
    ASSUME SubmissionInv, TypeOK', NEW w \in Workers, AppendStep(w)
    PROVE  SubmissionInv'
<1>1. ~At(w, "idle") /\ Advances(w) /\ (UNCHANGED events \/ \E e : Gains(w, e))
  BY AppendShape DEF SubmissionInv
<1>2. Quiet(w)
  BY <1>1 DEF Advances, Quiet, AppendStep, broker, At, Exempt, Early, Driving
<1>3. HistoryKept(w)
  BY <1>1, UnchangedKeepsHistory, GainKeepsHistory
<1>4. QED BY <1>2, <1>3, QuietPreserves

\* The winning INSERT: the request was untouched, and nobody else is on it.
LEMMA ClaimWonPreserves ==
    ASSUME SubmissionInv, TypeOK', NEW w \in Workers, NEW c \in Capsules, ClaimWon(w, c)
    PROVE  SubmissionInv'
<1> DEFINE r == RequestOf[c]
<1>0. TypeOK /\ r \in Requests /\ claims[r] = None /\ UNCHANGED <<events, consumed, sends>>
  BY DEF SubmissionInv, ClaimWon, broker
<1>1. events[r] = <<>> /\ sends[r] = 0 /\ ~Spent(r)
  BY <1>0 DEF SubmissionInv, UnclaimedIsUntouched
<1>2. /\ claims'[r] = FingerprintOf[c] /\ claims'[r] # None
      /\ \A q \in Requests : q # r => claims'[q] = claims[q]
  BY <1>0 DEF ClaimWon, TypeOK
<1>3. /\ \A v \in Workers : v # w => proc'[v] = proc[v]
      /\ proc'[w].at = "claimed" /\ proc'[w].cap = c
  BY <1>0, TakesUp DEF ClaimWon, Labels, Busy, TypeOK
<1>4. ASSUME NEW v \in Workers, v # w, proc[v].at # "idle"
      PROVE  Req(v) # r /\ Req(v) \in Requests /\ Req(v)' = Req(v)
  BY <1>0, <1>3, <1>4 DEF SubmissionInv, BusyMeansClaimed, TypeOK, Req, At
<1>5. Req(w)' = r
  BY <1>3 DEF Req
<1> HIDE DEF r
<1>6. OneDriverPerRequest'
  <2> SUFFICES ASSUME NEW u \in Workers, NEW v \in Workers,
                      proc'[u].at \in Driving, proc'[v].at \in Driving,
                      Req(u)' = Req(v)'
               PROVE  u = v
    BY DEF OneDriverPerRequest
  <2>1. CASE u # w /\ v # w
    BY <1>3, <1>4, <2>1 DEF SubmissionInv, OneDriverPerRequest, Driving
  <2>2. CASE u = w \/ v = w
    BY <1>3, <1>4, <1>5, <2>2 DEF Driving
  <2>3. QED BY <2>1, <2>2
<1>7. AtMostOneSend' /\ EverySendSpentAPermit' /\ OnePermitPerRequest' /\ CommitBeforeSend'
      /\ RefusedNeverSent'
  BY <1>0 DEF SubmissionInv, AtMostOneSend, EverySendSpentAPermit, OnePermitPerRequest,
              CommitBeforeSend, RefusedNeverSent
<1>8. OneApprovalChain'
  <2>1. ASSUME NEW v \in Workers, v # w, proc'[v].at \notin Exempt
        PROVE  claims'[Req(v)'] = FingerprintOf[proc'[v].cap]
    <3>1. proc[v].at \notin Exempt /\ proc'[v].cap = proc[v].cap
      BY <1>3, <2>1
    <3>2. QED BY <1>2, <1>4, <2>1, <3>1 DEF SubmissionInv, OneApprovalChain, Exempt, At
  <2>2. claims'[Req(w)'] = FingerprintOf[proc'[w].cap]
    BY <1>2, <1>3, <1>5
  <2>3. QED BY <2>1, <2>2 DEF OneApprovalChain, Exempt, At, Req
<1>9. UnclaimedIsUntouched'
  BY <1>0, <1>2 DEF SubmissionInv, UnclaimedIsUntouched, Spent
<1>10. BusyMeansClaimed'
  BY <1>2, <1>3, <1>4, <1>5 DEF SubmissionInv, BusyMeansClaimed, At, Req
<1>11. DriverIsNotRefused'
  <2>1. ~Refused(r)'
    BY <1>0, <1>1 DEF Refused, Has
  <2>2. ASSUME NEW v \in Workers, v # w, proc'[v].at \in Driving PROVE ~Refused(Req(v))'
    BY <1>0, <1>3, <1>4, <2>2 DEF SubmissionInv, DriverIsNotRefused, Refused, Driving
  <2>3. QED BY <1>5, <2>1, <2>2 DEF DriverIsNotRefused, Refused, Req
<1>12. BeforeTheCommitment'
  <2>1. ASSUME NEW v \in Workers, v # w, proc'[v].at \in Early
        PROVE  ~Spent(Req(v))' /\ sends'[Req(v)'] = 0
    BY <1>0, <1>3, <1>4, <2>1 DEF SubmissionInv, BeforeTheCommitment, Spent, Early, Driving
  <2>2. ~Spent(r)' /\ sends'[r] = 0
    BY <1>0, <1>1 DEF Spent
  <2>3. QED BY <1>5, <2>1, <2>2 DEF BeforeTheCommitment, Early, Spent, Req
<1>13. BetweenCommitmentAndSend'
  BY <1>0, <1>3, <1>4 DEF SubmissionInv, BetweenCommitmentAndSend, At, Spent, Req
<1>14. QED
  BY <1>6, <1>7, <1>8, <1>9, <1>10, <1>11, <1>12, <1>13 DEF SubmissionInv

\* An idle worker takes up a claimed request only to look at it.
LEMMA LookingPreserves ==
    ASSUME SubmissionInv, TypeOK', NEW w \in Workers, NEW c \in Capsules,
           ClaimLost(w, c) \/ StartResolvePending(w, c)
    PROVE  SubmissionInv'
<1> USE DEF At
<1>0. TypeOK /\ UNCHANGED <<claims, events, consumed, sends>>
  BY DEF SubmissionInv, ClaimLost, StartResolvePending, stores, broker
<1>1. /\ claims[RequestOf[c]] # None
      /\ ClaimLost(w, c) => claims[RequestOf[c]] = FingerprintOf[c]
  <2>1. CASE ClaimLost(w, c)
    BY <2>1 DEF ClaimLost
  <2>2. CASE StartResolvePending(w, c) /\ ~ClaimLost(w, c)
    <3>1. events[RequestOf[c]] # <<>>
      BY <2>2 DEF StartResolvePending, Has
    <3>2. QED BY <2>2, <3>1 DEF SubmissionInv, UnclaimedIsUntouched
  <2>3. QED BY <2>1, <2>2
<1>2. /\ \A v \in Workers : v # w => proc'[v] = proc[v]
      /\ proc'[w].cap = c
      /\ (proc'[w].at = "recover" /\ ClaimLost(w, c)) \/ proc'[w].at = "readTicket"
  <2>1. CASE ClaimLost(w, c)
    BY <1>0, <2>1 DEF ClaimLost, Busy, TypeOK
  <2>2. CASE StartResolvePending(w, c)
    BY <1>0, <2>2 DEF StartResolvePending, Busy, TypeOK
  <2>3. QED BY <2>1, <2>2
<1>3. proc'[w].at \notin Driving
  BY <1>2 DEF Driving
<1>4. ASSUME NEW v \in Workers, proc'[v].at \in Driving
      PROVE  proc'[v] = proc[v] /\ Req(v)' = Req(v)
  BY <1>2, <1>3, <1>4 DEF Req
<1>5. OneDriverPerRequest'
  BY <1>4 DEF SubmissionInv, OneDriverPerRequest
<1>6. /\ AtMostOneSend' /\ EverySendSpentAPermit' /\ OnePermitPerRequest' /\ CommitBeforeSend'
      /\ RefusedNeverSent' /\ UnclaimedIsUntouched'
  BY <1>0 DEF SubmissionInv, AtMostOneSend, EverySendSpentAPermit, OnePermitPerRequest,
              CommitBeforeSend, RefusedNeverSent, UnclaimedIsUntouched, Spent
<1>7. OneApprovalChain'
  BY <1>0, <1>1, <1>2 DEF SubmissionInv, OneApprovalChain, Req
<1>8. BusyMeansClaimed'
  BY <1>0, <1>1, <1>2 DEF SubmissionInv, BusyMeansClaimed, Req
<1>9. DriverIsNotRefused'
  BY <1>0, <1>4 DEF SubmissionInv, DriverIsNotRefused, Refused
<1>10. BeforeTheCommitment'
  BY <1>0, <1>4 DEF SubmissionInv, BeforeTheCommitment, Spent
<1>11. BetweenCommitmentAndSend'
  <2>1. "send" \in Driving
    BY DEF Driving
  <2>2. QED BY <1>0, <1>4, <2>1 DEF SubmissionInv, BetweenCommitmentAndSend, Spent
<1>12. QED
  BY <1>5, <1>6, <1>7, <1>8, <1>9, <1>10, <1>11 DEF SubmissionInv

\* The one transaction that spends the permit and commits to the submission,
\* or finds the permit spent and refuses.
LEMMA ConsumePreserves ==
    ASSUME SubmissionInv, TypeOK', NEW w \in Workers, ConsumeStep(w)
    PROVE  SubmissionInv'
<1> USE DEF At
<1>0. /\ TypeOK /\ proc[w].at = "consume" /\ Req(w) \in Requests /\ PermitOf[w] \in Permits
      /\ UNCHANGED <<claims, sends>>
  BY DEF SubmissionInv, ConsumeStep, ConsumePermit, TypeOK, Req, broker
<1>1. CASE consumed[PermitOf[w]] # None
  <2>1. Refuse(w, "CANARY_PERMIT_BLOCKED") /\ UNCHANGED consumed
    BY <1>1 DEF ConsumeStep, ConsumePermit
  <2>2. Gains(w, Plain("CANARY_PERMIT_BLOCKED"))
    BY <1>0, <2>1, RowsAreEvents, LocalMoves
    DEF Refuse, Record, Gains, Plain, Refusals, EventType, Early, Driving
  <2>3. HistoryKept(w)
    BY <1>0, <2>2, GainKeepsHistory
  <2>4. Quiet(w)
    BY <1>0, <2>1, LocalMoves DEF Refuse, Quiet, Driving, Exempt
  <2>5. QED BY <2>3, <2>4, QuietPreserves
<1>2. CASE consumed[PermitOf[w]] = None
  <2> DEFINE p == PermitOf[w]
             r == Req(w)
  <2>1. /\ consumed' = [consumed EXCEPT ![p] = r]
        /\ events' = [events EXCEPT ![r] = Appended(@, Plain("SUBMISSION_STARTED"))]
        /\ Goto(w, "send")
    BY <1>2 DEF ConsumeStep, ConsumePermit, Record
  <2>2. /\ \A v \in Workers : v # w => proc'[v] = proc[v]
        /\ proc'[w].at = "send" /\ proc'[w].cap = proc[w].cap
    BY <1>0, <2>1, LocalMoves DEF Labels
  <2>3. /\ consumed'[p] = r /\ \A q \in Permits : q # p => consumed'[q] = consumed[q]
        /\ r # None
    BY <1>0, <2>1 DEF TypeOK
  <2>4. ~Spent(r) /\ sends[r] = 0 /\ ~Refused(r) /\ claims[r] # None
    BY <1>0 DEF SubmissionInv, BeforeTheCommitment, DriverIsNotRefused, BusyMeansClaimed, Driving
  <2>5. Gains(w, Plain("SUBMISSION_STARTED"))
    BY <2>1, RowsAreEvents DEF Gains, Plain, Refusals, EventType
  <2>6. HistoryKept(w)
    BY <1>0, <2>5, GainKeepsHistory
  <2>7. Has(events'[r], "SUBMISSION_STARTED")
    <3>1. events'[r] = Appended(events[r], Plain("SUBMISSION_STARTED")) /\ events[r] \in Seq(Events)
      BY <1>0, <2>1 DEF TypeOK
    <3>2. Plain("SUBMISSION_STARTED") \in Events /\ Plain("SUBMISSION_STARTED").type = "SUBMISSION_STARTED"
      BY RowsAreEvents DEF EventType, Plain
    <3>3. QED BY <3>1, <3>2, AppendedHas
  <2>8. ASSUME NEW q \in Requests, ~Refused(q) PROVE ~(\E t \in Refusals : Has(events'[q], t))
    BY <2>2, <2>6, <2>8 DEF HistoryKept
  <2>9. ASSUME NEW v \in Workers, proc'[v].at # "idle"
        PROVE  proc[v].at # "idle" /\ proc'[v].cap = proc[v].cap /\ Req(v)' = Req(v)
               /\ Req(v) \in Requests
    BY <1>0, <2>2, <2>9 DEF Req, TypeOK
  <2>10. ASSUME NEW v \in Workers, v # w, proc'[v].at \in Driving
         PROVE  proc[v].at \in Driving /\ Req(v) # r
    BY <1>0, <2>2, <2>10 DEF SubmissionInv, OneDriverPerRequest, Driving
  <2> HIDE DEF p, r
  <2>11. OneDriverPerRequest'
    <3>1. Req(w)' = Req(w) /\ r = Req(w)
      BY <2>2, <2>9 DEF r
    <3>2. ASSUME NEW v \in Workers, v # w, proc'[v].at \in Driving
          PROVE  Req(v)' # Req(w)'
      BY <2>9, <2>10, <3>1, <3>2 DEF Driving
    <3>3. ASSUME NEW u \in Workers, NEW v \in Workers, u # w, v # w,
                 proc'[u].at \in Driving, proc'[v].at \in Driving, Req(u)' = Req(v)'
          PROVE  u = v
      BY <2>2, <2>9, <3>3 DEF SubmissionInv, OneDriverPerRequest, Driving
    <3>4. QED BY <3>2, <3>3 DEF OneDriverPerRequest
  <2>12. AtMostOneSend' /\ CommitBeforeSend'
    BY <1>0, <2>6 DEF SubmissionInv, AtMostOneSend, CommitBeforeSend, HistoryKept
  <2>13. EverySendSpentAPermit'
    BY <1>0, <1>2, <2>3 DEF SubmissionInv, EverySendSpentAPermit, p
  <2>14. RefusedNeverSent'
    BY <1>0, <2>8 DEF SubmissionInv, RefusedNeverSent, Refused
  <2>15. OneApprovalChain'
    BY <1>0, <2>2, <2>9 DEF SubmissionInv, OneApprovalChain
  <2>16. UnclaimedIsUntouched'
    BY <1>0, <2>3, <2>4, <2>6 DEF SubmissionInv, UnclaimedIsUntouched, Spent, HistoryKept
  <2>17. BusyMeansClaimed'
    BY <1>0, <2>9 DEF SubmissionInv, BusyMeansClaimed
  <2>18. DriverIsNotRefused'
    <3>1. ASSUME NEW v \in Workers, proc'[v].at \in Driving
          PROVE  ~Refused(Req(v)) /\ Req(v)' = Req(v) /\ Req(v) \in Requests
      BY <1>0, <2>2, <2>9, <3>1 DEF SubmissionInv, DriverIsNotRefused, Driving
    <3>2. QED BY <2>8, <3>1 DEF DriverIsNotRefused, Refused
  <2>19. BeforeTheCommitment'
    <3>1. ASSUME NEW v \in Workers, proc'[v].at \in Early
          PROVE  /\ v # w /\ Req(v) # r /\ Req(v)' = Req(v)
                 /\ ~Spent(Req(v)) /\ sends[Req(v)] = 0
      BY <2>2, <2>9, <2>10, <3>1 DEF SubmissionInv, BeforeTheCommitment, Early, Driving
    <3>2. QED BY <1>0, <2>3, <3>1 DEF BeforeTheCommitment, Early, Spent
  <2>20. BetweenCommitmentAndSend'
    <3>1. Req(w)' = r /\ sends'[r] = 0
      BY <1>0, <2>2, <2>4, <2>9 DEF r
    <3>2. Spent(Req(w))' /\ Has(events'[Req(w)'], "SUBMISSION_STARTED")
          /\ sends'[Req(w)'] = 0
      BY <1>0, <2>3, <2>7, <3>1 DEF Spent, p
    <3>3. ASSUME NEW v \in Workers, v # w, proc'[v].at = "send"
          PROVE  /\ Req(v)' = Req(v) /\ Spent(Req(v))' /\ sends'[Req(v)] = 0
                 /\ Has(events'[Req(v)], "SUBMISSION_STARTED")
      <4>1. proc[v].at = "send" /\ Req(v)' = Req(v) /\ Req(v) \in Requests
        BY <2>2, <2>9, <3>3
      <4>2. Spent(Req(v)) /\ Has(events[Req(v)], "SUBMISSION_STARTED") /\ sends[Req(v)] = 0
        BY <4>1 DEF SubmissionInv, BetweenCommitmentAndSend
      <4>3. Spent(Req(v))'
        BY <1>2, <2>3, <4>1, <4>2 DEF Spent, p
      <4>4. QED BY <1>0, <2>6, <4>1, <4>2, <4>3 DEF HistoryKept
    <3>4. QED BY <3>2, <3>3 DEF BetweenCommitmentAndSend
  <2>21. OnePermitPerRequest'
    BY <1>2, <2>3, <2>4 DEF SubmissionInv, OnePermitPerRequest, Spent, p
  <2>22. QED
    BY <2>11, <2>12, <2>13, <2>14, <2>15, <2>16, <2>17, <2>18, <2>19, <2>20, <2>21
    DEF SubmissionInv
<1>3. QED BY <1>1, <1>2

\* order_send itself: the driver holds the commitment and has not sent yet.
LEMMA SendPreserves ==
    ASSUME SubmissionInv, TypeOK', NEW w \in Workers, SendStep(w)
    PROVE  SubmissionInv'
<1> USE DEF At
<1> DEFINE r == Req(w)
<1>0. /\ TypeOK /\ proc[w].at = "send" /\ r \in Requests
      /\ UNCHANGED <<claims, events, consumed>>
      /\ sends' = [sends EXCEPT ![r] = @ + 1] /\ Goto(w, "await")
  BY DEF SubmissionInv, SendStep, OrderSend, TypeOK, Req, stores
<1>1. /\ \A v \in Workers : v # w => proc'[v] = proc[v]
      /\ proc'[w].at = "await" /\ proc'[w].cap = proc[w].cap
  BY <1>0, LocalMoves DEF Labels
<1>2. /\ Spent(r) /\ Has(events[r], "SUBMISSION_STARTED") /\ sends[r] = 0
      /\ ~Refused(r) /\ claims[r] # None
  BY <1>0 DEF SubmissionInv, BetweenCommitmentAndSend, DriverIsNotRefused, BusyMeansClaimed, Driving
<1>3. sends'[r] = 1 /\ \A q \in Requests : q # r => sends'[q] = sends[q]
  BY <1>0, <1>2 DEF TypeOK
<1>4. ASSUME NEW v \in Workers, proc'[v].at # "idle"
      PROVE  /\ proc[v].at # "idle" /\ proc'[v].cap = proc[v].cap
             /\ Req(v)' = Req(v) /\ Req(v) \in Requests
             /\ proc'[v].at \in Driving => proc[v].at \in Driving
  BY <1>0, <1>1, <1>4 DEF Req, TypeOK, Driving
<1>5. ASSUME NEW v \in Workers, v # w, proc'[v].at \in Driving
      PROVE  proc'[v] = proc[v] /\ Req(v) # r
  BY <1>0, <1>1, <1>5 DEF SubmissionInv, OneDriverPerRequest, Driving
<1> HIDE DEF r
<1>6. OneDriverPerRequest'
  BY <1>4 DEF SubmissionInv, OneDriverPerRequest, Driving
<1>7. AtMostOneSend'
  BY <1>0, <1>3 DEF SubmissionInv, AtMostOneSend
<1>8. CommitBeforeSend' /\ EverySendSpentAPermit' /\ RefusedNeverSent'
  BY <1>0, <1>2, <1>3
  DEF SubmissionInv, CommitBeforeSend, EverySendSpentAPermit, RefusedNeverSent, Spent, Refused
<1>9. OneApprovalChain' /\ BusyMeansClaimed'
  <2>1. OneApprovalChain'
    BY <1>0, <1>1, <1>4 DEF SubmissionInv, OneApprovalChain
  <2>2. BusyMeansClaimed'
    BY <1>0, <1>4 DEF SubmissionInv, BusyMeansClaimed
  <2>3. QED BY <2>1, <2>2
<1>10. UnclaimedIsUntouched'
  BY <1>0, <1>2, <1>3 DEF SubmissionInv, UnclaimedIsUntouched, Spent
<1>11. DriverIsNotRefused'
  BY <1>0, <1>4 DEF SubmissionInv, DriverIsNotRefused, Refused, Driving
<1>12. BeforeTheCommitment'
  <2>1. ASSUME NEW v \in Workers, proc'[v].at \in Early
        PROVE  ~Spent(Req(v)) /\ sends'[Req(v)] = 0 /\ Req(v)' = Req(v)
    <3>1. v # w /\ proc'[v].at \in Driving /\ proc'[v].at # "idle"
      BY <1>1, <2>1 DEF Early, Driving
    <3>2. proc[v].at \in Early /\ Req(v) # r /\ Req(v) \in Requests /\ Req(v)' = Req(v)
      BY <1>4, <1>5, <2>1, <3>1
    <3>3. QED BY <1>3, <3>2 DEF SubmissionInv, BeforeTheCommitment, Early
  <2>2. QED BY <1>0, <2>1 DEF BeforeTheCommitment, Early, Spent
<1>13. BetweenCommitmentAndSend'
  <2>1. ASSUME NEW v \in Workers, proc'[v].at = "send"
        PROVE  /\ Spent(Req(v)) /\ Has(events[Req(v)], "SUBMISSION_STARTED")
               /\ sends'[Req(v)] = 0 /\ Req(v)' = Req(v)
    <3>1. v # w /\ proc'[v].at \in Driving /\ proc'[v].at # "idle"
      BY <1>1, <2>1 DEF Driving
    <3>2. proc[v].at = "send" /\ Req(v) # r /\ Req(v) \in Requests /\ Req(v)' = Req(v)
      BY <1>4, <1>5, <2>1, <3>1
    <3>3. QED BY <1>3, <3>2 DEF SubmissionInv, BetweenCommitmentAndSend
  <2>2. QED BY <1>0, <2>1 DEF BetweenCommitmentAndSend, Spent
<1>14. OnePermitPerRequest'
  BY <1>0 DEF SubmissionInv, OnePermitPerRequest
<1>15. QED
  BY <1>6, <1>7, <1>8, <1>9, <1>10, <1>11, <1>12, <1>13, <1>14 DEF SubmissionInv

\* Every step of every worker, of the broker and of the operator preserves
\* the safety invariant.
LEMMA InvPreserved == SubmissionInv /\ [Next]_vars => SubmissionInv'
<1> SUFFICES ASSUME SubmissionInv, [Next]_vars PROVE SubmissionInv'
  OBVIOUS
<1>0. TypeOK /\ TypeOK'
  BY TypePreserved DEF SubmissionInv
<1>1. ASSUME NEW w \in Workers, NEW c \in Capsules, ClaimWon(w, c) PROVE SubmissionInv'
  BY <1>0, <1>1, ClaimWonPreserves
<1>2. ASSUME NEW w \in Workers, NEW c \in Capsules,
             ClaimLost(w, c) \/ StartResolvePending(w, c)
      PROVE  SubmissionInv'
  BY <1>0, <1>2, LookingPreserves
<1>3. ASSUME NEW w \in Workers, AppendStep(w) PROVE SubmissionInv'
  BY <1>0, <1>3, AppendPreserves
<1>4. ASSUME NEW w \in Workers, ConsumeStep(w) PROVE SubmissionInv'
  BY <1>0, <1>4, ConsumePreserves
<1>5. ASSUME NEW w \in Workers, SendStep(w) PROVE SubmissionInv'
  BY <1>0, <1>5, SendPreserves
<1>6. ASSUME NEW w \in Workers, TripStep(w) PROVE SubmissionInv'
  <2>1. UNCHANGED events /\ UNCHANGED <<claims, consumed, sends>>
    BY <1>6 DEF TripStep, broker
  <2>2. CASE FinalRiskHalts(w)
    <3>1. Quiet(w)
      BY <1>0, <2>1, <2>2, LocalMoves
      DEF FinalRiskHalts, Quiet, At, Labels, Driving, Early, Exempt
    <3>2. QED BY <1>0, <2>1, <3>1, UnchangedKeepsHistory, QuietPreserves
  <2>3. CASE TripIntegrityAmbiguous(w)
    <3>1. Quiet(w)
      BY <1>0, <2>1, <2>3, LocalMoves DEF TripIntegrityAmbiguous, Quiet, Driving, Exempt
    <3>2. QED BY <1>0, <2>1, <3>1, UnchangedKeepsHistory, QuietPreserves
  <2>4. QED BY <1>6, <2>2, <2>3 DEF TripStep
<1>7. ASSUME NEW w \in Workers, FailStep(w) \/ Raise(w) \/ Crash(w) PROVE SubmissionInv'
  <2>1. Done(w) /\ UNCHANGED events /\ UNCHANGED <<claims, consumed, sends>>
    BY <1>7 DEF FailStep, TransportFails, Raise, Crash, stores, broker
  <2>2. Quiet(w)
    BY <1>0, <2>1, LocalMoves DEF Quiet, Driving, Exempt
  <2>3. QED BY <1>0, <2>1, <2>2, UnchangedKeepsHistory, QuietPreserves
<1>8. ASSUME NEW w \in Workers, ReadStep(w) PROVE SubmissionInv'
  <2>1. UNCHANGED events /\ UNCHANGED <<claims, consumed, sends>>
    BY <1>8 DEF ReadStep, stores, broker
  <2>2. proc'[w].at \notin Exempt => proc[w].at \notin Exempt
    BY <1>0, <1>8, ReadShape DEF Exempt
  <2>3. Quiet(w)
    BY <1>0, <1>8, <2>1, <2>2, ReadShape DEF Quiet, At
  <2>4. QED BY <1>0, <2>1, <2>3, UnchangedKeepsHistory, QuietPreserves
<1>9. ASSUME UNCHANGED <<claims, events, consumed, proc, sends>> PROVE SubmissionInv'
  BY <1>0, <1>9
  DEF SubmissionInv, OneDriverPerRequest, AtMostOneSend, CommitBeforeSend,
      EverySendSpentAPermit, RefusedNeverSent, OneApprovalChain, UnclaimedIsUntouched,
      BusyMeansClaimed, DriverIsNotRefused, BeforeTheCommitment, BetweenCommitmentAndSend,
      OnePermitPerRequest, Spent, Refused, Req, At
<1>10. ASSUME NEW r \in Requests, BrokerStep(r) PROVE SubmissionInv'
  BY <1>9, <1>10
  DEF BrokerStep, StrangerAppears, BrokerAccepts, BrokerRejects, OrderLost, PendingFills,
      PendingRemoved, PositionCloses, BrokerMoves, stores, memory
<1>11. ASSUME NEW p \in Permits, IssuePermit(p) PROVE SubmissionInv'
  BY <1>9, <1>11 DEF IssuePermit, memory, broker
<1>12. CASE UNCHANGED vars
  BY <1>9, <1>12 DEF vars, stores, memory, broker
<1>13. ASSUME NEW w \in Workers, CaptureStep(w) PROVE SubmissionInv'
  <2>1. ~At(w, "idle") /\ Advances(w)
    BY <1>0, <1>13, CaptureShape
  <2>2. UNCHANGED events /\ UNCHANGED <<claims, consumed, sends>>
    BY <1>13 DEF CaptureStep, broker
  <2>3. Quiet(w)
    BY <2>1, <2>2 DEF Advances, Quiet, At, Exempt, Early, Driving
  <2>4. QED BY <1>0, <2>2, <2>3, UnchangedKeepsHistory, QuietPreserves
<1>14. QED
  BY <1>1, <1>2, <1>3, <1>4, <1>5, <1>6, <1>7, <1>8, <1>10, <1>11, <1>12, <1>13
  DEF Next, Step

\* The safety invariant holds of every reachable state.
THEOREM SubmissionSafe == Spec => []SubmissionInv
<1>1. Init => SubmissionInv
  <2>1. ASSUME Init PROVE TypeOK
    BY <2>1, TypeAtInit
  <2>2. ASSUME Init, NEW r \in Requests
        PROVE  /\ events[r] = <<>> /\ sends[r] = 0 /\ ~Spent(r) /\ ~Refused(r)
               /\ ~Has(events[r], "SUBMISSION_STARTED")
    BY <2>2 DEF Init, Spent, Refused, Has
  <2>3. ASSUME Init, NEW w \in Workers
        PROVE  proc[w].at = "idle" /\ proc[w].at \notin Driving
    BY <2>3 DEF Init, Idle, Driving
  <2>4. ASSUME Init PROVE OnePermitPerRequest
    BY <2>4 DEF Init, OnePermitPerRequest
  <2>5. QED BY <2>1, <2>2, <2>3, <2>4
    DEF SubmissionInv, OneDriverPerRequest, AtMostOneSend, CommitBeforeSend,
        EverySendSpentAPermit, RefusedNeverSent, OneApprovalChain, UnclaimedIsUntouched,
        BusyMeansClaimed, DriverIsNotRefused, BeforeTheCommitment, BetweenCommitmentAndSend,
        Refused, At, Driving
<1>2. QED BY <1>1, InvPreserved, PTL DEF Spec

------------------------------------------------------------------------------
(* What a reader takes away.                                               *)

\* One order_request_id reaches the broker at most once, whatever crashes,
\* retries, lost replies and concurrent workers do.
THEOREM NeverSentTwice == Spec => []AtMostOneSend
BY SubmissionSafe, PTL DEF SubmissionInv

\* No two workers drive one request: the claim is exclusive and is never
\* given back.
THEOREM ClaimIsExclusive == Spec => []OneDriverPerRequest
BY SubmissionSafe, PTL DEF SubmissionInv

\* The commitment and the permit's consumption are durable before the order
\* can leave, and a refused request never leaves at all.
THEOREM SentIsCommittedPaidAndNotRefused == Spec => []SentIsAuthorised
<1>1. SubmissionInv => SentIsAuthorised
  BY DEF SubmissionInv, SentIsAuthorised
<1> QED
  BY <1>1, SubmissionSafe, PTL

\* Nobody works on a request under another approval chain than the one that
\* claimed it.
THEOREM ApprovalChainIsBound == Spec => []OneApprovalChain
BY SubmissionSafe, PTL DEF SubmissionInv

------------------------------------------------------------------------------
(* The refinement.                                                         *)

\* A step of the entry path is a step of the one-shot authorisation or leaves
\* its two variables alone: ConsumePermit is Spend, order_send is Send.
LEMMA StepRefines ==
    SubmissionInv /\ [Next]_vars => [OneShot!Next]_<<consumed, sends>>
<1> SUFFICES ASSUME SubmissionInv, [Next]_vars
             PROVE  OneShot!Next \/ UNCHANGED <<consumed, sends>>
  OBVIOUS
<1> USE DEF vars, stores, memory, broker
<1>1. ASSUME NEW w \in Workers, ConsumeStep(w)
      PROVE  OneShot!Next \/ UNCHANGED <<consumed, sends>>
  <2>1. CASE consumed[PermitOf[w]] = None
    <3>1. Req(w) \in Requests /\ PermitOf[w] \in Permits
      BY <1>1 DEF SubmissionInv, TypeOK, ConsumeStep, ConsumePermit, At, Req
    <3>2. \A q \in Permits : consumed[q] # Req(w)
      BY <1>1 DEF ConsumeStep, ConsumePermit, At, SubmissionInv, BeforeTheCommitment, Driving, Spent
    <3>3. OneShot!Spend(PermitOf[w], Req(w))
      BY <1>1, <2>1, <3>2 DEF ConsumeStep, ConsumePermit, OneShot!Spend
    <3>4. QED BY <3>1, <3>3 DEF OneShot!Next
  <2>2. CASE consumed[PermitOf[w]] # None
    BY <1>1, <2>2 DEF ConsumeStep, ConsumePermit
  <2>3. QED BY <2>1, <2>2
<1>2. ASSUME NEW w \in Workers, SendStep(w)
      PROVE  OneShot!Next \/ UNCHANGED <<consumed, sends>>
  <2>1. Req(w) \in Requests /\ sends[Req(w)] = 0 /\ Spent(Req(w))
    BY <1>2 DEF SubmissionInv, TypeOK, SendStep, OrderSend, At, Req, BetweenCommitmentAndSend
  <2>2. sends' = [sends EXCEPT ![Req(w)] = 1]
    BY <1>2, <2>1 DEF SendStep, OrderSend
  <2>3. OneShot!Send(Req(w))
    BY <1>2, <2>1, <2>2 DEF OneShot!Send, Spent, SendStep
  <2>4. QED BY <2>1, <2>3 DEF OneShot!Next
<1>3. ASSUME NEW w \in Workers,
             \/ AppendStep(w) \/ CaptureStep(w) \/ TripStep(w) \/ FailStep(w)
             \/ ReadStep(w) \/ Raise(w) \/ Crash(w)
      PROVE  UNCHANGED <<consumed, sends>>
  BY <1>3 DEF AppendStep, CaptureStep, TripStep, FailStep, ReadStep, Raise, Crash
<1>4. ASSUME NEW w \in Workers, NEW c \in Capsules,
             ClaimWon(w, c) \/ ClaimLost(w, c) \/ StartResolvePending(w, c)
      PROVE  UNCHANGED <<consumed, sends>>
  BY <1>4 DEF ClaimWon, ClaimLost, StartResolvePending
<1>5. ASSUME NEW r \in Requests, BrokerStep(r) PROVE UNCHANGED <<consumed, sends>>
  BY <1>5
  DEF BrokerStep, StrangerAppears, BrokerAccepts, BrokerRejects, OrderLost, PendingFills,
      PendingRemoved, PositionCloses, BrokerMoves
<1>6. ASSUME NEW p \in Permits, IssuePermit(p)
      PROVE  UNCHANGED <<consumed, sends>>
  BY <1>6 DEF IssuePermit
<1>7. QED BY <1>1, <1>2, <1>3, <1>4, <1>5, <1>6 DEF Next, Step

\* The entry path implements the one-shot authorisation.
THEOREM EntryImplementsOneShot == Spec => ImplementsOneShot
<1>1. Init => OneShot!Init
  BY DEF Init, OneShot!Init
<1>2. QED
  BY <1>1, StepRefines, SubmissionSafe, PTL DEF Spec, ImplementsOneShot, OneShot!Spec

------------------------------------------------------------------------------
(* The truth of what is recorded.                                          *)

\* What an append may say: an integrity ambiguity is new only on the way to the
\* halt; what is attributed is what a recovery or the pending resolver matched;
\* SUBMITTED is an answer to an order the broker took.
Says(w, e) ==
    /\ e \in Events /\ Record(Req(w), e)
    /\ e.verdict = "INTEGRITY" =>
          Conflicts(events[Req(w)], e) \/ proc'[w].at = "tripIntegrity"
    /\ e.type = "SUBMITTED" => Taken(Req(w))
    /\ \/ e.tickets = {} /\ e.verdict \in {"NONE", "NOT_SUBMITTED"}
       \/ /\ proc[w].at = "resolve" /\ e.tickets = proc[w].pos \cup proc[w].pend
          /\ \/ e.verdict = "INTEGRITY" /\ Several(e.tickets)
             \/ e.verdict = "SUBMITTED" /\ e.tickets # {} /\ ~Several(e.tickets)
       \/ /\ proc[w].at = "resolveTicket" /\ e.tickets = proc[w].pos
          /\ \/ e.verdict = "INTEGRITY" /\ Several(e.tickets)
             \/ e.verdict = "FROM_PENDING" /\ ~Several(e.tickets)

\* A plain row of another type says nothing of an order.
LEMMA PlainSays ==
    ASSUME NEW w, NEW t \in EventType, t # "SUBMITTED", Record(Req(w), Plain(t))
    PROVE  Says(w, Plain(t))
BY RowsAreEvents DEF Says, Plain

\* Each append of a pass, of the recovery and of the pending resolver.
LEMMA AppendSays ==
    ASSUME TypeOK, NEW w \in Workers, AppendStep(w)
    PROVE  UNCHANGED events \/ \E e : Says(w, e)
<1>0. proc[w].pos \in SUBSET Requests /\ proc[w].pend \in SUBSET Requests
  BY DEF TypeOK, Locals
<1>1. ASSUME NEW t \in EventType, t # "SUBMITTED", Record(Req(w), Plain(t))
      PROVE  \E e : Says(w, e)
  BY <1>1, PlainSays
<1>2. ASSUME NEW t \in Refusals, Refuse(w, t) PROVE \E e : Says(w, e)
  BY <1>1, <1>2 DEF Refuse, Refusals, EventType
<1>3. CASE AppendClaimed(w) \/ Eligibility(w) \/ PreflightGate(w) \/ Reconcile(w)
  BY <1>1, <1>2, <1>3 DEF AppendClaimed, Eligibility, PreflightGate, Reconcile, EventType, Refusals
<1>4. CASE FinalRisk(w) \/ AppendRiskRefusal(w) \/ OrderCheck(w)
  BY <1>1, <1>2, <1>4 DEF FinalRisk, AppendRiskRefusal, OrderCheck, EventType, Refusals
<1>5. CASE SubmissionGate(w) \/ StartSubmission(w) \/ CheckPermit(w)
  BY <1>1, <1>2, <1>5 DEF SubmissionGate, StartSubmission, CheckPermit, EventType, Refusals
<1>6. CASE RecordResult(w)
  <2>1. PICK code \in Retcodes(Req(w)) : Record(Req(w), Plain(Decoded(code)))
    BY <1>6 DEF RecordResult
  <2> DEFINE t == Decoded(code)
  <2>2. t \in EventType /\ (t = "SUBMITTED" => Taken(Req(w)))
    BY <2>1 DEF Decoded, Retcodes, EventType
  <2> HIDE DEF t
  <2>3. /\ Plain(t).verdict = "NONE" /\ Plain(t).type = t /\ Plain(t).tickets = {}
        /\ Plain(t) \in Events
    BY <2>2, RowsAreEvents DEF Plain
  <2>4. Says(w, Plain(t))
    BY <2>1, <2>2, <2>3 DEF Says, t
  <2>5. QED BY <2>4
<1>7. CASE AppendResolution(w)
  <2> DEFINE found == proc[w].pos \cup proc[w].pend
             e == RecoveryEvent(w)
  <2>1. /\ e \in Events /\ e.type = "AMBIGUOUS_OUTCOME_RESOLVED" /\ e.tickets = found
        /\ \/ e.verdict = "INTEGRITY" /\ Several(found)
           \/ e.verdict = "SUBMITTED" /\ found # {} /\ ~Several(found)
           \/ e.verdict = "NOT_SUBMITTED" /\ found = {}
    <3>1. CASE Several(found)
      BY <1>0, <3>1, RowsAreEvents DEF RecoveryEvent, Resolved, Verdicts
    <3>2. CASE ~Several(found) /\ found = {}
      BY <1>0, <3>2, RowsAreEvents DEF RecoveryEvent, Resolved, Verdicts
    <3>3. CASE ~Several(found) /\ found # {}
      BY <1>0, <3>3, RowsAreEvents DEF RecoveryEvent, Resolved, Verdicts
    <3>4. QED BY <3>1, <3>2, <3>3
  <2> HIDE DEF e
  <2>2. /\ proc[w].at = "resolve" /\ Record(Req(w), e)
        /\ e.verdict = "INTEGRITY" /\ ~Conflicts(events[Req(w)], e) => Goto(w, "tripIntegrity")
    BY <1>7 DEF AppendResolution, At, e
  <2>3. "tripIntegrity" \in Labels
    BY DEF Labels
  <2>4. Says(w, e)
    BY <2>1, <2>2, <2>3, LocalMoves DEF Says
  <2>5. QED BY <2>4
<1>8. CASE AppendTicketFate(w)
  <2> DEFINE e == PendingEvent(w)
  <2>1. /\ e \in Events /\ e.type # "SUBMITTED" /\ e.tickets = proc[w].pos
        /\ \/ e.verdict = "INTEGRITY" /\ Several(proc[w].pos)
           \/ e.verdict = "FROM_PENDING" /\ ~Several(proc[w].pos)
    <3>1. CASE Several(proc[w].pos)
      BY <1>0, <3>1, RowsAreEvents DEF PendingEvent, Resolved, Verdicts
    <3>2. CASE ~Several(proc[w].pos)
      BY <1>0, <3>2 DEF PendingEvent, Events, EventType, Verdicts
    <3>3. QED BY <3>1, <3>2
  <2> HIDE DEF e
  <2>2. /\ proc[w].at = "resolveTicket" /\ Record(Req(w), e)
        /\ Several(proc[w].pos) /\ ~Conflicts(events[Req(w)], e) => Goto(w, "tripIntegrity")
    BY <1>8 DEF AppendTicketFate, At, e
  <2>3. "tripIntegrity" \in Labels
    BY DEF Labels
  <2>4. Says(w, e)
    BY <2>1, <2>2, <2>3, LocalMoves DEF Says
  <2>5. QED BY <2>4
<1>9. QED BY <1>3, <1>4, <1>5, <1>6, <1>7, <1>8 DEF AppendStep

\* A row of a history was there before the append or is the appended one.
LEMMA RowsAfter ==
    ASSUME TypeOK, NEW q \in Requests, NEW e \in Events, Record(q, e), NEW r \in Requests,
           NEW i \in DOMAIN events'[r]
    PROVE  \/ i \in DOMAIN events[r] /\ events'[r][i] = events[r][i]
           \/ r = q /\ events'[r][i] = e /\ ~Has(events[r], e.type)
<1>1. events \in [Requests -> Seq(Events)] /\ events[q] \in Seq(Events)
  BY DEF TypeOK
<1>2. events' = [events EXCEPT ![q] = Appended(events[q], e)]
  BY DEF Record
<1>3. CASE r # q
  BY <1>1, <1>2, <1>3
<1>4. CASE r = q
  <2>1. events'[r] = Appended(events[r], e)
    BY <1>1, <1>2, <1>4
  <2>2. CASE Has(events[r], e.type)
    BY <2>1, <2>2 DEF Appended
  <2>3. CASE ~Has(events[r], e.type)
    <3>1. events'[r] = Append(events[r], e)
      BY <2>1, <2>3 DEF Appended
    <3>2. i \in 1..(Len(events[r]) + 1) /\ DOMAIN events[r] = 1..Len(events[r])
      BY <1>1, <1>4, <3>1
    <3>3. CASE i = Len(events[r]) + 1
      BY <1>1, <1>4, <2>3, <3>1, <3>3
    <3>4. CASE i \in 1..Len(events[r])
      BY <1>1, <1>4, <3>1, <3>2, <3>4
    <3>5. QED BY <1>1, <1>4, <3>2, <3>3, <3>4
  <2>4. QED BY <2>2, <2>3
<1>5. QED BY <1>3, <1>4

\* Only appends and the consumption of a permit add rows.
LEMMA OnlyAppendsAdd ==
    ASSUME [Next]_vars
    PROVE  \/ UNCHANGED events
           \/ \E w \in Workers : AppendStep(w)
           \/ \E w \in Workers : ConsumeStep(w)
<1> USE DEF stores, memory, broker, vars
<1>1. ASSUME NEW w \in Workers, NEW c \in Capsules,
             ClaimWon(w, c) \/ ClaimLost(w, c) \/ StartResolvePending(w, c)
      PROVE  UNCHANGED events
  BY <1>1 DEF ClaimWon, ClaimLost, StartResolvePending
<1>2. ASSUME NEW w \in Workers, CaptureStep(w) \/ TripStep(w) \/ SendStep(w) \/ FailStep(w)
                                \/ ReadStep(w)
      PROVE  UNCHANGED events
  BY <1>2 DEF CaptureStep, TripStep, SendStep, FailStep, ReadStep
<1>3. ASSUME NEW w \in Workers, Raise(w) \/ Crash(w) PROVE UNCHANGED events
  BY <1>3 DEF Raise, Crash
<1>4. ASSUME NEW r \in Requests, BrokerStep(r) PROVE UNCHANGED events
  BY <1>4 DEF BrokerStep, StrangerAppears, BrokerAccepts, BrokerRejects, OrderLost, PendingFills, PendingRemoved,
     PositionCloses, BrokerMoves
<1>5. ASSUME NEW p \in Permits, IssuePermit(p) PROVE UNCHANGED events
  BY <1>5 DEF IssuePermit
<1>6. QED BY <1>1, <1>2, <1>3, <1>4, <1>5 DEF Next, Step

\* The consumption of a permit adds a commitment or a refusal.
LEMMA ConsumeSays ==
    ASSUME NEW w \in Workers, ConsumeStep(w)
    PROVE  \E e : Says(w, e)
<1>1. \/ Record(Req(w), Plain("SUBMISSION_STARTED"))
      \/ Record(Req(w), Plain("CANARY_PERMIT_BLOCKED"))
  BY DEF ConsumeStep, ConsumePermit, Refuse
<1>2. "SUBMISSION_STARTED" \in EventType /\ "CANARY_PERMIT_BLOCKED" \in EventType
  BY DEF EventType, Refusals
<1>3. QED BY <1>1, <1>2, PlainSays

------------------------------------------------------------------------------
(* An integrity ambiguity halts.                                           *)

\* A switch that is on in memory is on durably.
HaltIsDurable == \A w \in Workers : halted[w] => latch = "HALTED"

\* The halt that is owed is under way, with the switch that makes it durable.
AmbiguityInv == TypeOK /\ HaltIsDurable /\ IntegrityAmbiguityHalts

\* Nothing lifts a halt, and a switch is on only behind the durable state.
LEMMA HaltStays ==
    ASSUME TypeOK, HaltIsDurable, [Next]_vars
    PROVE  /\ HaltIsDurable' /\ (latch = "HALTED" => latch' = "HALTED")
           /\ \A w \in Workers : At(w, "tripIntegrity") =>
                 proc'[w] = proc[w] \/ latch' = "HALTED" \/ faults' > 0
<1> USE DEF stores, memory, broker, vars
<1>0. /\ proc \in [Workers -> Locals] /\ halted \in [Workers -> BOOLEAN]
      /\ latch \in {"RUNNING", "HALTED"} /\ faults \in Nat
  BY DEF TypeOK
<1>1. ASSUME NEW w \in Workers, NEW c \in Capsules,
             ClaimWon(w, c) \/ ClaimLost(w, c) \/ StartResolvePending(w, c)
      PROVE  UNCHANGED <<latch, halted>> /\ \A v \in Workers : At(v, "tripIntegrity") => proc'[v] = proc[v]
  BY <1>0, <1>1 DEF ClaimWon, ClaimLost, StartResolvePending, At
<1>2. ASSUME NEW w \in Workers, AppendStep(w) \/ CaptureStep(w) \/ ConsumeStep(w) \/ SendStep(w)
                                \/ FailStep(w) \/ ReadStep(w)
      PROVE  UNCHANGED <<latch, halted>> /\ \A v \in Workers : At(v, "tripIntegrity") => proc'[v] = proc[v]
  <2>1. UNCHANGED latch
    BY <1>2 DEF AppendStep, CaptureStep, ConsumeStep, SendStep, FailStep, ReadStep
  <2>2. UNCHANGED halted
    BY <1>2 DEF AppendStep, CaptureStep, ConsumeStep, SendStep, FailStep, ReadStep
  <2>3. ~At(w, "tripIntegrity") /\ \A v \in Workers : v # w => proc'[v] = proc[v]
    <3>1. CASE AppendStep(w)
      <4>1. ~At(w, "tripIntegrity")
        BY <3>1 DEF AppendStep, AppendClaimed, Eligibility, PreflightGate, Reconcile, FinalRisk,
           AppendRiskRefusal, OrderCheck, SubmissionGate, StartSubmission, CheckPermit, RecordResult,
           AppendResolution, AppendTicketFate, At
      <4>2. QED BY <3>1, <4>1, AppendShape DEF Advances
    <3>2. CASE ConsumeStep(w)
      BY <1>0, <3>2 DEF ConsumeStep, ConsumePermit, Refuse, Done, Goto, At
    <3>3. CASE SendStep(w) \/ FailStep(w)
      BY <1>0, <3>3 DEF SendStep, OrderSend, FailStep, TransportFails, Done, Goto, At
    <3>4. CASE ReadStep(w)
      <4>1. ~At(w, "tripIntegrity")
        BY <3>4 DEF ReadStep, ReadHistory, ReadPositions, ReadPending, ReadTicket,
           ReadSubmitted, At
      <4>2. QED BY <3>4, <4>1, ReadShape
    <3>5. CASE CaptureStep(w)
      <4>1. ~At(w, "tripIntegrity")
        BY <3>5 DEF CaptureStep, CapturePositions, CapturePending, RecordSnapshot, At
      <4>2. QED BY <3>5, <4>1, CaptureShape DEF Advances
    <3>6. QED BY <1>2, <3>1, <3>2, <3>3, <3>4, <3>5
  <2>4. QED BY <2>1, <2>2, <2>3
<1>3. ASSUME NEW w \in Workers, TripStep(w)
      PROVE  latch' = "HALTED" /\ HaltIsDurable'
  <2>1. Trip(w)
    BY <1>3 DEF TripStep, FinalRiskHalts, TripIntegrityAmbiguous
  <2>2. latch' = "HALTED"
    BY <1>0, <2>1 DEF Trip, HaltIsDurable
  <2>3. QED BY <2>2 DEF HaltIsDurable
<1>4. ASSUME NEW w \in Workers, Raise(w) \/ Crash(w)
      PROVE  UNCHANGED latch /\ HaltIsDurable' /\ faults' > 0
  <2>1. faults' = faults + 1 /\ latch' = latch
    BY <1>4 DEF Raise, Crash
  <2>2. halted' = halted \/ halted' = [halted EXCEPT ![w] = latch # "RUNNING"]
    BY <1>4 DEF Raise, Crash
  <2>3. HaltIsDurable'
    BY <1>0, <2>1, <2>2 DEF HaltIsDurable
  <2>4. QED BY <1>0, <2>1, <2>3
<1>5. ASSUME UNCHANGED <<latch, halted, proc>> PROVE HaltIsDurable'
  BY <1>5 DEF HaltIsDurable
<1>6. ASSUME NEW r \in Requests, BrokerStep(r) PROVE UNCHANGED <<latch, halted, proc>>
  BY <1>6 DEF BrokerStep, StrangerAppears, BrokerAccepts, BrokerRejects, OrderLost, PendingFills, PendingRemoved,
     PositionCloses, BrokerMoves
<1>7. ASSUME NEW p \in Permits, IssuePermit(p) PROVE UNCHANGED <<latch, halted, proc>>
  BY <1>7 DEF IssuePermit
<1>8. ASSUME UNCHANGED <<latch, halted>> PROVE HaltIsDurable'
  BY <1>8 DEF HaltIsDurable
<1>9. QED BY <1>1, <1>2, <1>3, <1>4, <1>6, <1>7, <1>8 DEF Next, Step

\* An ambiguity on record is followed by its halt, however other workers move.
LEMMA AmbiguityPreserved == AmbiguityInv /\ [Next]_vars => AmbiguityInv'
<1> SUFFICES ASSUME AmbiguityInv, [Next]_vars PROVE AmbiguityInv'
  OBVIOUS
<1>1. TypeOK /\ TypeOK' /\ HaltIsDurable /\ IntegrityAmbiguityHalts
  BY TypePreserved DEF AmbiguityInv
<1>2. /\ HaltIsDurable' /\ (latch = "HALTED" => latch' = "HALTED")
      /\ \A w \in Workers : At(w, "tripIntegrity") =>
            proc'[w] = proc[w] \/ latch' = "HALTED" \/ faults' > 0
  BY <1>1, HaltStays
<1>3. faults > 0 => faults' > 0
  <2>1. faults' = faults \/ faults' = faults + 1
    BY DEF Next, Step, ClaimWon, ClaimLost, StartResolvePending, AppendStep, CaptureStep, ConsumeStep, TripStep,
       SendStep, FailStep, ReadStep, Raise, Crash, BrokerStep, StrangerAppears, BrokerAccepts, BrokerRejects, OrderLost,
       PendingFills, PendingRemoved, PositionCloses, BrokerMoves, IssuePermit, vars, ConsumePermit
  <2>2. QED BY <1>1, <2>1 DEF TypeOK
<1>4. IntegrityAmbiguityHalts'
  <2> SUFFICES ASSUME NEW r \in Requests, NEW i \in DOMAIN events'[r],
                      events'[r][i].verdict = "INTEGRITY"
               PROVE  \/ faults' > 0 \/ latch' = "HALTED"
                      \/ \E w \in Workers : proc'[w].at = "tripIntegrity"
    BY DEF IntegrityAmbiguityHalts, At
  <2>1. CASE i \in DOMAIN events[r] /\ events'[r][i] = events[r][i]
    <3>1. faults > 0 \/ latch = "HALTED" \/ \E w \in Workers : At(w, "tripIntegrity")
      BY <1>1, <2>1 DEF IntegrityAmbiguityHalts
    <3>2. QED BY <1>2, <1>3, <3>1 DEF At
  <2>2. ASSUME NEW w \in Workers, ~At(w, "idle"), NEW e, Says(w, e)
        PROVE  \/ i \in DOMAIN events[r] /\ events'[r][i] = events[r][i]
               \/ proc'[w].at = "tripIntegrity"
    <3>1. Req(w) \in Requests
      BY <1>1, <2>2, ConstantsAssumption DEF TypeOK, Req
    <3>2. \/ i \in DOMAIN events[r] /\ events'[r][i] = events[r][i]
          \/ r = Req(w) /\ events'[r][i] = e /\ ~Has(events[r], e.type)
      BY <1>1, <2>2, <3>1, RowsAfter DEF Says
    <3>3. Conflicts(events[Req(w)], e) => Has(events[Req(w)], e.type)
      BY DEF Conflicts, Has
    <3>4. QED BY <2>2, <3>2, <3>3 DEF Says
  <2>3. ASSUME NEW w \in Workers, AppendStep(w) \/ ConsumeStep(w) PROVE ~At(w, "idle")
    BY <1>1, <2>3, AppendShape DEF ConsumeStep, ConsumePermit, At
  <2>4. QED BY <1>1, <2>1, <2>2, <2>3, OnlyAppendsAdd, AppendSays, ConsumeSays
<1>5. QED BY <1>1, <1>2, <1>4 DEF AmbiguityInv

\* The recorder of an integrity ambiguity halts new orders durably before it
\* does anything else.
THEOREM AmbiguityHaltsNewOrders == Spec => []IntegrityAmbiguityHalts
<1>1. Init => AmbiguityInv
  <2>1. Init => TypeOK
    BY TypeAtInit
  <2>2. Init => HaltIsDurable /\ IntegrityAmbiguityHalts
    BY DEF Init, HaltIsDurable, IntegrityAmbiguityHalts
  <2>3. QED BY <2>1, <2>2 DEF AmbiguityInv
<1>2. QED BY <1>1, AmbiguityPreserved, PTL DEF Spec, AmbiguityInv

------------------------------------------------------------------------------
(* What is attributed is real, whatever orders share a magic number.       *)

Filled(r) == order[r] \in {"open", "closed"}

\* An order the broker took that has stopped resting.
Gone(r) == Taken(r) /\ order[r] # "resting"

\* What this platform never sent has no fate.
FatesOK ==
    \A r \in Requests : sends[r] = 0 /\ r \notin Strangers => order[r] = "none"

\* SUBMITTED is the answer to an order the broker took.
SubmittedIsTaken ==
    \A r \in Requests : Has(events[r], "SUBMITTED") => Taken(r)

PositionsOf(S, r) == \A q \in S : Filled(q) /\ Magic[q] = Magic[r]

\* What a worker's locals say of the book at each step of the recovery and of
\* the resolver.
Matched(l) ==
    LET r == RequestOf[l.cap] IN
    /\ l.at \in {"recover", "readPositions", "readPending"} => l.pend = {}
    /\ l.at \in {"readPending", "resolve"} => PositionsOf(l.pos, r)
    /\ l.at = "resolve" =>
          /\ \A q \in l.pend : Taken(q) /\ Magic[q] = Magic[r]
          /\ l.pend = {} \/ Several(l.pend)
    /\ l.at \in {"readTicket", "readSubmitted", "resolveTicket"} =>
          PositionsOf(l.pos, r) /\ Taken(r)
    /\ l.at = "readSubmitted" /\ l.pend = {} => Gone(r)
    /\ l.at = "resolveTicket" => Gone(r) /\ l.pos # {}

MatchesOK == \A w \in Workers : ~At(w, "idle") => Matched(proc[w])

\* A row that attributes a position attributes one that opened, and the one the
\* resolver attributes replaces a ticket that rests no more.
RowIsReal(r, e) ==
    /\ \A q \in e.tickets : Taken(q) /\ Magic[q] = Magic[r]
    /\ e.verdict \in {"SUBMITTED", "FROM_PENDING"} =>
          \E q \in Requests : e.tickets = {q} /\ Filled(q)
    /\ e.verdict = "FROM_PENDING" => Gone(r)
    /\ e.verdict = "INTEGRITY" => Several(e.tickets)

RowsAreReal ==
    \A r \in Requests : \A i \in DOMAIN events[r] : RowIsReal(r, events[r][i])

FillInv == FatesOK /\ SubmittedIsTaken /\ MatchesOK /\ RowsAreReal

\* What was seen of an order stays true of it: it moves only forward.
Forward(r) ==
    /\ Taken(r) => Taken(r)'
    /\ Filled(r) => Filled(r)'
    /\ Gone(r) => Gone(r)'

\* An order moves only forward.
LEMMA OrderMoves ==
    ASSUME SubmissionInv, FatesOK, [Next]_vars
    PROVE  FatesOK' /\ \A r \in Requests : Forward(r)
<1>0. TypeOK /\ order \in [Requests -> Fates] /\ sends \in [Requests -> Nat]
  BY DEF SubmissionInv, TypeOK
<1>1. ASSUME UNCHANGED broker PROVE FatesOK' /\ \A r \in Requests : Forward(r)
  BY <1>1 DEF broker, FatesOK, Filled, Taken, Gone, Forward
<1>2. ASSUME NEW w \in Workers, SendStep(w)
      PROVE  FatesOK' /\ \A r \in Requests : Forward(r)
  <2>1. /\ Req(w) \in Requests /\ sends[Req(w)] = 0 /\ Req(w) \notin Strangers
        /\ order' = [order EXCEPT ![Req(w)] = "inflight"] /\ sends' = [sends EXCEPT ![Req(w)] = @ + 1]
    BY <1>0, <1>2, ConstantsAssumption DEF SubmissionInv, BetweenCommitmentAndSend, SendStep, OrderSend,
       TypeOK, Req, At
  <2>2. order[Req(w)] = "none"
    BY <2>1 DEF FatesOK
  <2> HIDE DEF Req
  <2>3. QED BY <1>0, <2>1, <2>2 DEF FatesOK, Filled, Taken, Gone, Forward
<1>3. ASSUME NEW r \in Requests, BrokerStep(r)
      PROVE  FatesOK' /\ \A q \in Requests : Forward(q)
  <2>1. PICK to : /\ order' = [order EXCEPT ![r] = to] /\ sends' = sends
                  /\ order[r] # "none" \/ r \in Strangers
                  /\ Taken(r) => to \in {"open", "cancelled", "closed"}
                  /\ order[r] \in {"open", "closed"} => to \in {"open", "closed"}
    BY <1>0, <1>3 DEF BrokerStep, StrangerAppears, BrokerAccepts, BrokerRejects, OrderLost, PendingFills,
       PendingRemoved, PositionCloses, BrokerMoves, Taken
  <2>2. QED BY <1>0, <2>1 DEF FatesOK, Filled, Taken, Gone, Forward
<1>4. ASSUME NEW w \in Workers, NEW c \in Capsules,
             ClaimWon(w, c) \/ ClaimLost(w, c) \/ StartResolvePending(w, c)
      PROVE  UNCHANGED broker
  BY <1>4 DEF ClaimWon, ClaimLost, StartResolvePending
<1>5. ASSUME NEW w \in Workers, \/ AppendStep(w) \/ CaptureStep(w) \/ ConsumeStep(w) \/ TripStep(w)
                                \/ FailStep(w) \/ ReadStep(w) \/ Raise(w) \/ Crash(w)
      PROVE  UNCHANGED broker
  BY <1>5 DEF AppendStep, CaptureStep, ConsumeStep, TripStep, FailStep, ReadStep, Raise, Crash
<1>6. ASSUME NEW p \in Permits, IssuePermit(p) PROVE UNCHANGED broker
  BY <1>6 DEF IssuePermit
<1>7. QED BY <1>1, <1>2, <1>3, <1>4, <1>5, <1>6 DEF Next, Step, vars

\* What the book shows under a magic are positions, and taken orders, of it.
LEMMA BookIsReal ==
    ASSUME NEW r \in Requests
    PROVE  /\ PositionsOf(MatchingPositions(r), r) /\ MatchingPositions(r) \subseteq Requests
           /\ \A q \in MatchingPending(r) : Taken(q) /\ Magic[q] = Magic[r]
           /\ MatchingPending(r) \subseteq Requests
BY DEF PositionsOf, MatchingPositions, MatchingPending, Positions, PendingOrders, Filled, Taken

\* What was matched stays matched while the book moves forward.
LEMMA MatchedStays ==
    ASSUME TypeOK, NEW w \in Workers, ~At(w, "idle"), Matched(proc[w]), proc'[w] = proc[w],
           \A r \in Requests : Forward(r)
    PROVE  Matched(proc[w])'
<1>1. RequestOf[proc[w].cap] \in Requests /\ proc[w].pos \subseteq Requests /\ proc[w].pend \subseteq Requests
  BY ConstantsAssumption DEF TypeOK, Locals, At
<1>2. QED BY <1>1 DEF Matched, PositionsOf, Forward

\* A worker that goes where nothing need be matched.
Elsewhere == Labels \ {"recover", "readPositions", "readPending", "resolve",
                       "readTicket", "readSubmitted", "resolveTicket"}

\* The reads of the recovery and of the resolver match anew.
LEMMA ReadMatches ==
    ASSUME TypeOK, FillInv, NEW w \in Workers, ReadStep(w)
    PROVE  proc'[w].at # "idle" => Matched(proc'[w])
<1> USE DEF At
<1>0. /\ proc[w] \in Locals /\ proc \in [Workers -> Locals] /\ Req(w) \in Requests
      /\ Matched(proc[w]) /\ proc[w].at # "idle"
  BY ReadShape, ConstantsAssumption DEF TypeOK, FillInv, MatchesOK, Req
<1>1. CASE Done(w)
  BY <1>0, <1>1 DEF Done, Idle
<1>2. CASE ReadHistory(w) /\ ~Done(w)
  <2>1. proc[w].at = "recover" /\ proc' = [proc EXCEPT ![w].at = "readPositions"]
    BY <1>2 DEF ReadHistory, Goto
  <2>2. proc'[w].at = "readPositions" /\ proc'[w].pend = proc[w].pend
    BY <1>0, <2>1 DEF Locals
  <2>3. QED BY <1>0, <2>1, <2>2 DEF Matched
<1>3. CASE ReadPositions(w)
  <2> DEFINE m == MatchingPositions(Req(w))
             l == IF m = {} THEN "readPending" ELSE "resolve"
  <2>1. PositionsOf(m, Req(w))
    BY <1>0, BookIsReal
  <2>2. proc[w].at = "readPositions" /\ proc' = [proc EXCEPT ![w].pos = m, ![w].at = l]
    BY <1>3 DEF ReadPositions
  <2>3. l \in {"readPending", "resolve"}
    OBVIOUS
  <2> HIDE DEF m, l
  <2>4. proc'[w] = [[proc[w] EXCEPT !.pos = m] EXCEPT !.at = l]
    BY <1>0, <2>2
  <2>5. /\ proc'[w].at = l /\ proc'[w].pos = m /\ proc'[w].pend = proc[w].pend
        /\ proc'[w].cap = proc[w].cap
    BY <1>0, <2>4 DEF Locals
  <2>6. proc[w].pend = {}
    BY <1>0, <2>2 DEF Matched
  <2>7. QED BY <2>1, <2>3, <2>5, <2>6 DEF Matched, Req
<1>4. CASE ReadPending(w) /\ ~Done(w)
  <2> DEFINE m == MatchingPending(Req(w))
  <2>1. \A q \in m : Taken(q) /\ Magic[q] = Magic[Req(w)]
    BY <1>0, BookIsReal
  <2>2. proc[w].at = "readPending" /\ (m = {} \/ Several(m))
        /\ proc' = [proc EXCEPT ![w].pend = m, ![w].at = "resolve"]
    BY <1>4 DEF ReadPending
  <2> HIDE DEF m
  <2>3. proc'[w] = [[proc[w] EXCEPT !.pend = m] EXCEPT !.at = "resolve"]
    BY <1>0, <2>2
  <2>4. /\ proc'[w].at = "resolve" /\ proc'[w].pos = proc[w].pos /\ proc'[w].pend = m
        /\ proc'[w].cap = proc[w].cap
    BY <1>0, <2>3 DEF Locals
  <2>5. PositionsOf(proc[w].pos, Req(w))
    BY <1>0, <2>2 DEF Matched, Req
  <2>6. QED BY <2>1, <2>2, <2>4, <2>5 DEF Matched, Req
<1>5. CASE ReadTicket(w)
  <2> DEFINE m == PendingOrders \cap {Req(w)}
  <2>1. proc[w].at = "readTicket" /\ proc' = [proc EXCEPT ![w].pend = m, ![w].at = "readSubmitted"]
    BY <1>5 DEF ReadTicket
  <2>2. m = {} => order[Req(w)] # "resting"
    BY <1>0 DEF PendingOrders
  <2> HIDE DEF m
  <2>3. proc'[w] = [[proc[w] EXCEPT !.pend = m] EXCEPT !.at = "readSubmitted"]
    BY <1>0, <2>1
  <2>4. /\ proc'[w].at = "readSubmitted" /\ proc'[w].pos = proc[w].pos /\ proc'[w].pend = m
        /\ proc'[w].cap = proc[w].cap
    BY <1>0, <2>3 DEF Locals
  <2>5. PositionsOf(proc[w].pos, Req(w)) /\ Taken(Req(w))
    BY <1>0, <2>1 DEF Matched, Req
  <2>6. QED BY <2>2, <2>4, <2>5 DEF Matched, Req, Gone
<1>6. CASE ReadSubmitted(w) /\ ~Done(w)
  <2>1. /\ proc[w].at = "readSubmitted" /\ proc' = [proc EXCEPT ![w].at = "resolveTicket"]
        /\ proc[w].pend = {} /\ proc[w].pos # {}
    BY <1>6 DEF ReadSubmitted, Goto
  <2>2. /\ proc'[w].at = "resolveTicket" /\ proc'[w].pos = proc[w].pos
        /\ proc'[w].cap = proc[w].cap
    BY <1>0, <2>1 DEF Locals
  <2>3. QED BY <1>0, <2>1, <2>2 DEF Matched
<1>7. QED BY <1>1, <1>2, <1>3, <1>4, <1>5, <1>6 DEF ReadStep

\* Every step keeps what is matched, or matches anew.
LEMMA MatchesPreserved ==
    ASSUME SubmissionInv, FillInv, [Next]_vars
    PROVE  MatchesOK'
<1> USE DEF stores, memory, vars
<1>0. /\ TypeOK /\ proc \in [Workers -> Locals] /\ MatchesOK
      /\ \A r \in Requests : Forward(r)
  BY OrderMoves DEF SubmissionInv, FillInv, TypeOK
<1>1. ASSUME NEW w \in Workers, \A v \in Workers : v # w => proc'[v] = proc[v],
             proc'[w].at # "idle" => Matched(proc[w])'
      PROVE  MatchesOK'
  <2> SUFFICES ASSUME NEW v \in Workers, proc'[v].at # "idle" PROVE Matched(proc[v])'
    BY DEF MatchesOK, At
  <2>1. CASE v = w
    BY <1>1, <2>1
  <2>2. CASE v # w
    <3>1. proc'[v] = proc[v] /\ ~At(v, "idle") /\ Matched(proc[v])
      BY <1>0, <1>1, <2>2 DEF At, MatchesOK
    <3>2. QED BY <1>0, <3>1, MatchedStays
  <2>3. QED BY <2>1, <2>2
<1>2. ASSUME NEW w \in Workers, NEW c \in Capsules,
             ClaimWon(w, c) \/ ClaimLost(w, c) \/ StartResolvePending(w, c)
      PROVE  MatchesOK'
  <2>0. PICK S : S = MatchingPositions(RequestOf[c])
    OBVIOUS
  <2>1. RequestOf[c] \in Requests /\ PositionsOf(S, RequestOf[c]) /\ S \subseteq Requests
    BY <2>0, ConstantsAssumption, BookIsReal
  <2>2. \/ proc' = [proc EXCEPT ![w] = Busy("claimed", c, {})]
        \/ proc' = [proc EXCEPT ![w] = Busy("recover", c, {})]
        \/ proc' = [proc EXCEPT ![w] = Busy("readTicket", c, S)] /\ Has(events[RequestOf[c]], "SUBMITTED")
    BY <1>2, <2>0 DEF ClaimWon, ClaimLost, StartResolvePending
  <2>3. \A v \in Workers : v # w => proc'[v] = proc[v]
    BY <1>0, <2>2
  <2>4. \/ proc'[w] = Busy("claimed", c, {}) \/ proc'[w] = Busy("recover", c, {})
        \/ proc'[w] = Busy("readTicket", c, S) /\ Taken(RequestOf[c])
    BY <1>0, <2>1, <2>2 DEF FillInv, SubmittedIsTaken
  <2>5. Taken(RequestOf[c]) => Taken(RequestOf[c])'
    BY <1>0, <2>1 DEF Forward
  <2>6. PositionsOf(S, RequestOf[c])'
    BY <1>0, <2>1 DEF PositionsOf, Forward
  <2>7. Matched(proc[w])'
    <3>1. CASE proc'[w] = Busy("claimed", c, {}) \/ proc'[w] = Busy("recover", c, {})
      BY <3>1 DEF Busy, Matched
    <3>2. CASE proc'[w] = Busy("readTicket", c, S) /\ Taken(RequestOf[c])
      <4>1. proc'[w].at = "readTicket" /\ proc'[w].cap = c /\ proc'[w].pos = S
        BY <3>2 DEF Busy
      <4>2. QED BY <2>5, <2>6, <3>2, <4>1 DEF Matched
    <3>3. QED BY <2>4, <3>1, <3>2
  <2>8. QED BY <1>1, <2>3, <2>7
<1>3. ASSUME NEW w \in Workers, proc'[w].at \in Elsewhere, \A v \in Workers : v # w => proc'[v] = proc[v]
      PROVE  MatchesOK'
  <2>1. Matched(proc[w])'
    BY <1>3 DEF Elsewhere, Matched
  <2>2. QED BY <1>1, <1>3, <2>1
<1>4. ASSUME NEW w \in Workers, AppendStep(w) \/ CaptureStep(w) PROVE MatchesOK'
  <2>1. Advances(w)
    BY <1>0, <1>4, AppendShape, CaptureShape
  <2>2. proc'[w].at \in Elsewhere
    BY <2>1 DEF Advances, Elsewhere, Driving, Labels
  <2>3. QED BY <1>3, <2>1, <2>2 DEF Advances
<1>5. ASSUME NEW w \in Workers, Done(w) \/ Goto(w, "send") \/ Goto(w, "await") \/ Goto(w, "riskRefused")
      PROVE  MatchesOK'
  <2>1. proc'[w].at \in Elsewhere /\ \A v \in Workers : v # w => proc'[v] = proc[v]
    BY <1>0, <1>5, LocalMoves DEF Elsewhere, Labels
  <2>2. QED BY <1>3, <2>1
<1>6. ASSUME NEW w \in Workers, ConsumeStep(w) \/ TripStep(w) \/ SendStep(w) \/ FailStep(w)
                                \/ Raise(w) \/ Crash(w)
      PROVE  MatchesOK'
  BY <1>5, <1>6 DEF ConsumeStep, ConsumePermit, Refuse, TripStep, FinalRiskHalts, TripIntegrityAmbiguous,
     SendStep, OrderSend, FailStep, TransportFails, Raise, Crash
<1>7. ASSUME NEW w \in Workers, ReadStep(w) PROVE MatchesOK'
  <2>1. /\ \A v \in Workers : v # w => proc'[v] = proc[v]
        /\ proc'[w].at # "idle" => Matched(proc'[w])
    BY <1>0, <1>7, ReadShape, ReadMatches
  <2>2. UNCHANGED <<order, events>>
    BY <1>7 DEF ReadStep, broker
  <2>3. proc'[w].at # "idle" => Matched(proc[w])'
    BY <2>1, <2>2 DEF Matched, PositionsOf, Filled, Taken, Gone
  <2>4. QED BY <1>1, <2>1, <2>3
<1>8. ASSUME UNCHANGED proc PROVE MatchesOK'
  <2> SUFFICES ASSUME NEW v \in Workers, ~At(v, "idle") PROVE Matched(proc[v])'
    BY <1>8 DEF MatchesOK, At
  <2>1. QED BY <1>0, <1>8, MatchedStays DEF MatchesOK
<1>9. ASSUME NEW r \in Requests, BrokerStep(r) PROVE UNCHANGED proc
  BY <1>9 DEF BrokerStep, StrangerAppears, BrokerAccepts, BrokerRejects, OrderLost, PendingFills,
     PendingRemoved, PositionCloses, BrokerMoves
<1>10. ASSUME NEW p \in Permits, IssuePermit(p) PROVE UNCHANGED proc
  BY <1>10 DEF IssuePermit
<1>11. QED BY <1>2, <1>4, <1>6, <1>7, <1>8, <1>9, <1>10 DEF Next, Step

\* What a worker appends about orders is true when it appends it.
LEMMA SaidIsReal ==
    ASSUME TypeOK, FillInv, NEW w \in Workers, ~At(w, "idle"), NEW e, Says(w, e)
    PROVE  RowIsReal(Req(w), e)
<1>1. Matched(proc[w]) /\ proc[w].pos \subseteq Requests /\ proc[w].pend \subseteq Requests
  BY DEF FillInv, MatchesOK, TypeOK, Locals
<1>2. ASSUME NEW S \in SUBSET Requests, S # {}, ~Several(S) PROVE \E q \in Requests : S = {q}
  BY <1>2 DEF Several
<1>3. CASE e.tickets = {} /\ e.verdict \in {"NONE", "NOT_SUBMITTED"}
  BY <1>3 DEF RowIsReal
<1>4. CASE /\ proc[w].at = "resolve" /\ e.tickets = proc[w].pos \cup proc[w].pend
           /\ \/ e.verdict = "INTEGRITY" /\ Several(e.tickets)
              \/ e.verdict = "SUBMITTED" /\ e.tickets # {} /\ ~Several(e.tickets)
  <2>1. /\ \A q \in proc[w].pos : Filled(q) /\ Magic[q] = Magic[Req(w)]
        /\ \A q \in proc[w].pend : Taken(q) /\ Magic[q] = Magic[Req(w)]
        /\ proc[w].pend = {} \/ Several(proc[w].pend)
    BY <1>1, <1>4 DEF Matched, PositionsOf, Req
  <2>2. \A q \in e.tickets : Taken(q) /\ Magic[q] = Magic[Req(w)]
    BY <1>4, <2>1 DEF Filled, Taken
  <2>3. CASE e.verdict = "INTEGRITY"
    BY <1>4, <2>2, <2>3 DEF RowIsReal
  <2>4. CASE e.verdict = "SUBMITTED"
    <3>1. proc[w].pend = {} /\ e.tickets = proc[w].pos
      BY <1>4, <2>1, <2>4 DEF Several
    <3>2. PICK q \in Requests : e.tickets = {q}
      BY <1>1, <1>2, <1>4, <2>4, <3>1
    <3>3. Filled(q)
      BY <2>1, <3>1, <3>2
    <3>4. QED BY <2>2, <2>4, <3>2, <3>3 DEF RowIsReal
  <2>5. QED BY <1>4, <2>3, <2>4
<1>5. CASE /\ proc[w].at = "resolveTicket" /\ e.tickets = proc[w].pos
           /\ \/ e.verdict = "INTEGRITY" /\ Several(e.tickets)
              \/ e.verdict = "FROM_PENDING" /\ ~Several(e.tickets)
  <2>1. /\ \A q \in proc[w].pos : Filled(q) /\ Magic[q] = Magic[Req(w)]
        /\ Gone(Req(w)) /\ proc[w].pos # {}
    BY <1>1, <1>5 DEF Matched, PositionsOf, Req
  <2>2. \A q \in e.tickets : Taken(q) /\ Magic[q] = Magic[Req(w)]
    BY <1>5, <2>1 DEF Filled, Taken
  <2>3. CASE e.verdict = "INTEGRITY"
    BY <1>5, <2>2, <2>3 DEF RowIsReal
  <2>4. CASE e.verdict = "FROM_PENDING"
    <3>1. PICK q \in Requests : e.tickets = {q}
      BY <1>1, <1>2, <1>5, <2>1, <2>4
    <3>2. Filled(q)
      BY <1>5, <2>1, <3>1
    <3>3. QED BY <2>1, <2>2, <2>4, <3>1, <3>2 DEF RowIsReal
  <2>5. QED BY <1>5, <2>3, <2>4
<1>6. QED BY <1>3, <1>4, <1>5 DEF Says

\* A row that is real stays so while the book moves forward.
LEMMA RealStays ==
    ASSUME NEW r \in Requests, NEW e \in Events, RowIsReal(r, e), \A q \in Requests : Forward(q)
    PROVE  RowIsReal(r, e)'
<1>1. e.tickets \subseteq Requests
  BY DEF Events
<1>2. QED BY <1>1 DEF RowIsReal, Forward

\* What is on record is real, and stays so.
LEMMA FillPreserved ==
    ASSUME SubmissionInv, FillInv, [Next]_vars
    PROVE  FillInv'
<1>1. TypeOK /\ TypeOK' /\ SubmittedIsTaken /\ RowsAreReal /\ FatesOK
  BY TypePreserved DEF SubmissionInv, FillInv
<1>2. FatesOK' /\ \A r \in Requests : Forward(r)
  BY <1>1, OrderMoves
<1>3. MatchesOK'
  BY MatchesPreserved
<1>4. UNCHANGED events \/ \E w \in Workers : ~At(w, "idle") /\ \E e : Says(w, e)
  <2>1. ASSUME NEW w \in Workers, AppendStep(w) \/ ConsumeStep(w) PROVE ~At(w, "idle")
    BY <1>1, <2>1, AppendShape DEF ConsumeStep, ConsumePermit, At
  <2>2. QED BY <1>1, <2>1, OnlyAppendsAdd, AppendSays, ConsumeSays
<1>5. ASSUME NEW r \in Requests, NEW i \in DOMAIN events'[r]
      PROVE  \/ i \in DOMAIN events[r] /\ events'[r][i] = events[r][i]
             \/ /\ events'[r][i] \in Events /\ RowIsReal(r, events'[r][i])
                /\ events'[r][i].type = "SUBMITTED" => Taken(r)
  <2>1. CASE UNCHANGED events
    BY <2>1
  <2>2. ASSUME NEW w \in Workers, ~At(w, "idle"), NEW e, Says(w, e)
        PROVE  \/ i \in DOMAIN events[r] /\ events'[r][i] = events[r][i]
               \/ /\ events'[r][i] \in Events /\ RowIsReal(r, events'[r][i])
                  /\ events'[r][i].type = "SUBMITTED" => Taken(r)
    <3>1. Req(w) \in Requests
      BY <1>1, <2>2, ConstantsAssumption DEF TypeOK, Req
    <3>2. \/ i \in DOMAIN events[r] /\ events'[r][i] = events[r][i]
          \/ r = Req(w) /\ events'[r][i] = e
      BY <1>1, <2>2, <3>1, RowsAfter DEF Says
    <3>3. RowIsReal(Req(w), e)
      BY <1>1, <2>2, SaidIsReal
    <3>4. QED BY <2>2, <3>2, <3>3 DEF Says
  <2>3. QED BY <1>4, <2>1, <2>2
<1>6. RowsAreReal'
  <2> SUFFICES ASSUME NEW r \in Requests, NEW i \in DOMAIN events'[r], NEW e, e = events'[r][i]
               PROVE  RowIsReal(r, e)'
    BY DEF RowsAreReal, RowIsReal, Filled, Gone, Taken
  <2>1. e \in Events
    BY <1>1 DEF TypeOK
  <2>2. RowIsReal(r, e)
    BY <1>1, <1>5 DEF RowsAreReal
  <2>3. QED BY <1>2, <2>1, <2>2, RealStays
<1>7. SubmittedIsTaken'
  <2> SUFFICES ASSUME NEW r \in Requests, NEW i \in DOMAIN events'[r],
                      events'[r][i].type = "SUBMITTED"
               PROVE  Taken(r)'
    BY DEF SubmittedIsTaken, Has
  <2>1. Taken(r)
    BY <1>1, <1>5 DEF SubmittedIsTaken, Has
  <2>2. QED BY <1>2, <2>1 DEF Forward
<1>8. QED BY <1>2, <1>3, <1>6, <1>7 DEF FillInv

\* Whoever attributes a position to a request, of whatever worker's pass and
\* however many orders share its magic number, attributes the one position of
\* that magic that opened, never FILLED while the request's own ticket rests,
\* and an ambiguity on record is one.
THEOREM AttributionsAreReal == Spec => []AttributedPositionIsReal
<1>1. Init => FillInv
  BY DEF Init, FillInv, FatesOK, SubmittedIsTaken, MatchesOK, RowsAreReal, Idle, At, Has
<1>2. SubmissionInv /\ FillInv /\ [Next]_vars => FillInv'
  BY FillPreserved
<1>3. FillInv => AttributedPositionIsReal
  BY DEF FillInv, RowsAreReal, RowIsReal, AttributedPositionIsReal, Filled, Gone
<1>4. QED BY <1>1, <1>2, <1>3, SubmissionSafe, PTL DEF Spec

==============================================================================
