------------------------- MODULE ReconciliationProofs -------------------------
(***************************************************************************)
(* Proofs about Reconciliation, for any number of workers, requests and    *)
(* faults.                                                                 *)
(***************************************************************************)
EXTENDS Reconciliation, SequenceTheorems, TLAPS

USE ReconciliationAssumption

------------------------------------------------------------------------------
(* Histories                                                               *)

Outcomes == {"SUBMITTED", "FILLED", "REJECTED"}

Events ==
    [type : {"SUBMISSION_STARTED"}, entry : {"MARKET", "LIMIT"}]
    \cup [type : Outcomes]
    \cup [type : {"AMBIGUOUS_OUTCOME_RESOLVED"}, tickets : SUBSET Tickets, integrity : BOOLEAN]
    \cup [type : {"RECONCILED"}, expected : SUBSET Tickets, observed : SUBSET Tickets,
          closed : SUBSET Tickets, book : {"MATCHED", "MISMATCHED"}, issues : SUBSET Tickets]

Types == {"SUBMISSION_STARTED", "AMBIGUOUS_OUTCOME_RESOLVED", "RECONCILED"} \cup Outcomes

\* Every event but RECONCILED says something of the exposure.
LEMMA OnlyReconciledIsIrrelevant ==
    \A t \in Types : Exposure[t] # "NOT_EXPOSURE_RELEVANT" <=> t # "RECONCILED"
BY DEF Types, Outcomes, Exposure

\* Every event has one of the types.
LEMMA EventsHaveTypes == \A e \in Events : e.type \in Types
BY DEF Events, Types, Outcomes

\* The events of h that are not RECONCILED.
Relevant(h) == {i \in DOMAIN h : h[i].type # "RECONCILED"}

\* The last exposure-relevant event is the last one that is not RECONCILED.
LEMMA LastByRelevant ==
    ASSUME NEW h \in Seq(Events)
    PROVE  LastExposureRelevant(h) = h[CHOOSE i \in Relevant(h) : \A j \in Relevant(h) : j <= i]
<1>1. \A i \in DOMAIN h : h[i] \in Events
  OBVIOUS
<1>2. \A i \in DOMAIN h : Exposure[h[i].type] # "NOT_EXPOSURE_RELEVANT" <=> h[i].type # "RECONCILED"
  BY <1>1, EventsHaveTypes, OnlyReconciledIsIrrelevant
<1>3. {i \in DOMAIN h : Exposure[h[i].type] # "NOT_EXPOSURE_RELEVANT"} = Relevant(h)
  BY <1>2 DEF Relevant
<1>4. QED BY <1>3, Zenon DEF LastExposureRelevant

\* A history begins with its commitment, commits once, and has a last relevant event.
Begun(h) ==
    /\ h # <<>>
    /\ h[1].type = "SUBMISSION_STARTED"
    /\ \A i \in DOMAIN h : h[i].type = "SUBMISSION_STARTED" => i = 1
    /\ \E i \in Relevant(h) : \A j \in Relevant(h) : j <= i

\* The shape of an append.
LEMMA Appends ==
    ASSUME NEW h \in Seq(Events), NEW e \in Events
    PROVE  /\ Append(h, e) \in Seq(Events)
           /\ Append(h, e) # <<>>
           /\ DOMAIN h = 1..Len(h) /\ Len(h) \in Nat
           /\ DOMAIN Append(h, e) = 1..(Len(h) + 1)
           /\ Append(h, e)[Len(h) + 1] = e
           /\ \A i \in DOMAIN h : Append(h, e)[i] = h[i]
OBVIOUS

\* A relevant event that is appended becomes the last relevant one.
LEMMA LastOfAppended ==
    ASSUME NEW h \in Seq(Events), NEW e \in Events, e.type # "RECONCILED"
    PROVE  LastExposureRelevant(Append(h, e)) = e
<1> DEFINE g == Append(h, e)
<1>1. Len(h) + 1 \in Relevant(g) /\ \A j \in Relevant(g) : j <= Len(h) + 1 /\ j \in Nat
  BY Appends DEF Relevant
<1>2. Len(h) \in Nat /\ g \in Seq(Events) /\ g[Len(h) + 1] = e
  BY Appends
<1> HIDE DEF g
<1>3. (CHOOSE i \in Relevant(g) : \A j \in Relevant(g) : j <= i) = Len(h) + 1
  <2>1. \E i \in Relevant(g) : \A j \in Relevant(g) : j <= i
    BY <1>1
  <2> DEFINE m == CHOOSE i \in Relevant(g) : \A j \in Relevant(g) : j <= i
  <2>2. m \in Relevant(g) /\ \A j \in Relevant(g) : j <= m
    BY <2>1, Zenon
  <2> HIDE DEF m
  <2>3. m = Len(h) + 1
    BY <1>1, <1>2, <2>2
  <2>4. QED BY <2>3 DEF m
<1>4. QED BY <1>2, <1>3, LastByRelevant DEF g

\* A RECONCILED event changes nothing of what a history says about the exposure.
LEMMA LastOfReconciled ==
    ASSUME NEW h \in Seq(Events), NEW e \in Events, e.type = "RECONCILED", Begun(h)
    PROVE  LastExposureRelevant(Append(h, e)) = LastExposureRelevant(h)
<1> DEFINE g == Append(h, e)
<1>1. Relevant(g) = Relevant(h)
  BY Appends DEF Relevant
<1>2. g \in Seq(Events) /\ \A i \in DOMAIN h : g[i] = h[i]
  BY Appends
<1> HIDE DEF g
<1> DEFINE m == CHOOSE i \in Relevant(h) : \A j \in Relevant(h) : j <= i
<1>3. m \in Relevant(h)
  BY Zenon DEF Begun
<1>4. m \in DOMAIN h
  BY <1>3 DEF Relevant
<1>5. LastExposureRelevant(h) = h[m] /\ LastExposureRelevant(g) = g[m]
  BY <1>1, <1>2, LastByRelevant
<1>6. QED BY <1>2, <1>4, <1>5 DEF g

\* An append keeps a history well begun.
LEMMA BegunStays ==
    ASSUME NEW h \in Seq(Events), NEW e \in Events, Begun(h), e.type # "SUBMISSION_STARTED"
    PROVE  Begun(Append(h, e))
<1> DEFINE g == Append(h, e)
<1>1. /\ DOMAIN h = 1..Len(h) /\ Len(h) \in Nat /\ Len(h) > 0
      /\ DOMAIN g = 1..(Len(h) + 1)
      /\ g[Len(h) + 1] = e /\ \A i \in DOMAIN h : g[i] = h[i]
      /\ g # <<>>
  BY Appends DEF Begun
<1> HIDE DEF g
<1>2. g[1].type = "SUBMISSION_STARTED"
  BY <1>1 DEF Begun
<1>3. \A i \in DOMAIN g : g[i].type = "SUBMISSION_STARTED" => i = 1
  BY <1>1 DEF Begun
<1>4. \E i \in Relevant(g) : \A j \in Relevant(g) : j <= i
  <2>1. CASE e.type = "RECONCILED"
    <3>1. Relevant(g) = Relevant(h)
      BY <1>1, <2>1 DEF Relevant
    <3>2. QED BY <3>1 DEF Begun
  <2>2. CASE e.type # "RECONCILED"
    <3>1. Len(h) + 1 \in Relevant(g) /\ \A j \in Relevant(g) : j <= Len(h) + 1
      BY <1>1, <2>2 DEF Relevant
    <3>2. QED BY <3>1
  <2>3. QED BY <2>1, <2>2
<1>5. QED BY <1>1, <1>2, <1>3, <1>4 DEF Begun, g

\* A first commitment begins a history, and is its last event.
LEMMA CommitmentBegins ==
    ASSUME NEW e \in Events, e.type = "SUBMISSION_STARTED"
    PROVE  /\ Begun(Append(<<>>, e))
           /\ LastExposureRelevant(Append(<<>>, e)) = e
<1> DEFINE g == Append(<<>>, e)
<1>1. DOMAIN g = {1} /\ g[1] = e /\ g # <<>>
  OBVIOUS
<1>2. <<>> \in Seq(Events)
  OBVIOUS
<1>3. LastExposureRelevant(g) = e
  BY <1>2, LastOfAppended
<1> HIDE DEF g
<1>4. Relevant(g) = {1}
  BY <1>1 DEF Relevant
<1>5. Begun(g)
  BY <1>1, <1>4 DEF Begun
<1>6. QED BY <1>3, <1>5 DEF g

\* The last relevant event is one of the history, and none that is relevant follows it.
LEMMA LastIsThere ==
    ASSUME NEW h \in Seq(Events), Begun(h)
    PROVE  \E m \in DOMAIN h :
              /\ LastExposureRelevant(h) = h[m]
              /\ \A j \in DOMAIN h : h[j].type # "RECONCILED" => j <= m
<1> DEFINE m == CHOOSE i \in Relevant(h) : \A j \in Relevant(h) : j <= i
<1>1. m \in Relevant(h) /\ \A j \in Relevant(h) : j <= m
  BY Zenon DEF Begun
<1>2. LastExposureRelevant(h) = h[m]
  BY LastByRelevant
<1> HIDE DEF m
<1>3. QED BY <1>1, <1>2 DEF Relevant

\* A history that commits, and is recovered at most once.
Sound(h) ==
    /\ Begun(h)
    /\ \A i, j \in DOMAIN h :
          h[i].type = "AMBIGUOUS_OUTCOME_RESOLVED" /\ h[j].type = "AMBIGUOUS_OUTCOME_RESOLVED" => i = j

\* The tickets that recovery recorded are those of its one row.
LEMMA MatchingOfRow ==
    ASSUME NEW h \in Seq(Events), Sound(h),
           NEW i \in DOMAIN h, h[i].type = "AMBIGUOUS_OUTCOME_RESOLVED"
    PROVE  AmbiguousMatching(h) = h[i].tickets
<1>1. {j \in DOMAIN h : h[j].type = "AMBIGUOUS_OUTCOME_RESOLVED"} = {i}
  BY DEF Sound
<1>2. AmbiguousMatching(h) = UNION {h[j].tickets : j \in {i}}
  BY <1>1 DEF AmbiguousMatching
<1>3. QED BY <1>2

\* g is h, or what was appended to it later.
Grew(h, g) == Len(h) <= Len(g) /\ \A i \in DOMAIN h : g[i] = h[i]

\* A row of the history says that the request has these tickets.
Gives(h, tickets) == \E i \in DOMAIN h : Settles(h[i]) /\ TicketsOf(h[i]) = tickets

\* What a history says about a request's tickets, it says for good.
LEMMA SaidForGood ==
    ASSUME NEW h \in Seq(Events), NEW g \in Seq(Events), Grew(h, g)
    PROVE  /\ \A tickets : Gives(h, tickets) => Gives(g, tickets)
           /\ Disowned(h) => Disowned(g)
           /\ h # <<>> => g # <<>>
<1>1. DOMAIN h \subseteq DOMAIN g /\ \A i \in DOMAIN h : g[i] = h[i]
  BY DEF Grew
<1>2. h # <<>> => g # <<>>
  BY DEF Grew
<1>3. QED BY <1>1, <1>2 DEF Gives, Disowned

\* Growth adds up.
LEMMA GrewOn ==
    ASSUME NEW f \in Seq(Events), NEW g \in Seq(Events), NEW h \in Seq(Events), Grew(f, g), Grew(g, h)
    PROVE  Grew(f, h)
<1>1. DOMAIN f \subseteq DOMAIN g
  BY DEF Grew
<1>2. QED BY <1>1 DEF Grew

------------------------------------------------------------------------------
(* The inductive invariant                                                 *)

Orders == {"none", "never", "sent", "resting", "filled", "rejected", "cancelled"}
Unsettled == {"SUBMISSION_STARTED", "SUBMITTED"}

ReconTypeOK ==
    /\ events \in [Requests -> Seq(Events)]
    /\ order \in [Requests -> Orders]
    /\ DOMAIN book \subseteq Tickets
    /\ halted \in [Workers -> BOOLEAN]
    /\ proc = [w \in Workers |-> proc[w]]

HistoriesOK == \A r \in Requests : events[r] # <<>> => Sound(events[r])

\* An order under way has no outcome on record yet, or one that came too early.
OrdersOK ==
    \A r \in Requests :
        /\ order[r] = "none" <=> events[r] = <<>>
        /\ order[r] \in Moving /\ r \notin hasty => LastExposureRelevant(events[r]).type \in Unsettled

\* A ticket is used once: what a flatten recorded closed is closed for good, unless it
\* was open at that moment.
ClosedOK ==
    /\ \A r \in Requests : r \in DOMAIN book => order[r] = "filled"
    /\ occurrence # None => occurrence.targets \subseteq DOMAIN book
    /\ ClosedByFlatten(occurrence) \subseteq DOMAIN book
    /\ ClosedByFlatten(occurrence) \cap Open \subseteq phantom

HaltIsDurable == \A w \in Workers : halted[w] => safety = "HALTED"

\* Tickets that are not accounted for as open were closed by a flatten or disowned.
Gone(r, tickets) == tickets \subseteq ClosedByFlatten(occurrence) \/ Disowned(events[r])

\* What is on record as reconciled.
RecordOK ==
    \A r \in Requests : \A j \in DOMAIN events[r] :
        LET e == events[r][j] IN
        e.type = "RECONCILED" =>
            /\ \E i \in 1..j : Settles(events[r][i]) /\ e.observed \cup e.closed = TicketsOf(events[r][i])
            /\ Gone(r, e.closed)
            /\ e.issues # {} => safety = "HALTED"

\* What a pass has read is how the histories began, and what was under way and
\* undecided then is undecided in what it has read.
ReadOK(p) ==
    /\ p = [at |-> "histories", unread |-> p.unread, hist |-> p.hist, moving |-> p.moving]
    /\ \A r \in p.unread : r \in Requests /\ events[r] # <<>> /\ r \notin DOMAIN p.hist
    /\ \A r \in DOMAIN p.hist :
          /\ r \in Requests /\ p.hist[r] \in Seq(Events) /\ Sound(p.hist[r])
          /\ Grew(p.hist[r], events[r])
    /\ \A r \in p.moving :
          r \in DOMAIN p.hist /\ LastExposureRelevant(p.hist[r]).type \in Unsettled

\* What is derived from it, unless something is undetermined.
KnownOK(k) ==
    ~k.exposure.undetermined =>
        /\ k.moving = {}
        /\ \A r \in DOMAIN k.raw :
              /\ r \in Requests
              /\ Gives(events[r], k.raw[r])
              /\ k.exposure.byRequest[r] \subseteq k.raw[r]
              /\ Gone(r, k.raw[r] \ k.exposure.byRequest[r])

\* An event that may be appended.
RowOK(r, e) ==
    /\ r \in Requests /\ e \in Events /\ e.type = "RECONCILED"
    /\ Gives(events[r], e.observed \cup e.closed)
    /\ Gone(r, e.closed)

Recording(p) ==
    [at |-> "record", status |-> p.status, moving |-> p.moving, unclear |-> p.unclear, rows |-> p.rows]

PassOK(p) ==
    \/ p = Idle
    \/ p.at = "histories" /\ ReadOK(p)
    \/ p.at = "positions" /\ KnownOK(p.known)
    \/ p.at = "orders" /\ KnownOK(p.known)
    \/ /\ p.at = "compare" /\ KnownOK(p.known)
       /\ ~p.known.exposure.undetermined
       /\ p = [at |-> "compare", known |-> p.known, stops |-> p.stops, newest |-> p.newest]
    \/ /\ p.at = "record" /\ p = Recording(p)
       /\ p.moving = {}
       /\ \A r \in DOMAIN p.rows : RowOK(r, p.rows[r])

ReconInv ==
    /\ ReconTypeOK /\ HistoriesOK /\ OrdersOK /\ ClosedOK /\ HaltIsDurable /\ RecordOK
    /\ \A w \in Workers : PassOK(proc[w])

------------------------------------------------------------------------------
(* What a step may do to what others have read                             *)

\* Histories grow, what a flatten recorded stays recorded, and no halt is lifted.
Keeps ==
    /\ \A r \in Requests :
          /\ events[r] \in Seq(Events) /\ events'[r] \in Seq(Events)
          /\ Grew(events[r], events'[r])
    /\ ClosedByFlatten(occurrence) \subseteq ClosedByFlatten(occurrence')
    /\ safety = "HALTED" => safety' = "HALTED"

\* What is gone stays gone.
LEMMA GoneStays ==
    ASSUME Keeps, NEW r \in Requests, NEW tickets, Gone(r, tickets)
    PROVE  Gone(r, tickets)'
<1>1. Disowned(events[r]) => Disowned(events'[r])
  BY SaidForGood DEF Keeps
<1>2. QED BY <1>1 DEF Gone, Keeps

\* What a pass knows stays true while the histories only grow.
LEMMA KnownStays ==
    ASSUME Keeps, NEW k, KnownOK(k)
    PROVE  KnownOK(k)'
<1>1. ASSUME ~k.exposure.undetermined, NEW r \in DOMAIN k.raw
      PROVE  /\ r \in Requests
             /\ Gives(events'[r], k.raw[r])
             /\ Gone(r, k.raw[r] \ k.exposure.byRequest[r])'
  <2>1. r \in Requests /\ Gives(events[r], k.raw[r]) /\ Gone(r, k.raw[r] \ k.exposure.byRequest[r])
    BY <1>1 DEF KnownOK
  <2>2. Gives(events'[r], k.raw[r])
    BY <2>1, SaidForGood DEF Keeps
  <2>3. QED BY <2>1, <2>2, GoneStays
<1>2. QED BY <1>1 DEF KnownOK

\* An event that may be appended may be appended later.
LEMMA RowStays ==
    ASSUME Keeps, NEW r, NEW e, RowOK(r, e)
    PROVE  RowOK(r, e)'
<1>1. r \in Requests /\ Gives(events[r], e.observed \cup e.closed) /\ Gone(r, e.closed)
  BY DEF RowOK
<1>2. Gives(events'[r], e.observed \cup e.closed)
  BY <1>1, SaidForGood DEF Keeps
<1>3. Gone(r, e.closed)'
  BY <1>1, GoneStays
<1>4. QED BY <1>2, <1>3 DEF RowOK

\* So does all that a pass has established, wherever it is.
LEMMA PassStays ==
    ASSUME Keeps, NEW p, PassOK(p)
    PROVE  PassOK(p)'
<1>1. CASE p.at = "histories" /\ ReadOK(p)
  <2>1. \A r \in p.unread : r \in Requests /\ events'[r] # <<>> /\ r \notin DOMAIN p.hist
    BY <1>1, SaidForGood DEF ReadOK, Keeps
  <2>2. ASSUME NEW r \in DOMAIN p.hist
        PROVE  /\ r \in Requests /\ p.hist[r] \in Seq(Events) /\ Sound(p.hist[r])
               /\ Grew(p.hist[r], events'[r])
    BY <1>1, <2>2, GrewOn DEF ReadOK, Keeps
  <2>3. ReadOK(p)'
    BY <1>1, <2>1, <2>2 DEF ReadOK
  <2>4. QED BY <1>1, <2>3 DEF PassOK
<1>2. CASE p.at = "record" /\ p = Recording(p) /\ p.moving = {} /\ \A r \in DOMAIN p.rows : RowOK(r, p.rows[r])
  <2>1. \A r \in DOMAIN p.rows : RowOK(r, p.rows[r])'
    BY <1>2, RowStays
  <2>2. QED BY <1>2, <2>1 DEF PassOK, Recording
<1>3. QED BY <1>1, <1>2, KnownStays DEF PassOK

------------------------------------------------------------------------------
(* reconcile_once()                                                        *)

\* A step of the passes alone.
LEMMA PassesMove ==
    ASSUME ReconInv, UNCHANGED <<events, occurrence, broker, past>>,
           safety = "HALTED" => safety' = "HALTED",
           halted' \in [Workers -> BOOLEAN], HaltIsDurable',
           proc' = [w \in Workers |-> proc'[w]],
           \A w \in Workers : PassOK(proc'[w])
    PROVE  ReconInv'
<1>1. /\ UNCHANGED <<events, occurrence, order, book, hasty, phantom>>
      /\ events \in [Requests -> Seq(Events)]
  BY DEF broker, past, ReconInv, ReconTypeOK
<1>2. Keeps
  BY <1>1 DEF Keeps, Grew
<1>3. \A w \in Workers : PassOK(proc[w])'
  BY <1>2, PassStays
<1>4. ReconTypeOK'
  BY <1>1 DEF ReconInv, ReconTypeOK
<1>5. HistoriesOK' /\ OrdersOK'
  BY <1>1 DEF ReconInv, HistoriesOK, OrdersOK
<1>6. ClosedOK'
  BY <1>1 DEF ReconInv, ClosedOK, Open
<1>7. RecordOK'
  BY <1>1 DEF ReconInv, RecordOK, Gone
<1>8. QED BY <1>3, <1>4, <1>5, <1>6, <1>7 DEF ReconInv

\* One worker goes on to p and the others stay.
LEMMA WorkerMoves ==
    ASSUME ReconInv, NEW w \in Workers, NEW p, Goto(w, p), PassOK(p),
           UNCHANGED <<stores, broker, past, halted>>
    PROVE  ReconInv'
<1>1. proc' = [proc EXCEPT ![w] = p] /\ proc = [v \in Workers |-> proc[v]]
  BY DEF Goto, ReconInv, ReconTypeOK
<1>2. /\ proc' = [v \in Workers |-> proc'[v]]
      /\ \A v \in Workers : proc'[v] = IF v = w THEN p ELSE proc[v]
  BY <1>1
<1>3. \A v \in Workers : PassOK(proc'[v])
  BY <1>2 DEF ReconInv
<1>4. halted' \in [Workers -> BOOLEAN] /\ HaltIsDurable'
  BY DEF stores, ReconInv, ReconTypeOK, HaltIsDurable
<1>5. QED BY <1>2, <1>3, <1>4, PassesMove DEF stores

\* A pass begins with nothing read.
LEMMA StartOK ==
    ASSUME ReconInv, NEW w \in Workers, Start(w)
    PROVE  ReconInv'
<1> DEFINE p == [at |-> "histories", unread |-> Candidates, hist |-> <<>>, moving |-> {}]
<1>1. ReadOK(p)
  BY DEF ReadOK, Candidates
<1>2. PassOK(p)
  BY <1>1 DEF PassOK
<1>3. QED BY <1>2, WorkerMoves DEF Start

\* A pass reads the history of one request.
LEMMA ReadHistoryOK ==
    ASSUME ReconInv, NEW w \in Workers, NEW r \in Requests, ReadHistory(w, r)
    PROVE  ReconInv'
<1> DEFINE o == proc[w]
           h == [q \in DOMAIN o.hist \cup {r} |-> IF q = r THEN events[r] ELSE o.hist[q]]
           m == IF order[r] \in Moving /\ r \notin hasty THEN o.moving \cup {r} ELSE o.moving
           p == [at |-> "histories", unread |-> o.unread \ {r}, hist |-> h, moving |-> m]
<1>1. o.at = "histories" /\ r \in o.unread /\ Goto(w, p)
  BY DEF ReadHistory, At
<1>2. PassOK(o)
  BY DEF ReconInv
<1>3. ReadOK(o)
  BY <1>1, <1>2 DEF PassOK, Idle
<1>4. r \notin DOMAIN o.hist /\ events[r] # <<>>
  BY <1>1, <1>3 DEF ReadOK
<1>5. events[r] \in Seq(Events) /\ Sound(events[r]) /\ Grew(events[r], events[r])
  BY <1>4 DEF ReconInv, ReconTypeOK, HistoriesOK, Grew
<1>6. order[r] \in Moving /\ r \notin hasty => LastExposureRelevant(events[r]).type \in Unsettled
  BY DEF ReconInv, OrdersOK
<1>7. /\ DOMAIN h = DOMAIN o.hist \cup {r}
      /\ h[r] = events[r] /\ \A q \in DOMAIN o.hist : q # r => h[q] = o.hist[q]
      /\ \A q \in m : q \in o.moving \/ (q = r /\ order[r] \in Moving /\ r \notin hasty)
  OBVIOUS
<1> HIDE DEF h, m
<1>8. ASSUME NEW q \in DOMAIN h
      PROVE  /\ q \in Requests /\ h[q] \in Seq(Events) /\ Sound(h[q])
             /\ Grew(h[q], events[q])
  BY <1>3, <1>5, <1>7 DEF ReadOK
<1>9. ASSUME NEW q \in m PROVE q \in DOMAIN h /\ LastExposureRelevant(h[q]).type \in Unsettled
  <2>1. CASE q # r
    BY <1>3, <1>7, <2>1 DEF ReadOK
  <2>2. CASE q = r
    BY <1>3, <1>4, <1>6, <1>7, <1>9, <2>2 DEF ReadOK
  <2>3. QED BY <2>1, <2>2
<1>10. \A q \in p.unread : q \in Requests /\ events[q] # <<>> /\ q \notin DOMAIN h
  BY <1>3, <1>7 DEF ReadOK
<1>11. ReadOK(p)
  BY <1>8, <1>9, <1>10 DEF ReadOK
<1>12. PassOK(p)
  BY <1>11 DEF PassOK
<1>13. QED BY <1>1, <1>12, WorkerMoves DEF ReadHistory

\* What one sound history says of a determined request's tickets.
LEMMA DeterminedTickets ==
    ASSUME NEW r \in Requests, NEW hist, NEW tickets,
           hist[r] \in Seq(Events), Sound(hist[r]),
           events[r] \in Seq(Events), Grew(hist[r], events[r]), IsDetermined(hist, r),
           tickets = RawMatching(hist, r) \ ClosedByFlatten(occurrence)
    PROVE  /\ Gives(events[r], AmbiguousMatching(hist[r]))
           /\ tickets \subseteq AmbiguousMatching(hist[r])
           /\ Gone(r, AmbiguousMatching(hist[r]) \ tickets)
<1> DEFINE h == hist[r]
<1>1. PICK m \in DOMAIN h :
        /\ LastExposureRelevant(h) = h[m]
        /\ \A j \in DOMAIN h : h[j].type # "RECONCILED" => j <= m
  BY LastIsThere DEF Sound
<1> HIDE DEF h
<1>2. h \in Seq(Events) /\ Sound(h) /\ Grew(h, events[r])
  BY DEF h
<1>3. \A T : Gives(h, T) => Gives(events[r], T)
  BY <1>2, SaidForGood
<1>4. Disowned(h) => Disowned(events[r])
  BY <1>2, SaidForGood
<1>5. h[m].type = "REJECTED" \/ h[m].type = "AMBIGUOUS_OUTCOME_RESOLVED"
  BY <1>1 DEF IsDetermined, h
<1>6. RawMatching(hist, r) = IF h[m].type = "AMBIGUOUS_OUTCOME_RESOLVED" THEN h[m].tickets ELSE {}
  BY <1>1 DEF RawMatching, h
<1>7. \A i \in DOMAIN h : h[i].type = "AMBIGUOUS_OUTCOME_RESOLVED" =>
         /\ AmbiguousMatching(h) = h[i].tickets
         /\ Gives(h, h[i].tickets)
  <2>1. ASSUME NEW i \in DOMAIN h, h[i].type = "AMBIGUOUS_OUTCOME_RESOLVED"
        PROVE  Settles(h[i]) /\ TicketsOf(h[i]) = h[i].tickets
    BY <2>1 DEF Settles, TicketsOf
  <2>2. QED BY <1>2, <2>1, MatchingOfRow DEF Gives
<1>8. CASE h[m].type = "AMBIGUOUS_OUTCOME_RESOLVED"
  <2>1. AmbiguousMatching(h) = RawMatching(hist, r) /\ Gives(h, AmbiguousMatching(h))
    BY <1>6, <1>7, <1>8
  <2>2. QED BY <1>3, <2>1 DEF Gone, h
<1>9. CASE h[m].type = "REJECTED"
  <2>1. tickets = {}
    BY <1>6, <1>9
  <2>2. CASE \E i \in DOMAIN h : h[i].type = "AMBIGUOUS_OUTCOME_RESOLVED"
    <3>1. PICK i \in DOMAIN h : h[i].type = "AMBIGUOUS_OUTCOME_RESOLVED"
      BY <2>2
    <3>2. i < m
      BY <1>1, <1>2, <1>9, <3>1
    <3>3. Disowned(h)
      BY <1>9, <3>1, <3>2 DEF Disowned
    <3>4. QED BY <1>3, <1>4, <1>7, <2>1, <3>1, <3>3 DEF Gone, h
  <2>3. CASE ~\E i \in DOMAIN h : h[i].type = "AMBIGUOUS_OUTCOME_RESOLVED"
    <3>1. {i \in DOMAIN h : h[i].type = "AMBIGUOUS_OUTCOME_RESOLVED"} = {}
      BY <2>3
    <3>2. AmbiguousMatching(h) = {}
      BY <3>1 DEF AmbiguousMatching
    <3>3. Settles(h[m]) /\ TicketsOf(h[m]) = {}
      BY <1>9 DEF Settles, TicketsOf
    <3>4. Gives(h, {})
      BY <3>3 DEF Gives
    <3>5. QED BY <1>3, <2>1, <3>2, <3>4 DEF Gone, h
  <2>4. QED BY <2>2, <2>3
<1>10. QED BY <1>5, <1>8, <1>9

\* What is derived from sound histories is sound.
LEMMA DerivedOK ==
    ASSUME ReconInv, NEW p, ReadOK(p)
    PROVE  KnownOK(Known(p.hist, p.moving))
<1> DEFINE hist == p.hist
           ex == DeriveExpectedExposure(hist, occurrence)
           det == {r \in DOMAIN hist : IsDetermined(hist, r)}
           tick == [r \in det |-> RawMatching(hist, r) \ ClosedByFlatten(occurrence)]
           raw == [r \in Pending(hist) \cap ex.determined |-> AmbiguousMatching(hist[r])]
<1>1. /\ ex.determined = det /\ ex.byRequest = tick
      /\ ex.undetermined = (FlattenUndetermined(occurrence) \/ \E r \in DOMAIN hist : IsUndetermined(hist, r))
  BY DEF DeriveExpectedExposure
<1>2. CASE ex.undetermined
  <2>1. Known(hist, p.moving) = [exposure |-> [undetermined |-> TRUE]]
    BY <1>2 DEF Known
  <2>2. QED BY <2>1 DEF KnownOK
<1>3. CASE ~ex.undetermined
  <2>1. Known(hist, p.moving) = [exposure |-> ex, moving |-> p.moving, unclear |-> Unclear(hist), raw |-> raw]
    BY <1>3 DEF Known
  <2>2. \A r \in DOMAIN hist : ~IsUndetermined(hist, r)
    BY <1>1, <1>3
  <2>3. p.moving = {}
    <3>1. \A r \in p.moving : r \in DOMAIN hist /\ IsUndetermined(hist, r)
      BY DEF ReadOK, IsUndetermined, Unsettled
    <3>2. QED BY <2>2, <3>1
  <2>4. DOMAIN raw = Pending(hist) \cap det
    BY <1>1
  <2>5. ASSUME NEW r \in DOMAIN raw
        PROVE  /\ r \in Requests
               /\ Gives(events[r], raw[r]) /\ tick[r] \subseteq raw[r]
               /\ Gone(r, raw[r] \ tick[r])
    <3>1. r \in det /\ r \in DOMAIN hist /\ IsDetermined(hist, r)
      BY <2>4
    <3>2. /\ raw[r] = AmbiguousMatching(hist[r])
          /\ tick[r] = RawMatching(hist, r) \ ClosedByFlatten(occurrence)
      BY <2>4, <3>1
    <3>3. /\ r \in Requests /\ hist[r] \in Seq(Events) /\ Sound(hist[r])
          /\ Grew(hist[r], events[r]) /\ events[r] \in Seq(Events)
      BY <3>1 DEF ReadOK, ReconInv, ReconTypeOK
    <3> HIDE DEF hist, raw, tick, det, ex
    <3>4. /\ Gives(events[r], AmbiguousMatching(hist[r]))
          /\ tick[r] \subseteq AmbiguousMatching(hist[r])
          /\ Gone(r, AmbiguousMatching(hist[r]) \ tick[r])
      BY <3>1, <3>2, <3>3, DeterminedTickets
    <3>5. QED BY <3>2, <3>3, <3>4
  <2> HIDE DEF ex, raw, tick, det
  <2>6. QED BY <1>1, <2>1, <2>3, <2>5 DEF KnownOK
<1>4. QED BY <1>2, <1>3

\* A pass reads the histories of the flattens.
LEMMA ReadFlattenHistoriesOK ==
    ASSUME ReconInv, NEW w \in Workers, ReadFlattenHistories(w)
    PROVE  ReconInv'
<1> DEFINE o == proc[w]
           k == Known(o.hist, o.moving)
           p == IF Pending(o.hist) = {} THEN Idle ELSE [at |-> "positions", known |-> k]
<1>1. o.at = "histories" /\ Goto(w, p)
  BY DEF ReadFlattenHistories, At
<1>2. PassOK(o)
  BY DEF ReconInv
<1>3. ReadOK(o)
  BY <1>1, <1>2 DEF PassOK, Idle
<1>4. KnownOK(k)
  BY <1>3, DerivedOK
<1> HIDE DEF k
<1>5. PassOK(p)
  BY <1>4 DEF PassOK
<1>6. QED BY <1>1, <1>5, WorkerMoves DEF ReadFlattenHistories

\* A pass reads the broker's positions.
LEMMA ReadPositionsOK ==
    ASSUME ReconInv, NEW w \in Workers, NEW ok, ReadPositions(w, ok)
    PROVE  ReconInv'
<1> DEFINE o == proc[w]
           p == [at |-> "orders", known |-> o.known, stops |-> IF ok THEN Positions ELSE <<>>,
                 positionSet |-> IF ok THEN "COMPLETE" ELSE "FAILED"]
<1>1. o.at = "positions" /\ Goto(w, p)
  BY DEF ReadPositions, At
<1>2. PassOK(o)
  BY DEF ReconInv
<1>3. KnownOK(o.known)
  BY <1>1, <1>2 DEF PassOK, Idle
<1>4. PassOK(p)
  BY <1>3 DEF PassOK
<1>5. QED BY <1>1, <1>4, WorkerMoves DEF ReadPositions

\* A snapshot that is recorded changes what others compare with, and nothing else.
LEMMA RecordedOK ==
    ASSUME ReconInv, NEW steps, NEW row, \A w \in Workers : PassOK(steps[w]),
           proc' = Recorded(steps, row), UNCHANGED <<stores, broker, past, halted>>
    PROVE  ReconInv'
<1>1. proc' = [w \in Workers |-> proc'[w]]
  BY DEF Recorded
<1>2. ASSUME NEW w \in Workers PROVE PassOK(proc'[w])
  <2> DEFINE p == steps[w]
  <2>1. CASE p.at = "compare"
    <3>1. /\ p = [at |-> "compare", known |-> p.known, stops |-> p.stops, newest |-> p.newest]
          /\ KnownOK(p.known) /\ ~p.known.exposure.undetermined
      <4>1. PassOK(p) /\ p # Idle
        BY <2>1 DEF Idle
      <4> HIDE DEF p
      <4>2. QED BY <2>1, <4>1, Zenon DEF PassOK
    <3>2. proc'[w] = [p EXCEPT !.newest = row]
      BY <2>1 DEF Recorded
    <3>3. [p EXCEPT !.newest = row] = [at |-> "compare", known |-> p.known, stops |-> p.stops, newest |-> row]
      BY <3>1
    <3>4. QED BY <3>1, <3>2, <3>3 DEF PassOK
  <2>2. CASE p.at # "compare"
    <3>1. proc'[w] = p
      BY <2>2 DEF Recorded
    <3>2. QED BY <3>1
  <2>3. QED BY <2>1, <2>2
<1>3. halted' \in [Workers -> BOOLEAN] /\ HaltIsDurable'
  BY DEF stores, ReconInv, ReconTypeOK, HaltIsDurable
<1>4. QED BY <1>1, <1>2, <1>3, PassesMove DEF stores

\* A pass reads the pending orders and records its capture.
LEMMA ReadPendingAndRecordOK ==
    ASSUME ReconInv, NEW w \in Workers, NEW ok, NEW drift, ReadPendingAndRecord(w, ok, drift)
    PROVE  ReconInv'
<1> DEFINE o == proc[w]
           c == [at |-> "compare", known |-> o.known, stops |-> o.stops, newest |-> None]
           p == IF o.known.exposure.undetermined THEN Idle ELSE c
           steps == [proc EXCEPT ![w] = p]
           row == Snapshot(DOMAIN o.stops, o.positionSet,
                           IF ok THEN PendingOrders ELSE {}, IF ok THEN "COMPLETE" ELSE "FAILED", drift)
<1>1. o.at = "orders" /\ proc' = Recorded(steps, row)
  BY DEF ReadPendingAndRecord, At
<1>2. PassOK(o)
  BY DEF ReconInv
<1>3. KnownOK(o.known)
  BY <1>1, <1>2 DEF PassOK, Idle
<1>4. PassOK(p)
  BY <1>3 DEF PassOK
<1>5. \A v \in Workers : steps[v] = IF v = w THEN p ELSE proc[v]
  BY DEF ReconInv, ReconTypeOK
<1>6. \A v \in Workers : PassOK(steps[v])
  BY <1>4, <1>5 DEF ReconInv
<1> HIDE DEF steps, row
<1>7. QED BY <1>1, <1>6, RecordedOK DEF ReadPendingAndRecord

\* The capture of another reader.
LEMMA OtherCaptureOK ==
    ASSUME ReconInv, OtherCapture
    PROVE  ReconInv'
<1>1. \A w \in Workers : PassOK(proc[w])
  BY DEF ReconInv
<1>2. QED BY <1>1, RecordedOK DEF OtherCapture

\* What a row of a history says are tickets.
LEMMA GivenAreTickets ==
    ASSUME ReconInv, NEW r \in Requests, NEW tickets, Gives(events[r], tickets)
    PROVE  tickets \subseteq Tickets
<1>1. PICK i \in DOMAIN events[r] : Settles(events[r][i]) /\ TicketsOf(events[r][i]) = tickets
  BY DEF Gives
<1>2. events[r][i] \in Events
  BY <1>1 DEF ReconInv, ReconTypeOK
<1>3. QED BY <1>1, <1>2 DEF Settles, TicketsOf, Events, Outcomes

\* The event that a pass would append for a request that is due may be appended.
LEMMA DueRowOK ==
    ASSUME ReconInv, NEW w \in Workers, KnownOK(proc[w].known), ~proc[w].known.exposure.undetermined,
           NEW r \in Due(w), NEW status \in {"MATCHED", "MISMATCHED"}
    PROVE  RowOK(r, ReconciledEvent(w, r, status))
<1> DEFINE k == proc[w].known
           e == ReconciledEvent(w, r, status)
<1>1. r \in DOMAIN k.raw /\ Attributed(w, r) \subseteq DOMAIN proc[w].stops
  BY DEF Due
<1>2. /\ r \in Requests /\ Gives(events[r], k.raw[r])
      /\ Attributed(w, r) \subseteq k.raw[r]
      /\ Gone(r, k.raw[r] \ Attributed(w, r))
  BY <1>1 DEF KnownOK, Attributed
<1>3. k.raw[r] \subseteq Tickets
  BY <1>2, GivenAreTickets
<1>4. Issues(w, r) \subseteq Attributed(w, r)
  BY DEF Issues, ProtectiveStopIssues
<1>5. /\ e.type = "RECONCILED" /\ e.observed \cup e.closed = k.raw[r]
      /\ e.closed = k.raw[r] \ Attributed(w, r)
  BY <1>1, <1>2 DEF ReconciledEvent
<1>6. e \in Events
  BY <1>2, <1>3, <1>4 DEF ReconciledEvent, Events
<1> HIDE DEF e, k
<1>7. RowOK(r, e)
  BY <1>2, <1>5, <1>6 DEF RowOK
<1>8. QED BY <1>7 DEF e

\* A pass compares what it expects with what it has read.
LEMMA CompareOK ==
    ASSUME ReconInv, NEW w \in Workers, Compare(w)
    PROVE  ReconInv'
<1> DEFINE o == proc[w]
           st == Reconcile(o.newest, o.known.exposure)
           rows == [r \in Due(w) |-> ReconciledEvent(w, r, st)]
           p == [at |-> "record", status |-> st, moving |-> o.known.moving,
                 unclear |-> o.known.unclear, rows |-> rows]
<1>1. o.at = "compare" /\ Goto(w, IF st = "UNKNOWN" THEN Idle ELSE p)
  BY DEF Compare, At
<1>2. PassOK(o)
  BY DEF ReconInv
<1>3. KnownOK(o.known) /\ ~o.known.exposure.undetermined
  BY <1>1, <1>2 DEF PassOK, Idle
<1>4. st # "UNKNOWN" => st \in {"MATCHED", "MISMATCHED"}
  BY DEF Reconcile
<1>5. o.known.moving = {}
  BY <1>3 DEF KnownOK
<1> HIDE DEF st
<1>6. ASSUME st # "UNKNOWN" PROVE PassOK(p)
  <2>1. \A r \in DOMAIN rows : RowOK(r, rows[r])
    BY <1>3, <1>4, <1>6, DueRowOK
  <2> HIDE DEF rows
  <2>2. QED BY <1>5, <2>1 DEF PassOK, Recording
<1>7. PassOK(Idle)
  BY DEF PassOK
<1> HIDE DEF p
<1>8. CASE st = "UNKNOWN"
  BY <1>1, <1>7, <1>8, WorkerMoves DEF Compare
<1>9. CASE st # "UNKNOWN"
  BY <1>1, <1>6, <1>9, WorkerMoves DEF Compare
<1>10. QED BY <1>8, <1>9

\* A pass that has nothing more to record returns.
LEMMA FinishOK ==
    ASSUME ReconInv, NEW w \in Workers, Finish(w)
    PROVE  ReconInv'
<1>1. PassOK(Idle)
  BY DEF PassOK
<1>2. QED BY <1>1, WorkerMoves DEF Finish

\* A new process is halted if the durable state says so.
LEMMA CrashOK ==
    ASSUME ReconInv, NEW w \in Workers, Crash(w)
    PROVE  ReconInv'
<1>1. proc' = [proc EXCEPT ![w] = Idle] /\ proc = [v \in Workers |-> proc[v]]
  BY DEF Crash, Goto, ReconInv, ReconTypeOK
<1>2. /\ proc' = [v \in Workers |-> proc'[v]]
      /\ \A v \in Workers : proc'[v] = IF v = w THEN Idle ELSE proc[v]
  BY <1>1
<1>3. \A v \in Workers : PassOK(proc'[v])
  BY <1>2 DEF ReconInv, PassOK
<1>4. halted' \in [Workers -> BOOLEAN] /\ HaltIsDurable'
  BY DEF Crash, stores, ReconInv, ReconTypeOK, HaltIsDurable
<1>5. QED BY <1>2, <1>3, <1>4, PassesMove DEF Crash, stores

\* The halt is durable before it is in memory.
LEMMA TripOK ==
    ASSUME ReconInv, NEW w \in Workers, NEW r \in Requests, TripProtectiveStopIssue(w, r)
    PROVE  ReconInv'
<1>1. halted' \in [Workers -> BOOLEAN] /\ HaltIsDurable'
  BY DEF TripProtectiveStopIssue, ReconInv, ReconTypeOK, HaltIsDurable
<1>2. /\ proc' = [v \in Workers |-> proc'[v]]
      /\ \A v \in Workers : PassOK(proc'[v])
  BY DEF TripProtectiveStopIssue, ReconInv, ReconTypeOK
<1>3. QED BY <1>1, <1>2, PassesMove DEF TripProtectiveStopIssue

------------------------------------------------------------------------------
(* Appending an event                                                      *)

\* What RecordOK asks of a RECONCILED event that is about to be appended for r.
Accounts(r, e) ==
    /\ Gives(events[r], e.observed \cup e.closed)
    /\ Gone(r, e.closed)
    /\ e.issues # {} => safety = "HALTED"

\* An event of a request that has begun.
LEMMA EventLogged ==
    ASSUME ReconInv, NEW r \in Requests, NEW e \in Events, events[r] # <<>>,
           e.type # "SUBMISSION_STARTED",
           e.type = "AMBIGUOUS_OUTCOME_RESOLVED" => ~Has(events[r], "AMBIGUOUS_OUTCOME_RESOLVED"),
           e.type = "RECONCILED" => Accounts(r, e),
           events' = [events EXCEPT ![r] = Append(@, e)],
           UNCHANGED <<occurrence, safety>>
    PROVE  /\ events' \in [Requests -> Seq(Events)]
           /\ \A q \in Requests : q # r => events'[q] = events[q]
           /\ events'[r] # <<>>
           /\ LastExposureRelevant(events'[r]) =
                IF e.type = "RECONCILED" THEN LastExposureRelevant(events[r]) ELSE e
           /\ HistoriesOK' /\ RecordOK' /\ Keeps
<1>1. events[r] \in Seq(Events) /\ events \in [Requests -> Seq(Events)] /\ Sound(events[r])
  BY DEF ReconInv, ReconTypeOK, HistoriesOK
<1>2. /\ events'[r] = Append(events[r], e)
      /\ \A q \in Requests : q # r => events'[q] = events[q]
      /\ events' \in [Requests -> Seq(Events)] /\ events'[r] # <<>>
  BY <1>1
<1>3. Begun(events'[r])
  BY <1>1, <1>2, BegunStays DEF Sound
<1>4. /\ DOMAIN events[r] = 1..Len(events[r]) /\ Len(events[r]) \in Nat
      /\ DOMAIN events'[r] = 1..(Len(events[r]) + 1)
      /\ events'[r][Len(events[r]) + 1] = e
      /\ \A i \in DOMAIN events[r] : events'[r][i] = events[r][i]
  BY <1>1, <1>2, Appends
<1>5. \A i \in DOMAIN events'[r] : i \in DOMAIN events[r] \/ i = Len(events[r]) + 1
  BY <1>4
<1>6. LastExposureRelevant(events'[r]) =
        IF e.type = "RECONCILED" THEN LastExposureRelevant(events[r]) ELSE e
  BY <1>1, <1>2, LastOfAppended, LastOfReconciled DEF Sound
<1>7. Sound(events'[r])
  <2>1. ASSUME NEW i \in DOMAIN events'[r], NEW j \in DOMAIN events'[r],
               events'[r][i].type = "AMBIGUOUS_OUTCOME_RESOLVED",
               events'[r][j].type = "AMBIGUOUS_OUTCOME_RESOLVED"
        PROVE  i = j
    <3>1. CASE e.type = "AMBIGUOUS_OUTCOME_RESOLVED"
      <4>1. \A k \in DOMAIN events[r] : events'[r][k].type # "AMBIGUOUS_OUTCOME_RESOLVED"
        BY <1>4, <3>1 DEF Has
      <4>2. QED BY <1>5, <2>1, <4>1
    <3>2. CASE e.type # "AMBIGUOUS_OUTCOME_RESOLVED"
      <4>1. i \in DOMAIN events[r] /\ j \in DOMAIN events[r]
        BY <1>4, <1>5, <2>1, <3>2
      <4>2. QED BY <1>1, <1>4, <2>1, <4>1 DEF Sound
    <3>3. QED BY <3>1, <3>2
  <2>2. QED BY <1>3, <2>1 DEF Sound
<1>8. HistoriesOK'
  BY <1>2, <1>7 DEF ReconInv, HistoriesOK
<1>9. Keeps
  <2>1. Grew(events[r], events'[r])
    BY <1>1, <1>2, <1>4 DEF Grew
  <2>2. \A q \in Requests : events[q] \in Seq(Events) /\ events'[q] \in Seq(Events) /\ Grew(events[q], events'[q])
    <3>1. \A q \in Requests : q # r => Grew(events[q], events'[q])
      BY <1>1, <1>2 DEF Grew
    <3>2. QED BY <1>1, <1>2, <2>1, <3>1
  <2>3. QED BY <2>2 DEF Keeps
<1>10. RecordOK'
  <2>1. ASSUME NEW q \in Requests, NEW j \in DOMAIN events'[q], events'[q][j].type = "RECONCILED"
        PROVE  /\ \E i \in 1..j : /\ Settles(events'[q][i])
                                  /\ events'[q][j].observed \cup events'[q][j].closed = TicketsOf(events'[q][i])
               /\ \/ events'[q][j].closed \subseteq ClosedByFlatten(occurrence')
                  \/ Disowned(events'[q])
               /\ events'[q][j].issues # {} => safety' = "HALTED"
    <3>1. CASE j \in DOMAIN events[q]
      <4>1. events[q][j] = events'[q][j] /\ DOMAIN events[q] = 1..Len(events[q]) /\ Len(events[q]) \in Nat
        BY <1>1, <1>2, <1>4, <3>1
      <4>2. \A i \in 1..j : i \in DOMAIN events[q] /\ events'[q][i] = events[q][i]
        BY <1>2, <1>4, <3>1, <4>1
      <4>3. /\ \E i \in 1..j : /\ Settles(events[q][i])
                               /\ events[q][j].observed \cup events[q][j].closed = TicketsOf(events[q][i])
            /\ Gone(q, events[q][j].closed)
            /\ events[q][j].issues # {} => safety = "HALTED"
        BY <2>1, <3>1, <4>1 DEF ReconInv, RecordOK
      <4>4. \/ events'[q][j].closed \subseteq ClosedByFlatten(occurrence')
            \/ Disowned(events'[q])
        BY <1>9, <4>1, <4>3, GoneStays DEF Gone
      <4>5. QED BY <4>1, <4>2, <4>3, <4>4
    <3>2. CASE j \notin DOMAIN events[q]
      <4>1. q = r /\ j = Len(events[r]) + 1 /\ events'[q][j] = e
        BY <1>2, <1>4, <1>5, <2>1, <3>2
      <4>2. Accounts(r, e)
        BY <2>1, <4>1
      <4>3. PICK i \in DOMAIN events[r] :
              Settles(events[r][i]) /\ TicketsOf(events[r][i]) = e.observed \cup e.closed
        BY <4>2 DEF Accounts, Gives
      <4>4. i \in 1..j /\ events'[r][i] = events[r][i]
        BY <1>4, <4>1, <4>3
      <4>5. e.closed \subseteq ClosedByFlatten(occurrence') \/ Disowned(events'[r])
        BY <1>9, <4>2, GoneStays DEF Accounts, Gone
      <4>6. QED BY <4>1, <4>2, <4>3, <4>4, <4>5 DEF Accounts
    <3>3. QED BY <3>1, <3>2
  <2>2. QED BY <2>1 DEF RecordOK, Gone
<1>11. QED BY <1>2, <1>6, <1>8, <1>9, <1>10

\* A pass records a request as reconciled.
LEMMA RecordReconciledOK ==
    ASSUME ReconInv, NEW w \in Workers, NEW r \in Requests, RecordReconciled(w, r)
    PROVE  ReconInv'
<1> DEFINE o == proc[w]
           e == o.rows[r]
           left == DOMAIN o.rows \ {r}
           rows == [q \in left |-> o.rows[q]]
<1>1. /\ o.at = "record" /\ r \in DOMAIN o.rows
      /\ e.issues # {} => halted[w]
      /\ UNCHANGED <<occurrence, safety, order, book, hasty, phantom, halted>>
      /\ events' = IF ~Has(events[r], "RECONCILED") THEN [events EXCEPT ![r] = Append(@, e)] ELSE events
      /\ Goto(w, Idle) \/ Goto(w, [o EXCEPT !.rows = rows])
  BY DEF RecordReconciled, AppendReconciled, ToRecord, At, broker, past
<1>2. PassOK(o) /\ o # Idle
  BY <1>1 DEF ReconInv, Idle
<1>3. /\ o = Recording(o) /\ o.moving = {}
      /\ \A q \in DOMAIN o.rows : RowOK(q, o.rows[q])
  <2> HIDE DEF o
  <2>1. QED BY <1>1, <1>2, Zenon DEF PassOK
<1>4. /\ e \in Events /\ e.type = "RECONCILED"
      /\ Gives(events[r], e.observed \cup e.closed) /\ Gone(r, e.closed)
  BY <1>1, <1>3 DEF RowOK
<1>5. Accounts(r, e)
  BY <1>1, <1>4 DEF Accounts, ReconInv, HaltIsDurable
<1>6. events[r] # <<>> /\ events \in [Requests -> Seq(Events)]
  BY <1>4 DEF Gives, ReconInv, ReconTypeOK
<1> DEFINE n == [at |-> "record", status |-> o.status, moving |-> o.moving, unclear |-> o.unclear, rows |-> rows]
<1>7. [o EXCEPT !.rows = rows] = n
  <2> HIDE DEF o, rows
  <2>1. QED BY <1>3 DEF Recording
<1>8. PassOK(n) /\ PassOK(Idle)
  <2>1. PassOK(Idle)
    BY DEF PassOK
  <2>2. \A q \in DOMAIN rows : RowOK(q, rows[q])
    BY <1>3
  <2> HIDE DEF rows
  <2>3. PassOK(n)
    BY <1>3, <2>2 DEF PassOK, Recording
  <2>4. QED BY <2>1, <2>3
<1> HIDE DEF e, rows, n
<1>9. /\ events' \in [Requests -> Seq(Events)]
      /\ HistoriesOK' /\ RecordOK' /\ Keeps
      /\ \A q \in Requests :
            /\ events'[q] = <<>> <=> events[q] = <<>>
            /\ LastExposureRelevant(events'[q]) = LastExposureRelevant(events[q])
  <2>1. CASE Has(events[r], "RECONCILED")
    <3>1. events' = events
      BY <1>1, <2>1
    <3>2. HistoriesOK' /\ RecordOK'
      BY <1>1, <3>1 DEF ReconInv, HistoriesOK, RecordOK, Gone
    <3>3. Keeps
      BY <1>1, <1>6, <3>1 DEF Keeps, Grew
    <3>4. QED BY <1>6, <3>1, <3>2, <3>3
  <2>2. CASE ~Has(events[r], "RECONCILED")
    <3>1. events' = [events EXCEPT ![r] = Append(@, e)]
      BY <1>1, <2>2
    <3>2. e.type # "SUBMISSION_STARTED" /\ e.type # "AMBIGUOUS_OUTCOME_RESOLVED"
      BY <1>4
    <3>3. /\ events' \in [Requests -> Seq(Events)]
          /\ \A q \in Requests : q # r => events'[q] = events[q]
          /\ events'[r] # <<>>
          /\ LastExposureRelevant(events'[r]) = LastExposureRelevant(events[r])
          /\ HistoriesOK' /\ RecordOK' /\ Keeps
      BY <1>1, <1>4, <1>5, <1>6, <3>1, <3>2, EventLogged
    <3>4. QED BY <1>6, <3>3
  <2>3. QED BY <2>1, <2>2
<1>10. OrdersOK'
  BY <1>1, <1>9 DEF ReconInv, OrdersOK
<1>11. ClosedOK' /\ HaltIsDurable'
  BY <1>1 DEF ReconInv, ClosedOK, Open, HaltIsDurable
<1>12. PICK p : Goto(w, p) /\ PassOK(p)
  BY <1>1, <1>7, <1>8, Zenon
<1>13. /\ proc' = [v \in Workers |-> proc'[v]]
       /\ \A v \in Workers : proc'[v] = IF v = w THEN p ELSE proc[v]
  BY <1>12 DEF Goto, ReconInv, ReconTypeOK
<1>14. \A v \in Workers : PassOK(proc'[v])
  BY <1>12, <1>13 DEF ReconInv
<1>15. \A v \in Workers : PassOK(proc[v])'
  BY <1>9, <1>14, PassStays
<1>16. ReconTypeOK'
  BY <1>1, <1>9, <1>13 DEF ReconInv, ReconTypeOK
<1>17. QED BY <1>9, <1>10, <1>11, <1>15, <1>16 DEF ReconInv

------------------------------------------------------------------------------
(* The entry path                                                          *)

\* An outcome is logged, in whatever order outcomes come.
LEMMA OutcomeLogged ==
    ASSUME ReconInv, NEW r \in Requests, NEW e \in Events, events[r] # <<>>,
           e.type \notin {"SUBMISSION_STARTED", "RECONCILED"},
           e.type = "AMBIGUOUS_OUTCOME_RESOLVED" => ~Has(events[r], "AMBIGUOUS_OUTCOME_RESOLVED"),
           Log(r, e),
           e.type = "SUBMITTED" \/ order[r] \notin Moving \/ r \in hasty',
           hasty \subseteq hasty',
           UNCHANGED <<occurrence, phantom, safety, broker, halted, proc>>
    PROVE  ReconInv'
<1>1. events' = [events EXCEPT ![r] = Append(@, e)]
  BY DEF Log
<1>2. /\ events' \in [Requests -> Seq(Events)]
      /\ \A q \in Requests : q # r => events'[q] = events[q]
      /\ events'[r] # <<>>
      /\ LastExposureRelevant(events'[r]) = e
      /\ HistoriesOK' /\ RecordOK' /\ Keeps
  BY <1>1, EventLogged
<1>3. OrdersOK'
  <2>1. order' = order
    BY DEF broker
  <2>2. ASSUME NEW q \in Requests
        PROVE  /\ order[q] = "none" <=> events'[q] = <<>>
               /\ order[q] \in Moving /\ q \notin hasty' => LastExposureRelevant(events'[q]).type \in Unsettled
    <3>1. CASE q = r
      BY <1>2, <3>1 DEF ReconInv, OrdersOK, Unsettled
    <3>2. CASE q # r
      BY <1>2, <3>2 DEF ReconInv, OrdersOK
    <3>3. QED BY <3>1, <3>2
  <2>3. QED BY <2>1, <2>2 DEF OrdersOK
<1>4. ClosedOK' /\ HaltIsDurable' /\ ReconTypeOK'
  BY <1>2 DEF broker, ReconInv, ClosedOK, Open, HaltIsDurable, ReconTypeOK
<1>5. \A v \in Workers : PassOK(proc[v])'
  BY <1>2, PassStays DEF ReconInv
<1>6. QED BY <1>2, <1>3, <1>4, <1>5 DEF ReconInv

\* An outcome that gives the order a fate.
LEMMA Decided ==
    ASSUME ReconInv, NEW r \in Requests, NEW e \in Events, events[r] # <<>>,
           e.type \notin {"SUBMISSION_STARTED", "RECONCILED"},
           e.type = "AMBIGUOUS_OUTCOME_RESOLVED" => ~Has(events[r], "AMBIGUOUS_OUTCOME_RESOLVED"),
           Decide(r, e),
           UNCHANGED <<occurrence, phantom, safety, broker, halted, proc>>
    PROVE  ReconInv'
<1>1. /\ Log(r, e) /\ hasty \subseteq hasty'
      /\ order[r] \notin Moving \/ r \in hasty'
  BY DEF Decide
<1>2. QED BY <1>1, OutcomeLogged

\* The outcomes are events.
LEMMA OutcomesAreEvents ==
    /\ \A type \in Outcomes : Plain(type) \in Events /\ Plain(type).type = type
    /\ \A tickets \in SUBSET Tickets, integrity \in BOOLEAN :
          /\ Resolved(tickets, integrity) \in Events
          /\ Resolved(tickets, integrity).type = "AMBIGUOUS_OUTCOME_RESOLVED"
<1>1. ASSUME NEW type \in Outcomes PROVE Plain(type) \in Events /\ Plain(type).type = type
  BY DEF Plain, Events
<1>2. ASSUME NEW tickets \in SUBSET Tickets, NEW integrity \in BOOLEAN
      PROVE  /\ Resolved(tickets, integrity) \in Events
             /\ Resolved(tickets, integrity).type = "AMBIGUOUS_OUTCOME_RESOLVED"
  <2>1. Resolved(tickets, integrity) \in
          [type : {"AMBIGUOUS_OUTCOME_RESOLVED"}, tickets : SUBSET Tickets, integrity : BOOLEAN]
    BY DEF Resolved
  <2>2. QED BY <2>1 DEF Events, Resolved
<1>3. QED BY <1>1, <1>2

\* An entry worker commits its request.
LEMMA CommitOK ==
    ASSUME ReconInv, NEW r \in Requests, NEW entry \in {"MARKET", "LIMIT"}, NEW sent \in BOOLEAN,
           Commit(r, entry, sent)
    PROVE  ReconInv'
<1> DEFINE e == Started(entry)
<1>1. e \in Events /\ e.type = "SUBMISSION_STARTED"
  BY DEF Started, Events
<1> HIDE DEF e
<1>2. /\ events[r] = <<>> /\ events' = [events EXCEPT ![r] = Append(@, e)]
      /\ order' = [order EXCEPT ![r] = IF sent THEN "sent" ELSE "never"]
      /\ UNCHANGED <<occurrence, safety, book, hasty, phantom, halted, proc>>
  BY DEF Commit, Log, past, e
<1>3. events \in [Requests -> Seq(Events)] /\ order \in [Requests -> Orders]
  BY DEF ReconInv, ReconTypeOK
<1>4. /\ events'[r] = Append(<<>>, e) /\ events'[r] \in Seq(Events) /\ events'[r] # <<>>
      /\ \A q \in Requests : q # r => events'[q] = events[q]
      /\ events' \in [Requests -> Seq(Events)]
      /\ DOMAIN events'[r] = {1} /\ events'[r][1] = e
  BY <1>1, <1>2, <1>3
<1>5. Begun(events'[r]) /\ LastExposureRelevant(events'[r]) = e
  BY <1>1, <1>4, CommitmentBegins
<1>6. /\ order'[r] \in {"sent", "never"} /\ order[r] = "none"
      /\ order' \in [Requests -> Orders]
      /\ \A q \in Requests : q # r => order'[q] = order[q]
  <2>1. order[r] = "none"
    BY <1>2 DEF ReconInv, OrdersOK
  <2>2. QED BY <1>2, <1>3, <2>1 DEF Orders
<1>7. Keeps
  <2>1. \A q \in Requests : Grew(events[q], events'[q])
    BY <1>2, <1>3, <1>4 DEF Grew
  <2>2. QED BY <1>2, <1>3, <1>4, <2>1 DEF Keeps
<1>8. HistoriesOK'
  BY <1>4, <1>5 DEF ReconInv, HistoriesOK, Sound
<1>9. RecordOK'
  BY <1>1, <1>2, <1>4 DEF ReconInv, RecordOK, Gone
<1>10. OrdersOK'
  BY <1>1, <1>2, <1>4, <1>5, <1>6 DEF ReconInv, OrdersOK, Unsettled
<1>11. ClosedOK'
  BY <1>2, <1>6 DEF ReconInv, ClosedOK, Open
<1>12. HaltIsDurable' /\ ReconTypeOK'
  BY <1>2, <1>4, <1>6 DEF ReconInv, HaltIsDurable, ReconTypeOK
<1>13. \A v \in Workers : PassOK(proc[v])'
  BY <1>2, <1>7, PassStays DEF ReconInv
<1>14. QED BY <1>8, <1>9, <1>10, <1>11, <1>12, <1>13 DEF ReconInv

\* The broker's answer to a submission, on time or late.
LEMMA AnswerOK ==
    ASSUME ReconInv, NEW r \in Requests, Answer(r)
    PROVE  ReconInv'
<1>1. events[r] # <<>>
  BY DEF Answer, ReconInv, OrdersOK
<1>2. PICK code \in Retcodes(r) :
        IF Decoded(code) = "SUBMITTED" THEN Log(r, Plain("SUBMITTED")) /\ UNCHANGED hasty
        ELSE Decide(r, Plain(Decoded(code)))
  BY DEF Answer
<1>3. Decoded(code) \in Outcomes
  BY DEF Decoded, Outcomes
<1> DEFINE e == Plain(Decoded(code))
<1>4. e \in Events /\ e.type = Decoded(code)
  BY <1>3, OutcomesAreEvents
<1>5. e.type \notin {"SUBMISSION_STARTED", "RECONCILED", "AMBIGUOUS_OUTCOME_RESOLVED"}
  BY <1>3, <1>4 DEF Outcomes
<1>6. UNCHANGED <<occurrence, phantom, safety, broker, halted, proc>>
  BY DEF Answer
<1> HIDE DEF e
<1>7. CASE Decoded(code) = "SUBMITTED"
  <2>1. Log(r, e) /\ hasty' = hasty /\ e.type = "SUBMITTED"
    BY <1>2, <1>4, <1>7 DEF e
  <2>2. QED BY <1>1, <1>4, <1>5, <1>6, <2>1, OutcomeLogged
<1>8. CASE Decoded(code) # "SUBMITTED"
  <2>1. Decide(r, e)
    BY <1>2, <1>8 DEF e
  <2>2. QED BY <1>1, <1>4, <1>5, <1>6, <2>1, Decided
<1>9. QED BY <1>7, <1>8

\* A worker resolves a submission without an answer, whatever became of it meanwhile.
LEMMA RecoverOK ==
    ASSUME ReconInv, NEW r \in Requests, Recover(r)
    PROVE  ReconInv'
<1>1. PICK tickets \in SUBSET Tickets, integrity \in BOOLEAN : Decide(r, Resolved(tickets, integrity))
  <2>1. DOMAIN book \subseteq Tickets
    BY DEF ReconInv, ReconTypeOK
  <2>2. CASE Decide(r, Resolved({}, TRUE))
    BY <2>2
  <2>3. ASSUME NEW matches \in SUBSET DOMAIN book, Decide(r, Resolved(matches, Cardinality(matches) > 1))
        PROVE  \E tickets \in SUBSET Tickets, integrity \in BOOLEAN : Decide(r, Resolved(tickets, integrity))
    <3> DEFINE several == Cardinality(matches) > 1
    <3>1. several \in BOOLEAN /\ matches \in SUBSET Tickets /\ Decide(r, Resolved(matches, several))
      BY <2>1, <2>3
    <3> HIDE DEF several
    <3>2. QED BY <3>1, Zenon
  <2>4. QED BY <2>2, <2>3 DEF Recover
<1> DEFINE e == Resolved(tickets, integrity)
<1>2. e \in Events /\ e.type = "AMBIGUOUS_OUTCOME_RESOLVED"
  BY OutcomesAreEvents
<1>3. events[r] # <<>> /\ ~Has(events[r], "AMBIGUOUS_OUTCOME_RESOLVED")
  BY DEF Recover
<1>4. UNCHANGED <<occurrence, phantom, safety, broker, halted, proc>>
  BY DEF Recover
<1>5. Decide(r, e)
  BY <1>1
<1> HIDE DEF e
<1>6. QED BY <1>2, <1>3, <1>4, <1>5, Decided

\* A later pass resolves a resting order that has filled.
LEMMA ResolvePendingOK ==
    ASSUME ReconInv, NEW r \in Requests, ResolvePending(r)
    PROVE  ReconInv'
<1>1. events[r] # <<>>
  BY DEF ResolvePending, Has
<1>2. UNCHANGED <<occurrence, phantom, safety, broker, halted, proc>>
  BY DEF ResolvePending
<1>3. PICK matches \in SUBSET DOMAIN book :
        IF Cardinality(matches) > 1
        THEN ~Has(events[r], "AMBIGUOUS_OUTCOME_RESOLVED") /\ Decide(r, Resolved(matches, TRUE))
        ELSE Decide(r, Plain("FILLED"))
  BY DEF ResolvePending
<1>4. matches \in SUBSET Tickets
  BY DEF ReconInv, ReconTypeOK
<1>5. CASE Cardinality(matches) > 1
  <2> DEFINE e == Resolved(matches, TRUE)
  <2>1. e \in Events /\ e.type = "AMBIGUOUS_OUTCOME_RESOLVED"
    BY <1>4, OutcomesAreEvents
  <2>2. Decide(r, e) /\ ~Has(events[r], "AMBIGUOUS_OUTCOME_RESOLVED")
    BY <1>3, <1>5
  <2> HIDE DEF e
  <2>3. QED BY <1>1, <1>2, <2>1, <2>2, Decided
<1>6. CASE ~(Cardinality(matches) > 1)
  <2> DEFINE e == Plain("FILLED")
  <2>1. e \in Events /\ e.type = "FILLED"
    BY OutcomesAreEvents DEF Outcomes
  <2>2. Decide(r, e)
    BY <1>3, <1>6
  <2> HIDE DEF e
  <2>3. QED BY <1>1, <1>2, <2>1, <2>2, Decided
<1>7. QED BY <1>5, <1>6

------------------------------------------------------------------------------
(* The flatten and the broker                                              *)

\* A step that changes only the occurrence, the orders or the book.
LEMMA OutsideMoves ==
    ASSUME ReconInv, UNCHANGED <<events, safety, halted, proc>>,
           ClosedByFlatten(occurrence) \subseteq ClosedByFlatten(occurrence'),
           order' \in [Requests -> Orders], DOMAIN book' \subseteq Tickets,
           OrdersOK', ClosedOK'
    PROVE  ReconInv'
<1>1. Keeps
  BY DEF Keeps, Grew, ReconInv, ReconTypeOK
<1>2. HistoriesOK' /\ HaltIsDurable' /\ ReconTypeOK'
  BY DEF ReconInv, HistoriesOK, HaltIsDurable, ReconTypeOK
<1>3. RecordOK'
  BY DEF ReconInv, RecordOK, Gone
<1>4. \A v \in Workers : PassOK(proc[v])'
  BY <1>1, PassStays DEF ReconInv
<1>5. QED BY <1>2, <1>3, <1>4 DEF ReconInv

\* The weekly flatten commits its targets.
LEMMA FlattenCommitsOK ==
    ASSUME ReconInv, FlattenCommits
    PROVE  ReconInv'
<1>1. /\ UNCHANGED <<events, safety, halted, proc, order, book, hasty, phantom>>
      /\ order \in [Requests -> Orders] /\ DOMAIN book \subseteq Tickets
  BY DEF FlattenCommits, broker, past, ReconInv, ReconTypeOK
<1>2. OrdersOK'
  BY <1>1 DEF ReconInv, OrdersOK
<1>3. occurrence'.targets = Open /\ occurrence'.closed = None /\ occurrence = None
  BY DEF FlattenCommits
<1>4. ClosedByFlatten(occurrence') = {} /\ ClosedByFlatten(occurrence) = {}
  BY <1>3 DEF ClosedByFlatten
<1>5. ClosedOK'
  BY <1>1, <1>3, <1>4 DEF ReconInv, ClosedOK, Open
<1>6. QED BY <1>1, <1>2, <1>4, <1>5, OutsideMoves

\* What a flatten records closed was a position, and counts as a phantom if it is open.
LEMMA FlattenResolvesOK ==
    ASSUME ReconInv, NEW closed, FlattenResolves(closed)
    PROVE  ReconInv'
<1>1. /\ UNCHANGED <<events, safety, halted, proc, order, book, hasty>>
      /\ order \in [Requests -> Orders] /\ DOMAIN book \subseteq Tickets
  BY DEF FlattenResolves, broker, ReconInv, ReconTypeOK
<1>2. OrdersOK'
  BY <1>1 DEF ReconInv, OrdersOK
<1>3. /\ occurrence # None /\ occurrence.closed = None /\ closed \subseteq occurrence.targets
      /\ occurrence'.targets = {} /\ occurrence'.closed = closed
      /\ phantom' = closed \cap Open
  BY DEF FlattenResolves
<1>4. ClosedByFlatten(occurrence) = {} /\ ClosedByFlatten(occurrence') \subseteq closed
  BY <1>3 DEF ClosedByFlatten
<1>5. closed \subseteq DOMAIN book
  BY <1>3 DEF ReconInv, ClosedOK
<1>6. ClosedOK'
  BY <1>1, <1>3, <1>4, <1>5 DEF ReconInv, ClosedOK, Open
<1>7. QED BY <1>1, <1>2, <1>4, <1>6, OutsideMoves

\* A filled order stays filled, and a closed ticket closed.
LEMMA BrokerOK ==
    ASSUME ReconInv,
           \/ \E r \in Requests : Place(r) \/ NoFill(r) \/ \E stop \in Stops : Fill(r, stop)
           \/ \E t \in Tickets : Close(t)
           \/ Surprise
    PROVE  ReconInv'
<1>1. /\ UNCHANGED <<events, safety, halted, proc, occurrence>>
  BY DEF Place, NoFill, Fill, Close, Surprise, stores
<1>2. order \in [Requests -> Orders] /\ DOMAIN book \subseteq Tickets
  BY DEF ReconInv, ReconTypeOK
<1>3. ASSUME NEW r \in Requests, Place(r) PROVE ReconInv'
  <2>1. /\ order[r] = "sent" /\ order'[r] = "resting"
        /\ \A q \in Requests : q # r => order'[q] = order[q]
        /\ order' \in [Requests -> Orders] /\ UNCHANGED <<book, hasty, phantom>>
    BY <1>2, <1>3 DEF Place, Orders, past
  <2>2. OrdersOK'
    BY <1>1, <2>1 DEF ReconInv, OrdersOK, Moving
  <2>3. ClosedOK'
    BY <1>1, <2>1 DEF ReconInv, ClosedOK, Open
  <2>4. QED BY <1>1, <1>2, <2>1, <2>2, <2>3, OutsideMoves
<1>4. ASSUME NEW r \in Requests, NoFill(r) PROVE ReconInv'
  <2>1. /\ order[r] \in {"sent", "resting"} /\ order'[r] \in {"rejected", "cancelled"}
        /\ \A q \in Requests : q # r => order'[q] = order[q]
        /\ order' \in [Requests -> Orders]
        /\ hasty' = hasty \ {r} /\ UNCHANGED <<book, phantom>>
    BY <1>2, <1>4 DEF NoFill, Orders
  <2>2. OrdersOK'
    BY <1>1, <2>1 DEF ReconInv, OrdersOK, Moving
  <2>3. ClosedOK'
    BY <1>1, <2>1 DEF ReconInv, ClosedOK, Open
  <2>4. QED BY <1>1, <1>2, <2>1, <2>2, <2>3, OutsideMoves
<1>5. ASSUME NEW r \in Requests, NEW stop \in Stops, Fill(r, stop) PROVE ReconInv'
  <2>1. /\ order[r] \in {"sent", "resting"} /\ order'[r] = "filled"
        /\ \A q \in Requests : q # r => order'[q] = order[q]
        /\ order' \in [Requests -> Orders]
        /\ book' = With(r, stop) /\ hasty' = hasty \ {r} /\ phantom' = phantom
    BY <1>2, <1>5 DEF Fill, Orders
  <2>2. r \notin DOMAIN book
    BY <2>1 DEF ReconInv, ClosedOK
  <2>3. DOMAIN book' = DOMAIN book \cup {r} /\ Open' \subseteq Open \cup {r}
    BY <2>1 DEF With, Open
  <2>4. OrdersOK'
    BY <1>1, <2>1 DEF ReconInv, OrdersOK, Moving
  <2>5. ClosedOK'
    BY <1>1, <2>1, <2>2, <2>3 DEF ReconInv, ClosedOK
  <2>6. DOMAIN book' \subseteq Tickets
    BY <1>2, <2>3 DEF Tickets
  <2>7. QED BY <1>1, <2>1, <2>4, <2>5, <2>6, OutsideMoves
<1>6. ASSUME NEW t \in Tickets, Close(t) PROVE ReconInv'
  <2>1. /\ UNCHANGED <<order, hasty>> /\ t \in Open
        /\ book' = With(t, "closed") /\ phantom' = phantom \ {t}
    BY <1>6 DEF Close
  <2>2. DOMAIN book' = DOMAIN book /\ Open' = Open \ {t}
    BY <2>1 DEF With, Open
  <2>3. OrdersOK' /\ ClosedOK'
    BY <1>1, <2>1, <2>2 DEF ReconInv, OrdersOK, ClosedOK
  <2>4. QED BY <1>1, <1>2, <2>1, <2>2, <2>3, OutsideMoves
<1>7. ASSUME Surprise PROVE ReconInv'
  <2>1. PICK t \in Open \cup ({Foreign} \ DOMAIN book), stop \in Stops : book' = With(t, stop)
    BY <1>7 DEF Surprise
  <2>2. UNCHANGED <<order, hasty, phantom>>
    BY <1>7 DEF Surprise, past
  <2>3. /\ DOMAIN book' = DOMAIN book \cup {t}
        /\ Open' \subseteq Open \cup ({Foreign} \ DOMAIN book)
        /\ t \in DOMAIN book \/ t = Foreign
    BY <2>1 DEF With, Open
  <2>4. OrdersOK' /\ ClosedOK'
    BY <1>1, <2>2, <2>3 DEF ReconInv, OrdersOK, ClosedOK
  <2>5. DOMAIN book' \subseteq Tickets
    BY <1>2, <2>3 DEF Tickets
  <2>6. QED BY <1>1, <1>2, <2>2, <2>4, <2>5, OutsideMoves
<1>8. QED BY <1>3, <1>4, <1>5, <1>6, <1>7

------------------------------------------------------------------------------
(* The theorems                                                            *)

\* No requests, no positions, no pass.
LEMMA InitOK == Init => ReconInv
<1> SUFFICES ASSUME Init PROVE ReconInv
  OBVIOUS
<1>1. \A r \in Requests : events[r] = <<>> /\ order[r] = "none"
  BY DEF Init
<1>2. DOMAIN book = {} /\ occurrence = None /\ ClosedByFlatten(occurrence) = {}
  BY DEF Init, ClosedByFlatten
<1>3. events \in [Requests -> Seq(Events)]
  BY DEF Init
<1>4. ReconTypeOK
  BY <1>2, <1>3 DEF Init, ReconTypeOK, Orders
<1>5. HistoriesOK /\ OrdersOK /\ ClosedOK /\ RecordOK
  BY <1>1, <1>2 DEF HistoriesOK, OrdersOK, Moving, ClosedOK, RecordOK
<1>6. HaltIsDurable /\ \A w \in Workers : PassOK(proc[w])
  BY DEF Init, HaltIsDurable, PassOK
<1>7. QED BY <1>4, <1>5, <1>6 DEF ReconInv

\* Every step keeps the inductive invariant.
LEMMA NextOK ==
    ASSUME ReconInv, [Next]_vars
    PROVE  ReconInv'
<1>1. ASSUME NEW w \in Workers, Step(w) PROVE ReconInv'
  BY <1>1, StartOK, ReadFlattenHistoriesOK, CompareOK, FinishOK, ReadHistoryOK, TripOK,
     RecordReconciledOK, ReadPositionsOK, ReadPendingAndRecordOK DEF Step
<1>2. ASSUME NEW w \in Workers, FailedRead(w) PROVE ReconInv'
  BY <1>2, ReadPositionsOK, ReadPendingAndRecordOK DEF FailedRead
<1>3. ASSUME NEW r \in Requests, EntryPath(r) PROVE ReconInv'
  BY <1>3, AnswerOK, RecoverOK, ResolvePendingOK, CommitOK DEF EntryPath
<1>4. CASE UNCHANGED vars
  <2>1. UNCHANGED <<events, safety, halted, proc, occurrence, broker, past>>
    BY <1>4 DEF vars, stores
  <2>2. QED BY <2>1, PassesMove DEF ReconInv, ReconTypeOK, HaltIsDurable
<1>5. QED BY <1>1, <1>2, <1>3, <1>4, CrashOK, FlattenCommitsOK, FlattenResolvesOK, BrokerOK,
             OtherCaptureOK DEF Next

\* The inductive invariant holds of every behaviour.
THEOREM ReconciliationSafe == Spec => []ReconInv
<1>1. Init => ReconInv
  BY InitOK
<1>2. ReconInv /\ [Next]_vars => ReconInv'
  BY NextOK
<1>3. QED BY <1>1, <1>2, PTL DEF Spec

\* A RECONCILED event accounts for every ticket that an earlier event gave its request,
\* and what it calls closed is open only if a flatten had said so of an open position
\* or a refusal came after recovery, whatever answers late, closes, flattens, fills or
\* reconciles while the pass is under way.
THEOREM ReconciledAccountsForEverything == Spec => []ReconciledIsAccountedFor
<1>1. ASSUME ReconInv, NEW r \in Requests, NEW j \in DOMAIN events[r], events[r][j].type = "RECONCILED"
      PROVE  /\ \E i \in 1..j : /\ Settles(events[r][i])
                                /\ events[r][j].observed \cup events[r][j].closed = TicketsOf(events[r][i])
             /\ events[r][j].closed \cap Open \subseteq phantom \/ Disowned(events[r])
  <2>1. Gone(r, events[r][j].closed)
    BY <1>1 DEF ReconInv, RecordOK
  <2>2. events[r][j].closed \cap Open \subseteq phantom \/ Disowned(events[r])
    BY <1>1, <2>1 DEF Gone, ReconInv, ClosedOK
  <2>3. QED BY <1>1, <2>2 DEF ReconInv, RecordOK
<1>2. ReconInv => ReconciledIsAccountedFor
  BY <1>1 DEF ReconciledIsAccountedFor
<1>3. QED BY <1>2, ReconciliationSafe, PTL

\* No request is on record as reconciled over a missing or moved stop unless the
\* platform is durably halted, wherever its process died.
THEOREM UnprotectedPositionsHalt == Spec => []UnprotectedIsHalted
<1>1. ReconInv => UnprotectedIsHalted
  BY DEF ReconInv, RecordOK, UnprotectedIsHalted
<1>2. QED BY <1>1, ReconciliationSafe, PTL

\* A book is called MATCHED over an order of the platform's in flight or resting only
\* if an event had given that order a fate which the broker had not.
THEOREM MatchedMeansSettled == Spec => []MatchedIsSettled
<1>1. ASSUME ReconInv, NEW w \in Workers, At(w, "record") PROVE proc[w].moving = {}
  <2> DEFINE p == proc[w]
  <2>1. PassOK(p) /\ p.at = "record" /\ p # Idle
    BY <1>1 DEF ReconInv, At, Idle
  <2> HIDE DEF p
  <2>2. p.moving = {}
    BY <2>1, Zenon DEF PassOK
  <2>3. QED BY <2>2 DEF p
<1>2. ReconInv => MatchedIsSettled
  BY <1>1 DEF MatchedIsSettled
<1>3. QED BY <1>2, ReconciliationSafe, PTL
=============================================================================
