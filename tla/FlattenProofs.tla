---------------------------- MODULE FlattenProofs ----------------------------
(***************************************************************************)
(* Proofs about Flatten, for any number of workers, tickets and days, any  *)
(* calendar, any mix of policies and adapters, and with reads that may     *)
(* fail.                                                                   *)
(***************************************************************************)
EXTENDS Flatten, SequenceTheorems, TLAPS

USE FlattenAssumption

------------------------------------------------------------------------------
(* What an append does to the histories.                                   *)

\* No history is emptied and no plan loses a target.
Grows ==
    /\ events' \in [Days -> Seq(Events)]
    /\ \A d \in Days : /\ events[d] # <<>> => events'[d] # <<>>
                       /\ Plan(d) \subseteq Plan(d)'

\* Leaving the table alone lets every history grow, trivially.
LEMMA UnchangedGrows ==
    ASSUME TypeOK, UNCHANGED events
    PROVE  Grows
BY DEF Grows, TypeOK, Plan

\* The rows of a history survive an append, and the result is not empty.
LEMMA AppendedKeeps ==
    ASSUME NEW h \in Seq(Events), NEW e \in Events
    PROVE  /\ Appended(h, e) \in Seq(Events)
           /\ Appended(h, e) # <<>>
           /\ DOMAIN h \subseteq DOMAIN Appended(h, e)
           /\ \A i \in DOMAIN h : Appended(h, e)[i] = h[i]
<1>1. CASE Has(h, e.type)
  BY <1>1 DEF Appended, Has
<1>2. CASE ~Has(h, e.type)
  <2>1. /\ Appended(h, e) = Append(h, e)
        /\ DOMAIN h = 1..Len(h)
        /\ DOMAIN Append(h, e) = 1..(Len(h) + 1)
        /\ \A i \in 1..Len(h) : Append(h, e)[i] = h[i]
        /\ Len(h) \in Nat
    BY <1>2 DEF Appended
  <2>2. Append(h, e) \in Seq(Events) /\ Append(h, e) # <<>>
    BY <2>1
  <2>3. QED BY <2>1, <2>2
<1>3. QED BY <1>1, <1>2

\* _append_flatten lets every history grow and leaves none of its own empty.
LEMMA RecordGrows ==
    ASSUME TypeOK, NEW d \in Days, NEW e \in Events, Record(d, e)
    PROVE  /\ Grows
           /\ events'[d] # <<>>
           /\ \A c \in Days : c # d => events'[c] = events[c]
<1>1. events \in [Days -> Seq(Events)]
  BY DEF TypeOK
<1>2. events' = [events EXCEPT ![d] = Appended(events[d], e)]
  BY DEF Record
<1>3. /\ Appended(events[d], e) \in Seq(Events)
      /\ Appended(events[d], e) # <<>>
      /\ DOMAIN events[d] \subseteq DOMAIN Appended(events[d], e)
      /\ \A i \in DOMAIN events[d] : Appended(events[d], e)[i] = events[d][i]
  BY <1>1, AppendedKeeps
<1>4. events'[d] = Appended(events[d], e)
  BY <1>1, <1>2
<1>5. \A c \in Days : c # d => events'[c] = events[c]
  BY <1>1, <1>2
<1>6. events' \in [Days -> Seq(Events)]
  BY <1>1, <1>2, <1>3
<1>7. \A c \in Days : /\ DOMAIN events[c] \subseteq DOMAIN events'[c]
                      /\ \A i \in DOMAIN events[c] : events'[c][i] = events[c][i]
  BY <1>3, <1>4, <1>5
<1>8. ASSUME NEW c \in Days PROVE Plan(c) \subseteq Plan(c)'
  BY <1>7 DEF Plan
<1>9. ASSUME NEW c \in Days, events[c] # <<>> PROVE events'[c] # <<>>
  BY <1>3, <1>4, <1>5, <1>9
<1>10. QED BY <1>3, <1>4, <1>5, <1>6, <1>8, <1>9 DEF Grows

------------------------------------------------------------------------------
(* The kill switch.                                                        *)

\* No halt is lifted, and memory is never ahead of the store.
HaltsStay ==
    /\ latch' \in Halts /\ halt' \in [Workers -> Halts]
    /\ latch # "RUNNING" => latch' # "RUNNING"
    /\ HaltIsDurable'

\* A trip leaves the store halted, whether or not it wrote.
LEMMA TripHalts ==
    ASSUME TypeOK, HaltIsDurable, NEW w \in Workers, Trip(w)
    PROVE  HaltsStay /\ latch' # "RUNNING"
BY DEF Trip, HaltsStay, HaltIsDurable, TypeOK, Halts

\* So does no trip at all keep what is there.
LEMMA NoTripStays ==
    ASSUME TypeOK, HaltIsDurable, UNCHANGED <<latch, halt>>
    PROVE  HaltsStay
BY DEF HaltsStay, HaltIsDurable, TypeOK

------------------------------------------------------------------------------
(* One worker moves.                                                       *)

\* What a step must establish about the locals it leaves behind.
Local(w) ==
    /\ proc' \in [Workers -> Locals]
    /\ \A v \in Workers : v # w => proc'[v] = proc[v]
    /\ proc'[w].t <= now
    /\ proc'[w].at \in Claiming => proc'[w].saw # {}
    /\ proc'[w].at \in Committing => latch' # "RUNNING"
    /\ proc'[w].at \in Resolving => events'[Day(w)'] # <<>>
    /\ proc'[w].todo \subseteq Plan(Day(w))'

\* The instant of a pass is one of the calendar.
LEMMA PassHasADay ==
    ASSUME TypeOK, NEW w \in Workers
    PROVE  Day(w) \in Days /\ Calendar[now].day \in Days
<1>1. \A i \in 1..Len(Calendar) : Calendar[i] \in Instants
  OBVIOUS
<1>2. \A i \in 1..Len(Calendar) : Calendar[i].day \in Days
  BY <1>1 DEF Instants
<1>3. proc[w].t \in 1..Len(Calendar) /\ now \in 1..Len(Calendar)
  BY DEF TypeOK, Locals
<1>4. QED BY <1>2, <1>3 DEF Day, When

\* Goto and Done change only the worker's own label and locals.
LEMMA Moves ==
    ASSUME TypeOK, NEW w \in Workers
    PROVE  /\ \A l \in Labels : Goto(w, l) =>
                /\ proc' \in [Workers -> Locals]
                /\ \A v \in Workers : v # w => proc'[v] = proc[v]
                /\ proc'[w].at = l /\ proc'[w].t = proc[w].t
                /\ proc'[w].saw = proc[w].saw /\ proc'[w].todo = proc[w].todo
           /\ Done(w) =>
                /\ proc' \in [Workers -> Locals]
                /\ \A v \in Workers : v # w => proc'[v] = proc[v]
                /\ proc'[w] = Idle
<1>1. proc \in [Workers -> Locals] /\ proc[w] \in Locals
  BY DEF TypeOK
<1>2. Idle \in Locals
  BY DEF Idle, Locals, Labels
<1>3. ASSUME NEW l \in Labels, Goto(w, l)
      PROVE  /\ proc' \in [Workers -> Locals]
             /\ \A v \in Workers : v # w => proc'[v] = proc[v]
             /\ proc'[w].at = l /\ proc'[w].t = proc[w].t
             /\ proc'[w].saw = proc[w].saw /\ proc'[w].todo = proc[w].todo
  <2>1. [proc[w] EXCEPT !.at = l] \in Locals
    BY <1>1, <1>3 DEF Locals
  <2>2. proc' = [proc EXCEPT ![w] = [proc[w] EXCEPT !.at = l]]
    BY <1>3 DEF Goto
  <2>3. proc'[w] = [proc[w] EXCEPT !.at = l]
    BY <1>1, <2>2
  <2>4. QED BY <1>1, <2>1, <2>2, <2>3 DEF Locals
<1>4. QED BY <1>1, <1>2, <1>3 DEF Done

\* A look at the broker changes what the pass saw, and only that.
LEMMA LookIs ==
    ASSUME TypeOK, NEW w \in Workers, Observe(w)
    PROVE  \E l \in {"decide", "tripCommitted", "conclude"}, c \in BOOLEAN :
             /\ proc' \in [Workers -> Locals]
             /\ \A v \in Workers : v # w => proc'[v] = proc[v]
             /\ proc'[w].at = l /\ proc'[w].t = proc[w].t /\ proc'[w].todo = proc[w].todo
             /\ proc'[w].saw = (IF c THEN Held ELSE {})
             /\ proc'[w].complete = c /\ ~proc'[w].early /\ (~c => ReadsMayFail)
             /\ \/ l = "decide" /\ At(w, "observe")
                \/ l = "tripCommitted" /\ At(w, "observeCommitted")
                \/ l = "conclude" /\ At(w, "reobserve")
<1>1. proc \in [Workers -> Locals] /\ proc[w] \in Locals
  BY DEF TypeOK
<1>2. PICK l \in {"decide", "tripCommitted", "conclude"} :
        /\ Capture(w, l)
        /\ \/ l = "decide" /\ At(w, "observe")
           \/ l = "tripCommitted" /\ At(w, "observeCommitted")
           \/ l = "conclude" /\ At(w, "reobserve")
  BY DEF Observe
<1>3. PICK c \in BOOLEAN :
        /\ proc' = [proc EXCEPT ![w].saw = IF c THEN Held ELSE {}, ![w].complete = c,
                                ![w].early = FALSE, ![w].at = l]
        /\ ~c => ReadsMayFail
  BY <1>2 DEF Capture
<1> DEFINE S == IF c THEN Held ELSE {}
<1>4. S \in SUBSET Tickets
  BY DEF Held
<1> HIDE DEF S
<1> DEFINE loc == [proc[w] EXCEPT !.saw = S, !.complete = c, !.early = FALSE, !.at = l]
<1>5. proc' = [proc EXCEPT ![w] = loc]
  <2>1. proc' = [proc EXCEPT ![w].saw = S, ![w].complete = c, ![w].early = FALSE, ![w].at = l]
    BY <1>3 DEF S
  <2>2. QED BY <1>1, <2>1
<1>6. loc \in Locals
  BY <1>1, <1>4 DEF Locals, Labels
<1>7. /\ loc.at = l /\ loc.t = proc[w].t /\ loc.todo = proc[w].todo /\ loc.saw = S
      /\ loc.complete = c /\ ~loc.early
  BY <1>1 DEF Locals
<1> HIDE DEF loc
<1>8. /\ proc' \in [Workers -> Locals] /\ proc'[w] = loc
      /\ \A v \in Workers : v # w => proc'[v] = proc[v]
  BY <1>1, <1>5, <1>6
<1>9. QED BY <1>2, <1>3, <1>7, <1>8 DEF S

\* The loser of a claim goes on with what it saw before.
LEMMA LoserIs ==
    ASSUME TypeOK, NEW w \in Workers,
           proc' = [proc EXCEPT ![w].at = "attempt", ![w].early = TRUE]
    PROVE  /\ proc' \in [Workers -> Locals]
           /\ \A v \in Workers : v # w => proc'[v] = proc[v]
           /\ proc'[w].at = "attempt" /\ proc'[w].early
           /\ proc'[w].t = proc[w].t /\ proc'[w].saw = proc[w].saw
           /\ proc'[w].todo = proc[w].todo
<1>1. proc \in [Workers -> Locals] /\ proc[w] \in Locals
  BY DEF TypeOK
<1> DEFINE loc == [proc[w] EXCEPT !.at = "attempt", !.early = TRUE]
<1>2. proc' = [proc EXCEPT ![w] = loc]
  BY <1>1
<1>3. loc \in Locals
  BY <1>1 DEF Locals, Labels
<1>4. /\ loc.at = "attempt" /\ loc.early /\ loc.t = proc[w].t
      /\ loc.saw = proc[w].saw /\ loc.todo = proc[w].todo
  BY <1>1 DEF Locals
<1> HIDE DEF loc
<1>5. QED BY <1>1, <1>2, <1>3, <1>4

\* A pass that ends owes nothing.
LEMMA DoneIsLocal ==
    ASSUME TypeOK, NEW w \in Workers, Done(w)
    PROVE  Local(w)
<1>1. /\ proc' \in [Workers -> Locals]
      /\ \A v \in Workers : v # w => proc'[v] = proc[v]
      /\ proc'[w] = Idle
  BY Moves
<1>2. Idle.at = "idle" /\ Idle.t = 1 /\ Idle.todo = {}
  BY DEF Idle
<1>3. 1 <= now
  BY DEF TypeOK
<1>4. QED BY <1>1, <1>2, <1>3 DEF Local, Claiming, Committing, Resolving

\* A pass that goes on keeps its clock and its targets, provided what its
\* next label stands for is there.
LEMMA GotoIsLocal ==
    ASSUME FlattenInv, NEW w \in Workers, NEW l \in Labels, Goto(w, l), Grows,
           l \in Claiming => proc[w].saw # {},
           l \in Committing => latch' # "RUNNING",
           l \in Resolving => events'[Day(w)] # <<>>
    PROVE  Local(w)
<1>1. TypeOK /\ ClosingIsPlanned
  BY DEF FlattenInv
<1>2. /\ proc' \in [Workers -> Locals]
      /\ \A v \in Workers : v # w => proc'[v] = proc[v]
      /\ proc'[w].at = l /\ proc'[w].t = proc[w].t
      /\ proc'[w].saw = proc[w].saw /\ proc'[w].todo = proc[w].todo
  BY <1>1, Moves
<1>3. Day(w) \in Days /\ Day(w)' = Day(w)
  BY <1>1, <1>2, PassHasADay DEF Day, When
<1>4. proc[w].todo \subseteq Plan(Day(w))'
  <2>1. PICK d \in Days : d = Day(w) /\ d = Day(w)'
    BY <1>3
  <2>2. Plan(d) \subseteq Plan(d)'
    BY DEF Grows
  <2>3. proc[w].todo \subseteq Plan(d)
    BY <1>1, <2>1 DEF ClosingIsPlanned
  <2>4. Plan(d)' = Plan(Day(w))'
    BY <2>1 DEF Plan
  <2>5. QED BY <2>2, <2>3, <2>4
<1>5. proc[w].t <= now
  BY <1>1 DEF TypeOK
<1>6. QED BY <1>2, <1>3, <1>4, <1>5 DEF Local

\* What one worker's step must show for the invariant to survive it.
LEMMA WorkerPreserves ==
    ASSUME FlattenInv, NEW w \in Workers, Local(w), Grows, HaltsStay,
           OccurrenceOnRecordHalts', OnlyCommittedTicketsClosed',
           UNCHANGED now, claims' \in [Days -> Policies \cup {None}],
           book' \in [Tickets -> {"unopened", "open", "closing", "closed"}],
           UNCHANGED opened, asked' \subseteq Tickets, faults' \in 0..MaxFaults
    PROVE  FlattenInv'
<1>1. TypeOK
  BY DEF FlattenInv
<1>2. TypeOK'
  <2>1. \A v \in Workers : proc'[v].t <= now'
    BY <1>1 DEF Local, TypeOK
  <2>2. QED BY <1>1, <2>1 DEF Local, Grows, HaltsStay, TypeOK
<1>3. SawPositions'
  BY DEF Local, SawPositions, FlattenInv
<1>4. CommittingIsHalted'
  BY DEF Local, CommittingIsHalted, FlattenInv, HaltsStay
<1>5. \A v \in Workers : v # w => Day(v)' = Day(v) /\ Day(v) \in Days
  BY <1>1, PassHasADay DEF Local, Day, When
<1>6. ResolvingHasHistory'
  <2>1. ASSUME NEW v \in Workers, proc'[v].at \in Resolving
        PROVE  events'[Day(v)'] # <<>>
    <3>1. CASE v = w
      BY <2>1, <3>1 DEF Local
    <3>2. CASE v # w
      BY <2>1, <3>2, <1>5 DEF Local, Grows, FlattenInv, ResolvingHasHistory
    <3>3. QED BY <3>1, <3>2
  <2>2. QED BY <2>1 DEF ResolvingHasHistory
<1>7. ClosingIsPlanned'
  <2>1. ASSUME NEW v \in Workers
        PROVE  proc'[v].todo \subseteq Plan(Day(v))'
    <3>1. CASE v = w
      BY <3>1 DEF Local
    <3>2. CASE v # w
      <4>1. proc'[v].todo \subseteq Plan(Day(v))
        BY <3>2 DEF Local, FlattenInv, ClosingIsPlanned
      <4>2. Plan(Day(v)) \subseteq Plan(Day(v))'
        <5>1. PICK d \in Days : d = Day(v) /\ d = Day(v)'
          BY <1>5, <3>2
        <5>2. Plan(d) \subseteq Plan(d)'
          BY DEF Grows
        <5>3. Plan(d)' = Plan(Day(v))' /\ Plan(d) = Plan(Day(v))
          BY <5>1 DEF Plan
        <5>4. QED BY <5>2, <5>3
      <4>3. QED BY <4>1, <4>2
    <3>3. QED BY <3>1, <3>2
  <2>2. QED BY <2>1 DEF ClosingIsPlanned
<1>8. QED BY <1>2, <1>3, <1>4, <1>6, <1>7 DEF FlattenInv, HaltsStay

------------------------------------------------------------------------------
(* The steps of a pass, one by one.                                        *)

\* What every step of a pass but the claim and the close establishes.
Shape(w) ==
    Local(w) /\ Grows /\ HaltsStay /\ OccurrenceOnRecordHalts'

\* A step that writes nothing has the shape if its locals do.
LEMMA ReadShape ==
    ASSUME FlattenInv, NEW w \in Workers, Local(w), UNCHANGED <<events, latch, halt>>
    PROVE  Shape(w)
<1>1. TypeOK /\ HaltIsDurable /\ OccurrenceOnRecordHalts
  BY DEF FlattenInv
<1>2. Grows /\ HaltsStay
  BY <1>1, UnchangedGrows, NoTripStays
<1>3. OccurrenceOnRecordHalts'
  BY <1>1 DEF OccurrenceOnRecordHalts
<1>4. QED BY <1>2, <1>3 DEF Shape

\* A step that leaves the history alone never makes an occurrence unhalted.
LEMMA HaltsStayOnRecord ==
    ASSUME FlattenInv, UNCHANGED events, HaltsStay
    PROVE  OccurrenceOnRecordHalts'
BY DEF FlattenInv, OccurrenceOnRecordHalts, HaltsStay

\* Every row _append_flatten is given is a row of the table.
LEMMA RowsAreEvents ==
    /\ \A k \in EventType : Plain(k) \in Events
    /\ \A S \in SUBSET Tickets :
         /\ [Plain("FLATTEN_SUBMISSION_STARTED") EXCEPT !.targets = S] \in Events
         /\ [Plain("FLATTEN_OUTCOME_RESOLVED") EXCEPT !.closed = S] \in Events
BY DEF Plain, Events, EventType

\* Targets are tickets.
LEMMA PlanIsTickets ==
    ASSUME TypeOK, NEW d \in Days
    PROVE  Plan(d) \subseteq Tickets
<1>1. \A i \in DOMAIN events[d] : events[d][i] \in Events
  BY DEF TypeOK
<1>2. \A i \in DOMAIN events[d] : events[d][i].targets \subseteq Tickets
  BY <1>1 DEF Events
<1>3. QED BY <1>2 DEF Plan

\* The start of a pass: an occurrence it takes up again is on record.
LEMMA StartPassShape ==
    ASSUME FlattenInv, NEW w \in Workers, StartPass(w)
    PROVE  Shape(w)
<1>1. TypeOK /\ proc \in [Workers -> Locals] /\ proc[w] \in Locals
  BY DEF FlattenInv, TypeOK
<1>2. CASE UNCHANGED proc
  <2>1. UNCHANGED events /\ UNCHANGED latch
    BY DEF StartPass
  <2>2. Day(w)' = Day(w) /\ Plan(Day(w))' = Plan(Day(w))
    BY <1>2, <2>1 DEF Day, When, Plan
  <2>3. /\ proc[w].at \in Resolving => events[Day(w)] # <<>>
        /\ proc[w].todo \subseteq Plan(Day(w))
        /\ proc[w].at \in Claiming => proc[w].saw # {}
        /\ proc[w].at \in Committing => latch # "RUNNING"
        /\ proc[w].t <= now
    BY DEF FlattenInv, SawPositions, CommittingIsHalted, ResolvingHasHistory,
           ClosingIsPlanned, TypeOK
  <2>4. Local(w)
    BY <1>1, <1>2, <2>1, <2>2, <2>3 DEF Local
  <2>5. QED BY <2>4, ReadShape DEF StartPass
<1>3. CASE \E l \in {"observe", "observeCommitted"} :
              /\ proc' = [proc EXCEPT ![w] = [Idle EXCEPT !.t = now, !.at = l]]
              /\ l = "observeCommitted" => events[Calendar[now].day] # <<>>
  <2>1. PICK l \in {"observe", "observeCommitted"} :
              /\ proc' = [proc EXCEPT ![w] = [Idle EXCEPT !.t = now, !.at = l]]
              /\ l = "observeCommitted" => events[Calendar[now].day] # <<>>
    BY <1>3
  <2>2. [Idle EXCEPT !.t = now, !.at = l] \in Locals
    BY <1>1 DEF Idle, Locals, Labels, TypeOK
  <2>3. /\ proc' \in [Workers -> Locals]
        /\ \A v \in Workers : v # w => proc'[v] = proc[v]
        /\ proc'[w] = [Idle EXCEPT !.t = now, !.at = l]
    BY <1>1, <2>1, <2>2
  <2>4. proc'[w].at = l /\ proc'[w].t = now /\ proc'[w].todo = {}
    BY <2>3 DEF Idle
  <2>5. Day(w)' = Calendar[now].day /\ events' = events
    BY <2>4 DEF Day, When, StartPass
  <2>6. now <= now
    BY <1>1 DEF TypeOK
  <2>7. Local(w)
    BY <2>1, <2>3, <2>4, <2>5, <2>6 DEF Local, Claiming, Committing, Resolving
  <2>8. QED BY <2>7, ReadShape DEF StartPass
<1>4. QED BY <1>2, <1>3 DEF StartPass

\* A read of the broker changes only what the pass saw.
LEMMA ObserveShape ==
    ASSUME FlattenInv, NEW w \in Workers, Observe(w)
    PROVE  Shape(w)
<1>1. /\ TypeOK /\ proc \in [Workers -> Locals] /\ proc[w] \in Locals
      /\ ResolvingHasHistory /\ ClosingIsPlanned
  BY DEF FlattenInv, TypeOK
<1>2. PICK l \in {"decide", "tripCommitted", "conclude"} :
        /\ proc' \in [Workers -> Locals]
        /\ \A v \in Workers : v # w => proc'[v] = proc[v]
        /\ proc'[w].at = l /\ proc'[w].t = proc[w].t /\ proc'[w].todo = proc[w].todo
        /\ l \in Resolving => proc[w].at \in Resolving
  BY <1>1, LookIs DEF At, Resolving
<1>3. Day(w)' = Day(w) /\ events' = events
  BY <1>2 DEF Day, When, Observe
<1>4. Plan(Day(w))' = Plan(Day(w))
  BY <1>3 DEF Plan
<1>5. Local(w)
  BY <1>1, <1>2, <1>3, <1>4
  DEF Local, TypeOK, ResolvingHasHistory, ClosingIsPlanned, Claiming, Committing
<1>6. QED BY <1>5, ReadShape DEF Observe

\* Only a pass that saw a position goes on to the claim.
LEMMA DecideShape ==
    ASSUME FlattenInv, NEW w \in Workers, Decide(w)
    PROVE  Shape(w)
<1>1. TypeOK /\ HaltIsDurable
  BY DEF FlattenInv
<1>2. Grows /\ UNCHANGED events
  BY <1>1, UnchangedGrows DEF Decide
<1>3. HaltsStay
  BY <1>1, TripHalts, NoTripStays DEF Decide, NoTrip
<1>4. Local(w)
  <2>1. CASE Done(w)
    BY <1>1, <2>1, DoneIsLocal
  <2>2. CASE Goto(w, "claim") /\ proc[w].saw # {}
    BY <1>2, <2>2, GotoIsLocal DEF Labels, Claiming, Committing, Resolving
  <2>3. QED BY <2>1, <2>2 DEF Decide
<1>5. QED BY <1>2, <1>3, <1>4, HaltsStayOnRecord DEF Shape

\* Whoever goes on to commit has halted, or found the switch halted.
LEMMA TripShape ==
    ASSUME FlattenInv, NEW w \in Workers, TripOvernightExposure(w)
    PROVE  Shape(w)
<1>1. TypeOK /\ HaltIsDurable /\ SawPositions /\ ResolvingHasHistory
  BY DEF FlattenInv
<1>2. Grows /\ UNCHANGED events
  BY <1>1, UnchangedGrows DEF TripOvernightExposure
<1>3. HaltsStay
  BY <1>1, TripHalts, NoTripStays DEF TripOvernightExposure, NoTrip
<1>4. Local(w)
  <2>1. CASE At(w, "tripWon") /\ Goto(w, "append")
    <3>1. proc[w].saw # {}
      BY <1>1, <2>1 DEF SawPositions, At, Claiming
    <3>2. latch' # "RUNNING"
      BY <1>1, <3>1, TripHalts DEF TripOvernightExposure
    <3>3. QED BY <1>2, <2>1, <3>2, GotoIsLocal DEF Labels, Claiming, Committing, Resolving
  <2>2. CASE At(w, "tripLost") /\ Goto(w, "readEvents")
    BY <1>2, <2>2, GotoIsLocal DEF Labels, Claiming, Committing, Resolving
  <2>3. CASE At(w, "tripCommitted") /\ Goto(w, "attempt")
    <3>1. events'[Day(w)] # <<>>
      BY <1>1, <1>2, <2>3 DEF ResolvingHasHistory, At, Resolving
    <3>2. QED BY <1>2, <2>3, <3>1, GotoIsLocal DEF Labels, Claiming, Committing
  <2>4. QED BY <2>1, <2>2, <2>3 DEF TripOvernightExposure
<1>5. QED BY <1>2, <1>3, <1>4, HaltsStayOnRecord DEF Shape

\* A row written while the store is halted leaves every occurrence halted.
LEMMA RecordOnHalted ==
    ASSUME FlattenInv, NEW d \in Days, NEW e \in Events, Record(d, e),
           latch # "RUNNING", UNCHANGED <<latch, halt>>
    PROVE  Grows /\ HaltsStay /\ OccurrenceOnRecordHalts' /\ events'[d] # <<>>
<1>1. TypeOK /\ HaltIsDurable
  BY DEF FlattenInv
<1>2. Grows /\ events'[d] # <<>>
  BY <1>1, RecordGrows
<1>3. HaltsStay
  BY <1>1, NoTripStays
<1>4. OccurrenceOnRecordHalts'
  BY DEF OccurrenceOnRecordHalts
<1>5. QED BY <1>2, <1>3, <1>4

\* _commit_flatten(): its three appends, each on a halted switch.
LEMMA CommitShape ==
    ASSUME FlattenInv, NEW w \in Workers,
           AppendClaimed(w) \/ FlattenGate(w) \/ StartFlatten(w)
    PROVE  Shape(w)
<1>1. TypeOK /\ CommittingIsHalted /\ Day(w) \in Days
  BY PassHasADay DEF FlattenInv
<1>2. latch # "RUNNING" /\ UNCHANGED <<latch, halt>>
  BY <1>1 DEF AppendClaimed, FlattenGate, StartFlatten, At, Committing,
              CommittingIsHalted, NoTrip
<1>3. PICK e \in Events : Record(Day(w), e)
  <2>1. proc[w].saw \in SUBSET Tickets
    BY <1>1 DEF TypeOK, Locals
  <2>2. QED BY <2>1, RowsAreEvents DEF AppendClaimed, FlattenGate, StartFlatten, EventType
<1>4. Grows /\ HaltsStay /\ OccurrenceOnRecordHalts'
  BY <1>1, <1>2, <1>3, RecordOnHalted
<1>5. CASE Done(w)
  BY <1>1, <1>4, <1>5, DoneIsLocal DEF Shape
<1>6. CASE Goto(w, "gate") \/ Goto(w, "start")
  <2>1. Local(w)
    BY <1>2, <1>4, <1>6, GotoIsLocal DEF Labels, Claiming, Committing, Resolving
  <2>2. QED BY <1>4, <2>1 DEF Shape
<1>7. QED BY <1>5, <1>6 DEF AppendClaimed, FlattenGate, StartFlatten

\* The loser of a claim goes on only with a commitment on record.
LEMMA ReadEventsShape ==
    ASSUME FlattenInv, NEW w \in Workers, ReadEvents(w)
    PROVE  Shape(w)
<1>1. TypeOK
  BY DEF FlattenInv
<1>2. Grows /\ UNCHANGED events
  BY <1>1, UnchangedGrows DEF ReadEvents
<1>3. Local(w)
  <2>1. CASE Done(w)
    BY <1>1, <2>1, DoneIsLocal
  <2>2. CASE /\ events[Day(w)] # <<>>
             /\ proc' = [proc EXCEPT ![w].at = "attempt", ![w].early = TRUE]
    <3>1. proc[w].t <= now /\ proc[w].todo \subseteq Plan(Day(w))
      BY DEF FlattenInv, TypeOK, ClosingIsPlanned
    <3>2. /\ proc' \in [Workers -> Locals]
          /\ \A v \in Workers : v # w => proc'[v] = proc[v]
          /\ proc'[w].at = "attempt" /\ proc'[w].t = proc[w].t /\ proc'[w].todo = proc[w].todo
      BY <1>1, <2>2, LoserIs
    <3>3. Day(w)' = Day(w) /\ Plan(Day(w))' = Plan(Day(w))
      BY <1>2, <3>2 DEF Day, When, Plan
    <3>4. QED BY <1>2, <2>2, <3>1, <3>2, <3>3 DEF Local, Claiming, Committing, Resolving
  <2>3. QED BY <2>1, <2>2 DEF ReadEvents, LastIs
<1>4. QED BY <1>3, ReadShape DEF ReadEvents

\* What a pass sets out to close is in the plan.
LEMMA AttemptShape ==
    ASSUME FlattenInv, NEW w \in Workers, Attempt(w)
    PROVE  Shape(w)
<1>1. /\ TypeOK /\ proc \in [Workers -> Locals] /\ proc[w] \in Locals
      /\ events[Day(w)] # <<>>
  BY DEF FlattenInv, TypeOK, ResolvingHasHistory, Attempt, At, Resolving
<1>2. Grows /\ UNCHANGED events
  BY <1>1, UnchangedGrows DEF Attempt
<1>3. Local(w)
  <2>1. CASE Goto(w, "conclude")
    BY <1>1, <1>2, <2>1, GotoIsLocal DEF Labels, Claiming, Committing, Resolving
  <2>2. CASE proc' = [proc EXCEPT ![w].at = "closing",
                                  ![w].todo = StillOpen(w), ![w].tried = TRUE]
    <3>1. StillOpen(w) \subseteq Plan(Day(w)) /\ StillOpen(w) \subseteq Tickets
      BY <1>1 DEF StillOpen, Locals
    <3> DEFINE loc == [proc[w] EXCEPT !.at = "closing", !.todo = StillOpen(w), !.tried = TRUE]
    <3>2. loc \in Locals
      BY <1>1, <3>1 DEF Locals, Labels
    <3>3. proc' = [proc EXCEPT ![w] = loc]
      BY <1>1, <2>2
    <3>4. /\ loc.at = "closing" /\ loc.t = proc[w].t /\ loc.todo = StillOpen(w)
      BY <1>1 DEF Locals
    <3> HIDE DEF loc
    <3>5. /\ proc' \in [Workers -> Locals]
          /\ \A v \in Workers : v # w => proc'[v] = proc[v]
          /\ proc'[w] = loc
      BY <1>1, <3>2, <3>3
    <3>6. Day(w)' = Day(w) /\ Plan(Day(w))' = Plan(Day(w))
      BY <1>2, <3>4, <3>5 DEF Day, When, Plan
    <3>7. proc[w].t <= now
      BY <1>1 DEF TypeOK
    <3>8. QED BY <1>1, <1>2, <3>1, <3>4, <3>5, <3>6, <3>7
              DEF Local, Claiming, Committing, Resolving
  <2>3. QED BY <2>1, <2>2 DEF Attempt
<1>4. QED BY <1>3, ReadShape DEF Attempt

\* The outcome, or the halt a residual causes.
LEMMA ConcludeShape ==
    ASSUME FlattenInv, NEW w \in Workers, Conclude(w)
    PROVE  Shape(w)
<1>1. /\ TypeOK /\ HaltIsDurable /\ OccurrenceOnRecordHalts
      /\ Day(w) \in Days /\ events[Day(w)] # <<>>
  BY PassHasADay DEF FlattenInv, ResolvingHasHistory, Conclude, At, Resolving
<1>2. latch # "RUNNING"
  BY <1>1 DEF OccurrenceOnRecordHalts
<1>3. Local(w)
  BY <1>1, DoneIsLocal DEF Conclude
<1>4. CASE Trip(w) /\ UNCHANGED events
  BY <1>1, <1>3, <1>4, TripHalts, UnchangedGrows, HaltsStayOnRecord DEF Shape
<1>5. CASE NoTrip /\ Record(Day(w), [Plain("FLATTEN_OUTCOME_RESOLVED") EXCEPT
                                       !.closed = Plan(Day(w)) \ proc[w].saw])
  <2>1. (Plan(Day(w)) \ proc[w].saw) \in SUBSET Tickets
    BY <1>1, PlanIsTickets
  <2>2. [Plain("FLATTEN_OUTCOME_RESOLVED") EXCEPT
            !.closed = Plan(Day(w)) \ proc[w].saw] \in Events
    BY <2>1, RowsAreEvents
  <2>3. Grows /\ HaltsStay /\ OccurrenceOnRecordHalts'
    BY <1>1, <1>2, <1>5, <2>2, RecordOnHalted DEF NoTrip
  <2>4. QED BY <1>3, <2>3 DEF Shape
<1>6. QED BY <1>4, <1>5 DEF Conclude

------------------------------------------------------------------------------
(* Every step.                                                             *)

\* A step with the shape, and no close call, preserves the invariant.
LEMMA ShapePreserves ==
    ASSUME FlattenInv, NEW w \in Workers, Shape(w),
           UNCHANGED <<now, opened, asked>>,
           claims' \in [Days -> Policies \cup {None}], UNCHANGED book,
           faults' \in 0..MaxFaults
    PROVE  FlattenInv'
<1>1. TypeOK /\ OnlyCommittedTicketsClosed
  BY DEF FlattenInv
<1>2. OnlyCommittedTicketsClosed'
  <2>1. ASSUME NEW x \in asked' PROVE \E d \in Days : x \in Plan(d)'
    <3>1. PICK d \in Days : x \in Plan(d)
      BY <1>1, <2>1 DEF OnlyCommittedTicketsClosed
    <3>2. x \in Plan(d)'
      BY <3>1 DEF Shape, Grows
    <3>3. QED BY <3>2
  <2>2. QED BY <2>1 DEF OnlyCommittedTicketsClosed
<1>3. QED BY <1>1, <1>2, WorkerPreserves DEF Shape, TypeOK

\* A close call names a ticket of the day's plan.
LEMMA ClosePreserves ==
    ASSUME FlattenInv, NEW w \in Workers, NEW x \in Tickets,
           NEW fate \in {"open", "closed", "closing"}, ClosePosition(w, x, fate)
    PROVE  FlattenInv'
<1>1. /\ TypeOK /\ proc \in [Workers -> Locals] /\ proc[w] \in Locals
      /\ events[Day(w)] # <<>> /\ proc[w].todo \subseteq Plan(Day(w))
      /\ Day(w) \in Days /\ HaltIsDurable
      /\ OnlyCommittedTicketsClosed
  BY PassHasADay
  DEF FlattenInv, TypeOK, ResolvingHasHistory, ClosingIsPlanned, ClosePosition, At, Resolving
<1>2. UNCHANGED events /\ Grows /\ HaltsStay /\ OccurrenceOnRecordHalts'
  BY <1>1, UnchangedGrows, NoTripStays, HaltsStayOnRecord DEF ClosePosition
<1>3. PICK l \in {"closing", "reobserve"} :
        proc' = [proc EXCEPT ![w].todo = @ \ {x}, ![w].at = l]
  BY <1>1 DEF ClosePosition, At
<1> DEFINE loc == [proc[w] EXCEPT !.todo = proc[w].todo \ {x}, !.at = l]
<1>4. loc \in Locals
  BY <1>1 DEF Locals, Labels
<1>5. proc' = [proc EXCEPT ![w] = loc]
  BY <1>1, <1>3
<1>6. loc.at = l /\ loc.t = proc[w].t /\ loc.todo = proc[w].todo \ {x}
  BY <1>1 DEF Locals
<1> HIDE DEF loc
<1>7. /\ proc' \in [Workers -> Locals]
      /\ \A v \in Workers : v # w => proc'[v] = proc[v]
      /\ proc'[w] = loc
  BY <1>1, <1>4, <1>5
<1>8. Day(w)' = Day(w) /\ Plan(Day(w))' = Plan(Day(w))
  BY <1>2, <1>6, <1>7 DEF Day, When, Plan
<1>9. proc[w].t <= now
  BY <1>1 DEF TypeOK
<1>10. Local(w)
  BY <1>1, <1>2, <1>6, <1>7, <1>8, <1>9 DEF Local, Claiming, Committing, Resolving
<1>11. OnlyCommittedTicketsClosed'
  <2>1. \A d \in Days : Plan(d)' = Plan(d)
    BY <1>2 DEF Plan
  <2>2. x \in Plan(Day(w)) /\ asked' = asked \cup {x}
    BY <1>1 DEF ClosePosition
  <2>3. ASSUME NEW y \in asked' PROVE \E d \in Days : y \in Plan(d)'
    BY <1>1, <2>1, <2>2, <2>3 DEF OnlyCommittedTicketsClosed
  <2>4. QED BY <2>3 DEF OnlyCommittedTicketsClosed
<1>12. /\ UNCHANGED <<now, claims, opened, faults>> /\ asked' \subseteq Tickets
       /\ book' \in [Tickets -> {"unopened", "open", "closing", "closed"}]
  BY <1>1 DEF ClosePosition, TypeOK
<1>13. QED BY <1>1, <1>2, <1>10, <1>11, <1>12, WorkerPreserves DEF TypeOK

\* The clock and the broker touch nothing the invariant speaks of.
LEMMA EnvironmentPreserves ==
    ASSUME FlattenInv, Tick \/ \E x \in Tickets : BrokerStep(x)
    PROVE  FlattenInv'
<1>1. TypeOK
  BY DEF FlattenInv
<1>2. UNCHANGED <<claims, events, latch, halt, proc, asked, faults>>
  BY DEF Tick, BrokerStep, PositionOpens, PositionCloses, CloseExecutes, CloseDropped, BrokerMoves
<1>3. now' \in 1..Len(Calendar) /\ now' >= now
  BY <1>1 DEF Tick, BrokerStep, PositionOpens, PositionCloses, CloseExecutes,
              CloseDropped, BrokerMoves, TypeOK
<1>4. Calendar[now].week \in Weeks
  <2>1. Calendar[now] \in Instants
    BY <1>1 DEF TypeOK
  <2>2. QED BY <2>1 DEF Instants
<1>5. /\ book' \in [Tickets -> {"unopened", "open", "closing", "closed"}]
      /\ opened' \in [Tickets -> Weeks \cup {None}]
  BY <1>1, <1>4 DEF Tick, BrokerStep, PositionOpens, PositionCloses, CloseExecutes,
                    CloseDropped, BrokerMoves, TypeOK, broker
<1>6. TypeOK'
  <2>1. \A w \in Workers : proc[w].t \in Nat /\ now \in Nat /\ now' \in Nat
    BY <1>1, <1>3 DEF TypeOK, Locals
  <2>2. \A w \in Workers : proc'[w].t <= now'
    BY <1>1, <1>2, <1>3, <2>1 DEF TypeOK
  <2>3. QED BY <1>1, <1>2, <1>3, <1>5, <2>2 DEF TypeOK
<1>7. \A w \in Workers : Day(w)' = Day(w)
  BY <1>2 DEF Day, When
<1>8. \A d \in Days : Plan(d)' = Plan(d)
  BY <1>2 DEF Plan
<1>9. ClosingIsPlanned'
  <2>1. ASSUME NEW w \in Workers PROVE proc'[w].todo \subseteq Plan(Day(w))'
    <3>1. Plan(Day(w))' = Plan(Day(w))
      BY <1>2, <1>7 DEF Plan
    <3>2. QED BY <1>2, <3>1 DEF FlattenInv, ClosingIsPlanned
  <2>2. QED BY <2>1 DEF ClosingIsPlanned
<1>10. OnlyCommittedTicketsClosed'
  BY <1>2, <1>8 DEF FlattenInv, OnlyCommittedTicketsClosed
<1>11. ResolvingHasHistory'
  BY <1>2, <1>7 DEF FlattenInv, ResolvingHasHistory
<1>12. QED BY <1>2, <1>6, <1>9, <1>10, <1>11
           DEF FlattenInv, OccurrenceOnRecordHalts, SawPositions, HaltIsDurable,
               CommittingIsHalted

\* The claim writes the day's key and no event.
LEMMA ClaimPreserves ==
    ASSUME FlattenInv, NEW w \in Workers, Claim(w)
    PROVE  FlattenInv'
<1>1. TypeOK /\ Day(w) \in Days /\ proc[w].saw # {}
  BY PassHasADay DEF FlattenInv, SawPositions, Claim, At, Claiming
<1>2. Grows /\ UNCHANGED events
  BY <1>1, UnchangedGrows DEF Claim
<1>3. claims' \in [Days -> Policies \cup {None}]
  BY <1>1 DEF Claim, TypeOK
<1>4. Local(w)
  <2>1. CASE Done(w)
    BY <1>1, <2>1, DoneIsLocal
  <2>2. CASE Goto(w, "tripWon") \/ Goto(w, "tripLost")
    BY <1>1, <1>2, <2>2, GotoIsLocal DEF Labels, Claiming, Committing, Resolving
  <2>3. QED BY <2>1, <2>2 DEF Claim
<1>5. Shape(w)
  BY <1>4, ReadShape DEF Claim
<1>6. QED BY <1>1, <1>3, <1>5, ShapePreserves DEF Claim, broker, TypeOK

\* Halts from elsewhere, exceptions and crashes.
LEMMA FaultPreserves ==
    ASSUME FlattenInv, NEW w \in Workers, OtherHalt(w) \/ Raise(w) \/ Crash(w)
    PROVE  FlattenInv'
<1>1. TypeOK /\ HaltIsDurable
  BY DEF FlattenInv
<1>2. UNCHANGED <<now, claims, events, book, opened, asked>>
  BY DEF OtherHalt, Raise, Crash, broker
<1>3. HaltsStay
  BY <1>1 DEF OtherHalt, Raise, Crash, HaltsStay, HaltIsDurable, TypeOK, Halts
<1>4. Grows /\ OccurrenceOnRecordHalts'
  BY <1>1, <1>2, <1>3, UnchangedGrows, HaltsStayOnRecord
<1>5. faults' \in 0..MaxFaults
  BY <1>1 DEF OtherHalt, Raise, Crash, TypeOK
<1>6. CASE Done(w)
  <2>1. Shape(w)
    BY <1>1, <1>3, <1>4, <1>6, DoneIsLocal DEF Shape
  <2>2. QED BY <1>1, <1>2, <1>5, <2>1, ShapePreserves DEF TypeOK
<1>7. CASE OtherHalt(w)
  <2>1. proc \in [Workers -> Locals] /\ UNCHANGED proc /\ latch' # "RUNNING"
    BY <1>1, <1>7 DEF OtherHalt, TypeOK
  <2>2. Day(w)' = Day(w) /\ Plan(Day(w))' = Plan(Day(w))
    BY <1>2, <2>1 DEF Day, When, Plan
  <2>3. /\ proc[w].at \in Resolving => events[Day(w)] # <<>>
        /\ proc[w].todo \subseteq Plan(Day(w))
        /\ proc[w].at \in Claiming => proc[w].saw # {}
        /\ proc[w].t <= now
    BY DEF FlattenInv, SawPositions, ResolvingHasHistory, ClosingIsPlanned, TypeOK
  <2>4. Local(w)
    BY <1>2, <2>1, <2>2, <2>3 DEF Local
  <2>5. Shape(w)
    BY <1>3, <1>4, <2>4 DEF Shape
  <2>6. QED BY <1>1, <1>2, <1>5, <2>5, ShapePreserves DEF TypeOK
<1>8. QED BY <1>6, <1>7 DEF Raise, Crash

\* Every step, and a step that changes nothing, preserves the invariant.
LEMMA FlattenInvPreserved ==
    ASSUME FlattenInv, [Next]_vars
    PROVE  FlattenInv'
<1>1. CASE UNCHANGED vars
  <2>1. UNCHANGED <<now, claims, events, latch, halt, proc, book, opened, asked, faults>>
    BY <1>1 DEF vars, broker
  <2>2. TypeOK'
    BY <2>1 DEF FlattenInv, TypeOK
  <2>3. /\ \A d \in Days : Plan(d)' = Plan(d)
        /\ \A w \in Workers : Day(w)' = Day(w) /\ Plan(Day(w))' = Plan(Day(w))
    BY <2>1 DEF Plan, Day, When
  <2>4. OnlyCommittedTicketsClosed' /\ ClosingIsPlanned' /\ ResolvingHasHistory'
    BY <2>1, <2>3 DEF FlattenInv, OnlyCommittedTicketsClosed, ClosingIsPlanned,
                      ResolvingHasHistory
  <2>5. QED BY <2>1, <2>2, <2>4 DEF FlattenInv, OccurrenceOnRecordHalts, SawPositions,
                                   HaltIsDurable, CommittingIsHalted
<1>2. CASE Tick \/ \E x \in Tickets : BrokerStep(x)
  BY <1>2, EnvironmentPreserves
<1>3. ASSUME NEW w \in Workers, LocalStep(w) PROVE FlattenInv'
  <2>1. Shape(w)
    BY <1>3, StartPassShape, ObserveShape, DecideShape, TripShape, CommitShape,
       ReadEventsShape, AttemptShape, ConcludeShape DEF LocalStep
  <2>2. TypeOK
    BY DEF FlattenInv
  <2>3. QED BY <1>3, <2>1, <2>2, ShapePreserves DEF LocalStep, broker, TypeOK
<1>4. ASSUME NEW w \in Workers, CloseStep(w) PROVE FlattenInv'
  BY <1>4, ClosePreserves DEF CloseStep
<1>5. QED BY <1>1, <1>2, <1>3, <1>4, ClaimPreserves, FaultPreserves DEF Next, Step

------------------------------------------------------------------------------
(* The theorems.                                                           *)

\* The initial state satisfies the invariant.
LEMMA InitInv == Init => FlattenInv
<1> SUFFICES ASSUME Init PROVE FlattenInv
  OBVIOUS
<1>1. Idle \in Locals /\ Idle.at = "idle" /\ Idle.todo = {} /\ Idle.t = 1
  BY DEF Idle, Locals, Labels
<1>2. TypeOK
  BY <1>1 DEF Init, TypeOK, Halts
<1>3. QED BY <1>1, <1>2
          DEF Init, FlattenInv, OnlyCommittedTicketsClosed, OccurrenceOnRecordHalts,
              SawPositions, HaltIsDurable, CommittingIsHalted, ResolvingHasHistory,
              ClosingIsPlanned, Claiming, Committing, Resolving

\* The invariant of flatten_once() holds in every reachable state.
THEOREM FlattenSafe == Spec => []FlattenInv
<1>1. FlattenInv /\ [Next]_vars => FlattenInv'
  BY FlattenInvPreserved
<1>2. QED BY InitInv, <1>1, PTL DEF Spec

\* close_position() is only ever called for a ticket of a durable plan.
THEOREM ClosesAreCommitted == Spec => []OnlyCommittedTicketsClosed
<1>1. FlattenInv => OnlyCommittedTicketsClosed
  BY DEF FlattenInv
<1>2. QED BY FlattenSafe, <1>1, PTL

\* Any event of any occurrence means the store is halted.
THEOREM RecordMeansHalted == Spec => []OccurrenceOnRecordHalts
<1>1. FlattenInv => OccurrenceOnRecordHalts
  BY DEF FlattenInv
<1>2. QED BY FlattenSafe, <1>1, PTL

------------------------------------------------------------------------------
(* Claims and rows are for good                                            *)

\* No claim is changed and no row rewritten or dropped.
RowsStay ==
    \A d \in Days : /\ claims[d] # None => claims'[d] = claims[d]
                    /\ Len(events'[d]) >= Len(events[d])
                    /\ \A i \in DOMAIN events[d] : events'[d][i] = events[d][i]

\* An append leaves the rows there were, and the claims.
LEMMA RecordKeepsRows ==
    ASSUME TypeOK, NEW d \in Days, NEW e \in Events, Record(d, e), UNCHANGED claims
    PROVE  RowsStay
<1>1. \A c \in Days : events[c] \in Seq(Events)
  BY DEF TypeOK
<1>2. \A c \in Days : events'[c] = IF c = d THEN Appended(events[c], e) ELSE events[c]
  BY DEF Record, TypeOK
<1>3. ASSUME NEW c \in Days
      PROVE  /\ Len(events'[c]) >= Len(events[c])
             /\ \A i \in DOMAIN events[c] : events'[c][i] = events[c][i]
  <2>1. CASE c # d
    BY <1>1, <1>2, <2>1
  <2>2. CASE c = d
    <3> DEFINE h == events[c]
               g == Appended(h, e)
    <3>1. h \in Seq(Events) /\ events'[c] = g
      BY <1>1, <1>2, <2>2
    <3> HIDE DEF h
    <3>2. g \in Seq(Events) /\ DOMAIN h \subseteq DOMAIN g /\ \A i \in DOMAIN h : g[i] = h[i]
      BY <3>1, AppendedKeeps
    <3> HIDE DEF g
    <3>3. DOMAIN h = 1..Len(h) /\ DOMAIN g = 1..Len(g) /\ Len(h) \in Nat /\ Len(g) \in Nat
      BY <3>1, <3>2
    <3>4. Len(g) >= Len(h)
      BY <3>2, <3>3
    <3>5. QED BY <3>1, <3>2, <3>4 DEF h
  <2>3. QED BY <2>1, <2>2
<1>4. QED BY <1>3 DEF RowsStay

\* A step that leaves both tables alone keeps their rows.
LEMMA UnchangedKeepsRows ==
    ASSUME TypeOK, UNCHANGED <<claims, events>>
    PROVE  RowsStay
<1>1. \A d \in Days : Len(events[d]) \in Nat
  BY DEF TypeOK
<1>2. QED BY <1>1 DEF RowsStay

\* A step of a pass appends a row of its day, or leaves the tables alone.
LEMMA LocalKeepsRows ==
    ASSUME TypeOK, NEW w \in Workers, LocalStep(w)
    PROVE  RowsStay
<1>1. UNCHANGED claims /\ Day(w) \in Days
  BY PassHasADay DEF LocalStep
<1>2. proc[w].saw \subseteq Tickets /\ Plan(Day(w)) \ proc[w].saw \subseteq Tickets
  BY <1>1, PlanIsTickets DEF TypeOK, Locals
<1>3. CASE UNCHANGED events
  BY <1>1, <1>3, UnchangedKeepsRows
<1>4. CASE AppendClaimed(w) \/ FlattenGate(w)
  <2>1. \E k \in EventType : Record(Day(w), Plain(k))
    BY <1>4 DEF AppendClaimed, FlattenGate, EventType
  <2>2. QED BY <1>1, <2>1, RowsAreEvents, RecordKeepsRows
<1>5. CASE StartFlatten(w)
  <2>1. Record(Day(w), [Plain("FLATTEN_SUBMISSION_STARTED") EXCEPT !.targets = proc[w].saw])
    BY <1>5 DEF StartFlatten
  <2>2. QED BY <1>1, <1>2, <2>1, RowsAreEvents, RecordKeepsRows
<1>6. CASE Conclude(w)
  <2>1. \/ UNCHANGED events
        \/ Record(Day(w), [Plain("FLATTEN_OUTCOME_RESOLVED") EXCEPT !.closed = Plan(Day(w)) \ proc[w].saw])
    BY <1>6 DEF Conclude
  <2>2. QED BY <1>1, <1>2, <1>3, <2>1, RowsAreEvents, RecordKeepsRows
<1>7. QED BY <1>3, <1>4, <1>5, <1>6
          DEF LocalStep, StartPass, Observe, Decide, TripOvernightExposure, ReadEvents, Attempt

\* A claim is made where there is none.
LEMMA ClaimKeepsRows ==
    ASSUME TypeOK, NEW w \in Workers, Claim(w)
    PROVE  RowsStay
<1>1. UNCHANGED events /\ Day(w) \in Days
  BY PassHasADay DEF Claim
<1>2. \A d \in Days : Len(events[d]) \in Nat
  BY DEF TypeOK
<1>3. CASE claims[Day(w)] = None
  <2>1. \A d \in Days : d # Day(w) => claims'[d] = claims[d]
    BY <1>1, <1>3 DEF Claim, TypeOK
  <2>2. QED BY <1>1, <1>2, <1>3, <2>1 DEF RowsStay
<1>4. CASE claims[Day(w)] # None
  <2>1. UNCHANGED claims
    BY <1>4 DEF Claim
  <2>2. QED BY <1>1, <2>1, UnchangedKeepsRows
<1>5. QED BY <1>3, <1>4

\* The first claim of a day stands and so does every row of its history: a
\* restart reads the plan that was committed to, whatever ran in between.
THEOREM ClaimsAndPlansStand == Spec => HistoryOnlyGrows
<1>1. ASSUME FlattenInv, Next PROVE RowsStay
  <2>1. TypeOK
    BY <1>1 DEF FlattenInv
  <2>2. CASE Tick \/ (\E x \in Tickets : BrokerStep(x))
             \/ \E w \in Workers : CloseStep(w) \/ OtherHalt(w) \/ Raise(w) \/ Crash(w)
    <3>1. UNCHANGED <<claims, events>>
      BY <2>2 DEF Tick, BrokerStep, BrokerMoves, PositionOpens, PositionCloses, CloseExecutes,
                  CloseDropped, CloseStep, ClosePosition, OtherHalt, Raise, Crash
    <3>2. QED BY <2>1, <3>1, UnchangedKeepsRows
  <2>3. QED BY <1>1, <2>1, <2>2, LocalKeepsRows, ClaimKeepsRows DEF Next, Step
<1>2. FlattenInv /\ [Next]_vars => [RowsStay]_vars
  BY <1>1
<1>3. Spec => [][RowsStay]_vars
  BY <1>2, FlattenSafe, PTL DEF Spec
<1>4. QED BY <1>3 DEF HistoryOnlyGrows, RowsStay

------------------------------------------------------------------------------
(* When positions are closed.  A pass also starts for a position that was  *)
(* held over a weekly close, so that the deadline it is late for is one of *)
(* the calendar only if the calendar shows it.                             *)

\* Between two instants of different weeks is one that requires a flat account.
WeeksEndFlat ==
    \A i, j \in DOMAIN Calendar :
        i <= j /\ Calendar[i].week # Calendar[j].week => \E k \in i..j : RequiresFlat(Calendar[k])

DeadlinePassed == \E i \in 1..now : RequiresFlat(Calendar[i])

\* Labels of a pass that has found a reason to close something.
Due == Labels \ {"idle", "observe", "decide"}

\* A position is dated by an instant that has been.
PositionsAreDated ==
    \A x \in Tickets : book[x] # "unopened" => \E i \in 1..now : opened[x] = Calendar[i].week

\* A pass that decides has seen positions that had been opened.
SeenWereHeld ==
    \A w \in Workers : proc[w].at = "decide" => \A x \in proc[w].saw : book[x] # "unopened"

NothingIsEarly ==
    \/ DeadlinePassed
    \/ /\ asked = {} /\ \A d \in Days : events[d] = <<>>
       /\ \A w \in Workers : proc[w].at \notin Due

DeadlineInv == PositionsAreDated /\ SeenWereHeld /\ NothingIsEarly

\* Time goes on, and the book with it.
LEMMA BookIsDated ==
    ASSUME FlattenInv, DeadlineInv, Next
    PROVE  /\ now' \in 1..Len(Calendar) /\ now \in 1..Len(Calendar) /\ now' >= now
           /\ PositionsAreDated'
           /\ \A x \in Tickets : book[x] # "unopened" => book'[x] # "unopened"
<1>1. now \in 1..Len(Calendar) /\ TypeOK
  BY DEF FlattenInv, TypeOK
<1>2. CASE UNCHANGED <<book, opened>>
  <2>1. Tick \/ UNCHANGED now
    BY DEF Next, BrokerStep, BrokerMoves, PositionOpens, PositionCloses, CloseExecutes,
           CloseDropped, Step, LocalStep, Claim, CloseStep, ClosePosition, OtherHalt, Raise, Crash
  <2>2. now' \in 1..Len(Calendar) /\ now' >= now
    BY <1>1, <2>1 DEF Tick
  <2>3. QED BY <1>1, <1>2, <2>2 DEF DeadlineInv, PositionsAreDated
<1>3. ASSUME NEW x \in Tickets, BrokerStep(x)
      PROVE  /\ UNCHANGED now /\ PositionsAreDated'
             /\ \A y \in Tickets : book[y] # "unopened" => book'[y] # "unopened"
  <2>1. CASE PositionOpens(x)
    <3>1. UNCHANGED now /\ book[x] = "unopened" /\ opened' = [opened EXCEPT ![x] = Calendar[now].week]
          /\ book' = [book EXCEPT ![x] = "open"]
      BY <2>1 DEF PositionOpens, BrokerMoves
    <3>2. now \in 1..now
      BY <1>1
    <3>3. QED BY <1>1, <3>1, <3>2 DEF DeadlineInv, PositionsAreDated, TypeOK
  <2>2. CASE PositionCloses(x) \/ CloseExecutes(x) \/ CloseDropped(x)
    <3>1. UNCHANGED <<now, opened>> /\ book[x] # "unopened"
          /\ \E to \in {"open", "closed"} : book' = [book EXCEPT ![x] = to]
      BY <2>2 DEF PositionCloses, CloseExecutes, CloseDropped, BrokerMoves
    <3>2. QED BY <1>1, <3>1 DEF DeadlineInv, PositionsAreDated, TypeOK
  <2>3. QED BY <1>3, <2>1, <2>2 DEF BrokerStep
<1>4. ASSUME NEW w \in Workers, CloseStep(w)
      PROVE  /\ UNCHANGED now /\ PositionsAreDated'
             /\ \A y \in Tickets : book[y] # "unopened" => book'[y] # "unopened"
  <2>1. PICK x \in Tickets, fate \in {"open", "closed", "closing"} : ClosePosition(w, x, fate)
    BY <1>4 DEF CloseStep
  <2>2. UNCHANGED <<now, opened>>
        /\ (UNCHANGED book \/ (book[x] # "unopened" /\ book' = [book EXCEPT ![x] = fate]))
    BY <2>1 DEF ClosePosition
  <2>3. QED BY <1>1, <2>2 DEF DeadlineInv, PositionsAreDated, TypeOK
<1>5. UNCHANGED <<book, opened>> \/ (\E x \in Tickets : BrokerStep(x)) \/ \E w \in Workers : CloseStep(w)
  BY DEF Next, Tick, Step, LocalStep, Claim, OtherHalt, Raise, Crash, broker
<1>6. QED BY <1>1, <1>2, <1>3, <1>4, <1>5

\* Only a look at the broker starts a decision, and it sees what is held.
LEMMA DecidersHaveLooked ==
    ASSUME FlattenInv, DeadlineInv, Next
    PROVE  SeenWereHeld'
<1>1. TypeOK
  BY DEF FlattenInv
<1>2. \A x \in Tickets : book[x] # "unopened" => book'[x] # "unopened"
  BY BookIsDated
<1>3. \A v \in Workers : proc[v].saw \subseteq Tickets
  BY <1>1 DEF TypeOK, Locals
<1>4. CASE UNCHANGED proc
  BY <1>2, <1>3, <1>4 DEF DeadlineInv, SeenWereHeld
<1>5. ASSUME NEW w \in Workers, \A v \in Workers : v # w => proc'[v] = proc[v],
             proc'[w].at = "decide" => \A x \in proc'[w].saw : book[x] # "unopened" /\ x \in Tickets
      PROVE  SeenWereHeld'
  BY <1>2, <1>3, <1>5 DEF DeadlineInv, SeenWereHeld
<1>6. ASSUME NEW w \in Workers, Observe(w) PROVE SeenWereHeld'
  <2>1. (\A v \in Workers : v # w => proc'[v] = proc[v]) /\ proc'[w].saw \subseteq Held
    BY <1>1, <1>6, LookIs
  <2>2. QED BY <1>5, <2>1 DEF Held
<1>7. ASSUME NEW w \in Workers, Done(w) PROVE SeenWereHeld'
  BY <1>1, <1>5, <1>7, Moves DEF Idle
<1>8. ASSUME NEW w \in Workers, NEW l \in Labels \ {"decide"}, Goto(w, l) PROVE SeenWereHeld'
  BY <1>1, <1>5, <1>8, Moves
<1>9. ASSUME NEW w \in Workers, LocalStep(w) PROVE SeenWereHeld'
  <2>1. CASE StartPass(w)
    <3>1. CASE UNCHANGED proc
      BY <1>4, <3>1
    <3>2. CASE \E l \in {"observe", "observeCommitted"} :
                 proc' = [proc EXCEPT ![w] = [Idle EXCEPT !.t = now, !.at = l]]
      <4>1. (\A v \in Workers : v # w => proc'[v] = proc[v]) /\ proc'[w].at # "decide"
        BY <1>1, <3>2 DEF Idle, TypeOK
      <4>2. QED BY <1>5, <4>1
    <3>3. QED BY <2>1, <3>1, <3>2 DEF StartPass
  <2>2. CASE Decide(w)
    BY <1>7, <1>8, <2>2 DEF Decide, Labels
  <2>3. CASE TripOvernightExposure(w)
    BY <1>8, <2>3 DEF TripOvernightExposure, Labels
  <2>4. CASE AppendClaimed(w) \/ FlattenGate(w) \/ StartFlatten(w)
    BY <1>7, <1>8, <2>4 DEF AppendClaimed, FlattenGate, StartFlatten, Labels
  <2>5. CASE ReadEvents(w) \/ Conclude(w)
    <3>1. CASE Done(w)
      BY <1>7, <3>1
    <3>2. CASE proc' = [proc EXCEPT ![w].at = "attempt", ![w].early = TRUE]
      BY <1>1, <1>5, <3>2, LoserIs
    <3>3. QED BY <2>5, <3>1, <3>2 DEF ReadEvents, Conclude
  <2>6. CASE Attempt(w)
    <3>1. CASE Goto(w, "conclude")
      BY <1>8, <3>1 DEF Labels
    <3>2. CASE proc' = [proc EXCEPT ![w].at = "closing", ![w].todo = StillOpen(w), ![w].tried = TRUE]
      <4>1. \A v \in Workers : v # w => proc'[v] = proc[v]
        BY <1>1, <3>2 DEF TypeOK
      <4>2. proc'[w].at = "closing"
        BY <1>1, <3>2 DEF TypeOK, Locals
      <4>3. QED BY <1>5, <4>1, <4>2
    <3>3. QED BY <2>6, <3>1, <3>2 DEF Attempt
  <2>7. QED BY <1>6, <1>9, <2>1, <2>2, <2>3, <2>4, <2>5, <2>6 DEF LocalStep
<1>10. ASSUME NEW w \in Workers, CloseStep(w) PROVE SeenWereHeld'
  <2>1. PICK x \in Tickets :
            /\ At(w, "closing")
            /\ proc' = [proc EXCEPT ![w].todo = @ \ {x},
                                    ![w].at = IF proc[w].todo = {x} THEN "reobserve" ELSE @]
    BY <1>10 DEF CloseStep, ClosePosition
  <2>2. \A v \in Workers : v # w => proc'[v] = proc[v]
    BY <1>1, <2>1 DEF TypeOK
  <2>3. proc'[w].at # "decide"
    BY <1>1, <2>1 DEF TypeOK, Locals, At
  <2>4. QED BY <1>5, <2>2, <2>3
<1>11. ASSUME NEW w \in Workers, Claim(w) PROVE SeenWereHeld'
  <2>1. Goto(w, "tripWon") \/ Goto(w, "tripLost") \/ Done(w)
    BY <1>11 DEF Claim
  <2>2. QED BY <1>7, <1>8, <2>1 DEF Labels
<1>12. QED BY <1>4, <1>7, <1>9, <1>10, <1>11
          DEF Next, Step, Tick, BrokerStep, BrokerMoves, PositionOpens, PositionCloses,
              CloseExecutes, CloseDropped, OtherHalt, Raise, Crash

\* A pass has no reason to close anything before a deadline.
LEMMA DeadlineComesFirst ==
    ASSUME WeeksEndFlat, FlattenInv, DeadlineInv, Next
    PROVE  NothingIsEarly'
<1>1. now' \in 1..Len(Calendar) /\ now \in 1..Len(Calendar) /\ now' >= now /\ TypeOK
  BY BookIsDated DEF FlattenInv
<1>2. CASE DeadlinePassed
  BY <1>1, <1>2 DEF DeadlinePassed, NothingIsEarly
<1>3. CASE ~DeadlinePassed
  <2>1. asked = {} /\ (\A d \in Days : events[d] = <<>>) /\ \A w \in Workers : proc[w].at \notin Due
    BY <1>3 DEF DeadlineInv, NothingIsEarly
  <2>2. ASSUME UNCHANGED <<asked, events>>, NEW w \in Workers, \A v \in Workers : v # w => proc'[v] = proc[v],
               proc'[w].at \notin Due
        PROVE  NothingIsEarly'
    BY <2>1, <2>2 DEF NothingIsEarly
  <2>3. ASSUME UNCHANGED <<asked, events, proc>> PROVE NothingIsEarly'
    BY <2>1, <2>3 DEF NothingIsEarly
  <2>4. ASSUME NEW w \in Workers PROVE proc[w].at \in {"idle", "observe", "decide"}
    BY <1>1, <2>1 DEF Due, TypeOK, Locals
  <2>5. ASSUME NEW w \in Workers, UNCHANGED <<asked, events>>, Done(w) PROVE NothingIsEarly'
    BY <1>1, <2>2, <2>5, Moves DEF Idle, Due
  <2>6. ASSUME NEW w \in Workers, LocalStep(w) PROVE NothingIsEarly'
    <3>1. UNCHANGED asked
      BY <2>6 DEF LocalStep
    <3>2. CASE StartPass(w)
      <4>1. events[Calendar[now].day] = <<>>
        BY <1>1, <2>1, PassHasADay
      <4>2. UNCHANGED events /\ proc' = [proc EXCEPT ![w] = [Idle EXCEPT !.t = now, !.at = "observe"]]
        BY <3>2, <4>1 DEF StartPass
      <4>3. /\ \A v \in Workers : v # w => proc'[v] = proc[v]
            /\ proc'[w].at = "observe"
        BY <1>1, <4>2 DEF TypeOK, Idle
      <4>4. QED BY <2>2, <3>1, <4>2, <4>3 DEF Due
    <3>3. CASE Observe(w)
      <4>1. UNCHANGED events /\ At(w, "observe") /\ Capture(w, "decide")
        BY <2>4, <3>3 DEF Observe, At
      <4>2. /\ \A v \in Workers : v # w => proc'[v] = proc[v]
            /\ proc'[w].at = "decide"
        BY <1>1, <3>3, <4>1, LookIs DEF At
      <4>3. QED BY <2>2, <3>1, <4>1, <4>2 DEF Due
    <3>4. CASE Decide(w)
      <4>1. CASE proc[w].saw # {} /\ (RequiresFlat(When(w)) \/ CrossedWeeklyClose(w))
        <5> DEFINE t == proc[w].t
        <5>1. t \in 1..Len(Calendar) /\ t <= now
          BY <1>1 DEF TypeOK, Locals
        <5>2. CASE RequiresFlat(Calendar[t])
          BY <1>1, <1>3, <5>1, <5>2 DEF DeadlinePassed
        <5>3. CASE CrossedWeeklyClose(w)
          <6>1. PICK x \in proc[w].saw : opened[x] # Calendar[t].week
            BY <5>3 DEF CrossedWeeklyClose, When
          <6>2. x \in Tickets /\ book[x] # "unopened"
            BY <1>1, <3>4, <6>1 DEF Decide, At, DeadlineInv, SeenWereHeld, TypeOK, Locals
          <6>3. PICK i \in 1..now : opened[x] = Calendar[i].week
            BY <6>2 DEF DeadlineInv, PositionsAreDated
          <6> HIDE DEF t
          <6>4. i \in DOMAIN Calendar /\ t \in DOMAIN Calendar /\ i <= now
            BY <1>1, <5>1
          <6>5. \E k \in 1..now : RequiresFlat(Calendar[k])
            <7>1. CASE i <= t
              <8>1. PICK k \in i..t : RequiresFlat(Calendar[k])
                BY <6>1, <6>3, <6>4, <7>1 DEF WeeksEndFlat
              <8>2. k \in 1..now
                BY <1>1, <5>1, <6>4, <8>1
              <8>3. QED BY <8>1, <8>2
            <7>2. CASE t <= i
              <8>1. PICK k \in t..i : RequiresFlat(Calendar[k])
                BY <6>1, <6>3, <6>4, <7>2 DEF WeeksEndFlat
              <8>2. k \in 1..now
                BY <1>1, <5>1, <6>4, <8>1
              <8>3. QED BY <8>1, <8>2
            <7>3. QED BY <1>1, <5>1, <6>4, <7>1, <7>2
          <6>6. QED BY <1>3, <6>5 DEF DeadlinePassed
        <5>4. QED BY <4>1, <5>2, <5>3 DEF When
      <4>2. CASE ~(proc[w].saw # {} /\ (RequiresFlat(When(w)) \/ CrossedWeeklyClose(w)))
        BY <2>5, <3>1, <3>4, <4>2 DEF Decide
      <4>3. QED BY <4>1, <4>2
    <3>5. ~(TripOvernightExposure(w) \/ AppendClaimed(w) \/ FlattenGate(w) \/ StartFlatten(w)
            \/ ReadEvents(w) \/ Attempt(w) \/ Conclude(w))
      BY <2>4 DEF TripOvernightExposure, AppendClaimed, FlattenGate, StartFlatten, ReadEvents,
                  Attempt, Conclude, At
    <3>6. QED BY <2>6, <3>2, <3>3, <3>4, <3>5 DEF LocalStep
  <2>7. ASSUME NEW w \in Workers PROVE ~Claim(w) /\ ~CloseStep(w)
    BY <2>4 DEF Claim, CloseStep, ClosePosition, At
  <2>8. QED BY <2>3, <2>5, <2>6, <2>7
            DEF Next, Step, Tick, BrokerStep, BrokerMoves, PositionOpens, PositionCloses,
                CloseExecutes, CloseDropped, OtherHalt, Raise, Crash
<1>4. QED BY <1>2, <1>3

\* Where the calendar shows the end of every week, the flatten closes nothing
\* before some instant required a flat account: not on a resolved history, a
\* crash or a position of an earlier week.
THEOREM ClosesComeAfterADeadline == WeeksEndFlat => (Spec => []NoCloseBeforeTheDeadline)
<1> SUFFICES ASSUME WeeksEndFlat PROVE Spec => []NoCloseBeforeTheDeadline
  OBVIOUS
<1>1. Init => DeadlineInv
  BY DEF Init, DeadlineInv, PositionsAreDated, SeenWereHeld, NothingIsEarly, Idle, Due
<1>2. FlattenInv /\ DeadlineInv /\ [Next]_vars => DeadlineInv'
  <2>1. ASSUME FlattenInv, DeadlineInv, Next PROVE DeadlineInv'
    BY <2>1, BookIsDated, DecidersHaveLooked, DeadlineComesFirst DEF DeadlineInv
  <2>2. ASSUME DeadlineInv, UNCHANGED vars PROVE DeadlineInv'
    BY <2>2 DEF vars, broker, DeadlineInv, PositionsAreDated, SeenWereHeld, NothingIsEarly, DeadlinePassed
  <2>3. QED BY <2>1, <2>2
<1>3. DeadlineInv => NoCloseBeforeTheDeadline
  BY DEF DeadlineInv, NothingIsEarly, DeadlinePassed, NoCloseBeforeTheDeadline
<1>4. QED BY <1>1, <1>2, <1>3, FlattenSafe, PTL DEF Spec

------------------------------------------------------------------------------
(* What an outcome says was closed, by any number of workers and with      *)
(* reads that fail.                                                        *)

\* Labels of a pass that has looked at the broker, or goes on with a look from
\* before the plan.
Looked == {"tripCommitted", "attempt", "conclude"}

\* Labels of a pass that resolves a commitment.
Committed == {"observeCommitted", "tripCommitted", "attempt", "closing", "reobserve", "conclude"}

\* The pass's last look succeeded, and came after the plan.
Knows(loc) == loc.complete /\ ~loc.early

\* What was seen, and so what was planned, has been opened.
SeenWereOpened ==
    /\ \A w \in Workers : \A x \in proc[w].saw : book[x] # "unopened"
    /\ \A d \in Days : \A x \in Plan(d) : book[x] # "unopened"

\* The plan a pass resolves is on record, and so it stays as it is.
PlansStand ==
    \A w \in Workers : proc[w].at \in Committed =>
        Has(events[Day(w)], "FLATTEN_SUBMISSION_STARTED")

\* What a pass that knows misses of its plan has gone from the broker.
UnseenIsClosed ==
    \A w \in Workers : proc[w].at \in Looked /\ Knows(proc[w]) =>
        \A x \in Plan(Day(w)) \ proc[w].saw : book[x] = "closed"

OutcomeInv == SeenWereOpened /\ PlansStand /\ UnseenIsClosed

\* A ticket does not become unopened again, and a closed one stays closed.
BookMovesOn ==
    \A x \in Tickets : /\ book[x] # "unopened" => book'[x] # "unopened"
                       /\ book[x] = "closed" => book'[x] = "closed"

\* What a step that records nothing must show of the worker it moves.
Tells(w) ==
    LET d == Calendar[proc'[w].t].day IN
    /\ \A x \in proc'[w].saw : book'[x] # "unopened"
    /\ proc'[w].at \in Committed => Has(events[d], "FLATTEN_SUBMISSION_STARTED")
    /\ proc'[w].at \in Looked /\ Knows(proc'[w]) =>
          \A x \in Plan(d) \ proc'[w].saw : book'[x] = "closed"

\* A worker's step is that worker's.
LEMMA OneMoves ==
    ASSUME TypeOK, NEW w \in Workers,
           LocalStep(w) \/ Claim(w) \/ CloseStep(w) \/ OtherHalt(w) \/ Raise(w) \/ Crash(w)
    PROVE  \A v \in Workers : v # w => proc'[v] = proc[v]
<1>1. proc \in [Workers -> Locals]
  BY DEF TypeOK
<1>2. UNCHANGED proc \/ \E loc : proc' = [proc EXCEPT ![w] = loc]
  BY DEF LocalStep, Claim, CloseStep, OtherHalt, Raise, Crash, StartPass, Observe, Capture, Decide,
     TripOvernightExposure, AppendClaimed, FlattenGate, StartFlatten, ReadEvents, Attempt,
     Conclude, ClosePosition, Goto, Done
<1>3. QED BY <1>1, <1>2

\* Everything else holds because positions only move on.
LEMMA QuietTells ==
    ASSUME FlattenInv, OutcomeInv, BookMovesOn, UNCHANGED events, \A w \in Workers : Tells(w)
    PROVE  OutcomeInv'
<1>1. \A d \in Days : Plan(d)' = Plan(d) /\ Plan(d) \subseteq Tickets
  BY PlanIsTickets DEF Plan, FlattenInv
<1>2. SeenWereOpened'
  BY <1>1 DEF OutcomeInv, SeenWereOpened, BookMovesOn, Tells
<1>3. PlansStand'
  BY DEF PlansStand, Tells, Day, When
<1>4. UnseenIsClosed'
  BY DEF UnseenIsClosed, Tells, Plan, Day, When
<1>5. QED BY <1>2, <1>3, <1>4 DEF OutcomeInv

\* The last row is a row.
LEMMA LastIsHas ==
    ASSUME events \in [Days -> Seq(Events)], NEW d \in Days, NEW type \in EventType,
           LastIs(events[d], type)
    PROVE  Has(events[d], type)
<1>1. events[d] \in Seq(Events) /\ events[d] # <<>>
  BY DEF LastIs
<1>2. Len(events[d]) \in DOMAIN events[d]
  BY <1>1
<1>3. QED BY <1>2 DEF LastIs, Has

\* A worker that stands still, ends its pass or goes on knows what it knew.
LEMMA StillTells ==
    ASSUME FlattenInv, OutcomeInv, BookMovesOn, NEW w \in Workers
    PROVE  /\ proc'[w] = proc[w] => Tells(w)
           /\ Done(w) => Tells(w)
           /\ \A l \in Labels : /\ Goto(w, l)
                                /\ l \in Committed => proc[w].at \in Committed
                                /\ l \in Looked => proc[w].at \in Looked
                                => Tells(w)
<1>1. TypeOK /\ proc \in [Workers -> Locals] /\ proc[w] \in Locals /\ Day(w) \in Days
  BY PassHasADay DEF FlattenInv, TypeOK
<1>2. /\ proc[w].saw \subseteq Tickets /\ Plan(Day(w)) \subseteq Tickets
      /\ Day(w) = Calendar[proc[w].t].day
  BY <1>1, PlanIsTickets DEF Locals, Day, When
<1>3. /\ \A x \in proc[w].saw : book'[x] # "unopened"
      /\ proc[w].at \in Committed => Has(events[Day(w)], "FLATTEN_SUBMISSION_STARTED")
      /\ proc[w].at \in Looked /\ Knows(proc[w]) =>
            \A x \in Plan(Day(w)) \ proc[w].saw : book'[x] = "closed"
  BY <1>2 DEF OutcomeInv, SeenWereOpened, PlansStand, UnseenIsClosed, BookMovesOn
<1>4. proc'[w] = proc[w] => Tells(w)
  BY <1>2, <1>3 DEF Tells
<1>5. ASSUME Done(w) PROVE Tells(w)
  <2>1. proc'[w].at = "idle" /\ proc'[w].saw = {}
    BY <1>1, <1>5, Moves DEF Idle
  <2>2. QED BY <2>1 DEF Tells, Committed, Looked
<1>6. ASSUME NEW l \in Labels, Goto(w, l),
             l \in Committed => proc[w].at \in Committed, l \in Looked => proc[w].at \in Looked
      PROVE  Tells(w)
  <2>1. proc'[w].at = l /\ proc'[w].t = proc[w].t /\ proc'[w].saw = proc[w].saw
    BY <1>1, <1>6, Moves
  <2>2. proc'[w] = [proc[w] EXCEPT !.at = l]
    BY <1>1, <1>6 DEF Goto
  <2>3. Knows(proc'[w]) <=> Knows(proc[w])
    BY <1>1, <2>2 DEF Knows, Locals
  <2>4. QED BY <1>2, <1>3, <1>6, <2>1, <2>3 DEF Tells
<1>7. QED BY <1>4, <1>5, <1>6

\* A row that is no second plan leaves every plan on record as it is.
LEMMA PlansOnRecordStand ==
    ASSUME TypeOK, NEW d \in Days, NEW e \in Events, Record(d, e),
           e.type # "FLATTEN_SUBMISSION_STARTED" => e.targets = {}, NEW c \in Days
    PROVE  /\ Has(events[c], "FLATTEN_SUBMISSION_STARTED") =>
                 /\ Has(events'[c], "FLATTEN_SUBMISSION_STARTED")
                 /\ Plan(c)' = Plan(c)
           /\ Plan(c)' \subseteq Plan(c) \cup e.targets
           /\ ClosedBy(c)' \subseteq ClosedBy(c) \cup e.closed
           /\ c # d => ClosedBy(c)' = ClosedBy(c)
<1>1. events \in [Days -> Seq(Events)]
  BY DEF TypeOK
<1>2. events' = [events EXCEPT ![d] = Appended(events[d], e)]
  BY DEF Record
<1>3. CASE c # d \/ Has(events[d], e.type)
  <2>1. events'[c] = events[c]
    BY <1>1, <1>2, <1>3 DEF Appended
  <2>2. QED BY <2>1 DEF Plan, ClosedBy
<1>4. CASE c = d /\ ~Has(events[d], e.type)
  <2> DEFINE h == events[d]
             g == Append(h, e)
  <2>1. events'[c] = g /\ h \in Seq(Events)
    BY <1>1, <1>2, <1>4 DEF Appended
  <2>2. /\ DOMAIN g = DOMAIN h \cup {Len(h) + 1} /\ g[Len(h) + 1] = e
        /\ \A i \in DOMAIN h : g[i] = h[i]
    BY <2>1
  <2>3. Plan(c)' = UNION {g[i].targets : i \in DOMAIN g}
        /\ ClosedBy(c)' = UNION {g[i].closed : i \in DOMAIN g}
    BY <2>1 DEF Plan, ClosedBy
  <2>4. Plan(c) = UNION {h[i].targets : i \in DOMAIN h}
        /\ ClosedBy(c) = UNION {h[i].closed : i \in DOMAIN h}
    BY <1>4 DEF Plan, ClosedBy
  <2> HIDE DEF h, g
  <2>5. Plan(c)' = Plan(c) \cup e.targets /\ ClosedBy(c)' = ClosedBy(c) \cup e.closed
    BY <2>2, <2>3, <2>4
  <2>6. Has(h, "FLATTEN_SUBMISSION_STARTED") => Has(g, "FLATTEN_SUBMISSION_STARTED")
    BY <2>2 DEF Has
  <2>7. Has(h, "FLATTEN_SUBMISSION_STARTED") => e.targets = {}
    BY <1>4 DEF h
  <2>8. QED BY <1>4, <2>1, <2>5, <2>6, <2>7 DEF h
<1>5. QED BY <1>3, <1>4

\* A row that plans what its writer saw leaves the workers what they know; its
\* writer ends the pass or goes on to the commitment.
LEMMA RecordTells ==
    ASSUME FlattenInv, OutcomeInv, NEW w \in Workers, NEW e \in Events,
           Record(Day(w), e), UNCHANGED book, e.targets \subseteq proc[w].saw,
           e.type # "FLATTEN_SUBMISSION_STARTED" => e.targets = {},
           Done(w) \/ Goto(w, "gate") \/ Goto(w, "start")
    PROVE  OutcomeInv'
<1>1. /\ TypeOK /\ Day(w) \in Days /\ proc \in [Workers -> Locals]
      /\ \A x \in proc[w].saw : book[x] # "unopened"
  BY PassHasADay DEF FlattenInv, TypeOK, OutcomeInv, SeenWereOpened
<1>2. /\ proc'[w].at \in {"idle", "gate", "start"}
      /\ proc'[w].saw \subseteq proc[w].saw
      /\ \A v \in Workers : v # w => proc'[v] = proc[v]
  BY <1>1, Moves DEF Labels, Idle
<1>3. SeenWereOpened'
  <2>1. \A d \in Days : \A x \in Plan(d)' : book[x] # "unopened"
    <3>1. ASSUME NEW d \in Days PROVE Plan(d)' \subseteq Plan(d) \cup proc[w].saw
      BY <1>1, PlansOnRecordStand
    <3>2. QED BY <1>1, <3>1 DEF OutcomeInv, SeenWereOpened
  <2>2. \A v \in Workers : \A x \in proc'[v].saw : book[x] # "unopened"
    BY <1>1, <1>2 DEF OutcomeInv, SeenWereOpened
  <2>3. QED BY <2>1, <2>2 DEF SeenWereOpened
<1>4. ASSUME NEW v \in Workers, proc'[v].at \in Committed
      PROVE  /\ v # w /\ proc'[v] = proc[v] /\ Day(v)' = Day(v) /\ Day(v) \in Days
             /\ Has(events[Day(v)], "FLATTEN_SUBMISSION_STARTED")
  <2>1. v # w /\ proc'[v] = proc[v]
    BY <1>2, <1>4 DEF Committed
  <2>2. Day(v)' = Day(v) /\ Day(v) \in Days
    BY <1>1, <2>1, PassHasADay DEF Day, When, FlattenInv
  <2>3. QED BY <1>4, <2>1, <2>2 DEF OutcomeInv, PlansStand
<1>5. PlansStand'
  <2>1. ASSUME NEW v \in Workers, proc'[v].at \in Committed
        PROVE  Has(events'[Day(v)'], "FLATTEN_SUBMISSION_STARTED")
    <3>1. Has(events'[Day(v)], "FLATTEN_SUBMISSION_STARTED")
      BY <1>1, <1>4, <2>1, PlansOnRecordStand
    <3>2. Day(v)' = Day(v)
      BY <1>4, <2>1
    <3>3. QED BY <3>1, <3>2
  <2>2. QED BY <2>1 DEF PlansStand
<1>6. UnseenIsClosed'
  <2>1. ASSUME NEW v \in Workers, proc'[v].at \in Looked, Knows(proc'[v]),
               NEW x \in Plan(Day(v))' \ proc'[v].saw
        PROVE  book'[x] = "closed"
    <3>1. proc'[v].at \in Committed
      BY <2>1 DEF Looked, Committed
    <3>2. Plan(Day(v)') = Plan(Day(v)) /\ proc'[v] = proc[v]
      BY <1>4, <3>1 DEF Plan
    <3>3. Plan(Day(v))' = Plan(Day(v))
      <4> DEFINE d == Day(v)
      <4>1. d \in Days /\ Has(events[d], "FLATTEN_SUBMISSION_STARTED") /\ Day(v)' = d
        BY <1>4, <3>1
      <4>2. UNION {events'[d][i].targets : i \in DOMAIN events'[d]} = Plan(d)
        <5> HIDE DEF d
        <5>1. \A c \in Days : Has(events[c], "FLATTEN_SUBMISSION_STARTED") => Plan(c)' = Plan(c)
          BY <1>1, PlansOnRecordStand
        <5>2. \A c \in Days : Plan(c)' = UNION {events'[c][i].targets : i \in DOMAIN events'[c]}
          BY DEF Plan
        <5>3. QED BY <4>1, <5>1, <5>2
      <4>3. QED BY <4>1, <4>2 DEF Plan
    <3>4. x \in Plan(Day(v)) \ proc[v].saw
      BY <2>1, <3>2, <3>3
    <3>5. QED BY <2>1, <3>2, <3>4 DEF OutcomeInv, UnseenIsClosed
  <2>2. QED BY <2>1 DEF UnseenIsClosed
<1>7. QED BY <1>3, <1>5, <1>6 DEF OutcomeInv

\* A look that succeeds shows what is at the broker.
LEMMA ObserveTells ==
    ASSUME FlattenInv, OutcomeInv, BookMovesOn, NEW w \in Workers, Observe(w), UNCHANGED book
    PROVE  Tells(w)
<1>1. TypeOK /\ proc[w] \in Locals /\ Day(w) \in Days /\ Day(w) = Calendar[proc[w].t].day
  BY PassHasADay DEF FlattenInv, TypeOK, Day, When
<1>2. PICK l \in {"decide", "tripCommitted", "conclude"}, c \in BOOLEAN :
        /\ proc'[w].at = l /\ proc'[w].t = proc[w].t
        /\ proc'[w].saw = (IF c THEN Held ELSE {}) /\ proc'[w].complete = c
        /\ \/ l = "decide" /\ At(w, "observe")
           \/ l = "tripCommitted" /\ At(w, "observeCommitted")
           \/ l = "conclude" /\ At(w, "reobserve")
  BY <1>1, LookIs
<1>3. /\ \A x \in Held : book[x] # "unopened"
      /\ \A x \in Tickets \ Held : book[x] # "unopened" => book[x] = "closed"
  BY <1>1 DEF Held, TypeOK
<1>4. Plan(Day(w)) \subseteq Tickets /\ \A x \in Plan(Day(w)) : book[x] # "unopened"
  BY <1>1, PlanIsTickets DEF OutcomeInv, SeenWereOpened
<1>5. proc[w].at \in Committed => Has(events[Day(w)], "FLATTEN_SUBMISSION_STARTED")
  BY DEF OutcomeInv, PlansStand
<1>6. l # "decide" => proc[w].at \in Committed
  BY <1>2 DEF At, Committed
<1>7. QED BY <1>1, <1>2, <1>3, <1>4, <1>5, <1>6 DEF Tells, Knows, Looked, Committed

\* The other steps of a pass that record nothing.
LEMMA LocalTells ==
    ASSUME FlattenInv, OutcomeInv, BookMovesOn, NEW w \in Workers,
           StartPass(w) \/ Decide(w) \/ Claim(w) \/ TripOvernightExposure(w)
             \/ ReadEvents(w) \/ Attempt(w)
    PROVE  Tells(w)
<1>1. TypeOK /\ proc \in [Workers -> Locals] /\ proc[w] \in Locals
  BY DEF FlattenInv, TypeOK
<1>2. CASE StartPass(w)
  <2>1. CASE UNCHANGED proc
    BY <2>1, StillTells
  <2>2. CASE \E l \in {"observe", "observeCommitted"} :
              /\ proc' = [proc EXCEPT ![w] = [Idle EXCEPT !.t = now, !.at = l]]
              /\ l = "observeCommitted" =>
                    LastIs(events[Calendar[now].day], "FLATTEN_SUBMISSION_STARTED")
    <3>1. PICK l \in {"observe", "observeCommitted"} :
              /\ proc' = [proc EXCEPT ![w] = [Idle EXCEPT !.t = now, !.at = l]]
              /\ l = "observeCommitted" =>
                    LastIs(events[Calendar[now].day], "FLATTEN_SUBMISSION_STARTED")
      BY <2>2
    <3>2. proc'[w] = [Idle EXCEPT !.t = now, !.at = l]
      BY <1>1, <3>1
    <3>3. proc'[w].at = l /\ proc'[w].t = now /\ proc'[w].saw = {}
      BY <3>2 DEF Idle
    <3>4. l = "observeCommitted" => Has(events[Calendar[now].day], "FLATTEN_SUBMISSION_STARTED")
      BY <1>1, <3>1, PassHasADay, LastIsHas DEF TypeOK, EventType
    <3>5. QED BY <3>3, <3>4 DEF Tells, Committed, Looked
  <2>3. QED BY <1>2, <2>1, <2>2 DEF StartPass
<1>3. CASE Decide(w)
  BY <1>3, StillTells DEF Decide, At, Labels, Committed, Looked
<1>4. CASE Claim(w)
  BY <1>4, StillTells DEF Claim, At, Labels, Committed, Looked
<1>5. CASE TripOvernightExposure(w)
  BY <1>5, StillTells DEF TripOvernightExposure, At, Labels, Committed, Looked
<1>6. CASE ReadEvents(w)
  <2>1. CASE Done(w)
    BY <2>1, StillTells
  <2>2. CASE /\ LastIs(events[Day(w)], "FLATTEN_SUBMISSION_STARTED")
             /\ proc' = [proc EXCEPT ![w].at = "attempt", ![w].early = TRUE]
    <3>1. /\ proc'[w].early /\ proc'[w].t = proc[w].t /\ proc'[w].saw = proc[w].saw
      BY <1>1, <2>2, LoserIs
    <3>2. Has(events[Day(w)], "FLATTEN_SUBMISSION_STARTED")
      BY <1>1, <2>2, PassHasADay, LastIsHas DEF TypeOK, EventType
    <3>3. proc[w].saw \subseteq Tickets /\ \A x \in proc[w].saw : book[x] # "unopened"
      BY <1>1 DEF Locals, OutcomeInv, SeenWereOpened
    <3>4. QED BY <3>1, <3>2, <3>3 DEF Tells, Knows, BookMovesOn, Day, When
  <2>3. QED BY <1>6, <2>1, <2>2 DEF ReadEvents
<1>7. CASE Attempt(w)
  <2>1. CASE Goto(w, "conclude")
    BY <1>7, <2>1, StillTells DEF Attempt, At, Labels, Committed, Looked
  <2>2. CASE proc' = [proc EXCEPT ![w].at = "closing",
                                  ![w].todo = StillOpen(w), ![w].tried = TRUE]
    <3>1. proc'[w] = [[[proc[w] EXCEPT !.at = "closing"] EXCEPT !.todo = StillOpen(w)]
                        EXCEPT !.tried = TRUE]
      BY <1>1, <2>2
    <3>2. proc'[w].at = "closing" /\ proc'[w].saw = proc[w].saw /\ proc'[w].t = proc[w].t
      BY <1>1, <3>1 DEF Locals
    <3>3. proc[w].saw \subseteq Tickets /\ \A x \in proc[w].saw : book[x] # "unopened"
      BY <1>1 DEF Locals, OutcomeInv, SeenWereOpened
    <3>4. Has(events[Day(w)], "FLATTEN_SUBMISSION_STARTED")
      BY <1>7 DEF Attempt, At, Committed, OutcomeInv, PlansStand
    <3>5. QED BY <3>2, <3>3, <3>4 DEF Tells, Looked, BookMovesOn, Day, When
  <2>3. QED BY <1>7, <2>1, <2>2 DEF Attempt
<1>8. QED BY <1>2, <1>3, <1>4, <1>5, <1>6, <1>7

\* A close moves a position on, and sends the pass to look again.
LEMMA CloseTells ==
    ASSUME FlattenInv, OutcomeInv, NEW w \in Workers, NEW x \in Tickets,
           NEW fate \in {"open", "closed", "closing"}, ClosePosition(w, x, fate)
    PROVE  BookMovesOn /\ Tells(w)
<1>1. TypeOK /\ proc \in [Workers -> Locals] /\ proc[w] \in Locals
  BY DEF FlattenInv, TypeOK
<1>2. BookMovesOn
  BY <1>1 DEF ClosePosition, BookMovesOn, TypeOK
<1>3. PICK l \in {"closing", "reobserve"} :
        proc' = [proc EXCEPT ![w].todo = @ \ {x}, ![w].at = l]
  BY <1>1 DEF ClosePosition, At
<1>4. proc'[w] = [[proc[w] EXCEPT !.todo = @ \ {x}] EXCEPT !.at = l]
  BY <1>1, <1>3
<1>5. proc'[w].at = l /\ proc'[w].saw = proc[w].saw /\ proc'[w].t = proc[w].t
  BY <1>1, <1>4 DEF Locals
<1>6. proc[w].saw \subseteq Tickets /\ \A y \in proc[w].saw : book[y] # "unopened"
  BY <1>1 DEF Locals, OutcomeInv, SeenWereOpened
<1>7. Has(events[Day(w)], "FLATTEN_SUBMISSION_STARTED")
  BY DEF ClosePosition, At, Committed, OutcomeInv, PlansStand
<1>8. QED BY <1>2, <1>5, <1>6, <1>7 DEF Tells, Looked, BookMovesOn, Day, When

\* The rows a pass writes.
LEMMA WritingTells ==
    ASSUME FlattenInv, OutcomeInv, NEW w \in Workers, UNCHANGED book,
           AppendClaimed(w) \/ FlattenGate(w) \/ StartFlatten(w) \/ Conclude(w)
    PROVE  OutcomeInv'
<1>1. TypeOK /\ proc[w] \in Locals /\ Day(w) \in Days /\ proc[w].saw \in SUBSET Tickets
  BY PassHasADay DEF FlattenInv, TypeOK, Locals
<1>2. CASE AppendClaimed(w) \/ FlattenGate(w)
  <2>1. PICK k \in EventType : Record(Day(w), Plain(k)) /\ (Done(w) \/ Goto(w, "gate") \/ Goto(w, "start"))
    BY <1>2 DEF AppendClaimed, FlattenGate, EventType
  <2>2. Plain(k) \in Events /\ Plain(k).targets = {}
    BY RowsAreEvents DEF Plain
  <2>3. QED BY <2>1, <2>2, RecordTells
<1>3. CASE StartFlatten(w)
  <2> DEFINE e == [Plain("FLATTEN_SUBMISSION_STARTED") EXCEPT !.targets = proc[w].saw]
  <2>1. e \in Events /\ e.targets = proc[w].saw /\ e.type = "FLATTEN_SUBMISSION_STARTED"
    BY <1>1, RowsAreEvents DEF Plain
  <2>2. Record(Day(w), e) /\ Done(w)
    BY <1>3 DEF StartFlatten
  <2> HIDE DEF e
  <2>3. QED BY <2>1, <2>2, RecordTells
<1>4. CASE Conclude(w)
  <2> DEFINE S == Plan(Day(w)) \ proc[w].saw
             e == [Plain("FLATTEN_OUTCOME_RESOLVED") EXCEPT !.closed = S]
  <2>1. e \in Events /\ e.targets = {}
    BY <1>1, PlanIsTickets, RowsAreEvents DEF Plain
  <2>2. CASE Record(Day(w), e) /\ Done(w)
    <3> HIDE DEF e
    <3>1. QED BY <2>1, <2>2, RecordTells
  <2>3. CASE UNCHANGED events /\ Done(w)
    <3>1. BookMovesOn /\ \A v \in Workers : v # w => proc'[v] = proc[v]
      BY <1>1, <2>3, Moves DEF BookMovesOn
    <3>2. \A v \in Workers : Tells(v)
      BY <2>3, <3>1, StillTells
    <3>3. QED BY <2>3, <3>1, <3>2, QuietTells
  <2>4. QED BY <1>4, <2>2, <2>3 DEF Conclude
<1>5. QED BY <1>2, <1>3, <1>4

\* Every step keeps what the passes know.
LEMMA OutcomePreserved ==
    ASSUME FlattenInv, OutcomeInv, [Next]_vars
    PROVE  OutcomeInv'
<1>1. ASSUME UNCHANGED <<events, proc>>, BookMovesOn PROVE OutcomeInv'
  BY <1>1, StillTells, QuietTells
<1>2. CASE UNCHANGED vars
  BY <1>1, <1>2 DEF vars, broker, BookMovesOn
<1>3. CASE Tick \/ \E x \in Tickets : BrokerStep(x)
  <2>1. UNCHANGED <<events, proc>> /\ BookMovesOn
    BY <1>3 DEF Tick, BrokerStep, PositionOpens, PositionCloses, CloseExecutes, CloseDropped,
       BrokerMoves, BookMovesOn, FlattenInv, TypeOK, broker
  <2>2. QED BY <1>1, <2>1
<1>4. ASSUME NEW w \in Workers, \A v \in Workers : v # w => proc'[v] = proc[v],
             UNCHANGED events, BookMovesOn, Tells(w)
      PROVE  OutcomeInv'
  <2>1. \A v \in Workers : Tells(v)
    BY <1>4, StillTells
  <2>2. QED BY <1>4, <2>1, QuietTells
<1>5. ASSUME NEW w \in Workers, LocalStep(w) PROVE OutcomeInv'
  <2>1. UNCHANGED book /\ BookMovesOn
    BY <1>5 DEF LocalStep, broker, BookMovesOn
  <2>2. CASE AppendClaimed(w) \/ FlattenGate(w) \/ StartFlatten(w) \/ Conclude(w)
    BY <2>1, <2>2, WritingTells
  <2>3. CASE \/ StartPass(w) \/ Observe(w) \/ Decide(w) \/ TripOvernightExposure(w)
             \/ ReadEvents(w) \/ Attempt(w)
    <3>1. Tells(w)
      BY <2>1, <2>3, ObserveTells, LocalTells
    <3>2. UNCHANGED events
      BY <2>3 DEF StartPass, Observe, Decide, TripOvernightExposure, ReadEvents, Attempt
    <3>3. QED BY <1>4, <1>5, <2>1, <3>1, <3>2, OneMoves DEF FlattenInv
  <2>4. QED BY <1>5, <2>2, <2>3 DEF LocalStep
<1>6. ASSUME NEW w \in Workers, Claim(w) PROVE OutcomeInv'
  <2>1. UNCHANGED events /\ BookMovesOn
    BY <1>6 DEF Claim, broker, BookMovesOn
  <2>2. QED BY <1>4, <1>6, <2>1, LocalTells, OneMoves DEF FlattenInv
<1>7. ASSUME NEW w \in Workers, CloseStep(w) PROVE OutcomeInv'
  <2>1. UNCHANGED events /\ BookMovesOn /\ Tells(w)
    BY <1>7, CloseTells DEF CloseStep, ClosePosition
  <2>2. QED BY <1>4, <1>7, <2>1, OneMoves DEF FlattenInv
<1>8. ASSUME NEW w \in Workers, OtherHalt(w) \/ Raise(w) \/ Crash(w) PROVE OutcomeInv'
  <2>1. UNCHANGED events /\ BookMovesOn
    BY <1>8 DEF OtherHalt, Raise, Crash, broker, BookMovesOn
  <2>2. Tells(w)
    BY <1>8, <2>1, StillTells DEF OtherHalt, Raise, Crash
  <2>3. QED BY <1>4, <1>8, <2>1, <2>2, OneMoves DEF FlattenInv
<1>9. QED BY <1>2, <1>3, <1>5, <1>6, <1>7, <1>8 DEF Next, Step

\* A ticket newly on record as closed is one that a concluding pass did not see.
LEMMA OutcomesNameTickets ==
    ASSUME FlattenInv, OutcomeInv, Next, NEW d \in Days, NEW x \in ClosedBy(d)' \ ClosedBy(d)
    PROVE  \E w \in Workers : /\ Conclude(w) /\ d = Day(w) /\ x \in Plan(d) \ proc[w].saw
<1>1. TypeOK
  BY DEF FlattenInv
<1>2. ~UNCHANGED events
  BY DEF ClosedBy
<1>3. PICK w \in Workers : AppendClaimed(w) \/ FlattenGate(w) \/ StartFlatten(w) \/ Conclude(w)
  BY <1>2 DEF Next, Tick, BrokerStep, PositionOpens, PositionCloses, CloseExecutes, CloseDropped,
     BrokerMoves, Step, LocalStep, StartPass, Observe, Decide, TripOvernightExposure, ReadEvents,
     Attempt, Claim, CloseStep, ClosePosition, OtherHalt, Raise, Crash
<1>4. Day(w) \in Days /\ proc[w].saw \in SUBSET Tickets
  BY <1>1, PassHasADay DEF TypeOK, Locals
<1>5. ASSUME NEW e \in Events, Record(Day(w), e), e.type # "FLATTEN_SUBMISSION_STARTED" => e.targets = {}
      PROVE  d = Day(w) /\ x \in e.closed
  BY <1>1, <1>4, <1>5, PlansOnRecordStand
<1>6. CASE AppendClaimed(w) \/ FlattenGate(w)
  <2>1. PICK k \in EventType : Record(Day(w), Plain(k))
    BY <1>6 DEF AppendClaimed, FlattenGate, EventType
  <2>2. Plain(k) \in Events /\ Plain(k).targets = {} /\ Plain(k).closed = {}
    BY RowsAreEvents DEF Plain
  <2>3. QED BY <1>5, <2>1, <2>2
<1>7. CASE StartFlatten(w)
  <2> DEFINE e == [Plain("FLATTEN_SUBMISSION_STARTED") EXCEPT !.targets = proc[w].saw]
  <2>1. e \in Events /\ e.closed = {} /\ e.type = "FLATTEN_SUBMISSION_STARTED"
    BY <1>4, RowsAreEvents DEF Plain
  <2>2. Record(Day(w), e)
    BY <1>7 DEF StartFlatten
  <2> HIDE DEF e
  <2>3. QED BY <1>5, <2>1, <2>2
<1>8. CASE Conclude(w)
  <2> DEFINE S == Plan(Day(w)) \ proc[w].saw
             e == [Plain("FLATTEN_OUTCOME_RESOLVED") EXCEPT !.closed = S]
  <2>1. e \in Events /\ e.targets = {} /\ e.closed = S
    BY <1>1, <1>4, PlanIsTickets, RowsAreEvents DEF Plain
  <2>2. Record(Day(w), e)
    BY <1>2, <1>8 DEF Conclude
  <2> HIDE DEF e
  <2>3. d = Day(w) /\ x \in S
    BY <1>5, <2>1, <2>2
  <2>4. QED BY <1>8, <2>3
<1>9. QED BY <1>3, <1>6, <1>7, <1>8

\* With any number of workers, of crashes, lost answers and failed reads, an
\* outcome names a ticket that is still open only when it is written by a pass
\* whose last look at the broker failed, or is older than the plan
\* (_resolve_flatten_outcome(), execution.py:1364, 1592-1622).
THEOREM WrongOutcomesAreBlind == Spec => OnlyBlindPassesAreWrong
<1>1. Init => OutcomeInv
  BY DEF Init, OutcomeInv, SeenWereOpened, PlansStand, UnseenIsClosed, Idle, Committed, Looked, Plan
<1>2. FlattenInv /\ OutcomeInv /\ [Next]_vars => OutcomeInv'
  BY OutcomePreserved
<1> DEFINE Right ==
      \A d \in Days : \A x \in ClosedBy(d)' \ ClosedBy(d) :
         book[x] = "closed"
           \/ \E w \in Workers : /\ At(w, "conclude") /\ ~At(w, "conclude")'
                                 /\ ~proc[w].complete \/ proc[w].early
<1>3. FlattenInv /\ OutcomeInv /\ [Next]_vars => [Right]_vars
  <2> SUFFICES ASSUME FlattenInv, OutcomeInv, Next,
                      NEW d \in Days, NEW x \in ClosedBy(d)' \ ClosedBy(d), book[x] # "closed"
               PROVE  \E w \in Workers : /\ At(w, "conclude") /\ ~At(w, "conclude")'
                                         /\ ~proc[w].complete \/ proc[w].early
    OBVIOUS
  <2>1. PICK w \in Workers : Conclude(w) /\ d = Day(w) /\ x \in Plan(d) \ proc[w].saw
    BY OutcomesNameTickets
  <2>2. At(w, "conclude") /\ Done(w)
    BY <2>1 DEF Conclude
  <2>3. ~At(w, "conclude")'
    BY <2>2, Moves DEF At, Idle, FlattenInv
  <2>4. ~Knows(proc[w])
    BY <2>1, <2>2 DEF At, Looked, OutcomeInv, UnseenIsClosed
  <2>5. QED BY <2>2, <2>3, <2>4 DEF Knows
<1>4. QED BY <1>1, <1>2, <1>3, FlattenSafe, PTL DEF Spec, OnlyBlindPassesAreWrong

==============================================================================
