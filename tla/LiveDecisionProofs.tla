-------------------------- MODULE LiveDecisionProofs --------------------------
(***************************************************************************)
(* Proofs about LiveDecision, for any number of workers, readers, bars and *)
(* ticks, any equities and limits, and with crashes, failed transactions   *)
(* and unreadable records.                                                 *)
(***************************************************************************)
EXTENDS LiveDecision, TLAPS

USE LiveDecisionAssumption

------------------------------------------------------------------------------
(* The ledger.                                                             *)

\* A fall is a fraction.
LEMMA FallType ==
    ASSUME NEW base \in Equities, NEW equity \in Equities
    PROVE  Fall(base, equity) \in Fractions
BY DEF Fall, Zero, Fractions

\* An update makes a ledger of a ledger.
LEMMA UpdatedType ==
    ASSUME NEW ledger \in Ledgers, NEW equity \in Equities
    PROVE  Updated(ledger, equity) \in Ledgers
<1> DEFINE peak == Greater(ledger.peak, equity)
<1>1. peak \in Equities /\ ledger.start \in Equities
  BY DEF Ledgers, Greater
<1>2. Fall(peak, equity) \in Fractions /\ Fall(ledger.start, equity) \in Fractions
  BY <1>1, FallType
<1>3. /\ Worse(ledger.drawdown, Fall(peak, equity)) \in Fractions
      /\ Worse(ledger.loss, Fall(ledger.start, equity)) \in Fractions
  BY <1>2 DEF Worse, Ledgers
<1>4. QED BY <1>1, <1>3 DEF Updated, Ledgers

\* A ledger that has lost nothing is a ledger.
LEMMA FreshType ==
    ASSUME NEW equity \in Equities
    PROVE  Fresh(equity) \in Ledgers
BY DEF Fresh, Ledgers, Zero, Fractions

\* Carrying a record over keeps its high-water mark and its drawdown and,
\* within the day, its loss.
LEMMA CarriedKeeps ==
    ASSUME NEW row \in Records, NEW d \in Days
    PROVE  /\ Carried(row, d) \in Ledgers
           /\ Carried(row, d).peak = row.ledger.peak
           /\ Carried(row, d).drawdown = row.ledger.drawdown
           /\ d = row.day => Carried(row, d).loss = row.ledger.loss
<1>1. row.ledger \in Ledgers /\ Zero \in Fractions
  BY DEF Records, Zero, Fractions
<1>2. CASE row.day = d
  BY <1>1, <1>2 DEF Carried
<1>3. CASE row.day # d
  <2>1. Carried(row, d) = [row.ledger EXCEPT !.start = row.ledger.current, !.loss = Zero]
    BY <1>3 DEF Carried
  <2>2. QED BY <1>1, <1>3, <2>1 DEF Ledgers
<1>4. QED BY <1>2, <1>3

\* So is a resumed one,
LEMMA ResumedType ==
    ASSUME NEW row \in Records, NEW equity \in Equities, NEW d \in Days
    PROVE  Resumed(row, equity, d) \in Ledgers
BY CarriedKeeps, UpdatedType DEF Resumed

\* and whatever recover_session() returns.
LEMMA RecoveredType ==
    ASSUME NEW row \in Records \cup {NoRecord}, NEW equity \in Equities,
           NEW open \in Books, NEW d \in Days
    PROVE  Recovered(row, equity, open, d) \in Ledgers
BY FreshType, ResumedType DEF Recovered

\* The products that compare two fractions are integers.
LEMMA ProductIsInt ==
    ASSUME NEW m \in Nat, NEW n \in Nat
    PROVE  m * n \in Int
OBVIOUS

\* The order of fractions is reflexive and total, so that the worse of two is
\* at least the first.
LEMMA WorseIsAtLeast ==
    ASSUME NEW f \in Fractions, NEW g \in Fractions
    PROVE  /\ AtLeast(f, f)
           /\ AtLeast(Worse(f, g), f)
           /\ Worse(Worse(f, g), g) = Worse(f, g)
<1>1. /\ f[1] \in Nat /\ f[2] \in Nat /\ g[1] \in Nat /\ g[2] \in Nat
  BY DEF Fractions
<1>2. f[1] * g[2] \in Int /\ g[1] * f[2] \in Int /\ f[1] * f[2] \in Int /\ g[1] * g[2] \in Int
  BY <1>1, ProductIsInt, Zenon
<1>3. AtLeast(f, f) /\ AtLeast(g, g)
  BY <1>2 DEF AtLeast
<1>4. AtLeast(f, g) \/ AtLeast(g, f)
  BY <1>2 DEF AtLeast
<1>5. QED BY <1>3, <1>4 DEF Worse

\* Folding an equity in twice is folding it in once.
LEMMA UpdatedTwice ==
    ASSUME NEW ledger \in Ledgers, NEW equity \in Equities
    PROVE  Updated(Updated(ledger, equity), equity) = Updated(ledger, equity)
<1> DEFINE once == Updated(ledger, equity)
           twice == Updated(once, equity)
           peak == Greater(ledger.peak, equity)
<1>1. once \in Ledgers /\ twice \in Ledgers
  BY UpdatedType
<1>2. peak \in Equities /\ ledger.peak \in Equities /\ Greater(peak, equity) = peak
  BY DEF Greater, Ledgers
<1>3. /\ once.start = ledger.start /\ once.current = equity /\ once.peak = peak
      /\ once.drawdown = Worse(ledger.drawdown, Fall(peak, equity))
      /\ once.loss = Worse(ledger.loss, Fall(ledger.start, equity))
  BY DEF Updated, Ledgers
<1>4. /\ twice.start = once.start /\ twice.current = equity /\ twice.peak = peak
      /\ twice.drawdown = Worse(once.drawdown, Fall(peak, equity))
      /\ twice.loss = Worse(once.loss, Fall(once.start, equity))
  BY <1>1, <1>2, <1>3 DEF Updated, Ledgers
<1>5. /\ Fall(peak, equity) \in Fractions /\ Fall(ledger.start, equity) \in Fractions
      /\ ledger.drawdown \in Fractions /\ ledger.loss \in Fractions
  BY <1>2, FallType DEF Ledgers
<1>6. twice.drawdown = once.drawdown /\ twice.loss = once.loss
  BY <1>3, <1>4, <1>5, WorseIsAtLeast
<1>7. QED BY <1>1, <1>3, <1>4, <1>6 DEF Ledgers

\* A ledger resumed from a record gives nothing of it back.
LEMMA ResumedKeeps ==
    ASSUME NEW row \in Records, NEW equity \in Equities, NEW d \in Days, NEW open
    PROVE  /\ Updated(Resumed(row, equity, d), equity) = Resumed(row, equity, d)
           /\ ~GivesBack(row, [ledger |-> Resumed(row, equity, d), day |-> d, open |-> open])
<1> DEFINE carried == Carried(row, d)
           ledger == Updated(carried, equity)
<1> HIDE DEF carried
<1>1. /\ carried \in Ledgers /\ Resumed(row, equity, d) = ledger
      /\ carried.peak = row.ledger.peak /\ carried.drawdown = row.ledger.drawdown
      /\ d = row.day => carried.loss = row.ledger.loss
  BY CarriedKeeps DEF Resumed, carried
<1>2. Updated(ledger, equity) = ledger
  BY <1>1, UpdatedTwice
<1>3. /\ ledger.peak = Greater(carried.peak, equity)
      /\ ledger.drawdown = Worse(carried.drawdown, Fall(Greater(carried.peak, equity), equity))
      /\ ledger.loss = Worse(carried.loss, Fall(carried.start, equity))
  BY <1>1 DEF Updated, Ledgers
<1>4. /\ carried.peak \in Equities /\ carried.start \in Equities
      /\ carried.drawdown \in Fractions /\ carried.loss \in Fractions
  BY <1>1 DEF Ledgers
<1>5. /\ Greater(carried.peak, equity) \in Equities
      /\ ~(Greater(carried.peak, equity) < carried.peak)
  <2>1. carried.peak \in Nat /\ equity \in Nat
    BY <1>4
  <2>2. QED BY <1>4, <2>1 DEF Greater
<1>6. /\ AtLeast(ledger.drawdown, carried.drawdown)
      /\ AtLeast(ledger.loss, carried.loss)
  BY <1>4, <1>3, <1>5, FallType, WorseIsAtLeast
<1> HIDE DEF ledger
<1>7. ~GivesBack(row, [ledger |-> ledger, day |-> d, open |-> open])
  BY <1>1, <1>3, <1>5, <1>6 DEF GivesBack
<1>8. QED BY <1>1, <1>2, <1>7

------------------------------------------------------------------------------
(* Types.                                                                  *)

\* What a worker carries, once it has looked.
Ready ==
    \A w \in Workers :
        /\ proc[w].at \in {"recover", "trip", "persist"} => proc[w].equity \in Equities
        /\ proc[w].at # "idle" => /\ proc[w].open \in Books
                                  /\ proc[w].bar \in 1..LastBar
                                  /\ proc[w].tick \in Ticks
        /\ proc[w].at \in {"trip", "persist"} => proc[w].ledger \in Ledgers

TypeInv == TypeOK /\ Ready

\* A trip halts its own process and lets nobody out.
LEMMA TripType ==
    ASSUME TypeOK, NEW p \in Processes, Trip(p)
    PROVE  /\ safety' \in BOOLEAN /\ halt' \in [Processes -> BOOLEAN]
           /\ halt'[p] = TRUE
           /\ \A q \in Processes : halt[q] => halt'[q]
BY DEF TypeOK, Trip

\* So does a conditional one.
LEMMA TripIfType ==
    ASSUME TypeOK, NEW p \in Processes, NEW c \in BOOLEAN, TripIf(p, c)
    PROVE  /\ safety' \in BOOLEAN /\ halt' \in [Processes -> BOOLEAN]
           /\ \A q \in Processes : halt[q] => halt'[q]
<1>1. CASE c
  BY <1>1, TripType DEF TripIf
<1>2. CASE ~c
  BY <1>2 DEF TripIf, switch, TypeOK
<1>3. QED BY <1>1, <1>2

\* The values of a process that has just started.
LEMMA IdleType == Idle \in Locals /\ Idle.at = "idle" /\ NewMem \in Windows
<1>1. Idle \in Locals
  BY DEF Idle, Locals, Labels
<1>2. NewMem \in Windows
  BY DEF NewMem, Windows
<1>3. QED BY <1>1, <1>2 DEF Idle

\* Goto() moves one worker and changes nothing else of it.
LEMMA GotoType ==
    ASSUME TypeOK, NEW w \in Workers, NEW l \in Labels, Goto(w, l)
    PROVE  /\ proc' \in [Workers -> Locals]
           /\ proc' = [proc EXCEPT ![w] = [proc[w] EXCEPT !.at = l]]
           /\ proc'[w].at = l
           /\ proc'[w].equity = proc[w].equity /\ proc'[w].open = proc[w].open
           /\ proc'[w].bar = proc[w].bar /\ proc'[w].tick = proc[w].tick
           /\ proc'[w].ledger = proc[w].ledger /\ proc'[w].verdict = proc[w].verdict
           /\ proc'[w].spent = proc[w].spent /\ proc'[w].after = proc[w].after
           /\ \A v \in Workers : v # w => proc'[v] = proc[v]
<1>1. proc \in [Workers -> Locals] /\ proc[w] \in Locals
  BY DEF TypeOK
<1> DEFINE q == [proc[w] EXCEPT !.at = l]
<1>2. /\ q \in Locals /\ q.at = l /\ q.equity = proc[w].equity /\ q.open = proc[w].open
      /\ q.bar = proc[w].bar /\ q.tick = proc[w].tick /\ q.ledger = proc[w].ledger
      /\ q.verdict = proc[w].verdict /\ q.spent = proc[w].spent /\ q.after = proc[w].after
  BY <1>1 DEF Locals
<1>3. proc' = [proc EXCEPT ![w] = q]
  BY <1>1 DEF Goto
<1> HIDE DEF q
<1>4. QED BY <1>1, <1>2, <1>3 DEF q

\* A recovery keeps what its worker looked at, rebuilds the ledger and, when it
\* need not halt, goes on to commit the ledger that it resumed.
LEMMA RebuildKeeps ==
    ASSUME TypeOK, NEW w \in Workers, Rebuild(w)
    PROVE  /\ \A v \in Workers : v # w => proc'[v] = proc[v]
           /\ proc'[w].equity = proc[w].equity /\ proc'[w].open = proc[w].open
           /\ proc'[w].bar = proc[w].bar /\ proc'[w].tick = proc[w].tick
           /\ proc'[w].after = SpentBy(MarketDay(w))
           /\ proc'[w].at \in {"trip", "persist"}
           /\ proc'[w].at = "persist" =>
                /\ ~MustHalt(record, proc[w].equity, proc[w].open, MarketDay(w))
                /\ proc'[w].ledger
                     = Recovered(record, proc[w].equity, proc[w].open, MarketDay(w))
                /\ proc'[w].spent
                     = Spent(record, proc[w].equity, proc[w].open, MarketDay(w))
<1> DEFINE d == MarketDay(w)
           p == proc[w]
           must == MustHalt(record, p.equity, p.open, d)
           kept == [p EXCEPT !.ledger = Recovered(record, p.equity, p.open, d),
                             !.spent = Spent(record, p.equity, p.open, d),
                             !.after = SpentBy(d),
                             !.at = IF must THEN "trip" ELSE "persist"]
           lost == [p EXCEPT !.ledger = Fresh(p.equity),
                             !.after = SpentBy(d), !.at = "trip"]
<1>1. /\ \A v \in Workers : v # w => proc'[v] = proc[v]
      /\ proc'[w] = kept \/ proc'[w] = lost
  BY DEF Rebuild, TypeOK
<1>2. p \in Locals
  BY DEF TypeOK
<1>3. /\ kept.ledger = Recovered(record, p.equity, p.open, d)
      /\ kept.spent = Spent(record, p.equity, p.open, d)
      /\ kept.after = SpentBy(d) /\ kept.at = (IF must THEN "trip" ELSE "persist")
      /\ lost.after = SpentBy(d) /\ lost.at = "trip"
      /\ kept.equity = p.equity /\ kept.open = p.open /\ kept.bar = p.bar /\ kept.tick = p.tick
      /\ lost.equity = p.equity /\ lost.open = p.open /\ lost.bar = p.bar /\ lost.tick = p.tick
  BY <1>2 DEF Locals
<1> HIDE DEF kept, lost, must
<1>4. QED BY <1>1, <1>3 DEF must

\* The initial state is typed.
LEMMA InitTypes == Init => TypeInv
<1> SUFFICES ASSUME Init PROVE TypeInv
  OBVIOUS
<1>1. 1 \in Ticks
  <2>1. TradingDay \in Seq(Nat \ {0}) /\ TradingDay # <<>>
    OBVIOUS
  <2>2. QED BY <2>1 DEF Ticks
<1>2. TypeOK
  <2>1. /\ window \in [Workers -> Windows] /\ mem \in [Workers -> Windows]
        /\ proc \in [Workers -> Locals]
    BY IdleType DEF Init
  <2>2. halt \in [Processes -> BOOLEAN] /\ safety \in BOOLEAN
    BY DEF Init
  <2>3. /\ bar \in 0..LastBar /\ tick \in Ticks /\ record \in Records \cup {NoRecord}
        /\ lock \in Workers \cup {None} /\ faults \in 0..MaxFaults /\ resets \in 0..MaxResets
    BY <1>1 DEF Init
  <2>4. /\ capsules \subseteq Capsules /\ passes \subseteq [by : Readers, after : SUBSET Workers]
        /\ burnt \subseteq Workers \X ({0} \cup Days)
    BY DEF Init
  <2>5. QED BY <2>1, <2>2, <2>3, <2>4 DEF TypeOK
<1>3. Ready
  BY IdleType DEF Init, Ready
<1>4. QED BY <1>2, <1>3 DEF TypeInv

\* Every step keeps every variable in its set and every worker ready.
LEMMA NextTypes ==
    ASSUME TypeInv, [Next]_vars
    PROVE  TypeInv'
<1> USE DEF TypeInv
<1> Workers \subseteq Processes /\ Readers \subseteq Processes
  BY DEF Processes
<1>1. CASE OperatorReset
  <2>1. resets' \in 0..MaxResets
    BY <1>1 DEF OperatorReset, TypeOK
  <2>2. QED BY <1>1, <2>1 DEF OperatorReset, TypeOK, Ready, world, history
<1>2. ASSUME NEW w \in Workers, RecoverWindow(w)
      PROVE  TypeInv'
  <2>0. faults' \in 0..MaxFaults /\ resets' \in 0..MaxResets
    BY <1>2 DEF RecoverWindow, TypeOK, bounds
  <2>1. mem' \in [Workers -> Windows]
    <3>1. window[w] \in Windows /\ NewMem \in Windows
      BY IdleType DEF TypeOK
    <3>2. /\ [window[w] EXCEPT !.recovered = TRUE] \in Windows
          /\ [NewMem EXCEPT !.recovered = TRUE] \in Windows
      BY <3>1 DEF Windows
    <3>3. QED BY <1>2, <3>2 DEF RecoverWindow, TypeOK
  <2>2. safety' \in BOOLEAN /\ halt' \in [Processes -> BOOLEAN]
    BY <1>2, TripType DEF RecoverWindow, TypeOK, switch
  <2>3. QED BY <1>2, <2>0, <2>1, <2>2 DEF RecoverWindow, TypeOK, Ready, world, history
<1>3. ASSUME NEW w \in Workers, Observe(w)
      PROVE  TypeInv'
  <2>1. PICK equity \in Equities, open \in Books :
          proc' = [proc EXCEPT ![w] =
                    [Idle EXCEPT !.at = "recover", !.equity = equity, !.open = open,
                                 !.bar = bar', !.tick = tick']]
    BY <1>3 DEF Observe, Look
  <2>2. bar' \in 1..LastBar /\ tick' \in Ticks
    BY <1>3 DEF Observe, Look, TypeOK, Windows
  <2> DEFINE looked == [Idle EXCEPT !.at = "recover", !.equity = equity, !.open = open,
                                    !.bar = bar', !.tick = tick']
  <2>3. /\ looked \in Locals /\ looked.at = "recover" /\ looked.equity = equity
        /\ looked.open = open /\ looked.bar = bar' /\ looked.tick = tick'
    BY <2>2 DEF Idle, Locals, Labels
  <2>4. TypeOK'
    BY <1>3, <2>1, <2>2, <2>3 DEF Observe, Look, TypeOK, switch, history, bounds
  <2>5. Ready'
    BY <2>1, <2>2, <2>3 DEF TypeOK, Ready
  <2>6. QED BY <2>4, <2>5
<1>4. ASSUME NEW w \in Workers, RecoverSession(w)
      PROVE  TypeInv'
  <2> DEFINE d == MarketDay(w)
             p == proc[w]
             must == MustHalt(record, p.equity, p.open, d)
             kept == [p EXCEPT !.ledger = Recovered(record, p.equity, p.open, d),
                               !.spent = Spent(record, p.equity, p.open, d),
                               !.after = SpentBy(d),
                               !.at = IF must THEN "trip" ELSE "persist"]
             lost == [p EXCEPT !.ledger = Fresh(p.equity),
                               !.after = SpentBy(d), !.at = "trip"]
  <2>1. /\ p \in Locals /\ p.at = "recover" /\ p.equity \in Equities /\ p.open \in Books
        /\ p.bar \in 1..LastBar /\ p.tick \in Ticks /\ record \in Records \cup {NoRecord}
    BY <1>4 DEF RecoverSession, At, TypeOK, Ready
  <2>2. d \in Days
    BY <2>1 DEF MarketDay, Days
  <2>3. /\ Recovered(record, p.equity, p.open, d) \in Ledgers /\ Fresh(p.equity) \in Ledgers
        /\ SpentBy(d) \in SUBSET Workers
        /\ Spent(record, p.equity, p.open, d) \in SUBSET ({0} \cup Days)
    BY <2>1, <2>2, RecoveredType, FreshType DEF SpentBy, Spent
  <2> HIDE DEF d, must
  <2>4. /\ kept \in Locals /\ kept.at \in {"trip", "persist"} /\ kept.ledger \in Ledgers
        /\ lost \in Locals /\ lost.at = "trip" /\ lost.ledger \in Ledgers
        /\ kept.equity = p.equity /\ kept.open = p.open /\ kept.bar = p.bar /\ kept.tick = p.tick
        /\ lost.equity = p.equity /\ lost.open = p.open /\ lost.bar = p.bar /\ lost.tick = p.tick
    BY <2>1, <2>3 DEF Locals, Labels
  <2>5. /\ proc' = [proc EXCEPT ![w] = kept] \/ proc' = [proc EXCEPT ![w] = lost]
        /\ faults' \in 0..MaxFaults /\ resets' \in 0..MaxResets
    BY <1>4 DEF RecoverSession, Rebuild, TypeOK, bounds, d, must
  <2>6. PICK q \in {kept, lost} : proc' = [proc EXCEPT ![w] = q]
    BY <2>5
  <2>7. /\ q \in Locals /\ q.at \in {"trip", "persist"} /\ q.ledger \in Ledgers
        /\ q.equity \in Equities /\ q.open \in Books /\ q.bar \in 1..LastBar /\ q.tick \in Ticks
    BY <2>1, <2>4
  <2> HIDE DEF kept, lost, p
  <2>8. TypeOK'
    BY <1>4, <2>5, <2>6, <2>7 DEF RecoverSession, TypeOK, world, switch, history
  <2>9. Ready'
    BY <2>6, <2>7 DEF TypeOK, Ready
  <2>10. QED BY <2>8, <2>9
<1>5. ASSUME NEW w \in Workers, TripRecovery(w)
      PROVE  TypeInv'
  <2>1. safety' \in BOOLEAN /\ halt' \in [Processes -> BOOLEAN]
    BY <1>5, TripType DEF TripRecovery
  <2>2. "persist" \in Labels /\ Goto(w, "persist")
    BY <1>5 DEF TripRecovery, Labels
  <2>3. Ready'
    BY <1>5, <2>2, GotoType DEF TripRecovery, At, Ready
  <2>4. QED BY <1>5, <2>1, <2>2, <2>3, GotoType DEF TripRecovery, TypeOK, world, history, bounds
<1>6. ASSUME NEW w \in Workers, PersistSession(w)
      PROVE  TypeInv'
  <2> DEFINE p == proc[w]
             ledger == Updated(p.ledger, p.equity)
             gone == [Idle EXCEPT !.at = "gates", !.open = p.open, !.bar = p.bar,
                                  !.tick = p.tick, !.ledger = ledger, !.after = p.after]
  <2>1. /\ p \in Locals /\ p.equity \in Equities /\ p.open \in Books /\ p.ledger \in Ledgers
        /\ p.bar \in 1..LastBar /\ p.tick \in Ticks
    BY <1>6 DEF PersistSession, At, TypeOK, Ready
  <2>2. ledger \in Ledgers /\ MarketDay(w) \in Days
    BY <2>1, UpdatedType DEF MarketDay, Days
  <2> HIDE DEF ledger
  <2>3. /\ gone \in Locals /\ gone.at = "gates" /\ gone.open = p.open
        /\ gone.bar = p.bar /\ gone.tick = p.tick
    BY <2>1, <2>2 DEF Idle, Locals, Labels
  <2>4. /\ proc' = [proc EXCEPT ![w] = gone]
        /\ record' = [ledger |-> ledger, day |-> MarketDay(w), open |-> p.open]
        /\ burnt' = burnt \cup {w} \X p.spent
    BY <1>6 DEF PersistSession, ledger
  <2>5. record' \in Records
    BY <2>1, <2>2, <2>4 DEF Records
  <2>6. burnt' \subseteq Workers \X ({0} \cup Days)
    BY <2>1, <2>4 DEF TypeOK, Locals
  <2> HIDE DEF gone, p
  <2>7. TypeOK'
    BY <1>6, <2>3, <2>4, <2>5, <2>6 DEF PersistSession, TypeOK, world, switch, bounds
  <2>8. Ready'
    BY <2>1, <2>3, <2>4 DEF TypeOK, Ready
  <2>9. QED BY <2>7, <2>8
<1>7. ASSUME NEW w \in Workers, LedgerFails(w)
      PROVE  TypeInv'
  <2>1. safety' \in BOOLEAN /\ halt' \in [Processes -> BOOLEAN]
    BY <1>7, TripType DEF LedgerFails
  <2>2. QED BY <1>7, <2>1, IdleType DEF LedgerFails, TypeOK, Ready, world, history
<1>8. ASSUME NEW w \in Workers, CheckGates(w)
      PROVE  TypeInv'
  <2>1. safety' \in BOOLEAN /\ halt' \in [Processes -> BOOLEAN]
    BY <1>8, TripIfType DEF CheckGates, AtItsLimit, AtLeast
  <2>2. "claim" \in Labels /\ Goto(w, "claim")
    BY <1>8 DEF CheckGates, Labels
  <2>3. Ready'
    BY <1>8, <2>2, GotoType DEF CheckGates, At, Ready
  <2>4. QED BY <1>8, <2>1, <2>2, <2>3, GotoType DEF CheckGates, TypeOK, world, history, bounds
<1>9. ASSUME NEW w \in Workers, ClaimWindow(w)
      PROVE  TypeInv'
  <2>1. "evaluate" \in Labels /\ Goto(w, "evaluate")
    BY <1>9 DEF ClaimWindow, Labels
  <2>2. Ready'
    BY <1>9, <2>1, GotoType DEF ClaimWindow, At, Ready
  <2>3. [mem[w] EXCEPT !.last = proc[w].bar] \in Windows
    <3>1. proc[w].bar \in 1..LastBar /\ mem[w] \in Windows
      BY <1>9 DEF ClaimWindow, At, TypeOK, Ready
    <3>2. proc[w].bar \in 0..LastBar
      BY <3>1
    <3>3. QED BY <3>1, <3>2 DEF Windows
  <2>4. mem' \in [Workers -> Windows] /\ window' \in [Workers -> Windows]
    BY <1>9, <2>3 DEF ClaimWindow, TypeOK
  <2>5. QED BY <1>9, <2>1, <2>2, <2>4, GotoType
            DEF ClaimWindow, TypeOK, world, switch, history, bounds
<1>10. ASSUME NEW w \in Workers, Evaluate(w)
       PROVE  TypeInv'
  <2>1. safety' \in BOOLEAN /\ halt' \in [Processes -> BOOLEAN]
    BY <1>10, TripIfType DEF Evaluate, TypeOK, switch
  <2>2. PICK q \in Locals : /\ proc' = [proc EXCEPT ![w] = q]
                            /\ q.at \in {"idle", "seal", "remember"}
                            /\ q.at # "idle" => /\ q.open = proc[w].open
                                                /\ q.bar = proc[w].bar
                                                /\ q.tick = proc[w].tick
    <3>1. CASE proc' = [proc EXCEPT ![w] = Idle]
      BY <3>1, IdleType
    <3>2. CASE \E verdict \in Verdicts, l \in {"seal", "remember"} :
                  proc' = [proc EXCEPT ![w].verdict = verdict, ![w].at = l]
      <4>1. PICK verdict \in Verdicts, l \in {"seal", "remember"} :
                  proc' = [proc EXCEPT ![w].verdict = verdict, ![w].at = l]
        BY <3>2
      <4> DEFINE q == [proc[w] EXCEPT !.verdict = verdict, !.at = l]
      <4>2. /\ q \in Locals /\ q.at = l /\ q.open = proc[w].open
            /\ q.bar = proc[w].bar /\ q.tick = proc[w].tick
        <5>1. proc[w] \in Locals /\ l \in Labels
          BY DEF TypeOK, Labels
        <5>2. QED BY <5>1 DEF Locals
      <4>3. proc' = [proc EXCEPT ![w] = q]
        BY <4>1 DEF TypeOK, Locals
      <4> HIDE DEF q
      <4>4. QED BY <4>2, <4>3
    <3>3. QED BY <1>10, <3>1, <3>2 DEF Evaluate, Verdicts
  <2>3. QED BY <1>10, <2>1, <2>2 DEF Evaluate, At, TypeOK, Ready, world, history, bounds
<1>11. ASSUME NEW w \in Workers, RememberDecision(w)
       PROVE  TypeInv'
  <2>1. "seal" \in Labels /\ Goto(w, "seal")
    BY <1>11 DEF RememberDecision, Labels
  <2>2. Ready'
    BY <1>11, <2>1, GotoType DEF RememberDecision, At, Ready
  <2>3. Hash(w) \in (1..LastBar) \X Ticks /\ mem[w] \in Windows
    BY <1>11 DEF RememberDecision, At, TypeOK, Ready, Hash
  <2>4. [mem[w] EXCEPT !.seen = @ \cup {Hash(w)}] \in Windows
    BY <2>3 DEF Windows
  <2>5. mem' \in [Workers -> Windows] /\ window' \in [Workers -> Windows]
    BY <1>11, <2>4 DEF RememberDecision, TypeOK
  <2>6. QED BY <1>11, <2>1, <2>2, <2>5, GotoType
            DEF RememberDecision, TypeOK, world, switch, history, bounds
<1>12. ASSUME NEW w \in Workers, Seal(w)
       PROVE  TypeInv'
  <2>1. capsules' \subseteq Capsules
    <3>1. proc[w].after \subseteq Workers /\ proc[w].bar \in 1..LastBar /\ proc[w].tick \in Ticks
      BY <1>12 DEF Seal, At, TypeOK, Ready, Locals
    <3>2. (proc[w].verdict = "APPROVE") \in BOOLEAN
      OBVIOUS
    <3>3. [by |-> w, bar |-> proc[w].bar, tick |-> proc[w].tick, after |-> proc[w].after,
           approved |-> proc[w].verdict = "APPROVE"] \in Capsules
      BY <3>1, <3>2 DEF Capsules
    <3>4. QED BY <1>12, <3>3 DEF Seal, TypeOK
  <2>2. QED BY <1>12, <2>1, IdleType DEF Seal, TypeOK, Ready, world, switch, bounds
<1>13. ASSUME NEW w \in Workers, Crash(w)
       PROVE  TypeInv'
  BY <1>13, IdleType DEF Crash, TypeOK, Ready, world, history
<1>14. ASSUME NEW r \in Readers, ReadLedger(r)
       PROVE  TypeInv'
  <2>1. safety' \in BOOLEAN /\ halt' \in [Processes -> BOOLEAN]
    BY <1>14, TripType DEF ReadLedger, TypeOK, switch
  <2>2. passes' \subseteq [by : Readers, after : SUBSET Workers]
    <3>1. \A d : SpentBy(d) \in SUBSET Workers
      BY DEF SpentBy
    <3>2. \/ UNCHANGED passes
          \/ \E d : passes' = passes \cup {[by |-> r, after |-> SpentBy(d)]}
      BY <1>14 DEF ReadLedger
    <3>3. QED BY <3>1, <3>2 DEF TypeOK
  <2>3. QED BY <1>14, <2>1, <2>2 DEF ReadLedger, TypeOK, Ready, world, bounds
<1>15. CASE UNCHANGED vars
  BY <1>15 DEF vars, world, switch, history, bounds, TypeOK, Ready
<1>16. QED
  BY <1>1, <1>2, <1>3, <1>4, <1>5, <1>6, <1>7, <1>8, <1>9, <1>10, <1>11, <1>12, <1>13,
     <1>14, <1>15 DEF Next, Step, Skip

\* Every variable keeps to its set, whatever the workers, their order and
\* their failures.
THEOREM TypeCorrect == Spec => []TypeOK
<1>1. TypeInv => TypeOK
  BY DEF TypeInv
<1>2. QED BY <1>1, InitTypes, NextTypes, PTL DEF Spec

------------------------------------------------------------------------------
(* The record.                                                             *)

\* Between its read and its commit a worker holds the lock.
Locked ==
    \A w \in Workers : proc[w].at \in {"trip", "persist"} => lock = w

\* A worker that is about to commit and is not halted has resumed the very
\* record that it is about to replace.
Resumes ==
    \A w \in Workers :
        /\ proc[w].at = "persist" /\ ~halt[w] /\ record # NoRecord
        => proc[w].ledger = Resumed(record, proc[w].equity, MarketDay(w))

LedgerInv == TypeInv /\ Locked /\ Resumes

\* A step of one worker that leaves the record alone and ends outside the
\* transaction disturbs nobody's.
LEMMA OutsideTheTransaction ==
    ASSUME LedgerInv, NEW w \in Workers,
           UNCHANGED record,
           lock' = lock \/ (lock = w /\ lock' = None),
           proc'[w].at \notin {"trip", "persist"},
           \A v \in Workers : v # w => proc'[v] = proc[v] /\ halt'[v] = halt[v]
    PROVE  Locked' /\ Resumes'
BY DEF LedgerInv, Locked, Resumes, MarketDay

\* Only a step of its own moves a worker, and only its own steps and a restart
\* touch its switch.
Moves(w) ==
    /\ \A v \in Workers : v # w => proc'[v] = proc[v] /\ halt'[v] = halt[v]
    /\ UNCHANGED record
    /\ lock' = lock \/ (lock = w /\ lock' = None)
    /\ proc'[w].at \notin {"trip", "persist"}

\* A trip leaves every other process's switch alone.
LEMMA TripMoves ==
    ASSUME TypeOK, NEW p \in Processes, NEW v \in Processes, v # p,
           Trip(p) \/ UNCHANGED switch
    PROVE  halt'[v] = halt[v]
BY DEF Trip, switch, TypeOK

\* Every step outside the transaction is such a move.
LEMMA WorkerMoves ==
    ASSUME TypeInv, NEW w \in Workers,
           \/ Observe(w) \/ LedgerFails(w) \/ CheckGates(w) \/ ClaimWindow(w) \/ Evaluate(w)
           \/ RememberDecision(w) \/ Seal(w) \/ Crash(w)
           \/ RecoverWindow(w) \/ Skip(w)
    PROVE  Moves(w)
<1> Workers \subseteq Processes
  BY DEF Processes
<1> USE DEF TypeInv, Moves
<1>1. CASE Observe(w)
  <2>1. PICK equity \in Equities, open \in Books :
          proc' = [proc EXCEPT ![w] =
                    [Idle EXCEPT !.at = "recover", !.equity = equity, !.open = open,
                                 !.bar = bar', !.tick = tick']]
    BY <1>1 DEF Observe, Look
  <2>2. QED BY <1>1, <2>1 DEF Observe, Look, TypeOK, Idle, switch
<1>2. CASE LedgerFails(w)
  BY <1>2, IdleType, TripMoves DEF LedgerFails, TypeOK
<1>3. CASE CheckGates(w)
  <2>1. Goto(w, "claim") /\ "claim" \in Labels /\ (Trip(w) \/ UNCHANGED switch)
    BY <1>3 DEF CheckGates, TripIf, Labels
  <2>2. QED BY <1>3, <2>1, GotoType, TripMoves DEF CheckGates
<1>4. CASE ClaimWindow(w)
  <2>1. Goto(w, "evaluate") /\ "evaluate" \in Labels
    BY <1>4 DEF ClaimWindow, Labels
  <2>2. QED BY <1>4, <2>1, GotoType DEF ClaimWindow, switch
<1>5. CASE Evaluate(w)
  <2>1. Trip(w) \/ UNCHANGED switch
    BY <1>5 DEF Evaluate, TripIf
  <2>2. UNCHANGED <<record, lock>>
    BY <1>5 DEF Evaluate
  <2>3. /\ \A v \in Workers : v # w => proc'[v] = proc[v]
        /\ proc'[w].at \notin {"trip", "persist"}
    BY <1>5, IdleType DEF Evaluate, TypeOK, Locals
  <2>4. QED BY <2>1, <2>2, <2>3, TripMoves
<1>6. CASE RememberDecision(w)
  <2>1. Goto(w, "seal") /\ "seal" \in Labels
    BY <1>6 DEF RememberDecision, Labels
  <2>2. QED BY <1>6, <2>1, GotoType DEF RememberDecision, switch
<1>7. CASE Seal(w)
  BY <1>7, IdleType DEF Seal, TypeOK, switch
<1>8. CASE Crash(w)
  BY <1>8, IdleType DEF Crash, TypeOK
<1>9. CASE RecoverWindow(w)
  <2>1. Trip(w) \/ UNCHANGED switch
    BY <1>9 DEF RecoverWindow
  <2>2. UNCHANGED <<record, lock, proc>> /\ proc[w].at = "idle"
    BY <1>9 DEF RecoverWindow, At
  <2>3. QED BY <2>1, <2>2, TripMoves
<1>10. CASE Skip(w)
  BY <1>10 DEF Skip, At, vars, switch
<1>11. QED
  BY <1>1, <1>2, <1>3, <1>4, <1>5, <1>6, <1>7, <1>8, <1>9, <1>10

\* The ledger invariant holds at the start,
LEMMA InitLedger == Init => LedgerInv
BY InitTypes, IdleType DEF Init, LedgerInv, Locked, Resumes

\* and every step keeps it.
LEMMA NextLedger ==
    ASSUME LedgerInv, [Next]_vars
    PROVE  LedgerInv'
<1> Workers \subseteq Processes /\ Readers \subseteq Processes
  BY DEF Processes
<1> TypeInv /\ TypeOK /\ TypeInv'
  BY NextTypes DEF LedgerInv, TypeInv
<1> SUFFICES Locked' /\ Resumes'
  BY DEF LedgerInv
<1>1. ASSUME NEW w \in Workers, Moves(w)
      PROVE  Locked' /\ Resumes'
  BY <1>1, OutsideTheTransaction DEF Moves
<1>2. ASSUME NEW w \in Workers, RecoverSession(w)
      PROVE  Locked' /\ Resumes'
  <2>1. \A v \in Workers : proc[v].at \notin {"trip", "persist"}
    BY <1>2 DEF RecoverSession, LedgerInv, Locked, Processes
  <2>2. \A v \in Workers : v # w => proc'[v] = proc[v]
    BY <1>2 DEF RecoverSession, Rebuild, TypeOK
  <2>3. UNCHANGED <<record, halt>> /\ lock' = w
    BY <1>2 DEF RecoverSession, switch
  <2>4. Locked'
    BY <2>1, <2>2, <2>3 DEF Locked
  <2>5. ASSUME proc'[w].at = "persist", record # NoRecord
        PROVE  /\ proc'[w].ledger = Resumed(record, proc'[w].equity, MarketDay(w))
               /\ proc'[w].tick = proc[w].tick
    BY <1>2, <2>5, RebuildKeeps DEF RecoverSession, Recovered
  <2>6. Resumes'
    BY <2>1, <2>2, <2>3, <2>5 DEF Resumes, MarketDay
  <2>7. QED BY <2>4, <2>6
<1>3. ASSUME NEW w \in Workers, TripRecovery(w)
      PROVE  Locked' /\ Resumes'
  <2>1. Trip(w) /\ Goto(w, "persist") /\ "persist" \in Labels /\ UNCHANGED <<record, lock>>
        /\ proc[w].at = "trip"
    BY <1>3 DEF TripRecovery, Labels, At
  <2>2. halt'[w] /\ \A v \in Workers : v # w => proc'[v] = proc[v] /\ halt'[v] = halt[v]
    BY <2>1, GotoType, TripType, TripMoves
  <2>3. QED BY <2>1, <2>2 DEF LedgerInv, Locked, Resumes, MarketDay
<1>4. ASSUME NEW w \in Workers, PersistSession(w)
      PROVE  Locked' /\ Resumes'
  <2>1. /\ \A v \in Workers : v # w => proc'[v] = proc[v]
        /\ proc'[w].at = "gates"
    BY <1>4 DEF PersistSession, TypeOK, Idle
  <2>2. \A v \in Workers : v # w => proc[v].at \notin {"trip", "persist"}
    BY <1>4 DEF PersistSession, At, LedgerInv, Locked
  <2>3. QED BY <2>1, <2>2 DEF Locked, Resumes
<1>5. CASE OperatorReset
  BY <1>5 DEF OperatorReset, LedgerInv, Locked, Resumes, MarketDay
<1>6. ASSUME NEW r \in Readers, ReadLedger(r)
      PROVE  Locked' /\ Resumes'
  <2>1. UNCHANGED <<record, lock, proc>> /\ (Trip(r) \/ UNCHANGED switch)
    BY <1>6 DEF ReadLedger
  <2>2. \A v \in Workers : halt'[v] = halt[v]
    BY <2>1, TripMoves
  <2>3. QED BY <2>1, <2>2 DEF LedgerInv, Locked, Resumes, MarketDay
<1>7. CASE UNCHANGED vars
  BY <1>7 DEF vars, switch, LedgerInv, Locked, Resumes, MarketDay
<1>8. QED
  BY <1>1, <1>2, <1>3, <1>4, <1>5, <1>6, <1>7, WorkerMoves DEF Next, Step

\* Recovery is never more generous than the record: a commit that lowers the
\* high-water mark, the drawdown or the day's loss is a halted worker's.
THEOREM RecoveryIsConservative == Spec => OnlyTheHaltedGiveBack
<1> DEFINE Kept == record' # record /\ GivesBack(record, record')
                     => \E w \in Workers : proc'[w] # proc[w] /\ halt[w]
<1>1. ASSUME LedgerInv, [Next]_vars
      PROVE  [Kept]_vars
  <2> SUFFICES ASSUME record' # record, GivesBack(record, record')
               PROVE  \E w \in Workers : proc'[w] # proc[w] /\ halt[w]
    OBVIOUS
  <2>1. PICK w \in Workers : PersistSession(w)
    BY <1>1, WorkerMoves DEF Next, Step, Moves, LedgerInv, RecoverSession, TripRecovery,
                             OperatorReset, ReadLedger, vars
  <2> DEFINE p == proc[w]
  <2>2. /\ p.at = "persist" /\ p.equity \in Equities /\ p.tick \in Ticks
        /\ record \in Records \cup {NoRecord} /\ proc \in [Workers -> Locals]
    BY <1>1, <2>1 DEF PersistSession, At, LedgerInv, TypeInv, TypeOK, Ready
  <2>3. MarketDay(w) \in Days
    BY <2>2 DEF MarketDay, Days
  <2>4. record' = [ledger |-> Updated(p.ledger, p.equity), day |-> MarketDay(w), open |-> p.open]
    BY <2>1 DEF PersistSession
  <2>5. record # NoRecord
    BY DEF GivesBack
  <2>6. record \in Records
    BY <2>2, <2>5
  <2>7. ASSUME ~halt[w] PROVE FALSE
    <3>1. p.ledger = Resumed(record, p.equity, MarketDay(w))
      BY <1>1, <2>2, <2>5, <2>7 DEF LedgerInv, Resumes
    <3>2. record' = [ledger |-> Resumed(record, p.equity, MarketDay(w)),
                     day |-> MarketDay(w), open |-> p.open]
      BY <2>2, <2>3, <2>4, <2>6, <3>1, ResumedKeeps
    <3>3. QED BY <2>2, <2>3, <2>6, <3>2, ResumedKeeps
  <2>8. proc'[w] # proc[w]
    <3>1. proc'[w].at = "gates"
      BY <2>1, <2>2 DEF PersistSession, Idle
    <3>2. QED BY <2>2, <3>1
  <2>9. QED BY <2>7, <2>8
<1>2. QED BY <1>1, InitLedger, NextLedger, PTL DEF Spec, OnlyTheHaltedGiveBack

------------------------------------------------------------------------------
(* The halt.                                                               *)

\* Before any reset, a process halted in memory is halted on record.
HaltIsDurable == resets = 0 => \A p \in Processes : halt[p] => safety

\* Before any reset, worker w is halted once it has found a budget spent, and
\* what it may yet approve follows no such finding of its own.
StoppedOf(w) ==
    /\ \A b : <<w, b>> \in burnt => halt[w]
    /\ proc[w].at = "persist" /\ proc[w].spent # {} => halt[w]
    /\ w \in proc[w].after => halt[w]
    /\ proc[w].at \in {"remember", "seal"} /\ proc[w].verdict = "APPROVE"
         => w \notin proc[w].after

Stopped == resets = 0 => \A w \in Workers : StoppedOf(w)

StopInv == TypeInv /\ HaltIsDurable /\ Stopped /\ SpentBudgetStopsItsWriter

\* A trip before any reset leaves memory and record agreeing.
LEMMA TripIsDurable ==
    ASSUME TypeOK, NEW p \in Processes, Trip(p), resets = 0, HaltIsDurable
    PROVE  /\ \A q \in Processes : halt'[q] => safety'
           /\ halt'[p] /\ \A q \in Processes : halt[q] => halt'[q]
BY DEF TypeOK, Trip, HaltIsDurable

\* Every step leaves a durable halt durable, and halts last.
LEMMA HaltsLast ==
    ASSUME StopInv, [Next]_vars, resets' = 0
    PROVE  /\ resets = 0
           /\ \A q \in Processes : halt'[q] => safety'
           /\ \A q \in Processes : halt[q] => halt'[q]
<1> Workers \subseteq Processes /\ Readers \subseteq Processes
  BY DEF Processes
<1> TypeOK
  BY DEF StopInv, TypeInv
<1>0. resets \in Nat
  BY DEF TypeOK
<1>1. resets = 0 /\ ~OperatorReset
  <2>1. ~OperatorReset
    BY <1>0 DEF OperatorReset
  <2>2. resets' = resets
    BY <2>1 DEF Next, Step, RecoverWindow, Skip, Observe, Look, RecoverSession, Rebuild,
       TripRecovery, PersistSession, CheckGates, ClaimWindow, Evaluate, RememberDecision, Seal,
       LedgerFails, Crash, ReadLedger, vars, bounds
  <2>3. QED BY <2>1, <2>2
<1>2. \/ UNCHANGED switch
      \/ \E p \in Processes : Trip(p)
      \/ \E w \in Workers : Crash(w)
  BY <1>1 DEF Next, Step, RecoverWindow, Skip, Observe, Look, RecoverSession, TripRecovery,
     PersistSession, CheckGates, ClaimWindow, Evaluate, RememberDecision, Seal, LedgerFails,
     ReadLedger, TripIf, vars
<1>3. CASE UNCHANGED switch
  BY <1>1, <1>3 DEF switch, StopInv, HaltIsDurable
<1>4. ASSUME NEW p \in Processes, Trip(p)
      PROVE  /\ \A q \in Processes : halt'[q] => safety'
             /\ \A q \in Processes : halt[q] => halt'[q]
  BY <1>1, <1>4, TripIsDurable DEF StopInv
<1>5. ASSUME NEW w \in Workers, Crash(w)
      PROVE  /\ \A q \in Processes : halt'[q] => safety'
             /\ \A q \in Processes : halt[q] => halt'[q]
  BY <1>1, <1>5 DEF Crash, TypeOK, StopInv, HaltIsDurable
<1>6. QED BY <1>1, <1>2, <1>3, <1>4, <1>5

\* What a recovery that need not halt finds is not spent.
LEMMA NothingSpent ==
    ASSUME NEW row, NEW equity, NEW open, NEW d, ~MustHalt(row, equity, open, d)
    PROVE  Spent(row, equity, open, d) = {}
BY DEF MustHalt, Spent, Exhausted

\* The halt invariant holds at the start,
LEMMA InitStop == Init => StopInv
BY InitTypes, IdleType DEF Init, StopInv, HaltIsDurable, Stopped, StoppedOf,
   SpentBudgetStopsItsWriter, Idle

\* A worker that did not move is as stopped as before.
LEMMA OthersStayStopped ==
    ASSUME StopInv, NEW v \in Workers, resets = 0,
           halt[v] => halt'[v], UNCHANGED burnt, proc'[v] = proc[v]
    PROVE  StoppedOf(v)'
BY DEF StopInv, Stopped, StoppedOf

\* and every step keeps it.
LEMMA NextStop ==
    ASSUME StopInv, [Next]_vars
    PROVE  StopInv'
<1> Workers \subseteq Processes /\ Readers \subseteq Processes
  BY DEF Processes
<1> TypeInv /\ TypeOK /\ TypeInv'
  BY NextTypes DEF StopInv, TypeInv
<1> SUFFICES ASSUME resets' = 0
             PROVE  /\ \A v \in Workers : StoppedOf(v)'
                    /\ SpentBudgetStopsItsWriter'
  BY HaltsLast DEF StopInv, HaltIsDurable, Stopped, SpentBudgetStopsItsWriter
<1>0. /\ resets = 0 /\ \A q \in Processes : halt'[q] => safety'
      /\ \A v \in Workers : halt[v] => halt'[v]
      /\ \A v \in Workers : StoppedOf(v)
  BY HaltsLast DEF StopInv, Stopped
<1>1. ASSUME NEW w \in Workers, Moves(w), UNCHANGED burnt, StoppedOf(w)'
      PROVE  \A v \in Workers : StoppedOf(v)'
  BY <1>0, <1>1, OthersStayStopped DEF Moves
<1>2. ASSUME UNCHANGED capsules
      PROVE  SpentBudgetStopsItsWriter'
  BY <1>0, <1>2 DEF StopInv, SpentBudgetStopsItsWriter
<1>3. ASSUME NEW w \in Workers, LedgerFails(w) \/ Crash(w)
      PROVE  (\A v \in Workers : StoppedOf(v)') /\ SpentBudgetStopsItsWriter'
  <2>1. UNCHANGED <<burnt, capsules>> /\ proc'[w] = Idle
    BY <1>3 DEF LedgerFails, Crash, history, TypeOK
  <2>2. StoppedOf(w)'
    BY <1>0, <2>1 DEF StoppedOf, Idle
  <2>3. QED BY <1>1, <1>2, <1>3, <2>1, <2>2, WorkerMoves
<1>4. ASSUME NEW w \in Workers, RecoverWindow(w) \/ Skip(w)
      PROVE  (\A v \in Workers : StoppedOf(v)') /\ SpentBudgetStopsItsWriter'
  <2>1. UNCHANGED <<burnt, capsules, proc>>
    BY <1>4 DEF RecoverWindow, Skip, history, vars
  <2>2. StoppedOf(w)'
    BY <1>0, <2>1 DEF StoppedOf
  <2>3. QED BY <1>1, <1>2, <1>4, <2>1, <2>2, WorkerMoves
<1>5. ASSUME NEW w \in Workers, Observe(w)
      PROVE  (\A v \in Workers : StoppedOf(v)') /\ SpentBudgetStopsItsWriter'
  <2>1. UNCHANGED <<burnt, capsules>> /\ proc'[w].at = "recover" /\ proc'[w].after = {}
    BY <1>5 DEF Observe, Look, history, TypeOK, Idle
  <2>2. StoppedOf(w)'
    BY <1>0, <2>1 DEF StoppedOf
  <2>3. QED BY <1>1, <1>2, <1>5, <2>1, <2>2, WorkerMoves
<1>6. ASSUME NEW w \in Workers, RecoverSession(w)
      PROVE  (\A v \in Workers : StoppedOf(v)') /\ SpentBudgetStopsItsWriter'
  <2>1. UNCHANGED <<burnt, capsules, halt>> /\ Rebuild(w)
    BY <1>6 DEF RecoverSession, history, switch
  <2>3. /\ proc'[w].after = SpentBy(MarketDay(w)) /\ proc'[w].at \in {"trip", "persist"}
        /\ proc'[w].at = "persist" => proc'[w].spent = {}
        /\ \A v \in Workers : v # w => proc'[v] = proc[v]
    BY <2>1, RebuildKeeps, NothingSpent
  <2>4. StoppedOf(w)'
    BY <1>0, <2>1, <2>3 DEF StoppedOf, SpentBy
  <2>5. \A v \in Workers : v # w => StoppedOf(v)'
    BY <1>0, <2>1, <2>3, OthersStayStopped
  <2>6. QED BY <1>2, <2>1, <2>4, <2>5
<1>7. ASSUME NEW w \in Workers, TripRecovery(w)
      PROVE  (\A v \in Workers : StoppedOf(v)') /\ SpentBudgetStopsItsWriter'
  <2>1. Trip(w) /\ Goto(w, "persist") /\ "persist" \in Labels /\ UNCHANGED <<burnt, capsules>>
    BY <1>7 DEF TripRecovery, Labels, history
  <2>2. /\ halt'[w] /\ proc'[w].at = "persist"
        /\ \A v \in Workers : v # w => proc'[v] = proc[v]
    BY <2>1, GotoType, TripType
  <2>3. StoppedOf(w)'
    BY <2>2 DEF StoppedOf
  <2>4. \A v \in Workers : v # w => StoppedOf(v)'
    BY <1>0, <2>1, <2>2, OthersStayStopped
  <2>5. QED BY <1>2, <2>1, <2>3, <2>4
<1>8. ASSUME NEW w \in Workers, PersistSession(w)
      PROVE  (\A v \in Workers : StoppedOf(v)') /\ SpentBudgetStopsItsWriter'
  <2>1. /\ UNCHANGED <<capsules, halt>> /\ burnt' = burnt \cup {w} \X proc[w].spent
        /\ proc'[w].at = "gates" /\ proc'[w].after = proc[w].after
        /\ \A v \in Workers : v # w => proc'[v] = proc[v]
        /\ proc[w].at = "persist"
    BY <1>8 DEF PersistSession, At, Idle, switch, TypeOK
  <2>2. StoppedOf(w)'
    BY <1>0, <2>1 DEF StoppedOf
  <2>3. \A v \in Workers : v # w => StoppedOf(v)'
    BY <1>0, <2>1 DEF StoppedOf
  <2>4. QED BY <1>2, <2>1, <2>2, <2>3
<1>9. ASSUME NEW w \in Workers, CheckGates(w) \/ ClaimWindow(w)
      PROVE  (\A v \in Workers : StoppedOf(v)') /\ SpentBudgetStopsItsWriter'
  <2>1. /\ UNCHANGED <<burnt, capsules>>
        /\ \E l \in {"claim", "evaluate"} : Goto(w, l)
    BY <1>9 DEF CheckGates, ClaimWindow, history
  <2>2. proc'[w].at \in {"claim", "evaluate"} /\ proc'[w].after = proc[w].after
    BY <2>1, GotoType DEF Labels
  <2>3. StoppedOf(w)'
    BY <1>0, <2>1, <2>2 DEF StoppedOf
  <2>4. QED BY <1>1, <1>2, <1>9, <2>1, <2>3, WorkerMoves
<1>10. ASSUME NEW w \in Workers, Evaluate(w)
       PROVE  (\A v \in Workers : StoppedOf(v)') /\ SpentBudgetStopsItsWriter'
  <2>1. UNCHANGED <<burnt, capsules>>
    BY <1>10 DEF Evaluate, history
  <2>2. /\ proc'[w].at # "persist"
        /\ proc'[w].after = proc[w].after \/ proc'[w].after = {}
        /\ proc'[w].at \in {"remember", "seal"} /\ proc'[w].verdict = "APPROVE" => ~halt[w]
    BY <1>10 DEF Evaluate, RiskPasses, Idle, TypeOK, Locals
  <2>3. StoppedOf(w)'
    BY <1>0, <2>1, <2>2 DEF StoppedOf
  <2>4. QED BY <1>1, <1>2, <1>10, <2>1, <2>3, WorkerMoves
<1>11. ASSUME NEW w \in Workers, RememberDecision(w)
       PROVE  (\A v \in Workers : StoppedOf(v)') /\ SpentBudgetStopsItsWriter'
  <2>1. UNCHANGED <<burnt, capsules>> /\ Goto(w, "seal") /\ "seal" \in Labels /\ At(w, "remember")
    BY <1>11 DEF RememberDecision, history, Labels
  <2>2. /\ proc'[w].at = "seal" /\ proc'[w].after = proc[w].after
        /\ proc'[w].verdict = proc[w].verdict
    BY <2>1, GotoType
  <2>3. StoppedOf(w)'
    BY <1>0, <2>1, <2>2 DEF StoppedOf, At
  <2>4. QED BY <1>1, <1>2, <1>11, <2>1, <2>3, WorkerMoves
<1>12. ASSUME NEW w \in Workers, Seal(w)
       PROVE  (\A v \in Workers : StoppedOf(v)') /\ SpentBudgetStopsItsWriter'
  <2>1. UNCHANGED burnt /\ proc'[w] = Idle /\ proc[w].at = "seal"
    BY <1>12 DEF Seal, At, TypeOK
  <2>2. StoppedOf(w)'
    BY <1>0, <2>1 DEF StoppedOf, Idle
  <2> DEFINE new == [by |-> w, bar |-> proc[w].bar, tick |-> proc[w].tick,
                     after |-> proc[w].after, approved |-> proc[w].verdict = "APPROVE"]
  <2>3. capsules' \subseteq capsules \cup {new}
    BY <1>12 DEF Seal
  <2>4. new.approved => new.by \notin new.after
    BY <1>0, <2>1 DEF StoppedOf
  <2> HIDE DEF new
  <2>5. SpentBudgetStopsItsWriter'
    BY <1>0, <2>3, <2>4 DEF StopInv, SpentBudgetStopsItsWriter
  <2>6. QED BY <1>1, <1>12, <2>1, <2>2, <2>5, WorkerMoves
<1>13. ASSUME NEW r \in Readers, ReadLedger(r)
       PROVE  (\A v \in Workers : StoppedOf(v)') /\ SpentBudgetStopsItsWriter'
  <2>1. UNCHANGED <<burnt, capsules, proc>>
    BY <1>13 DEF ReadLedger
  <2>2. QED BY <1>0, <1>2, <2>1, OthersStayStopped
<1>14. CASE OperatorReset
  <2>1. resets \in Nat
    BY DEF TypeOK
  <2>2. QED BY <1>0, <1>14, <2>1 DEF OperatorReset
<1>15. CASE UNCHANGED vars
  <2>1. UNCHANGED <<burnt, capsules, proc>>
    BY <1>15 DEF vars, history
  <2>2. QED BY <1>0, <1>2, <2>1, OthersStayStopped
<1>16. QED
  BY <1>3, <1>4, <1>5, <1>6, <1>7, <1>8, <1>9, <1>10, <1>11, <1>12, <1>13, <1>14, <1>15
  DEF Next, Step

\* Until an operator resets, a worker that has found a budget spent approves
\* nothing while that budget binds, through crashes, restarts and failures.
THEOREM WriterStaysStopped == Spec => []SpentBudgetStopsItsWriter
<1>1. StopInv => SpentBudgetStopsItsWriter
  BY DEF StopInv
<1>2. QED BY <1>1, InitStop, NextStop, PTL DEF Spec

------------------------------------------------------------------------------
(* The window.                                                             *)

Mine(w) == {c \in capsules : c.by = w /\ c.approved}

\* Where worker w and its durable window stand to the bars it has approved.  A
\* worker that could not read its window knows nothing of them and is halted.
OnceOf(w) ==
    /\ proc[w].at # "idle" => mem[w].recovered /\ proc[w].bar <= bar
    /\ proc[w].at \in {"evaluate", "remember", "seal"}
         => mem[w].last = proc[w].bar /\ window[w].last = proc[w].bar
    /\ \A c \in Mine(w) :
        /\ c.bar <= bar /\ c.bar <= window[w].last
        /\ mem[w].recovered /\ ~halt[w] => c.bar <= mem[w].last
        /\ proc[w].at # "idle" => c.bar <= proc[w].bar
        /\ proc[w].at \notin {"idle", "remember", "seal"} /\ ~halt[w] => c.bar < proc[w].bar
        /\ proc[w].at \in {"remember", "seal"} /\ proc[w].verdict = "APPROVE"
             => c.bar < proc[w].bar

Once == \A w \in Workers : OnceOf(w)

OnceInv == TypeInv /\ Once /\ NoBarApprovedTwice

\* What a worker's approved capsule carries.
LEMMA CapsuleBar ==
    ASSUME TypeOK, NEW w \in Workers, NEW c \in Mine(w)
    PROVE  c.bar \in Nat /\ c.by = w /\ c.approved /\ c \in capsules
BY DEF TypeOK, Mine, Capsules

\* The window invariant holds at the start,
LEMMA InitOnce == Init => OnceInv
BY InitTypes, IdleType DEF Init, OnceInv, Once, OnceOf, Mine, NoBarApprovedTwice

\* A worker that did not move stands where it stood; bars only go on.
LEMMA OthersStand ==
    ASSUME OnceInv, NEW v \in Workers, bar' \in Nat, bar <= bar',
           Mine(v)' = Mine(v), proc'[v] = proc[v], mem'[v] = mem[v],
           window'[v] = window[v], halt[v] => halt'[v]
    PROVE  OnceOf(v)'
<1>1. /\ bar \in Nat
      /\ proc[v].at # "idle" => proc[v].bar \in Nat
      /\ \A c \in Mine(v) : c.bar \in Nat
  BY CapsuleBar DEF OnceInv, TypeInv, TypeOK, Ready
<1>2. OnceOf(v)
  BY DEF OnceInv, Once
<1>3. QED BY <1>1, <1>2 DEF OnceOf

\* and every step keeps it.
LEMMA NextOnce ==
    ASSUME OnceInv, [Next]_vars
    PROVE  OnceInv'
<1> Workers \subseteq Processes /\ Readers \subseteq Processes
  BY DEF Processes
<1> TypeInv /\ TypeOK /\ TypeInv'
  BY NextTypes DEF OnceInv, TypeInv
<1> SUFFICES Once' /\ NoBarApprovedTwice'
  BY DEF OnceInv
<1>0. /\ \A v \in Workers : OnceOf(v)
      /\ bar \in Nat /\ bar' \in Nat
      /\ \A v \in Workers : proc[v].at # "idle" => proc[v].bar \in Nat
      /\ \A v \in Workers : mem[v].last \in Nat /\ window[v].last \in Nat
      /\ \A v \in Workers : \A c \in Mine(v) : c.bar \in Nat
  <2>1. bar \in Nat /\ bar' \in Nat
    BY DEF TypeInv, TypeOK
  <2>2. \A v \in Workers : proc[v].at # "idle" => proc[v].bar \in Nat
    BY DEF TypeInv, Ready
  <2>3. \A v \in Workers : mem[v].last \in Nat /\ window[v].last \in Nat
    BY DEF TypeOK, Windows
  <2>4. QED BY <2>1, <2>2, <2>3, CapsuleBar DEF OnceInv, Once
<1>1. ASSUME UNCHANGED capsules
      PROVE  NoBarApprovedTwice' /\ \A v \in Workers : Mine(v)' = Mine(v)
  BY <1>1 DEF OnceInv, NoBarApprovedTwice, Mine
<1>2. ASSUME NEW w \in Workers, UNCHANGED capsules, bar <= bar', OnceOf(w)',
             \A v \in Workers : v # w => /\ proc'[v] = proc[v] /\ mem'[v] = mem[v]
                                         /\ window'[v] = window[v] /\ halt'[v] = halt[v]
      PROVE  Once' /\ NoBarApprovedTwice'
  BY <1>0, <1>1, <1>2, OthersStand DEF Once
<1>3. ASSUME NEW w \in Workers, RecoverWindow(w)
      PROVE  Once' /\ NoBarApprovedTwice'
  <2>1. /\ UNCHANGED <<capsules, bar, proc, window>> /\ proc[w].at = "idle"
        /\ \A v \in Workers : v # w => mem'[v] = mem[v]
        /\ Trip(w) \/ UNCHANGED switch
    BY <1>3 DEF RecoverWindow, At, world, history, TypeOK
  <2>2. \A v \in Workers : v # w => halt'[v] = halt[v]
    BY <2>1, TripMoves
  <2>3. mem'[w].last = window[w].last \/ halt'[w]
    <3>1. CASE Trip(w)
      BY <3>1, TripType
    <3>2. CASE mem' = [mem EXCEPT ![w] = [window[w] EXCEPT !.recovered = TRUE]]
      BY <3>2 DEF TypeOK, Windows
    <3>3. QED BY <1>3, <3>1, <3>2 DEF RecoverWindow
  <2>4. OnceOf(w)'
    BY <1>0, <1>1, <2>1, <2>3 DEF OnceOf
  <2>5. QED BY <1>0, <1>2, <2>1, <2>2, <2>4
<1>4. ASSUME NEW w \in Workers, Observe(w)
      PROVE  Once' /\ NoBarApprovedTwice'
  <2>1. /\ UNCHANGED <<capsules, mem, window, halt>> /\ mem[w].recovered
        /\ bar <= bar' /\ mem[w].last < bar'
        /\ proc'[w].at = "recover" /\ proc'[w].bar = bar'
        /\ \A v \in Workers : v # w => proc'[v] = proc[v]
    BY <1>4 DEF Observe, Look, history, switch, TypeOK, Idle
  <2>2. OnceOf(w)'
    BY <1>0, <1>1, <2>1 DEF OnceOf
  <2>3. QED BY <1>2, <2>1, <2>2
<1>5. ASSUME NEW w \in Workers, RecoverSession(w) \/ TripRecovery(w) \/ PersistSession(w)
                                \/ CheckGates(w)
      PROVE  Once' /\ NoBarApprovedTwice'
  <2>1. /\ UNCHANGED <<capsules, mem, window, bar>>
        /\ Trip(w) \/ UNCHANGED switch
    BY <1>5 DEF RecoverSession, TripRecovery, PersistSession, CheckGates, TripIf, world, history
  <2>2. /\ \A v \in Workers : v # w => halt'[v] = halt[v]
        /\ halt[w] => halt'[w]
    BY <2>1, TripMoves, TripType DEF switch
  <2>3. /\ \A v \in Workers : v # w => proc'[v] = proc[v]
        /\ proc[w].at \in {"recover", "trip", "persist", "gates"}
        /\ proc'[w].at \in {"trip", "persist", "gates", "claim"}
        /\ proc'[w].bar = proc[w].bar
    <3>1. CASE RecoverSession(w)
      BY <3>1, RebuildKeeps DEF RecoverSession, At
    <3>2. CASE TripRecovery(w)
      BY <3>2, GotoType DEF TripRecovery, At, Labels
    <3>3. CASE PersistSession(w)
      BY <3>3 DEF PersistSession, At, TypeOK, Idle
    <3>4. CASE CheckGates(w)
      BY <3>4, GotoType DEF CheckGates, At, Labels
    <3>5. QED BY <1>5, <3>1, <3>2, <3>3, <3>4
  <2>4. OnceOf(w)'
    BY <1>0, <1>1, <2>1, <2>2, <2>3 DEF OnceOf
  <2>5. QED BY <1>0, <1>2, <2>1, <2>2, <2>3, <2>4
<1>6. ASSUME NEW w \in Workers, LedgerFails(w) \/ Crash(w)
      PROVE  Once' /\ NoBarApprovedTwice'
  <2>1. /\ UNCHANGED <<capsules, window, bar>> /\ proc'[w] = Idle
        /\ \A v \in Workers : v # w => proc'[v] = proc[v] /\ mem'[v] = mem[v]
        /\ \/ UNCHANGED mem /\ (halt[w] => halt'[w])
           \/ mem'[w] = NewMem
    BY <1>6, TripType DEF LedgerFails, Crash, world, history, TypeOK
  <2>2. \A v \in Workers : v # w => halt'[v] = halt[v]
    BY <1>6, WorkerMoves DEF Moves
  <2>3. OnceOf(w)'
    BY <1>0, <1>1, <2>1, IdleType DEF OnceOf, NewMem
  <2>4. QED BY <1>0, <1>2, <2>1, <2>2, <2>3
<1>7. ASSUME NEW w \in Workers, ClaimWindow(w)
      PROVE  Once' /\ NoBarApprovedTwice'
  <2>1. /\ UNCHANGED <<capsules, bar, halt>> /\ proc[w].at = "claim"
        /\ mem'[w].last = proc[w].bar /\ mem'[w].recovered = mem[w].recovered
        /\ window'[w].last = proc[w].bar
        /\ \A v \in Workers : v # w => mem'[v] = mem[v] /\ window'[v] = window[v]
        /\ Goto(w, "evaluate") /\ "evaluate" \in Labels
    BY <1>7 DEF ClaimWindow, At, world, history, switch, TypeOK, Windows, Labels
  <2>2. /\ proc'[w].at = "evaluate" /\ proc'[w].bar = proc[w].bar
        /\ \A v \in Workers : v # w => proc'[v] = proc[v]
    BY <2>1, GotoType
  <2>3. OnceOf(w)'
    BY <1>0, <1>1, <2>1, <2>2 DEF OnceOf
  <2>4. QED BY <1>0, <1>2, <2>1, <2>2, <2>3
<1>8. ASSUME NEW w \in Workers, Evaluate(w)
      PROVE  Once' /\ NoBarApprovedTwice'
  <2>1. /\ UNCHANGED <<capsules, bar, mem, window>> /\ proc[w].at = "evaluate"
        /\ Trip(w) \/ UNCHANGED switch
    BY <1>8 DEF Evaluate, TripIf, At, world, history
  <2>2. /\ \A v \in Workers : v # w => halt'[v] = halt[v]
        /\ halt[w] => halt'[w]
    BY <2>1, TripMoves, TripType DEF switch
  <2>3. /\ \A v \in Workers : v # w => proc'[v] = proc[v]
        /\ proc'[w].at \in {"idle", "remember", "seal"}
        /\ proc'[w].at # "idle" => proc'[w].bar = proc[w].bar
        /\ proc'[w].at # "idle" /\ proc'[w].verdict = "APPROVE" => ~halt[w]
    BY <1>8 DEF Evaluate, RiskPasses, Idle, TypeOK, Locals
  <2>4. OnceOf(w)'
    BY <1>0, <1>1, <2>1, <2>2, <2>3 DEF OnceOf
  <2>5. QED BY <1>0, <1>2, <2>1, <2>2, <2>3, <2>4
<1>9. ASSUME NEW w \in Workers, RememberDecision(w)
      PROVE  Once' /\ NoBarApprovedTwice'
  <2>1. /\ UNCHANGED <<capsules, bar, halt>> /\ proc[w].at = "remember"
        /\ mem'[w].last = mem[w].last /\ mem'[w].recovered = mem[w].recovered
        /\ window'[w].last = mem[w].last
        /\ \A v \in Workers : v # w => mem'[v] = mem[v] /\ window'[v] = window[v]
        /\ Goto(w, "seal") /\ "seal" \in Labels
    BY <1>9 DEF RememberDecision, At, world, history, switch, TypeOK, Windows, Labels
  <2>2. /\ proc'[w].at = "seal" /\ proc'[w].bar = proc[w].bar
        /\ proc'[w].verdict = proc[w].verdict
        /\ \A v \in Workers : v # w => proc'[v] = proc[v]
    BY <2>1, GotoType
  <2>3. OnceOf(w)'
    BY <1>0, <1>1, <2>1, <2>2 DEF OnceOf
  <2>4. QED BY <1>0, <1>2, <2>1, <2>2, <2>3
<1>10. ASSUME NEW w \in Workers, Seal(w)
       PROVE  Once' /\ NoBarApprovedTwice'
  <2> DEFINE new == [by |-> w, bar |-> proc[w].bar, tick |-> proc[w].tick,
                     after |-> proc[w].after, approved |-> proc[w].verdict = "APPROVE"]
  <2>1. /\ UNCHANGED <<bar, mem, window, halt>> /\ proc[w].at = "seal" /\ proc'[w] = Idle
        /\ \A v \in Workers : v # w => proc'[v] = proc[v]
        /\ capsules' \subseteq capsules \cup {new}
        /\ capsules \subseteq capsules'
    BY <1>10 DEF Seal, At, world, switch, TypeOK
  <2>2. /\ new.by = w /\ new.bar = proc[w].bar
        /\ new.approved => \A c \in Mine(w) : c.bar < new.bar
    BY <1>0, <2>1 DEF OnceOf
  <2> HIDE DEF new
  <2>3. \A v \in Workers : v # w => Mine(v)' = Mine(v)
    BY <2>1, <2>2 DEF Mine
  <2>4. Mine(w)' \subseteq Mine(w) \cup {new}
    BY <2>1 DEF Mine
  <2>5. OnceOf(w)'
    <3>1. /\ mem[w].last = proc[w].bar /\ window[w].last = proc[w].bar /\ proc[w].bar <= bar
          /\ \A c \in Mine(w) : c.bar <= bar /\ c.bar <= proc[w].bar
      BY <1>0, <2>1 DEF OnceOf
    <3>2. \A c \in Mine(w)' : c.bar <= bar /\ c.bar <= proc[w].bar
      BY <1>0, <2>1, <2>2, <2>4, <3>1
    <3>3. QED BY <2>1, <3>1, <3>2, IdleType DEF OnceOf
  <2>6. \A v \in Workers : v # w => OnceOf(v)'
    BY <1>0, <2>1, <2>3, OthersStand
  <2>7. NoBarApprovedTwice'
    <3> SUFFICES ASSUME NEW one \in capsules', NEW other \in capsules',
                        one.approved, other.approved, one.by = other.by, one.bar = other.bar
                 PROVE  one = other
      BY DEF NoBarApprovedTwice
    <3>1. ASSUME NEW c \in capsules, c.approved, c.by = w, new.approved, c.bar = new.bar
          PROVE  FALSE
      <4>1. c \in Mine(w)
        BY <3>1 DEF Mine
      <4>2. QED BY <1>0, <2>1, <2>2, <3>1, <4>1
    <3>2. QED BY <2>1, <2>2, <3>1 DEF OnceInv, NoBarApprovedTwice
  <2>8. QED BY <2>5, <2>6, <2>7 DEF Once
<1>11. ASSUME NEW r \in Readers, ReadLedger(r)
       PROVE  Once' /\ NoBarApprovedTwice'
  <2>1. UNCHANGED <<bar, capsules, mem, window, proc>> /\ (Trip(r) \/ UNCHANGED switch)
    BY <1>11 DEF ReadLedger, world
  <2>2. \A v \in Workers : halt'[v] = halt[v]
    BY <2>1, TripMoves
  <2>3. QED BY <1>0, <1>1, <2>1, <2>2, OthersStand DEF Once
<1>12. CASE OperatorReset \/ UNCHANGED vars \/ \E w \in Workers : Skip(w)
  <2>1. UNCHANGED <<bar, capsules, mem, window, proc, halt>>
    BY <1>12 DEF OperatorReset, Skip, vars, world, history, switch
  <2>2. QED BY <1>0, <1>1, <2>1, OthersStand DEF Once
<1>13. QED
  BY <1>3, <1>4, <1>5, <1>6, <1>7, <1>8, <1>9, <1>10, <1>11, <1>12 DEF Next, Step

\* No worker approves a bar twice, through crashes, restarts, unreadable
\* windows and operator resets.
THEOREM BarIsApprovedOnce == Spec => []NoBarApprovedTwice
<1>1. OnceInv => NoBarApprovedTwice
  BY DEF OnceInv
<1>2. QED BY <1>1, InitOnce, NextOnce, PTL DEF Spec
==============================================================================
