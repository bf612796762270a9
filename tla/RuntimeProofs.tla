---------------------------- MODULE RuntimeProofs ----------------------------
(***************************************************************************)
(* Proofs about the two modules of the runtime that starts on a durable    *)
(* safety state: Replay, for any series, ticks, budgets, broker's limits   *)
(* and number of runs over the same stores, and HostSafety, for any number *)
(* of processes, saves, faults and boots.  Replay's definitions carry its  *)
(* name where HostSafety has the same one, so that one module extends both.*)
(***************************************************************************)
EXTENDS HostSafety, Replay, WellFoundedInduction, TLAPS

------------------------------------------------------------------------------
(* Replay: the inductive invariant                                         *)

RunFields == {"at", "n", "then", "book", "ledger", "day", "key", "halted", "orders", "intents",
              "seen", "pending", "ticks", "window"}

Sides == {"BUY", "SELL"}

BrokerTicks == [bar : Nat, mid : Int, low : Int, high : Int, week : Int \cup {None}, applied : BOOLEAN]

Positions == [ticket : Nat, side : Sides, volume : Int, entry : Int, stop : Int, target : Int,
              bar : Nat, week : Int \cup {None}]

Trades == [ticket : Nat, bar : Nat, by : Nat \cup {Absent}, profit : Int]

BrokerBooks == [open : Seq(Positions), closed : Seq(Trades), balance : Int,
          tick : BrokerTicks \cup {Absent}, ranges : {{}}, tickets : Nat]

IntPairs == Int \X Int

EquityLedgers == [start : Int, current : Int, peak : Int, drawdown : IntPairs, loss : IntPairs]

Rows == [ledger : EquityLedgers, day : Int, open : Nat, valued : BOOLEAN]

Deciding == {"supervise", "execute", "seal"}

\* Where a run goes on when it has tripped the switch.
Returns == {"account", "seal", "boundary", "persist"}

\* A run that is under way.
Running ==
    /\ DOMAIN run = RunFields /\ run.at # "off"
    /\ run.n \in Nat /\ run.n <= Len(times) /\ run.n <= Len(series)
    /\ run.book \in BrokerBooks /\ run.ledger \in EquityLedgers
    /\ run.key \in Keys \cup {None}
    /\ run.at # "tick" => run.n # 0
    /\ run.n # 0 => run.book.tick \in BrokerTicks
    /\ run.n = 0 \/ At("recover") \/ run.day \in Int
    /\ At("flush") => run.then \in Returns

\* What the run has in memory and what is on record of the session.
ReplayTypes ==
    /\ times \in Timelines /\ series \in Seq(Ticks)
    /\ row = NoRecord \/ row \in Rows
    /\ run = Off \/ Running

\* The events of a window stay together in memory until they are written with
\* its capsule, or with the halt that it led to.
Stages(label) ==
    CASE label = "supervise" -> {"SIGNAL", "INTENT", "RISK"}
      [] label = "execute" -> {"SIGNAL", "INTENT", "RISK", "SUPERVISOR"}
      [] OTHER -> {}

HasStage(stage) == \E e \in run.pending : e.type = stage

StageNames == {"SIGNAL", "INTENT", "RISK", "SUPERVISOR", "CHECK", "SUBMITTED"}

PendingIsOfTheWindow ==
    At("off") \/
        /\ \A e \in run.pending : e.window = run.n
        /\ run.at \in {"tick", "recover", "account", "decide", "gates", "boundary", "persist"}
              => run.pending = {}
        /\ At("flush") => HasStage("HALT")
        /\ \A stage \in Stages(run.at) : HasStage(stage)
        /\ HasStage("RESULT") => \A stage \in StageNames : HasStage(stage)

CapsuleFields == {"window", "intent", "risk", "supervisor", "filled"}

\* The capsule that is being filled is of the window.
WindowIsOpen ==
    run.at \in Deciding \/ (At("flush") /\ run.then = "seal") =>
        DOMAIN run.window = CapsuleFields /\ run.window.window = run.n

CommitInv == PendingIsOfTheWindow /\ WindowIsOpen /\ WindowsCommitOnce

\* The key in memory is of the record.
KeyIsOnRecord ==
    /\ run.at # "off" /\ run.key # None =>
        /\ row.day = run.key[1] /\ row.ledger.start = run.key[2]
        /\ row.ledger.drawdown = run.key[3] /\ row.ledger.loss = run.key[4]
        /\ row.open = run.key[5]
    /\ At("tick") /\ run.n # 0 => run.key # None /\ run.key = Key(State)

\* What risk has granted to the window is still so when it is executed.
GrantHolds ==
    run.at \in {"supervise", "execute"} =>
        LET intent == run.window.intent
            distance == StopDistance(intent)
            open == run.book.open
            equity == Equity(run.book)
            openRisk == OpenRisk(open, equity)
        IN /\ ~run.window.filled
           /\ intent.side \in Sides
           /\ intent.entry = IF intent.side = "BUY" THEN Ask(run.book.tick) ELSE Bid(run.book.tick)
           /\ intent.stop \in Int /\ intent.target \in Int /\ distance > 0
           /\ openRisk # None /\ ~Over(Plus(openRisk, MaxRiskPerTrade), MaxOpenRisk)
           /\ run.window.risk.volume # None
           /\ run.window.risk.volume = SizePosition(equity, MaxRiskPerTrade, distance)

IInv == ReplayTypes /\ CommitInv /\ KeyIsOnRecord /\ GrantHolds

------------------------------------------------------------------------------
(* Sums                                                                    *)

\* A set with 0 that is closed under the successor holds every number.
LEMMA SetInduction ==
    ASSUME NEW S, 0 \in S, \A n \in Nat : n \in S => n + 1 \in S
    PROVE  \A n \in Nat : n \in S
<1> DEFINE T == {n \in Nat : n \notin S}
<1> SUFFICES ASSUME T # {} PROVE FALSE
  OBVIOUS
<1>1. PICK m \in T : \A k \in T : ~(<<k, m>> \in OpToRel(<, Nat))
  BY NatLessThanWellFounded, WFMin
<1>2. \A k \in T : ~(k < m)
  BY <1>1 DEF OpToRel
<1>3. m # 0 /\ m - 1 \in Nat
  OBVIOUS
<1>4. m - 1 \in S
  BY <1>2, <1>3
<1>5. QED BY <1>3, <1>4

\* The sums of the first numbers of a sequence, up to k of them.
Adds(s, k, g) == g = [n \in 0..k |-> IF n = 0 THEN 0 ELSE g[n - 1] + s[n]]

\* There are such sums, for as many numbers as are wanted.
LEMMA AddsExist == ASSUME NEW s PROVE \A k \in Nat : \E g : Adds(s, k, g)
<1> DEFINE S == {k \in Nat : \E g : Adds(s, k, g)}
<1>1. 0 \in S
  <2> DEFINE g == [n \in 0..0 |-> 0]
  <2>1. g = [n \in 0..0 |-> IF n = 0 THEN 0 ELSE g[n - 1] + s[n]]
    OBVIOUS
  <2> HIDE DEF g
  <2>2. QED BY <2>1 DEF Adds
<1>2. ASSUME NEW k \in Nat, k \in S PROVE k + 1 \in S
  <2>1. PICK g : Adds(s, k, g)
    BY <1>2
  <2> DEFINE h == [n \in 0..(k + 1) |-> IF n = k + 1 THEN g[k] + s[k + 1] ELSE g[n]]
             def == [n \in 0..(k + 1) |-> IF n = 0 THEN 0 ELSE h[n - 1] + s[n]]
  <2>2. ASSUME NEW n \in 0..(k + 1) PROVE h[n] = def[n]
    <3>1. CASE n = k + 1
      <4>1. n # 0 /\ n - 1 = k /\ k \in 0..(k + 1) /\ k # k + 1
        BY <3>1
      <4>2. h[k] = g[k]
        BY <4>1
      <4>3. h[n] = g[k] + s[k + 1]
        BY <3>1
      <4>4. QED BY <3>1, <4>1, <4>2, <4>3
    <3>2. CASE n \in 0..k
      <4>1. g[n] = IF n = 0 THEN 0 ELSE g[n - 1] + s[n]
        BY <2>1, <3>2 DEF Adds
      <4>2. h[n] = g[n] /\ (n # 0 => h[n - 1] = g[n - 1])
        BY <3>2
      <4> HIDE DEF h
      <4>3. QED BY <3>2, <4>1, <4>2
    <3>3. QED BY <3>1, <3>2
  <2>3. h = def
    BY <2>2
  <2> HIDE DEF h
  <2>4. Adds(s, k + 1, h)
    BY <2>3 DEF Adds
  <2>5. QED BY <2>4
<1> HIDE DEF S
<1>3. \A k \in Nat : k \in S
  BY <1>1, <1>2, SetInduction
<1>4. QED BY <1>3 DEF S

\* The total of some integers is the last of their sums, which are integers.
LEMMA TotalIsTheLast ==
    ASSUME NEW s \in Seq(Int)
    PROVE  \E g \in [0..Len(s) -> Int] :
              /\ Total(s) = g[Len(s)] /\ g[0] = 0
              /\ \A n \in 1..Len(s) : g[n] = g[n - 1] + s[n]
<1> DEFINE k == Len(s)
           g == CHOOSE g : Adds(s, k, g)
<1>1. k \in Nat /\ \A n \in 1..k : s[n] \in Int
  OBVIOUS
<1>2. Adds(s, k, g)
  BY <1>1, AddsExist
<1>3. Total(s) = g[k]
  BY DEF Total, Adds
<1> HIDE DEF g, k
<1>4. \A n \in 0..k : g[n] = IF n = 0 THEN 0 ELSE g[n - 1] + s[n]
  BY <1>2 DEF Adds
<1> DEFINE S == {n \in Nat : n <= k => g[n] \in Int}
<1>5. 0 \in S
  BY <1>1, <1>4
<1>6. ASSUME NEW n \in Nat, n \in S PROVE n + 1 \in S
  <2>1. CASE n + 1 <= k
    <3>1. n + 1 \in 0..k /\ n + 1 # 0 /\ (n + 1) - 1 = n /\ n + 1 \in 1..k /\ g[n] \in Int
      BY <1>1, <1>6, <2>1
    <3>2. g[n + 1] = g[n] + s[n + 1]
      BY <1>4, <3>1
    <3>3. QED BY <1>1, <3>1, <3>2
  <2>2. QED BY <2>1
<1> HIDE DEF S
<1>7. \A n \in Nat : n \in S
  BY <1>5, <1>6, SetInduction
<1>8. \A n \in 0..k : g[n] \in Int
  BY <1>1, <1>7 DEF S
<1>9. g \in [0..k -> Int]
  BY <1>2, <1>8 DEF Adds
<1>10. g[0] = 0 /\ \A n \in 1..k : g[n] = g[n - 1] + s[n]
  <2>1. 0 \in 0..k /\ \A n \in 1..k : n \in 0..k /\ n # 0
    BY <1>1
  <2>2. QED BY <1>4, <2>1
<1>11. QED BY <1>3, <1>9, <1>10 DEF k

\* The total of integers is one.
LEMMA TotalIsInt == ASSUME NEW s \in Seq(Int) PROVE Total(s) \in Int
<1>1. Len(s) \in 0..Len(s)
  OBVIOUS
<1>2. QED BY <1>1, TotalIsTheLast

\* One more number is added to the total of the others.
LEMMA TotalAppend ==
    ASSUME NEW s \in Seq(Int), NEW x \in Int
    PROVE  Total(Append(s, x)) = Total(s) + x
<1> DEFINE t == Append(s, x)
           k == Len(s)
<1>1. /\ k \in Nat /\ t \in Seq(Int) /\ Len(t) = k + 1 /\ t[k + 1] = x
      /\ \A i \in 1..k : t[i] = s[i]
  OBVIOUS
<1> HIDE DEF t
<1>2. PICK g \in [0..k -> Int] : /\ Total(s) = g[k] /\ g[0] = 0
                                 /\ \A n \in 1..k : g[n] = g[n - 1] + s[n]
  BY TotalIsTheLast
<1>3. PICK h \in [0..(k + 1) -> Int] : /\ Total(t) = h[k + 1] /\ h[0] = 0
                                       /\ \A n \in 1..(k + 1) : h[n] = h[n - 1] + t[n]
  <2>1. \E h \in [0..Len(t) -> Int] : /\ Total(t) = h[Len(t)] /\ h[0] = 0
                                       /\ \A n \in 1..Len(t) : h[n] = h[n - 1] + t[n]
    BY <1>1, TotalIsTheLast
  <2> HIDE DEF k
  <2>2. QED BY <1>1, <2>1
<1> HIDE DEF k
<1> DEFINE S == {n \in Nat : n <= k => h[n] = g[n]}
<1>4. 0 \in S
  BY <1>2, <1>3
<1>5. ASSUME NEW n \in Nat, n \in S PROVE n + 1 \in S
  <2>1. CASE n + 1 <= k
    <3>1. n + 1 \in 1..k /\ n + 1 \in 1..(k + 1) /\ (n + 1) - 1 = n /\ h[n] = g[n]
      BY <1>1, <1>5, <2>1
    <3>2. h[n + 1] = h[n] + t[n + 1] /\ g[n + 1] = g[n] + s[n + 1]
      BY <1>2, <1>3, <3>1
    <3>3. t[n + 1] = s[n + 1]
      BY <1>1, <3>1
    <3>4. h[n + 1] = g[n + 1]
      BY <3>1, <3>2, <3>3
    <3>5. QED BY <3>4
  <2>2. QED BY <2>1
<1> HIDE DEF S
<1>6. k \in S
  BY <1>1, <1>4, <1>5, SetInduction
<1>7. h[k] = g[k]
  BY <1>1, <1>6 DEF S
<1>8. h[k + 1] = h[k] + t[k + 1]
  BY <1>1, <1>3
<1>9. QED BY <1>1, <1>2, <1>3, <1>7, <1>8 DEF t

\* What the first k positions keep, one after the other.
Keeps(s, set, k, g) ==
    g = [n \in 0..k |-> IF n = 0 THEN <<>>
                        ELSE IF s[n] \in set THEN Append(g[n - 1], s[n]) ELSE g[n - 1]]

\* It is always defined.
LEMMA KeepsExist == ASSUME NEW s, NEW set PROVE \A k \in Nat : \E g : Keeps(s, set, k, g)
<1> DEFINE S == {k \in Nat : \E g : Keeps(s, set, k, g)}
           Next1(b, n) == IF s[n] \in set THEN Append(b, s[n]) ELSE b
<1>1. 0 \in S
  <2> DEFINE g == [n \in 0..0 |-> <<>>]
  <2>1. g = [n \in 0..0 |-> IF n = 0 THEN <<>> ELSE Next1(g[n - 1], n)]
    OBVIOUS
  <2> HIDE DEF g
  <2>2. QED BY <2>1 DEF Keeps
<1>2. ASSUME NEW k \in Nat, k \in S PROVE k + 1 \in S
  <2>1. PICK g : Keeps(s, set, k, g)
    BY <1>2
  <2>2. \A n \in 0..k : g[n] = IF n = 0 THEN <<>> ELSE Next1(g[n - 1], n)
    BY <2>1 DEF Keeps
  <2> HIDE DEF Next1
  <2> DEFINE h == [n \in 0..(k + 1) |-> IF n = k + 1 THEN Next1(g[k], k + 1) ELSE g[n]]
             def == [n \in 0..(k + 1) |-> IF n = 0 THEN <<>> ELSE Next1(h[n - 1], n)]
  <2>3. ASSUME NEW n \in 0..(k + 1) PROVE h[n] = def[n]
    <3>1. CASE n = k + 1
      <4>1. n # 0 /\ n - 1 = k /\ k \in 0..(k + 1) /\ k # k + 1
        BY <3>1
      <4>2. h[k] = g[k]
        BY <4>1
      <4>3. h[n] = Next1(g[k], k + 1)
        BY <3>1
      <4>4. QED BY <3>1, <4>1, <4>2, <4>3
    <3>2. CASE n \in 0..k
      <4>1. g[n] = IF n = 0 THEN <<>> ELSE Next1(g[n - 1], n)
        BY <2>2, <3>2
      <4>2. h[n] = g[n] /\ (n # 0 => h[n - 1] = g[n - 1])
        BY <3>2
      <4> HIDE DEF h
      <4>3. QED BY <3>2, <4>1, <4>2
    <3>3. QED BY <3>1, <3>2
  <2>4. h = def
    BY <2>3
  <2> HIDE DEF h
  <2>5. Keeps(s, set, k + 1, h)
    BY <2>4 DEF Keeps, Next1
  <2>6. QED BY <2>5
<1> HIDE DEF S
<1>3. \A k \in Nat : k \in S
  BY <1>1, <1>2, SetInduction
<1>4. QED BY <1>3 DEF S

\* What is kept of some positions are such positions.
LEMMA AmongThem ==
    ASSUME NEW P, NEW s \in Seq(P), NEW set
    PROVE  Among(s, set) \in Seq(P)
<1> DEFINE k == Len(s)
           g == CHOOSE g : Keeps(s, set, k, g)
<1>1. k \in Nat /\ \A n \in 1..k : s[n] \in P
  OBVIOUS
<1>2. Keeps(s, set, k, g)
  BY <1>1, KeepsExist
<1>3. Among(s, set) = g[k]
  BY DEF Among, Keeps
<1> HIDE DEF g, k
<1>4. \A n \in 0..k : g[n] = IF n = 0 THEN <<>>
                               ELSE IF s[n] \in set THEN Append(g[n - 1], s[n]) ELSE g[n - 1]
  BY <1>2 DEF Keeps
<1> DEFINE S == {n \in Nat : n <= k => g[n] \in Seq(P)}
<1>5. 0 \in S
  <2>1. g[0] = <<>>
    <3>1. 0 \in 0..k
      BY <1>1
    <3>2. QED BY <1>4, <3>1
  <2>2. <<>> \in Seq(P)
    OBVIOUS
  <2>3. QED BY <2>1, <2>2
<1>6. ASSUME NEW n \in Nat, n \in S PROVE n + 1 \in S
  <2>1. CASE n + 1 <= k
    <3>1. n + 1 \in 0..k /\ n + 1 # 0 /\ (n + 1) - 1 = n /\ n + 1 \in 1..k /\ g[n] \in Seq(P)
      BY <1>1, <1>6, <2>1
    <3>2. g[n + 1] = IF s[n + 1] \in set THEN Append(g[n], s[n + 1]) ELSE g[n]
      BY <1>4, <3>1
    <3>3. s[n + 1] \in P
      BY <1>1, <3>1
    <3>4. g[n + 1] \in Seq(P)
      BY <3>1, <3>2, <3>3
    <3>5. QED BY <3>4
  <2>2. QED BY <2>1
<1> HIDE DEF S
<1>7. k \in S
  BY <1>1, <1>5, <1>6, SetInduction
<1>8. QED BY <1>1, <1>3, <1>7 DEF S

------------------------------------------------------------------------------
(* Books, their equity and their risk                                      *)

\* What the prices and the volumes of an order are made of.
LEMMA Numbers ==
    /\ StartBalance \in Int /\ HalfSpread \in Int /\ EntrySlip \in Nat /\ ExitSlip \in Nat
    /\ FirstMid \in Int /\ VolumeMax \in Int
BY ReplayAssumption

\* A sequence of values computed from another one.
LEMMA Mapped ==
    ASSUME NEW P, NEW s \in Seq(P), NEW f, NEW R, DOMAIN f = DOMAIN s,
           f = [i \in DOMAIN s |-> f[i]], \A i \in DOMAIN s : f[i] \in R
    PROVE  f \in Seq(R) /\ Len(f) = Len(s)
<1>1. Len(s) \in Nat /\ DOMAIN s = 1..Len(s)
  OBVIOUS
<1>2. f \in [1..Len(s) -> R]
  BY <1>1
<1>3. QED BY <1>1, <1>2

\* The profit of a position (SimulatedBroker._close()).
LEMMA ProfitIsInt ==
    ASSUME NEW p \in Positions, NEW exit \in Int
    PROVE  Profit(p, exit) \in Int
BY DEF Profit, Positions

\* The equity of a book: its balance and what its positions would bring now.
LEMMA EquityIsInt ==
    ASSUME NEW b \in BrokerBooks, b.tick \in BrokerTicks
    PROVE  Equity(b) \in Int
<1> DEFINE f == [i \in DOMAIN b.open |-> Profit(b.open[i], ExitNow(b.open[i], b.tick))]
<1>1. b.open \in Seq(Positions) /\ b.balance \in Int
  BY DEF BrokerBooks
<1>2. ASSUME NEW i \in DOMAIN b.open PROVE f[i] \in Int
  <2>1. b.open[i] \in Positions
    BY <1>1
  <2>2. ExitNow(b.open[i], b.tick) \in Int
    <3>1. b.tick.mid \in Int
      BY DEF BrokerTicks
    <3>2. b.tick.mid - HalfSpread \in Int /\ b.tick.mid + HalfSpread \in Int
      BY <3>1, Numbers
    <3>3. QED BY <3>2 DEF ExitNow, Bid, Ask
  <2>3. QED BY <2>1, <2>2, ProfitIsInt
<1>3. DOMAIN f = DOMAIN b.open /\ f = [i \in DOMAIN b.open |-> f[i]]
  OBVIOUS
<1> HIDE DEF f
<1>4. f \in Seq(Int)
  BY <1>1, <1>2, <1>3, Mapped
<1>5. Total(f) \in Int
  BY <1>4, TotalIsInt
<1>6. QED BY <1>1, <1>5 DEF Equity, f

\* The balance after trades have been settled.
LEMMA SettledIsInt ==
    ASSUME NEW l \in Int, NEW trades \in Seq(Trades)
    PROVE  Settled(l, trades) \in Int
<1> DEFINE f == [i \in DOMAIN trades |-> trades[i].profit]
<1>1. ASSUME NEW i \in DOMAIN trades PROVE f[i] \in Int
  <2>1. trades[i] \in Trades
    OBVIOUS
  <2>2. QED BY <2>1 DEF Trades
<1>2. DOMAIN f = DOMAIN trades /\ f = [i \in DOMAIN trades |-> f[i]]
  OBVIOUS
<1> HIDE DEF f
<1>3. f \in Seq(Int)
  BY <1>1, <1>2, Mapped
<1>4. Total(f) \in Int
  BY <1>3, TotalIsInt
<1>5. QED BY <1>4 DEF Settled, f

\* Closing trades.
LEMMA CloseAllType ==
    ASSUME NEW b \in BrokerBooks, NEW trades \in Seq(Trades)
    PROVE  CloseAll(b, trades) \in BrokerBooks /\ CloseAll(b, trades).tick = b.tick
<1> DEFINE open == Among(b.open, {p \in Range(b.open) : p.ticket \notin {trades[i].ticket : i \in DOMAIN trades}})
           closed == b.closed \o trades
           balance == Settled(b.balance, trades)
<1>1. open \in Seq(Positions)
  BY AmongThem DEF BrokerBooks
<1>2. closed \in Seq(Trades)
  BY DEF BrokerBooks
<1>3. balance \in Int
  BY SettledIsInt DEF BrokerBooks
<1>4. CloseAll(b, trades) = [b EXCEPT !.open = open, !.closed = closed, !.balance = balance]
  BY DEF CloseAll
<1> HIDE DEF open, closed, balance
<1>5. QED BY <1>1, <1>2, <1>3, <1>4 DEF BrokerBooks

\* A tick moves the book to it.
LEMMA AdvancedType ==
    ASSUME NEW b \in BrokerBooks, NEW tick \in BrokerTicks
    PROVE  Advanced(b, tick) \in BrokerBooks /\ Advanced(b, tick).tick = tick
<1> DEFINE leaving == Among(b.open, {p \in Range(b.open) : HitsStop(p, tick) \/ HitsTarget(p, tick)})
           by == IF tick.applied THEN tick.bar ELSE Absent
           trades == [i \in DOMAIN leaving |-> Closed(leaving[i], ExitPrice(leaving[i], tick), by)]
           moved == [b EXCEPT !.tick = tick]
<1>1. leaving \in Seq(Positions)
  BY AmongThem DEF BrokerBooks
<1>2. by \in Nat \cup {Absent}
  BY DEF BrokerTicks
<1>3. moved \in BrokerBooks /\ moved.tick = tick
  BY DEF BrokerBooks
<1>4. ASSUME NEW i \in DOMAIN leaving PROVE trades[i] \in Trades
  <2> DEFINE p == leaving[i]
             exit == ExitPrice(p, tick)
  <2>1. p \in Positions
    BY <1>1
  <2>2. exit \in Int
    BY <2>1, Numbers DEF ExitPrice, Positions
  <2>3. Profit(p, exit) \in Int
    BY <2>1, <2>2, ProfitIsInt
  <2>4. Closed(p, exit, by) \in Trades
    <3> HIDE DEF exit, by, leaving
    <3> QED BY <1>2, <2>1, <2>3 DEF Closed, Trades, Positions
  <2>5. QED BY <2>4
<1>5. DOMAIN trades = DOMAIN leaving /\ trades = [i \in DOMAIN leaving |-> trades[i]]
  OBVIOUS
<1>6. Advanced(b, tick) = CloseAll(moved, trades)
  BY DEF Advanced
<1> HIDE DEF leaving, trades, moved, by
<1>7. trades \in Seq(Trades)
  BY <1>1, <1>4, <1>5, Mapped
<1>8. QED BY <1>3, <1>6, <1>7, CloseAllType

\* What a fill adds to the book.
FilledAt(b, order) ==
    [ticket |-> b.tickets + 1, side |-> order.side, volume |-> order.volume,
     entry |-> IF order.side = "BUY" THEN Ask(b.tick) + EntrySlip ELSE Bid(b.tick) - EntrySlip,
     stop |-> order.stop, target |-> order.target, bar |-> b.tick.bar, week |-> b.tick.week]

\* A fill appends that position.
LEMMA FilledType ==
    ASSUME NEW b \in BrokerBooks, NEW order, b.tick \in BrokerTicks, order.side \in Sides,
           order.volume \in Int, order.stop \in Int, order.target \in Int
    PROVE  /\ Filled(b, order) \in BrokerBooks /\ Filled(b, order).tick = b.tick
           /\ Filled(b, order).open = Append(b.open, FilledAt(b, order))
           /\ FilledAt(b, order) \in Positions
<1> DEFINE p == FilledAt(b, order)
           open == Append(b.open, p)
           tickets == b.tickets + 1
<1>1. b.tickets \in Nat /\ b.open \in Seq(Positions)
  BY DEF BrokerBooks
<1>2. p \in Positions
  <2>1. b.tick.bar \in Nat /\ b.tick.mid \in Int /\ b.tick.week \in Int \cup {None}
    BY DEF BrokerTicks
  <2>2. Ask(b.tick) + EntrySlip \in Int /\ Bid(b.tick) - EntrySlip \in Int
    BY <2>1, Numbers DEF Ask, Bid
  <2>3. (IF order.side = "BUY" THEN Ask(b.tick) + EntrySlip ELSE Bid(b.tick) - EntrySlip) \in Int
    BY <2>2
  <2>4. QED BY <1>1, <2>1, <2>3 DEF FilledAt, Positions
<1>3. open \in Seq(Positions)
  BY <1>1, <1>2
<1>4. Filled(b, order) = [b EXCEPT !.tickets = tickets, !.open = open]
  BY DEF Filled, FilledAt
<1>5. tickets \in Nat
  BY <1>1
<1> HIDE DEF p, open, tickets
<1>6. [b EXCEPT !.tickets = tickets, !.open = open] \in BrokerBooks
  BY <1>3, <1>5 DEF BrokerBooks
<1>7. [b EXCEPT !.tickets = tickets, !.open = open].tick = b.tick
  BY DEF BrokerBooks
<1>8. [b EXCEPT !.tickets = tickets, !.open = open].open = open
  BY DEF BrokerBooks
<1>9. QED BY <1>2, <1>4, <1>6, <1>7, <1>8 DEF open, p

\* The risk of one position.
LEMMA RiskIsInt ==
    ASSUME NEW p \in Positions
    PROVE  RealisedRisk(p.volume, AdverseDistance(p)) \in Int
BY DEF RealisedRisk, AdverseDistance, Greater, Positions

RisksOf(open) == [i \in DOMAIN open |-> RealisedRisk(open[i].volume, AdverseDistance(open[i]))]

\* The risks of a book are integers.
LEMMA RisksAreInts ==
    ASSUME NEW open \in Seq(Positions)
    PROVE  RisksOf(open) \in Seq(Int) /\ Len(RisksOf(open)) = Len(open)
<1> DEFINE f == RisksOf(open)
<1>1. ASSUME NEW i \in DOMAIN open PROVE f[i] \in Int
  <2>1. open[i] \in Positions
    OBVIOUS
  <2>2. QED BY <2>1, RiskIsInt DEF RisksOf
<1>2. DOMAIN f = DOMAIN open /\ f = [i \in DOMAIN open |-> f[i]]
  BY DEF RisksOf
<1> HIDE DEF f
<1>3. QED BY <1>1, <1>2, Mapped DEF f

\* A position adds its risk to that of the book.
LEMMA BookRiskAppend ==
    ASSUME NEW open \in Seq(Positions), NEW p \in Positions
    PROVE  /\ BookRisk(open) \in Int
           /\ BookRisk(Append(open, p)) = BookRisk(open) + RealisedRisk(p.volume, AdverseDistance(p))
<1> DEFINE more == Append(open, p)
           r == RealisedRisk(p.volume, AdverseDistance(p))
           f == RisksOf(open)
           g == RisksOf(more)
<1>1. more \in Seq(Positions)
  OBVIOUS
<1>2. f \in Seq(Int) /\ Len(f) = Len(open) /\ g \in Seq(Int) /\ Len(g) = Len(more)
  BY <1>1, RisksAreInts
<1>3. /\ Len(open) \in Nat /\ Len(more) = Len(open) + 1 /\ more[Len(open) + 1] = p
      /\ \A i \in 1..Len(open) : more[i] = open[i]
  OBVIOUS
<1>4. /\ g[Len(open) + 1] = r
      /\ \A i \in 1..Len(open) : g[i] = f[i]
  <2>1. /\ DOMAIN open = 1..Len(open) /\ DOMAIN more = 1..(Len(open) + 1)
    BY <1>3
  <2> HIDE DEF more
  <2>2. QED BY <1>3, <2>1 DEF RisksOf
<1>5. r \in Int
  BY RiskIsInt
<1> HIDE DEF f, g, r, more
<1>6. g = Append(f, r)
  <2>1. Append(f, r) \in Seq(Int) /\ Len(Append(f, r)) = Len(f) + 1 /\ Append(f, r)[Len(f) + 1] = r
    BY <1>2, <1>5
  <2>2. \A i \in 1..Len(f) : Append(f, r)[i] = f[i]
    BY <1>2, <1>5
  <2>3. Len(g) = Len(Append(f, r))
    BY <1>2, <1>3, <2>1
  <2>4. \A i \in 1..Len(g) : g[i] = Append(f, r)[i]
    <3> HIDE DEF RisksOf
    <3> QED BY <1>2, <1>3, <1>4, <2>1, <2>2
  <2>5. QED BY <1>2, <2>1, <2>3, <2>4
<1>7. Total(f) \in Int /\ Total(g) = Total(f) + r
  BY <1>2, <1>5, <1>6, TotalIsInt, TotalAppend
<1>8. BookRisk(open) = Total(f) /\ BookRisk(more) = Total(g)
  BY DEF BookRisk, RisksOf, f, g
<1>9. QED BY <1>7, <1>8 DEF r, more

------------------------------------------------------------------------------
(* What a grant of the risk gateway says                                   *)

\* The quotient of a division, times the divisor.
LEMMA QuotientIsBelow ==
    ASSUME NEW a \in Int, NEW c \in Nat, c > 0
    PROVE  a \div c \in Int /\ (a \div c) * c <= a
OBVIOUS

\* Facts of arithmetic on which a comparison of fractions rests.
LEMMA TimesIsMonotone ==
    ASSUME NEW a \in Int, NEW b \in Int, NEW c \in Nat, a <= b
    PROVE  a * c <= b * c
OBVIOUS

\* A positive factor may be cancelled.
LEMMA TimesCancels ==
    ASSUME NEW a \in Int, NEW b \in Int, NEW c \in Nat, c > 0, a * c <= b * c
    PROVE  a <= b
OBVIOUS

\* The volume of a position loses at most the fraction of the equity.
LEMMA SizedWithinRisk ==
    ASSUME NEW e \in Int, NEW f \in Fractions, NEW d \in Int, d > 0,
           NEW v, v = SizePosition(e, f, d), v # None
    PROVE  v \in Int /\ e > 0 /\ (v * d) * f[2] <= f[1] * e
<1>1. f[1] \in Nat /\ f[2] \in Nat /\ f[2] > 0
  BY DEF Fractions
<1> DEFINE c == f[2] * d
           a == e * f[1]
           lots == a \div c
<1>2. c \in Nat /\ c > 0 /\ a \in Int
  BY <1>1
<1>3. e > 0 /\ v = IF lots <= VolumeMax THEN lots ELSE VolumeMax
  BY DEF SizePosition
<1> HIDE DEF a, c
<1>4. lots \in Int /\ lots * c <= a
  BY <1>2, QuotientIsBelow
<1> HIDE DEF lots
<1>5. v \in Int /\ v <= lots
  BY <1>3, <1>4, Numbers
<1>6. v * c <= lots * c
  BY <1>2, <1>4, <1>5, TimesIsMonotone
<1>7. v * c <= a
  <2>1. v * c \in Int /\ lots * c \in Int
    BY <1>2, <1>4, <1>5
  <2>2. QED BY <1>2, <1>4, <1>6, <2>1
<1>8. v * c = (v * d) * f[2] /\ a = f[1] * e
  BY <1>1, <1>5 DEF a, c
<1>9. QED BY <1>3, <1>5, <1>7, <1>8

\* An empty book risks nothing.
LEMMA EmptyBookRisk == BookRisk(<<>>) = 0
<1>1. <<>> \in Seq(Positions) /\ Len(<<>>) = 0
  OBVIOUS
<1>2. RisksOf(<<>>) \in Seq(Int) /\ Len(RisksOf(<<>>)) = 0
  BY <1>1, RisksAreInts
<1>3. \E g \in [0..Len(RisksOf(<<>>)) -> Int] : Total(RisksOf(<<>>)) = g[Len(RisksOf(<<>>))] /\ g[0] = 0
  BY <1>2, TotalIsTheLast
<1>4. Total(RisksOf(<<>>)) = 0
  BY <1>2, <1>3
<1>5. QED BY <1>4 DEF BookRisk, RisksOf

\* A trade that risks at most its fraction of the equity, after a check that
\* the fraction fits beside the book, leaves the book within its limit.
LEMMA FractionsAdd ==
    ASSUME NEW b \in Int, NEW x \in Int, NEW e \in Nat,
           NEW r \in Fractions, NEW m \in Fractions,
           x * r[2] <= r[1] * e,
           (b * r[2] + r[1] * e) * m[2] <= m[1] * (e * r[2])
    PROVE  (b + x) * m[2] <= m[1] * e
<1> DEFINE y == (b + x) * r[2]
           z == b * r[2] + r[1] * e
<1>0. r[1] \in Nat /\ r[2] \in Nat /\ r[2] > 0 /\ m[1] \in Nat /\ m[2] \in Nat
  BY DEF Fractions
<1>1. y \in Int /\ z \in Int /\ y <= z
  <2>1. y = b * r[2] + x * r[2] /\ b * r[2] \in Int /\ x * r[2] \in Int /\ r[1] * e \in Int
    BY <1>0
  <2>2. QED BY <2>1
<1>2. y * m[2] <= z * m[2]
  BY <1>0, <1>1, TimesIsMonotone
<1>3. y * m[2] = ((b + x) * m[2]) * r[2]
  BY <1>0
<1>4. m[1] * (e * r[2]) = (m[1] * e) * r[2]
  BY <1>0
<1>5. (b + x) * m[2] \in Int /\ m[1] * e \in Int /\ y * m[2] \in Int /\ z * m[2] \in Int
  BY <1>0, <1>1
<1>6. ((b + x) * m[2]) * r[2] <= (m[1] * e) * r[2]
  <2>1. z * m[2] <= (m[1] * e) * r[2]
    BY <1>4
  <2>2. (m[1] * e) * r[2] \in Int
    BY <1>0, <1>5
  <2> HIDE DEF y, z
  <2>3. QED BY <1>2, <1>3, <1>5, <2>1, <2>2
<1>7. QED BY <1>0, <1>5, <1>6, TimesCancels

\* So does a volume that sizing grants.
LEMMA GrantIsBudgeted ==
    ASSUME NEW open \in Seq(Positions), NEW e \in Int, NEW d \in Int, d > 0,
           NEW v, v = SizePosition(e, MaxRiskPerTrade, d), v # None,
           OpenRisk(open, e) # None,
           ~Over(Plus(OpenRisk(open, e), MaxRiskPerTrade), MaxOpenRisk)
    PROVE  v \in Int /\ (BookRisk(open) + v * d) * MaxOpenRisk[2] <= MaxOpenRisk[1] * e
<1> DEFINE r == MaxRiskPerTrade
           m == MaxOpenRisk
           b == BookRisk(open)
           x == v * d
<1>1. r \in Fractions /\ m \in Fractions
  BY ReplayAssumption
<1>2. r[1] \in Nat /\ r[2] \in Nat /\ r[2] > 0 /\ m[1] \in Nat /\ m[2] \in Nat
  BY <1>1 DEF Fractions
<1>3. v \in Int /\ e > 0 /\ x * r[2] <= r[1] * e
  BY <1>1, SizedWithinRisk
<1>4. b \in Int /\ x \in Int /\ e \in Nat
  <2>1. b \in Int
    <3>1. RisksOf(open) \in Seq(Int)
      BY RisksAreInts
    <3>2. Total(RisksOf(open)) \in Int
      BY <3>1, TotalIsInt
    <3>3. QED BY <3>2 DEF BookRisk, RisksOf
  <2>2. QED BY <1>3, <2>1
<1> HIDE DEF x
<1>5. CASE open = <<>>
  <2>1. b = 0
    BY <1>5, EmptyBookRisk
  <2>2. OpenRisk(open, e) = <<0, 1>>
    BY <1>5 DEF OpenRisk, Zero
  <2>3. Plus(<<0, 1>>, r) = <<r[1], r[2]>>
    BY <1>2 DEF Plus
  <2> HIDE DEF r, m, b
  <2>4. m[1] * r[2] >= r[1] * m[2]
    <3>1. ~Over(<<r[1], r[2]>>, m)
      BY <2>2, <2>3 DEF r, m
    <3>2. QED BY <3>1 DEF Over, AtLeast
  <2>5. (r[1] * m[2]) * e <= (m[1] * r[2]) * e
    <3>1. r[1] * m[2] \in Int /\ m[1] * r[2] \in Int /\ r[1] * m[2] <= m[1] * r[2]
      BY <1>2, <2>4
    <3>2. QED BY <1>4, <3>1, TimesIsMonotone
  <2>6. (b * r[2] + r[1] * e) * m[2] <= m[1] * (e * r[2])
    <3>1. (r[1] * m[2]) * e = (b * r[2] + r[1] * e) * m[2]
      BY <1>2, <1>4, <2>1
    <3>2. (m[1] * r[2]) * e = m[1] * (e * r[2])
      BY <1>2, <1>4
    <3>3. QED BY <2>5, <3>1, <3>2
  <2>7. (b + x) * m[2] <= m[1] * e
    BY <1>1, <1>3, <1>4, <2>6, FractionsAdd
  <2>8. QED BY <1>3, <2>7 DEF b, m, x
<1>6. CASE open # <<>>
  <2>1. OpenRisk(open, e) = <<b, e>>
    BY <1>6 DEF OpenRisk
  <2>2. Plus(<<b, e>>, r) = <<b * r[2] + r[1] * e, e * r[2]>>
    BY DEF Plus
  <2> HIDE DEF r, m, b
  <2>3. ~Over(<<b * r[2] + r[1] * e, e * r[2]>>, m)
    BY <2>1, <2>2 DEF r, m
  <2>4. (b * r[2] + r[1] * e) * m[2] <= m[1] * (e * r[2])
    <3>1. m[1] * (e * r[2]) >= (b * r[2] + r[1] * e) * m[2]
      BY <2>3 DEF Over, AtLeast
    <3>2. m[1] * (e * r[2]) \in Int /\ (b * r[2] + r[1] * e) * m[2] \in Int
      <4>1. e * r[2] \in Int /\ b * r[2] \in Int /\ r[1] * e \in Int
        BY <1>2, <1>4
      <4>2. b * r[2] + r[1] * e \in Int
        BY <4>1
      <4>3. m[1] * (e * r[2]) \in Int
        BY <1>2, <4>1
      <4>4. (b * r[2] + r[1] * e) * m[2] \in Int
        BY <1>2, <4>2
      <4>5. QED BY <4>3, <4>4
    <3>3. QED BY <3>1, <3>2
  <2>5. (b + x) * m[2] <= m[1] * e
    BY <1>1, <1>3, <1>4, <2>4, FractionsAdd
  <2>6. QED BY <1>3, <2>5 DEF b, m, x
<1>7. QED BY <1>5, <1>6

\* What is true of an intent that the risk gateway passes.
LEMMA PassGrants ==
    ASSUME NEW intent, NEW snapshot, NEW portfolio, NEW halted,
           Evaluate(intent, snapshot, portfolio, halted).verdict = "PASS",
           StopDistance(intent) \in Int
    PROVE  /\ StopDistance(intent) > 0
           /\ portfolio.openRisk # None
           /\ ~Over(Plus(portfolio.openRisk, intent.risk), MaxOpenRisk)
           /\ Evaluate(intent, snapshot, portfolio, halted).volume # None
           /\ Evaluate(intent, snapshot, portfolio, halted).volume
                 = SizePosition(portfolio.equity, intent.risk, StopDistance(intent))
<1> DEFINE checks == Checklist(intent, snapshot, portfolio, halted)
           reasons == {r \in DOMAIN checks : checks[r]}
           volume == SizePosition(portfolio.equity, intent.risk, StopDistance(intent))
           decision == Evaluate(intent, snapshot, portfolio, halted)
<1>1. decision = CASE reasons # {} -> Refuse(reasons)
                   [] reasons = {} /\ volume = None -> Refuse({"VOLUME_OUT_OF_RANGE"})
                   [] OTHER -> [verdict |-> "PASS", reasons |-> {}, volume |-> volume]
  BY DEF Evaluate
<1>2. \A why : Refuse(why).verdict # "PASS"
  BY DEF Refuse
<1> HIDE DEF checks, volume, decision
<1>3. reasons = {} /\ volume # None
  <2> HIDE DEF reasons
  <2> QED BY <1>1, <1>2 DEF decision
<1>4. decision = [verdict |-> "PASS", reasons |-> {}, volume |-> volume]
  <2> HIDE DEF reasons
  <2> QED BY <1>1, <1>3
<1>5. decision.volume = volume
  BY <1>4
<1>6. \A r \in DOMAIN checks : ~checks[r]
  BY <1>3
<1>7. /\ {"INVALID_STOP", "OPEN_RISK_UNKNOWN", "OPEN_RISK_LIMIT"} \subseteq DOMAIN checks
      /\ checks["INVALID_STOP"] = (StopDistance(intent) <= 0 \/ StopDistance(intent) < MinStopDistance)
      /\ checks["OPEN_RISK_UNKNOWN"] = (portfolio.openRisk = None)
      /\ checks["OPEN_RISK_LIMIT"] = ExceedsOpenRisk(intent, portfolio)
  BY DEF checks, Checklist
<1>8. /\ ~(StopDistance(intent) <= 0 \/ StopDistance(intent) < MinStopDistance)
      /\ portfolio.openRisk # None /\ ~ExceedsOpenRisk(intent, portfolio)
  BY <1>6, <1>7
<1>9. QED BY <1>3, <1>5, <1>8 DEF ExceedsOpenRisk, volume, decision

------------------------------------------------------------------------------
(* The calendar and the ledger                                             *)

\* The trading day and the weekly close are numbers.
LEMMA DaysAreInts ==
    ASSUME NEW t \in Int
    PROVE  TradingDay(t) \in Int /\ WeeklyClose(t) \in Int \cup {None}
<1>1. DayLength \in Nat \ {0} /\ WeekLength \in Nat /\ CloseAt \in 1..WeekLength
  BY WeekAssumption
<1>2. WeekLength > 0
  BY <1>1
<1>3. t \div DayLength \in Int /\ t \div WeekLength \in Int /\ WeekLength \div DayLength \in Int
  BY <1>1, <1>2
<1>4. (t \div WeekLength + 1) * (WeekLength \div DayLength) \in Int
  BY <1>3
<1>5. TradingDay(t) \in Int
  BY <1>3, <1>4 DEF TradingDay
<1>6. (TradingDay(t) * DayLength) \div WeekLength \in Int
  <2>1. TradingDay(t) * DayLength \in Int
    BY <1>1, <1>5
  <2>2. QED BY <1>1, <1>2, <2>1
<1>7. ((TradingDay(t) * DayLength) \div WeekLength) * WeekLength + CloseAt \in Int
  BY <1>1, <1>6
<1>8. QED BY <1>5, <1>7 DEF WeeklyClose

\* A fall is a pair: what was lost, and from what.
LEMMA FallType ==
    ASSUME NEW b \in Int, NEW e \in Int
    PROVE  Fall(b, e) \in IntPairs
BY DEF Fall, Zero, IntPairs

\* EquityLedger.update() keeps a ledger a ledger.
LEMMA UpdatedLedgerType ==
    ASSUME NEW ledger \in EquityLedgers, NEW e \in Int
    PROVE  Updated(ledger, e) \in EquityLedgers
<1> DEFINE peak == Greater(ledger.peak, e)
           drawdown == Worse(ledger.drawdown, Fall(peak, e))
           loss == Worse(ledger.loss, Fall(ledger.start, e))
<1>1. /\ ledger.start \in Int /\ ledger.current \in Int /\ ledger.peak \in Int
      /\ ledger.drawdown \in IntPairs /\ ledger.loss \in IntPairs
  BY DEF EquityLedgers
<1>2. peak \in Int
  BY <1>1 DEF Greater
<1>3. drawdown \in IntPairs /\ loss \in IntPairs
  BY <1>1, <1>2, FallType DEF Worse
<1>4. Updated(ledger, e) = [ledger EXCEPT !.current = e, !.peak = peak, !.drawdown = drawdown, !.loss = loss]
  BY DEF Updated
<1> HIDE DEF peak, drawdown, loss
<1>5. QED BY <1>2, <1>3, <1>4 DEF EquityLedgers

\* The ledger of a process that starts at an equity.
LEMMA FreshLedgerType == ASSUME NEW e \in Int PROVE Fresh(e) \in EquityLedgers
BY DEF Fresh, Zero, EquityLedgers, IntPairs

\* A session that is recovered from a row has a ledger of numbers.
LEMMA RecoveredLedgerType ==
    ASSUME row = NoRecord \/ row \in Rows, NEW e \in Int, NEW open, NEW d
    PROVE  Recovered(row, e, open, d) \in EquityLedgers
<1>1. CASE row = NoRecord
  BY <1>1, FreshLedgerType DEF Recovered
<1>2. CASE row \in Rows
  <2>1. row.ledger \in EquityLedgers
    BY <1>2 DEF Rows
  <2>2. [row.ledger EXCEPT !.start = row.ledger.current, !.loss = Zero] \in EquityLedgers
    <3>1. Zero \in IntPairs
      BY DEF Zero, IntPairs
    <3>2. \A l \in EquityLedgers, z \in IntPairs :
            [l EXCEPT !.start = l.current, !.loss = z] \in EquityLedgers
      BY DEF EquityLedgers
    <3>3. QED BY <2>1, <3>1, <3>2
  <2>3. Carried(row, d) \in EquityLedgers
    BY <2>1, <2>2 DEF Carried
  <2>4. Resumed(row, e, d) \in EquityLedgers
    BY <2>3, UpdatedLedgerType DEF Resumed
  <2>5. QED BY <2>4, FreshLedgerType DEF Recovered
<1>3. QED BY <1>1, <1>2

------------------------------------------------------------------------------
(* The steps of a run                                                      *)

\* Where a run goes on after a check that may trip the switch.
LEMMA GotoGives ==
    ASSUME NEW memory, DOMAIN memory = RunFields, NEW trips, NEW reasons, NEW label,
           Goto(memory, trips, reasons, label)
    PROVE  /\ DOMAIN run' = RunFields
           /\ run'.n = memory.n /\ run'.book = memory.book /\ run'.ledger = memory.ledger
           /\ run'.day = memory.day /\ run'.key = memory.key /\ run'.window = memory.window
           /\ \/ run'.at = label /\ run'.pending = memory.pending
              \/ /\ run'.at = "flush" /\ run'.then = label
                 /\ run'.pending = memory.pending \cup {Event("HALT", reasons)}
                 /\ trips
<1> DEFINE pending == memory.pending \cup {Event("HALT", reasons)}
<1>1. CASE trips /\ ~memory.halted
  <2>1. Recorded(memory, {Event("HALT", reasons)}) = [memory EXCEPT !.pending = pending]
    BY DEF Recorded
  <2>2. run' = [[memory EXCEPT !.pending = pending] EXCEPT
                   !.halted = TRUE, !.at = "flush", !.then = label]
    BY <1>1, <2>1 DEF Goto
  <2> HIDE DEF pending
  <2>3. QED BY <1>1, <2>2 DEF RunFields, pending
<1>2. CASE ~(trips /\ ~memory.halted)
  <2>1. run' = [memory EXCEPT !.at = label]
    BY <1>2 DEF Goto
  <2>2. QED BY <2>1 DEF RunFields
<1>3. QED BY <1>1, <1>2

\* Where a run is not off, it is under way.
LEMMA IsRunning == ASSUME ReplayTypes, run.at # "off" PROVE Running
BY DEF ReplayTypes, Running, Off

\* What the time, the tick and the equity of a window are.
LEMMA WindowFacts ==
    ASSUME ReplayTypes, run.at \notin {"off", "tick"}
    PROVE  /\ Running /\ Now \in Int /\ TradingDay(Now) \in Int
           /\ Equity(run.book) \in Int /\ Tick \in Ticks
           /\ run.book.tick.mid \in Int
<1>1. Running
  BY IsRunning
<1>2. run.n \in 1..Len(times) /\ run.n \in 1..Len(series)
  BY <1>1 DEF Running, ReplayTypes
<1>3. times \in Seq(Int) /\ series \in Seq(Ticks)
  BY ReplayAssumption DEF ReplayTypes
<1>4. Now \in Int /\ Tick \in Ticks
  BY <1>2, <1>3 DEF Now, Tick
<1>5. TradingDay(Now) \in Int
  BY <1>4, DaysAreInts
<1>6. run.book \in BrokerBooks /\ run.book.tick \in BrokerTicks
  BY <1>1, <1>2 DEF Running
<1>7. Equity(run.book) \in Int
  BY <1>6, EquityIsInt
<1>8. run.book.tick.mid \in Int
  BY <1>6 DEF BrokerTicks
<1>9. QED BY <1>1, <1>4, <1>5, <1>7, <1>8

\* A step within a window.
LEMMA StillRunning ==
    ASSUME Running, UNCHANGED <<times, series>>, run.n # 0,
           DOMAIN run' = RunFields, run'.at \notin {"off", "tick"}, run'.n = run.n,
           run'.book \in BrokerBooks, run'.book.tick = run.book.tick,
           run'.ledger \in EquityLedgers, run'.key = run.key, run'.day \in Int,
           run'.at = "flush" => run'.then \in Returns
    PROVE  Running'
BY DEF Running, At

\* The session is recovered, or the window is judged, and the run goes on.
LEMMA GotoRunning ==
    ASSUME Running, times' = times, series' = series, run.n # 0,
           NEW memory, DOMAIN memory = RunFields, NEW trips, NEW reasons,
           NEW label, label \in Returns \/ (~trips /\ label \in {"supervise", "execute"}),
           Goto(memory, trips, reasons, label),
           memory.n = run.n, memory.book = run.book, memory.ledger \in EquityLedgers,
           memory.key = run.key, memory.day \in Int
    PROVE  Running'
<1>1. /\ DOMAIN run' = RunFields
      /\ run'.n = memory.n /\ run'.book = memory.book /\ run'.ledger = memory.ledger
      /\ run'.day = memory.day /\ run'.key = memory.key
      /\ \/ run'.at = label
         \/ run'.at = "flush" /\ run'.then = label /\ trips
  BY GotoGives
<1>2. run.book \in BrokerBooks
  BY DEF Running
<1>3. run'.at \notin {"off", "tick"} /\ (run'.at = "flush" => run'.then \in Returns)
  BY <1>1 DEF Returns
<1>4. QED BY <1>1, <1>2, <1>3, StillRunning

\* What a tick is to the broker.
LEMMA GeneratedTickType ==
    ASSUME ReplayTypes, Running, NEW n \in Nat, n = run.n + 1, n <= Len(times), NEW mid \in Int
    PROVE  GeneratedTick(n, mid) \in BrokerTicks
<1>1. times \in Seq(Int) /\ series \in Seq(Ticks)
  BY ReplayAssumption DEF ReplayTypes
<1>2. times[n] \in Int
  BY <1>1 DEF Running
<1>3. WeeklyClose(times[n]) \in Int \cup {None}
  BY <1>2, DaysAreInts
<1> DEFINE last == IF n = 1 THEN FirstMid ELSE series[n - 1].mid
<1>4. last \in Int
  <2>1. CASE n = 1
    BY <2>1, Numbers
  <2>2. CASE n # 1
    <3>1. n - 1 \in 1..Len(series)
      BY <2>2 DEF Running
    <3>2. series[n - 1] \in Ticks
      BY <1>1, <3>1
    <3>3. series[n - 1].mid \in Int
      BY <3>2, ReplayAssumption
    <3>4. QED BY <2>2, <3>3
  <2>3. QED BY <2>1, <2>2
<1>5. Lower(last, mid) \in Int /\ Greater(last, mid) \in Int
  BY <1>4 DEF Lower, Greater
<1>6. GeneratedTick(n, mid) = [bar |-> n, mid |-> mid, low |-> Lower(last, mid),
                               high |-> Greater(last, mid), week |-> WeeklyClose(times[n]),
                               applied |-> TRUE]
  BY DEF GeneratedTick
<1> HIDE DEF last
<1>7. \A low \in Int, high \in Int, week \in Int \cup {None} :
        [bar |-> n, mid |-> mid, low |-> low, high |-> high, week |-> week, applied |-> TRUE]
          \in BrokerTicks
  BY DEF BrokerTicks
<1>8. QED BY <1>3, <1>5, <1>6, <1>7

\* A new process.
LEMMA StartTypes ==
    ASSUME ReplayTypes, NEW reset \in BOOLEAN, Start(reset)
    PROVE  ReplayTypes'
<1>1. NewBook \in BrokerBooks
  BY Numbers DEF NewBook, BrokerBooks
<1>2. Fresh(StartBalance) \in EquityLedgers
  BY Numbers, FreshLedgerType
<1>3. times' = times /\ series' = series /\ row' = row
  BY DEF Start, input, record
<1>4. times \in Timelines /\ series \in Seq(Ticks)
  BY DEF ReplayTypes
<1>5. Len(times) \in Nat /\ Len(series) \in Nat
  BY <1>4, ReplayAssumption
<1>6. /\ DOMAIN run' = RunFields
      /\ run'.at = "tick" /\ run'.n = 0 /\ run'.book = NewBook
      /\ run'.ledger = Fresh(StartBalance) /\ run'.key = None
  BY DEF Start, RunFields
<1>7. Running'
  BY <1>1, <1>2, <1>3, <1>5, <1>6 DEF Running, At
<1>8. QED BY <1>3, <1>7 DEF ReplayTypes

\* A tick.
LEMMA AdvanceTypes ==
    ASSUME ReplayTypes, NEW tick \in Ticks, Advance(tick)
    PROVE  ReplayTypes'
<1> DEFINE n == run.n + 1
           generated == GeneratedTick(n, tick.mid)
           book == Advanced(run.book, generated)
           label == IF n = 1 THEN "recover" ELSE "account"
<1>1. Running
  BY IsRunning DEF Advance, At
<1>2. run.n \in Nat /\ run.n < Len(times) /\ n \in Nat /\ n <= Len(times) /\ n # 0
  <2>1. Len(times) \in Nat
    BY ReplayAssumption DEF ReplayTypes
  <2>2. QED BY <1>1, <2>1 DEF Running, Advance
<1>3. tick.mid \in Int
  BY ReplayAssumption
<1>4. generated \in BrokerTicks
  BY <1>1, <1>2, <1>3, GeneratedTickType
<1>5. book \in BrokerBooks /\ book.tick = generated
  BY <1>1, <1>4, AdvancedType DEF Running
<1>6. run' = [run EXCEPT !.at = label, !.n = n, !.book = book]
  BY DEF Advance
<1> HIDE DEF generated, book, label
<1>7. /\ DOMAIN run' = RunFields /\ run'.at = label /\ run'.n = n /\ run'.book = book
      /\ run'.ledger = run.ledger /\ run'.key = run.key /\ run'.day = run.day
  BY <1>1, <1>6 DEF Running, RunFields
<1>8. series' \in Seq(Ticks) /\ n <= Len(series')
  <2>1. series \in Seq(Ticks) /\ Len(series) \in Nat /\ run.n <= Len(series)
    BY <1>1 DEF ReplayTypes, Running
  <2>2. CASE n <= Len(series)
    BY <2>1, <2>2 DEF Advance
  <2>3. CASE ~(n <= Len(series))
    <3>1. series' = Append(series, tick)
      BY <2>3 DEF Advance
    <3>2. QED BY <1>2, <2>1, <3>1
  <2>4. QED BY <2>2, <2>3
<1>9. times' = times /\ row' = row
  BY DEF Advance, record
<1>10. label \in {"recover", "account"} /\ (n = 1 => label = "recover")
  BY DEF label
<1>11. n = 1 \/ run.day \in Int
  <2>1. run.n # 0 => run.day \in Int
    BY <1>1 DEF Running, Advance, At
  <2>2. QED BY <1>2, <2>1
<1> HIDE DEF n
<1>12. Running'
  BY <1>1, <1>2, <1>4, <1>5, <1>7, <1>8, <1>9, <1>10, <1>11 DEF Running, At
<1>13. QED BY <1>8, <1>9, <1>12 DEF ReplayTypes

\* The session is recovered.
LEMMA RecoverTypes ==
    ASSUME ReplayTypes, RecoverSession
    PROVE  ReplayTypes'
<1> DEFINE equity == Equity(run.book)
           open == Len(run.book.open)
           day == TradingDay(Now)
           ledger == Recovered(row, equity, open, day)
           memory == [run EXCEPT !.ledger = ledger, !.day = day]
           trips == MustHalt(row, equity, open, day)
<1>1. run.at = "recover"
  BY DEF RecoverSession, At
<1>2. Running /\ day \in Int /\ equity \in Int
  BY <1>1, WindowFacts
<1>3. row = NoRecord \/ row \in Rows
  BY DEF ReplayTypes
<1>4. ledger \in EquityLedgers
  BY <1>2, <1>3, RecoveredLedgerType
<1>5. Goto(memory, trips, "SESSION", "account")
  BY DEF RecoverSession
<1>6. times' = times /\ series' = series /\ row' = row
  BY DEF RecoverSession, input, record
<1> HIDE DEF ledger, day
<1>7. /\ DOMAIN memory = RunFields /\ memory.n = run.n /\ memory.book = run.book
      /\ memory.ledger = ledger /\ memory.key = run.key /\ memory.day = day
  BY <1>2 DEF Running, RunFields
<1> HIDE DEF memory, trips, equity, open
<1>8. run.n # 0
  BY <1>1, <1>2 DEF Running
<1>9. Running'
  <2>1. "account" \in Returns
    BY DEF Returns
  <2>2. memory.ledger \in EquityLedgers /\ memory.day \in Int
    BY <1>2, <1>4, <1>7
  <2>3. QED BY <1>2, <1>5, <1>6, <1>7, <1>8, <2>1, <2>2, GotoRunning
<1>10. QED BY <1>6, <1>9 DEF ReplayTypes

\* The equity of a tick is observed.
LEMMA ObserveTypes ==
    ASSUME ReplayTypes, Observe
    PROVE  ReplayTypes'
<1> DEFINE rolls == TradingDay(Now) # run.day
           base == IF rolls THEN NewSession(run.ledger) ELSE run.ledger
           ledger == Updated(base, Equity(run.book))
           ticks == run.ticks \cup {run.n}
           full == Cardinality(ticks) >= MarketDataBatch
           kept == IF full THEN {} ELSE ticks
           label == IF run.n < MinBars THEN "gates" ELSE "decide"
           day == TradingDay(Now)
<1>1. run.at = "account"
  BY DEF Observe, At
<1>2. Running /\ day \in Int /\ Equity(run.book) \in Int
  BY <1>1, WindowFacts
<1>3. ledger \in EquityLedgers
  <2>1. run.ledger \in EquityLedgers
    BY <1>2 DEF Running
  <2>2. NewSession(run.ledger) \in EquityLedgers
    BY <2>1 DEF NewSession, EquityLedgers
  <2>3. base \in EquityLedgers
    BY <2>1, <2>2
  <2> HIDE DEF base
  <2>4. QED BY <1>2, <2>3, UpdatedLedgerType
<1>4. run' = [run EXCEPT !.day = day, !.ledger = ledger, !.ticks = kept, !.at = label]
  BY DEF Observe
<1>5. UNCHANGED <<times, series, row>>
  BY DEF Observe, input
<1>6. label \in {"gates", "decide"}
  OBVIOUS
<1> HIDE DEF day, ledger, kept, label
<1>7. /\ DOMAIN run' = RunFields /\ run'.at = label /\ run'.n = run.n /\ run'.book = run.book
      /\ run'.ledger = ledger /\ run'.key = run.key /\ run'.day = day
  BY <1>2, <1>4 DEF Running, RunFields
<1>8. run.n # 0 /\ run.book \in BrokerBooks
  BY <1>1, <1>2 DEF Running
<1>9. Running'
  BY <1>2, <1>3, <1>5, <1>6, <1>7, <1>8, StillRunning
<1>10. QED BY <1>5, <1>9 DEF ReplayTypes

\* A write of what is pending leaves the run otherwise as it is.
LEMMA FlushTypes ==
    ASSUME ReplayTypes, Flush
    PROVE  ReplayTypes'
<1>1. run.at = "flush"
  BY DEF Flush, At
<1>2. Running /\ run.then \in Returns
  BY <1>1, IsRunning DEF Running, At
<1>3. UNCHANGED <<times, series, row>>
  BY DEF Flush, input
<1>4. run' = [run EXCEPT !.at = run.then, !.then = None, !.pending = {}, !.ticks = {}]
  BY DEF Flush
<1>5. /\ DOMAIN run' = RunFields /\ run'.at = run.then /\ run'.n = run.n /\ run'.book = run.book
      /\ run'.ledger = run.ledger /\ run'.key = run.key /\ run'.day = run.day
  BY <1>2, <1>4 DEF Running, RunFields
<1>6. /\ run.n # 0 /\ run.book \in BrokerBooks /\ run.ledger \in EquityLedgers
      /\ run.day \in Int
  BY <1>1, <1>2 DEF Running, At
<1>7. Running'
  BY <1>2, <1>3, <1>5, <1>6, StillRunning DEF Returns
<1>8. QED BY <1>3, <1>7 DEF ReplayTypes

\* The sealing of a window leaves book and session alone.
LEMMA SealTypes ==
    ASSUME ReplayTypes, Seal
    PROVE  ReplayTypes'
<1>1. run.at = "seal"
  BY DEF Seal, At
<1>2. Running
  BY <1>1, IsRunning
<1>3. UNCHANGED <<times, series, row>>
  BY DEF Seal, input
<1>4. run' = [run EXCEPT !.at = "gates", !.pending = {}]
  BY DEF Seal
<1>5. /\ DOMAIN run' = RunFields /\ run'.at = "gates" /\ run'.n = run.n /\ run'.book = run.book
      /\ run'.ledger = run.ledger /\ run'.key = run.key /\ run'.day = run.day
  BY <1>2, <1>4 DEF Running, RunFields
<1>6. /\ run.n # 0 /\ run.book \in BrokerBooks /\ run.ledger \in EquityLedgers
      /\ run.day \in Int
  BY <1>1, <1>2 DEF Running, At
<1>7. Running'
  BY <1>2, <1>3, <1>5, <1>6, StillRunning
<1>8. QED BY <1>3, <1>7 DEF ReplayTypes

\* A check after the window.
LEMMA CheckTypes ==
    ASSUME ReplayTypes, CheckLossGates \/ CheckSessionBoundary
    PROVE  ReplayTypes'
<1>1. run.at \in {"gates", "boundary"}
  BY DEF CheckLossGates, CheckSessionBoundary, At
<1>2. Running
  BY <1>1, IsRunning
<1>3. times' = times /\ series' = series /\ row' = row
  BY DEF CheckLossGates, CheckSessionBoundary, input, record
<1>4. /\ DOMAIN run = RunFields /\ run.n # 0 /\ run.ledger \in EquityLedgers /\ run.day \in Int
  BY <1>1, <1>2 DEF Running, At
<1>5. CASE CheckLossGates
  <2> DEFINE trips == AtItsLimit(run.ledger)
  <2>1. Goto(run, trips, "LOSS", "boundary")
    BY <1>5 DEF CheckLossGates
  <2> HIDE DEF trips
  <2>2. "boundary" \in Returns
    BY DEF Returns
  <2>3. Running'
    BY <1>2, <1>3, <1>4, <2>1, <2>2, GotoRunning
  <2>4. QED BY <1>3, <2>3 DEF ReplayTypes
<1>6. CASE CheckSessionBoundary
  <2> DEFINE trips == OvernightBreach(run.book.open, Now)
  <2>1. Goto(run, trips, "OVERNIGHT_EXPOSURE", "persist")
    BY <1>6 DEF CheckSessionBoundary
  <2> HIDE DEF trips
  <2>2. "persist" \in Returns
    BY DEF Returns
  <2>3. Running'
    BY <1>2, <1>3, <1>4, <2>1, <2>2, GotoRunning
  <2>4. QED BY <1>3, <2>3 DEF ReplayTypes
<1>7. QED BY <1>5, <1>6

\* What is persisted of a run.
LEMMA StateType ==
    ASSUME Running, run.n # 0, run.day \in Int
    PROVE  State \in Rows /\ Key(State) \in Keys
<1>1. run.ledger \in EquityLedgers /\ run.book \in BrokerBooks
  BY DEF Running
<1>2. Len(run.book.open) \in Nat
  BY <1>1 DEF BrokerBooks
<1> DEFINE valued == OpenRisk(run.book.open, Equity(run.book)) # None
           open == Len(run.book.open)
<1>3. State = [ledger |-> run.ledger, day |-> run.day, open |-> open, valued |-> valued]
  BY DEF State
<1>4. valued \in BOOLEAN
  OBVIOUS
<1> HIDE DEF valued, open
<1>5. State \in Rows
  BY <1>1, <1>2, <1>3, <1>4 DEF Rows, open
<1>6. /\ State.day \in Int /\ State.ledger \in EquityLedgers /\ State.open \in Nat
      /\ State.valued \in BOOLEAN
  BY <1>5 DEF Rows
<1>7. /\ State.ledger.start \in Int /\ State.ledger.drawdown \in Int \X Int
      /\ State.ledger.loss \in Int \X Int
  BY <1>6 DEF EquityLedgers, IntPairs
<1>8. QED BY <1>5, <1>6, <1>7 DEF Key, Keys

\* The record of the session is a row.
LEMMA PersistTypes ==
    ASSUME ReplayTypes, PersistSession
    PROVE  ReplayTypes'
<1>1. run.at = "persist"
  BY DEF PersistSession, At
<1>2. Running
  BY <1>1, IsRunning
<1>3. UNCHANGED <<times, series>>
  BY DEF PersistSession, input
<1>4. run' = [run EXCEPT !.at = "tick", !.key = Key(State)]
  BY DEF PersistSession
<1>5. /\ DOMAIN run' = RunFields /\ run'.at = "tick" /\ run'.n = run.n /\ run'.book = run.book
      /\ run'.ledger = run.ledger /\ run'.key = Key(State) /\ run'.day = run.day
  BY <1>2, <1>4 DEF Running, RunFields
<1>6. run.n # 0 /\ run.day \in Int
  BY <1>1, <1>2 DEF Running, At
<1>7. State \in Rows /\ Key(State) \in Keys
  BY <1>2, <1>6, StateType
<1>8. Running'
  BY <1>2, <1>3, <1>5, <1>6, <1>7 DEF Running, At
<1>9. row' = row \/ row' = State
  BY DEF PersistSession
<1>10. QED BY <1>3, <1>7, <1>8, <1>9 DEF ReplayTypes

\* The parts of a run that a decision leaves alone.
SameBookAndSession ==
    /\ DOMAIN run' = RunFields /\ run'.n = run.n /\ run'.book = run.book
    /\ run'.ledger = run.ledger /\ run'.key = run.key /\ run'.day = run.day

\* A step that leaves book and session alone keeps their types.
LEMMA DecidingTypes ==
    ASSUME ReplayTypes, run.at \in {"decide", "supervise", "execute"}, SameBookAndSession,
           times' = times, series' = series, row' = row,
           run'.at \in {"supervise", "execute", "seal"} \/ (run'.at = "flush" /\ run'.then = "seal")
    PROVE  ReplayTypes'
<1>1. Running
  BY IsRunning
<1>2. /\ run.n # 0 /\ run.book \in BrokerBooks /\ run.ledger \in EquityLedgers /\ run.day \in Int
  BY <1>1 DEF Running, At
<1>3. Running'
  BY <1>1, <1>2, StillRunning DEF SameBookAndSession, Returns
<1>4. QED BY <1>3 DEF ReplayTypes

\* The events of a window's risk decision.
Judged(intent, risk) ==
    {Event("SIGNAL", intent.side), Event("INTENT", intent), Event("RISK", risk)}

\* The decision without a wish.
LEMMA NoWishGives ==
    ASSUME Running, Decide, Tick.wish = None
    PROVE  /\ SameBookAndSession /\ run'.at = "seal"
           /\ run'.window = Capsule(None, None, None, FALSE)
           /\ run'.pending = run.pending \cup {Event("SIGNAL", None)}
<1> DEFINE pending == run.pending \cup {Event("SIGNAL", None)}
           window == Capsule(None, None, None, FALSE)
<1>1. run' = [[run EXCEPT !.pending = pending] EXCEPT !.at = "seal", !.window = window]
  BY DEF Decide, Recorded
<1>2. DOMAIN run = RunFields
  BY DEF Running
<1> HIDE DEF pending, window
<1>3. QED BY <1>1, <1>2 DEF RunFields, SameBookAndSession, pending, window

\* The decision about a wish.
LEMMA WishGives ==
    ASSUME Running, Decide, Tick.wish # None
    PROVE  \E intent, risk :
              /\ intent = Intent(Tick.wish)
              /\ risk = Evaluate(intent, Snapshot, Portfolio, run.halted)
              /\ SameBookAndSession /\ run'.window = Capsule(intent, risk, None, FALSE)
              /\ \/ /\ run'.at = IF risk.verdict = "PASS" THEN "supervise" ELSE "seal"
                    /\ run'.pending = run.pending \cup Judged(intent, risk)
                 \/ /\ run'.at = "flush" /\ run'.then = "seal"
                    /\ run'.pending = run.pending \cup Judged(intent, risk)
                                        \cup {Event("HALT", risk.reasons)}
<1> DEFINE intent == Intent(Tick.wish)
           risk == Evaluate(intent, Snapshot, Portfolio, run.halted)
           pending == run.pending \cup Judged(intent, risk)
           intents == Trimmed(Append(run.intents, Now), Now)
           window == Capsule(intent, risk, None, FALSE)
           memory == [[run EXCEPT !.pending = pending] EXCEPT !.intents = intents, !.window = window]
           trips == risk.verdict = "HALT"
           reasons == risk.reasons
           label == IF risk.verdict = "PASS" THEN "supervise" ELSE "seal"
<1>1. Goto(memory, trips, reasons, label)
  <2>1. [Recorded(run, Judged(intent, risk)) EXCEPT
             !.intents = Trimmed(Append(@, Now), Now), !.window = window] = memory
    BY DEF Recorded
  <2>2. Goto([Recorded(run, Judged(intent, risk)) EXCEPT
             !.intents = Trimmed(Append(@, Now), Now), !.window = window], trips, reasons, label)
    BY DEF Decide, Judged
  <2> HIDE DEF memory, trips, reasons, label, window, intent, risk
  <2>3. QED BY <2>1, <2>2
<1>2. trips => label = "seal"
  OBVIOUS
<1>3. DOMAIN run = RunFields
  BY DEF Running
<1>4. /\ DOMAIN memory = RunFields /\ memory.n = run.n /\ memory.book = run.book
      /\ memory.ledger = run.ledger /\ memory.key = run.key /\ memory.day = run.day
      /\ memory.window = window /\ memory.pending = pending
  <2> HIDE DEF pending, intents, window
  <2> QED BY <1>3 DEF RunFields
<1> HIDE DEF memory, trips
<1>5. /\ DOMAIN run' = RunFields
      /\ run'.n = memory.n /\ run'.book = memory.book /\ run'.ledger = memory.ledger
      /\ run'.day = memory.day /\ run'.key = memory.key /\ run'.window = memory.window
      /\ \/ run'.at = label /\ run'.pending = memory.pending
         \/ /\ run'.at = "flush" /\ run'.then = label
            /\ run'.pending = memory.pending \cup {Event("HALT", reasons)}
            /\ trips
  <2> HIDE DEF reasons, label, window, pending, intents, risk, intent
  <2> QED BY <1>1, <1>4, GotoGives
<1>6. SameBookAndSession /\ run'.window = window
  <2> HIDE DEF window, label, pending, reasons
  <2> QED BY <1>4, <1>5 DEF SameBookAndSession
<1>7. \/ run'.at = label /\ run'.pending = pending
      \/ run'.at = "flush" /\ run'.then = "seal" /\ run'.pending = pending \cup {Event("HALT", reasons)}
  <2> HIDE DEF window, label, pending, reasons
  <2> QED BY <1>2, <1>4, <1>5
<1> HIDE DEF intent, risk
<1>8. QED BY <1>6, <1>7 DEF intent, risk

\* The supervisor's decision.
LEMMA SuperviseGives ==
    ASSUME Running, SuperviseIntent
    PROVE  \E decision :
              /\ SameBookAndSession
              /\ run'.window = [run.window EXCEPT !.supervisor = decision]
              /\ \/ /\ run'.at \in {"execute", "seal"}
                    /\ run'.pending = run.pending \cup {Event("SUPERVISOR", decision)}
                 \/ /\ run'.at = "flush" /\ run'.then = "seal"
                    /\ run'.pending = run.pending \cup {Event("SUPERVISOR", decision)}
                                        \cup {Event("HALT", decision.reasons)}
<1> DEFINE decision == Supervise(run.window.intent, Policy, Context)
           pending == run.pending \cup {Event("SUPERVISOR", decision)}
           window == [run.window EXCEPT !.supervisor = decision]
           memory == [[run EXCEPT !.pending = pending] EXCEPT !.window = window]
           trips == decision.verdict = "HALT"
           reasons == decision.reasons
           label == IF decision.verdict = "APPROVE" THEN "execute" ELSE "seal"
<1>0. DOMAIN run = RunFields
  BY DEF Running
<1>1. Goto(memory, trips, reasons, label)
  <2>1. [Recorded(run, {Event("SUPERVISOR", decision)}) EXCEPT !.window.supervisor = decision] = memory
    <3> HIDE DEF decision
    <3> QED BY <1>0 DEF Recorded, RunFields
  <2>2. Goto([Recorded(run, {Event("SUPERVISOR", decision)}) EXCEPT !.window.supervisor = decision],
             trips, reasons, label)
    BY DEF SuperviseIntent
  <2> HIDE DEF memory, trips, reasons, label, window, decision
  <2>3. QED BY <2>1, <2>2
<1>2. trips => label = "seal"
  OBVIOUS
<1>3. label \in {"execute", "seal"}
  OBVIOUS
<1>4. /\ DOMAIN memory = RunFields /\ memory.n = run.n /\ memory.book = run.book
      /\ memory.ledger = run.ledger /\ memory.key = run.key /\ memory.day = run.day
      /\ memory.window = window /\ memory.pending = pending
  <2> HIDE DEF pending, window
  <2> QED BY <1>0 DEF RunFields
<1> HIDE DEF memory, trips, label, pending, window, reasons
<1>5. /\ DOMAIN run' = RunFields
      /\ run'.n = memory.n /\ run'.book = memory.book /\ run'.ledger = memory.ledger
      /\ run'.day = memory.day /\ run'.key = memory.key /\ run'.window = memory.window
      /\ \/ run'.at = label /\ run'.pending = memory.pending
         \/ /\ run'.at = "flush" /\ run'.then = label
            /\ run'.pending = memory.pending \cup {Event("HALT", reasons)}
            /\ trips
  BY <1>1, <1>4, GotoGives
<1>6. SameBookAndSession /\ run'.window = window
  BY <1>4, <1>5 DEF SameBookAndSession
<1>7. \/ run'.at \in {"execute", "seal"} /\ run'.pending = pending
      \/ run'.at = "flush" /\ run'.then = "seal" /\ run'.pending = pending \cup {Event("HALT", reasons)}
  BY <1>2, <1>3, <1>4, <1>5
<1> HIDE DEF decision
<1>8. QED BY <1>6, <1>7 DEF pending, window, reasons

\* The order of a window is its intent with the volume of its grant.
LEMMA OrderGives ==
    ASSUME ReplayTypes, GrantHolds, At("execute")
    PROVE  /\ ApprovedOrder.side = run.window.intent.side /\ ApprovedOrder.side \in Sides
           /\ ApprovedOrder.stop = run.window.intent.stop /\ ApprovedOrder.stop \in Int
           /\ ApprovedOrder.target \in Int
           /\ ApprovedOrder.volume = run.window.risk.volume /\ ApprovedOrder.volume \in Int
           /\ run.window.intent.entry \in Int
           /\ StopDistance(run.window.intent) \in Int
<1> DEFINE intent == run.window.intent
           v == run.window.risk.volume
           d == StopDistance(intent)
           e == Equity(run.book)
<1>1. /\ intent.side \in Sides
      /\ intent.entry = IF intent.side = "BUY" THEN Ask(run.book.tick) ELSE Bid(run.book.tick)
      /\ intent.stop \in Int /\ intent.target \in Int /\ d > 0
      /\ v # None /\ v = SizePosition(e, MaxRiskPerTrade, d)
  BY DEF GrantHolds, At
<1>2. e \in Int /\ run.book.tick.mid \in Int
  BY WindowFacts DEF At
<1>3. intent.entry \in Int
  BY <1>1, <1>2, Numbers DEF Ask, Bid
<1>4. d \in Int
  BY <1>1, <1>3 DEF StopDistance
<1>5. MaxRiskPerTrade \in Fractions
  BY ReplayAssumption
<1>6. v \in Int
  <2> HIDE DEF v, d, e
  <2> QED BY <1>1, <1>2, <1>4, <1>5, SizedWithinRisk
<1>7. /\ ApprovedOrder.side = intent.side /\ ApprovedOrder.stop = intent.stop
      /\ ApprovedOrder.target = intent.target /\ ApprovedOrder.volume = v
  BY DEF ApprovedOrder
<1> HIDE DEF intent, v, d, e
<1>8. QED BY <1>1, <1>3, <1>4, <1>6, <1>7 DEF intent, v, d

\* What pre-flight and the fill do.
Sent(book) ==
    {Event("SUBMITTED", ApprovedOrder.side), Event("RESULT", book.open[Len(book.open)]),
     Event("POSITION", Len(book.open))}

Checked == Event("CHECK", CheckPasses(run.book, MarginPerLot, ApprovedOrder.volume))

\* What _execute() leaves: a refused order changes the events only.
LEMMA ExecuteGives ==
    ASSUME Running, Execute
    PROVE  /\ DOMAIN run' = RunFields /\ run'.at = "seal" /\ run'.n = run.n
           /\ run'.ledger = run.ledger /\ run'.key = run.key /\ run'.day = run.day
           /\ \/ /\ run'.book = run.book /\ run'.window = run.window
                 /\ run'.pending = run.pending \cup {Checked}
              \/ /\ run'.book = Filled(run.book, ApprovedOrder)
                 /\ run'.window = [run.window EXCEPT !.filled = TRUE]
                 /\ run'.pending = run.pending \cup {Checked} \cup Sent(run'.book)
<1> DEFINE order == ApprovedOrder
           accepted == CheckPasses(run.book, MarginPerLot, order.volume)
           book == Filled(run.book, order)
           seen == run.seen \cup {run.n}
           first == run.pending \cup {Checked}
           checked == [[run EXCEPT !.at = "seal", !.seen = seen] EXCEPT !.pending = first]
           window == [run.window EXCEPT !.filled = TRUE]
           orders == Trimmed(Append(run.orders, Now), Now)
           second == first \cup Sent(book)
<1>0. DOMAIN run = RunFields
  BY DEF Running
<1>1. /\ DOMAIN checked = RunFields /\ checked.at = "seal" /\ checked.n = run.n
      /\ checked.ledger = run.ledger /\ checked.key = run.key /\ checked.day = run.day
      /\ checked.book = run.book /\ checked.window = run.window /\ checked.pending = first
      /\ checked.orders = run.orders
  <2> HIDE DEF seen, first
  <2> QED BY <1>0 DEF RunFields
<1>2. Recorded([run EXCEPT !.at = "seal", !.seen = @ \cup {run.n}], {Checked}) = checked
  <2>1. [run EXCEPT !.at = "seal", !.seen = seen].pending = run.pending
    <3> HIDE DEF seen
    <3> QED BY <1>0 DEF RunFields
  <2>2. QED BY <2>1 DEF Recorded
<1>3. run' = IF ~accepted THEN Recorded([run EXCEPT !.at = "seal", !.seen = @ \cup {run.n}], {Checked})
             ELSE [Recorded(Recorded([run EXCEPT !.at = "seal", !.seen = @ \cup {run.n}], {Checked}),
                            Sent(book)) EXCEPT
                      !.book = book, !.window.filled = TRUE,
                      !.orders = Trimmed(Append(@, Now), Now)]
  BY DEF Execute, Sent, Checked
<1>4. run' = IF ~accepted THEN checked
             ELSE [Recorded(checked, Sent(book)) EXCEPT
                      !.book = book, !.window.filled = TRUE,
                      !.orders = Trimmed(Append(@, Now), Now)]
  <2> HIDE DEF checked, book, accepted
  <2> QED BY <1>2, <1>3
<1>5. CASE ~accepted
  <2>1. run' = checked
    BY <1>4, <1>5
  <2> HIDE DEF checked
  <2>2. QED BY <1>1, <2>1
<1>6. CASE accepted
  <2>1. run' = [Recorded(checked, Sent(book)) EXCEPT !.book = book, !.window.filled = TRUE,
                                                     !.orders = Trimmed(Append(@, Now), Now)]
    BY <1>4, <1>6
  <2> HIDE DEF checked, book, accepted, order
  <2>2. run' = [[checked EXCEPT !.pending = second] EXCEPT
                   !.book = book, !.window = window, !.orders = orders]
    <3>1. Recorded(checked, Sent(book)) = [checked EXCEPT !.pending = second]
      BY <1>1 DEF Recorded
    <3> HIDE DEF second
    <3>2. /\ [checked EXCEPT !.pending = second].orders = run.orders
          /\ [checked EXCEPT !.pending = second].window = run.window
      BY <1>1 DEF RunFields
    <3>3. QED BY <2>1, <3>1, <3>2
  <2> HIDE DEF second, window, orders
  <2>3. /\ DOMAIN run' = RunFields /\ run'.at = "seal" /\ run'.n = run.n
        /\ run'.ledger = run.ledger /\ run'.key = run.key /\ run'.day = run.day
        /\ run'.book = book /\ run'.window = window /\ run'.pending = second
    BY <1>1, <2>2 DEF RunFields
  <2>4. QED BY <2>3 DEF second, window, book, order
<1>7. QED BY <1>5, <1>6

\* A fill keeps the types: the order that was granted has a volume.
LEMMA ExecuteTypes ==
    ASSUME ReplayTypes, GrantHolds, Execute
    PROVE  ReplayTypes'
<1>1. run.at = "execute"
  BY DEF Execute, At
<1>2. Running
  BY <1>1, IsRunning
<1>3. times' = times /\ series' = series /\ row' = row
  BY DEF Execute, input, record
<1>4. /\ run.n # 0 /\ run.book \in BrokerBooks /\ run.ledger \in EquityLedgers /\ run.day \in Int
      /\ run.book.tick \in BrokerTicks
  BY <1>1, <1>2 DEF Running, At
<1>5. run'.book \in BrokerBooks /\ run'.book.tick = run.book.tick
  <2>1. CASE run'.book = run.book
    BY <1>4, <2>1
  <2>2. CASE run'.book = Filled(run.book, ApprovedOrder)
    <3>1. /\ ApprovedOrder.side \in Sides /\ ApprovedOrder.stop \in Int
          /\ ApprovedOrder.target \in Int /\ ApprovedOrder.volume \in Int
      BY <1>1, OrderGives DEF At
    <3>2. QED BY <1>4, <2>2, <3>1, FilledType
  <2>3. QED BY <1>2, <2>1, <2>2, ExecuteGives
<1>6. Running'
  BY <1>2, <1>3, <1>4, <1>5, ExecuteGives, StillRunning
<1>7. QED BY <1>3, <1>6 DEF ReplayTypes

------------------------------------------------------------------------------
(* The grant of a window                                                   *)

\* The intent of a wish is at the quote, with a stop at the wished distance.
LEMMA IntentGives ==
    ASSUME NEW wish \in Wishes, run.book.tick.mid \in Int
    PROVE  LET intent == Intent(wish) IN
           /\ intent.side \in Sides /\ intent.window = run.n /\ intent.risk = MaxRiskPerTrade
           /\ intent.entry = IF intent.side = "BUY" THEN Ask(run.book.tick) ELSE Bid(run.book.tick)
           /\ intent.stop \in Int /\ intent.target \in Int /\ StopDistance(intent) \in Int
<1> DEFINE intent == Intent(wish)
           entry == IF wish.side = "BUY" THEN Ask(run.book.tick) ELSE Bid(run.book.tick)
           sign == IF wish.side = "BUY" THEN 1 ELSE -1
           stop == entry - sign * wish.distance
           target == entry + sign * wish.distance
<1>1. wish.side \in Sides /\ wish.distance \in Int
  BY DEF Wishes, Sides
<1>2. entry \in Int
  BY Numbers DEF Ask, Bid
<1>3. stop \in Int /\ target \in Int
  <2>1. sign \in Int
    OBVIOUS
  <2>2. sign * wish.distance \in Int
    BY <1>1
  <2> HIDE DEF entry, sign
  <2>3. QED BY <1>2, <2>2
<1>4. Snapshot.ask = Ask(run.book.tick) /\ Snapshot.bid = Bid(run.book.tick)
  BY DEF Snapshot
<1>5. /\ intent.side = wish.side /\ intent.window = run.n /\ intent.risk = MaxRiskPerTrade
      /\ intent.entry = entry /\ intent.stop = stop /\ intent.target = target
  BY <1>4 DEF Intent
<1> HIDE DEF intent, entry, stop, target
<1>6. StopDistance(intent) \in Int
  BY <1>2, <1>3, <1>5 DEF StopDistance
<1>7. QED BY <1>1, <1>3, <1>5, <1>6 DEF intent, entry

\* A pass of the risk gateway grants its volume.
LEMMA DecideGrants ==
    ASSUME ReplayTypes, Decide
    PROVE  GrantHolds'
<1>1. run.at = "decide"
  BY DEF Decide, At
<1>2. Running /\ Tick \in Ticks /\ run.book.tick.mid \in Int
  BY <1>1, WindowFacts
<1>3. CASE Tick.wish = None
  BY <1>2, <1>3, NoWishGives DEF GrantHolds
<1>4. CASE Tick.wish # None
  <2>1. Tick.wish \in Wishes
    BY <1>2, <1>4, ReplayAssumption
  <2>2. PICK intent, risk :
              /\ intent = Intent(Tick.wish)
              /\ risk = Evaluate(intent, Snapshot, Portfolio, run.halted)
              /\ SameBookAndSession /\ run'.window = Capsule(intent, risk, None, FALSE)
              /\ \/ /\ run'.at = IF risk.verdict = "PASS" THEN "supervise" ELSE "seal"
                    /\ run'.pending = run.pending \cup Judged(intent, risk)
                 \/ /\ run'.at = "flush" /\ run'.then = "seal"
                    /\ run'.pending = run.pending \cup Judged(intent, risk)
                                        \cup {Event("HALT", risk.reasons)}
    BY <1>2, <1>4, WishGives
  <2>3. /\ intent.side \in Sides /\ intent.risk = MaxRiskPerTrade
        /\ intent.entry = IF intent.side = "BUY" THEN Ask(run.book.tick) ELSE Bid(run.book.tick)
        /\ intent.stop \in Int /\ intent.target \in Int /\ StopDistance(intent) \in Int
    BY <1>2, <2>1, <2>2, IntentGives
  <2>4. /\ run'.window.intent = intent /\ run'.window.risk = risk /\ run'.window.filled = FALSE
    BY <2>2 DEF Capsule
  <2>5. run'.book = run.book
    BY <2>2 DEF SameBookAndSession
  <2>6. CASE risk.verdict = "PASS" /\ run'.at = "supervise"
    <3>1. /\ StopDistance(intent) > 0
          /\ Portfolio.openRisk # None
          /\ ~Over(Plus(Portfolio.openRisk, intent.risk), MaxOpenRisk)
          /\ risk.volume # None
          /\ risk.volume = SizePosition(Portfolio.equity, intent.risk, StopDistance(intent))
      BY <2>2, <2>3, <2>6, PassGrants
    <3>2. /\ Portfolio.openRisk = OpenRisk(run.book.open, Equity(run.book))
          /\ Portfolio.equity = Equity(run.book)
      BY DEF Portfolio
    <3>3. QED BY <2>3, <2>4, <2>5, <3>1, <3>2 DEF GrantHolds
  <2>7. CASE run'.at \notin {"supervise", "execute"}
    BY <2>7 DEF GrantHolds
  <2>8. QED BY <2>2, <2>6, <2>7
<1>5. QED BY <1>3, <1>4

\* The supervisor leaves the grant alone.
LEMMA SuperviseGrants ==
    ASSUME ReplayTypes, GrantHolds, WindowIsOpen, SuperviseIntent
    PROVE  GrantHolds'
<1>1. run.at = "supervise"
  BY DEF SuperviseIntent, At
<1>2. Running
  BY <1>1, IsRunning
<1>3. PICK decision :
              /\ SameBookAndSession
              /\ run'.window = [run.window EXCEPT !.supervisor = decision]
  BY <1>2, SuperviseGives
<1>4. /\ run'.window.intent = run.window.intent /\ run'.window.risk = run.window.risk
      /\ run'.window.filled = run.window.filled
  <2>1. DOMAIN run.window = CapsuleFields
    BY <1>1 DEF WindowIsOpen, Deciding
  <2>2. QED BY <1>3, <2>1 DEF CapsuleFields
<1>5. run'.book = run.book
  BY <1>3 DEF SameBookAndSession
<1>6. QED BY <1>1, <1>4, <1>5 DEF GrantHolds

\* The other steps leave no grant behind.
LEMMA OthersGrantNothing ==
    ASSUME run'.at \notin {"supervise", "execute"}
    PROVE  GrantHolds'
BY DEF GrantHolds

\* A fill that the grant covers leaves the book within its budget.
LEMMA ExecuteIsBudgeted ==
    ASSUME ReplayTypes, GrantHolds, Execute, run'.window.filled
    PROVE  LET new == run'.book.open[Len(run'.book.open)] IN
           (BookRisk(run'.book.open) - new.volume * EntrySlip) * MaxOpenRisk[2]
              <= MaxOpenRisk[1] * Equity(run.book)
<1> DEFINE intent == run.window.intent
           v == run.window.risk.volume
           d == StopDistance(intent)
           e == Equity(run.book)
           open == run.book.open
           p == FilledAt(run.book, ApprovedOrder)
<1>1. run.at = "execute"
  BY DEF Execute, At
<1>2. Running /\ e \in Int /\ run.book.tick.mid \in Int
  BY <1>1, WindowFacts
<1>3. /\ ~run.window.filled
      /\ intent.entry = IF intent.side = "BUY" THEN Ask(run.book.tick) ELSE Bid(run.book.tick)
      /\ d > 0 /\ OpenRisk(open, e) # None
      /\ ~Over(Plus(OpenRisk(open, e), MaxRiskPerTrade), MaxOpenRisk)
      /\ v # None /\ v = SizePosition(e, MaxRiskPerTrade, d)
  BY <1>1 DEF GrantHolds
<1>4. /\ ApprovedOrder.side = intent.side /\ ApprovedOrder.side \in Sides
      /\ ApprovedOrder.stop = intent.stop /\ ApprovedOrder.stop \in Int
      /\ ApprovedOrder.target \in Int /\ ApprovedOrder.volume = v /\ v \in Int
      /\ intent.entry \in Int /\ d \in Int
  BY <1>1, OrderGives DEF At
<1>5. run.book \in BrokerBooks /\ run.book.tick \in BrokerTicks /\ open \in Seq(Positions)
  BY <1>1, <1>2 DEF Running, BrokerBooks
<1>6. run'.book = Filled(run.book, ApprovedOrder)
  BY <1>2, <1>3, ExecuteGives
<1>7. run'.book.open = Append(open, p) /\ p \in Positions
  BY <1>4, <1>5, <1>6, FilledType
<1>8. /\ p.side = intent.side /\ p.volume = v /\ p.stop = intent.stop
      /\ p.entry = IF intent.side = "BUY" THEN intent.entry + EntrySlip
                                          ELSE intent.entry - EntrySlip
  BY <1>3, <1>4 DEF FilledAt
<1>9. v \in Int /\ (BookRisk(open) + v * d) * MaxOpenRisk[2] <= MaxOpenRisk[1] * e
  <2> HIDE DEF v, d, e, open
  <2> QED BY <1>2, <1>3, <1>4, <1>5, GrantIsBudgeted
<1>10. AdverseDistance(p) = d + EntrySlip
  <2>1. intent.stop \in Int
    BY <1>4
  <2>2. CASE intent.side = "BUY"
    <3>1. d = intent.entry - intent.stop
      BY <2>2 DEF StopDistance
    <3>2. AdverseDistance(p) = Greater(0, p.entry - p.stop)
      BY <1>8, <2>2 DEF AdverseDistance
    <3>3. p.entry - p.stop = d + EntrySlip /\ d + EntrySlip > 0 /\ d + EntrySlip \in Int
      <4> HIDE DEF d, intent, p
      <4> QED BY <1>3, <1>4, <1>8, <2>1, <2>2, <3>1, Numbers
    <3> HIDE DEF d, intent, p
    <3>4. QED BY <3>2, <3>3 DEF Greater
  <2>3. CASE intent.side # "BUY"
    <3>1. d = intent.stop - intent.entry
      BY <2>3 DEF StopDistance
    <3>2. AdverseDistance(p) = Greater(0, p.stop - p.entry)
      BY <1>8, <2>3 DEF AdverseDistance
    <3>3. p.stop - p.entry = d + EntrySlip /\ d + EntrySlip > 0 /\ d + EntrySlip \in Int
      <4> HIDE DEF d, intent, p
      <4> QED BY <1>3, <1>4, <1>8, <2>1, <2>3, <3>1, Numbers
    <3> HIDE DEF d, intent, p
    <3>4. QED BY <3>2, <3>3 DEF Greater
  <2>4. QED BY <2>2, <2>3
<1>11. /\ BookRisk(open) \in Int
       /\ BookRisk(run'.book.open) = BookRisk(open) + RealisedRisk(v, d + EntrySlip)
  <2> HIDE DEF p, open, d
  <2> QED BY <1>5, <1>7, <1>8, <1>10, BookRiskAppend
<1>12. run'.book.open[Len(run'.book.open)] = p
  <2> HIDE DEF p, open
  <2> QED BY <1>5, <1>7
<1>13. BookRisk(run'.book.open) - v * EntrySlip = BookRisk(open) + v * d
  <2> HIDE DEF v, d, open
  <2>1. v * (d + EntrySlip) = v * d + v * EntrySlip /\ v * d \in Int /\ v * EntrySlip \in Int
    BY <1>4, Numbers
  <2>2. QED BY <1>11, <2>1 DEF RealisedRisk
<1> HIDE DEF v, d, open, p
<1>14. QED BY <1>8, <1>9, <1>12, <1>13 DEF e

------------------------------------------------------------------------------
(* Events, capsules and halts                                              *)

Quiet == {"tick", "recover", "account", "decide", "gates", "boundary", "persist"}

\* What an event says of itself.
LEMMA EventSays ==
    \A type, payload : Event(type, payload).type = type /\ Event(type, payload).window = run.n
BY DEF Event

\* Nothing is pending between the windows.
LEMMA QuietHasNone == ASSUME CommitInv, run.at \in Quiet PROVE run.pending = {}
BY DEF CommitInv, PendingIsOfTheWindow, Quiet, At

\* Nor is it after a step from there that records nothing.
LEMMA QuietStays ==
    ASSUME run'.at \in Quiet, run'.pending = {}
    PROVE  PendingIsOfTheWindow' /\ WindowIsOpen'
<1>1. Stages(run.at)' = {}
  BY DEF Stages, Quiet
<1>2. QED BY <1>1 DEF PendingIsOfTheWindow, WindowIsOpen, HasStage, Quiet, Deciding, At

\* A check outside a window records at most a halt.
LEMMA GotoCommits ==
    ASSUME Running, run.pending = {}, NEW memory, DOMAIN memory = RunFields, memory.n = run.n,
           memory.pending = {}, NEW trips, NEW reasons, NEW label, label \in Quiet,
           Goto(memory, trips, reasons, label)
    PROVE  PendingIsOfTheWindow' /\ WindowIsOpen'
<1>1. /\ run'.n = run.n
      /\ \/ run'.at = label /\ run'.pending = {}
         \/ /\ run'.at = "flush" /\ run'.then = label
            /\ run'.pending = {Event("HALT", reasons)}
  BY GotoGives
<1>2. CASE run'.at = label /\ run'.pending = {}
  BY <1>2, QuietStays
<1>3. CASE run'.at = "flush" /\ run'.then = label /\ run'.pending = {Event("HALT", reasons)}
  <2>1. \A e \in run'.pending : e.type = "HALT" /\ e.window = run'.n
    BY <1>1, <1>3 DEF Event
  <2>2. \E e \in run'.pending : e.type = "HALT"
    BY <1>3, <2>1
  <2>3. Stages(run.at)' = {}
    BY <1>3 DEF Stages
  <2>4. PendingIsOfTheWindow'
    BY <1>3, <2>1, <2>2, <2>3 DEF PendingIsOfTheWindow, HasStage, At
  <2>5. WindowIsOpen'
    BY <1>3 DEF WindowIsOpen, Deciding, Quiet, At
  <2>6. QED BY <2>4, <2>5
<1>4. QED BY <1>1, <1>2, <1>3

\* What a step within a window must add.
LEMMA WindowCommits ==
    ASSUME PendingIsOfTheWindow, run.at # "off", run'.n = run.n,
           run'.at \in Deciding \/ (run'.at = "flush" /\ run'.then = "seal"),
           NEW added, run'.pending = run.pending \cup added,
           \A e \in added : e.window = run.n,
           \A stage \in Stages(run'.at) : HasStage(stage) \/ \E e \in added : e.type = stage,
           run'.at = "flush" => \E e \in added : e.type = "HALT",
           (\E e \in added : e.type = "RESULT") =>
              \A stage \in StageNames : HasStage(stage) \/ \E e \in added : e.type = stage
    PROVE  PendingIsOfTheWindow'
<1>1. \A e \in run'.pending : e.window = run'.n
  BY DEF PendingIsOfTheWindow, At
<1>2. \A stage : HasStage(stage)' <=> HasStage(stage) \/ \E e \in added : e.type = stage
  BY DEF HasStage
<1>3. run'.at \notin Quiet
  BY DEF Quiet, Deciding
<1>4. \A stage \in Stages(run'.at) : HasStage(stage)'
  BY <1>2
<1>5. HasStage("RESULT")' => \A stage \in StageNames : HasStage(stage)'
  BY <1>2 DEF PendingIsOfTheWindow, At
<1>6. run'.at = "flush" => HasStage("HALT")'
  BY <1>2
<1>7. QED BY <1>1, <1>3, <1>4, <1>5, <1>6 DEF PendingIsOfTheWindow, Quiet, At

\* The decision of a window opens it, with its first three events.
LEMMA DecideCommits ==
    ASSUME ReplayTypes, CommitInv, Decide
    PROVE  PendingIsOfTheWindow' /\ WindowIsOpen'
<1>1. run.at = "decide"
  BY DEF Decide, At
<1>2. Running /\ PendingIsOfTheWindow
  BY <1>1, IsRunning DEF CommitInv
<1>3. CASE Tick.wish = None
  <2>1. /\ SameBookAndSession /\ run'.at = "seal"
        /\ run'.window = Capsule(None, None, None, FALSE)
        /\ run'.pending = run.pending \cup {Event("SIGNAL", None)}
    BY <1>2, <1>3, NoWishGives
  <2> DEFINE added == {Event("SIGNAL", None)}
  <2>2. \A e \in added : e.window = run.n /\ e.type = "SIGNAL"
    BY DEF Event
  <2>3. Stages(run'.at) = {}
    BY <2>1 DEF Stages
  <2>4. run'.n = run.n /\ run'.at \in Deciding /\ run'.pending = run.pending \cup added
    BY <2>1 DEF SameBookAndSession, Deciding
  <2> HIDE DEF added
  <2>5. PendingIsOfTheWindow'
    BY <1>1, <1>2, <2>1, <2>2, <2>3, <2>4, WindowCommits
  <2>6. WindowIsOpen'
    BY <2>1, <2>4 DEF WindowIsOpen, Capsule, CapsuleFields
  <2>7. QED BY <2>5, <2>6
<1>4. CASE Tick.wish # None
  <2>1. PICK intent, risk :
              /\ intent = Intent(Tick.wish)
              /\ risk = Evaluate(intent, Snapshot, Portfolio, run.halted)
              /\ SameBookAndSession /\ run'.window = Capsule(intent, risk, None, FALSE)
              /\ \/ /\ run'.at = IF risk.verdict = "PASS" THEN "supervise" ELSE "seal"
                    /\ run'.pending = run.pending \cup Judged(intent, risk)
                 \/ /\ run'.at = "flush" /\ run'.then = "seal"
                    /\ run'.pending = run.pending \cup Judged(intent, risk)
                                        \cup {Event("HALT", risk.reasons)}
    BY <1>2, <1>4, WishGives
  <2> DEFINE added == IF run'.at = "flush" THEN Judged(intent, risk) \cup {Event("HALT", risk.reasons)}
                                           ELSE Judged(intent, risk)
  <2>2. \A e \in added : e.window = run.n /\ e.type \in {"SIGNAL", "INTENT", "RISK", "HALT"}
    BY DEF Event, Judged
  <2>3. \A stage \in {"SIGNAL", "INTENT", "RISK"} : \E e \in added : e.type = stage
    <3>1. Judged(intent, risk) \subseteq added
      OBVIOUS
    <3>2. /\ Event("SIGNAL", intent.side) \in added /\ Event("INTENT", intent) \in added
          /\ Event("RISK", risk) \in added
      BY <3>1 DEF Judged
    <3> HIDE DEF added
    <3>3. QED BY <3>2, EventSays
  <2>4. run'.at = "flush" => \E e \in added : e.type = "HALT"
    <3>1. run'.at = "flush" => Event("HALT", risk.reasons) \in added
      OBVIOUS
    <3> HIDE DEF added
    <3>2. QED BY <3>1, EventSays
  <2>5. run'.pending = run.pending \cup added
    BY <2>1
  <2>6. run'.at \in {"supervise", "seal"} \/ (run'.at = "flush" /\ run'.then = "seal")
    BY <2>1
  <2>7. Stages(run'.at) \subseteq {"SIGNAL", "INTENT", "RISK"}
    BY <2>6 DEF Stages
  <2>8. run'.n = run.n
    BY <2>1 DEF SameBookAndSession
  <2> HIDE DEF added
  <2>9. PendingIsOfTheWindow'
    BY <1>1, <1>2, <2>2, <2>3, <2>4, <2>5, <2>6, <2>7, <2>8, WindowCommits DEF Deciding
  <2>10. WindowIsOpen'
    BY <2>1, <2>8 DEF WindowIsOpen, Capsule, CapsuleFields
  <2>11. QED BY <2>9, <2>10
<1>5. QED BY <1>3, <1>4

\* The supervisor's decision joins the events of its window.
LEMMA SuperviseCommits ==
    ASSUME ReplayTypes, CommitInv, SuperviseIntent
    PROVE  PendingIsOfTheWindow' /\ WindowIsOpen'
<1>1. run.at = "supervise"
  BY DEF SuperviseIntent, At
<1>2. Running /\ PendingIsOfTheWindow /\ WindowIsOpen
  BY <1>1, IsRunning DEF CommitInv
<1>3. PICK decision :
              /\ SameBookAndSession
              /\ run'.window = [run.window EXCEPT !.supervisor = decision]
              /\ \/ /\ run'.at \in {"execute", "seal"}
                    /\ run'.pending = run.pending \cup {Event("SUPERVISOR", decision)}
                 \/ /\ run'.at = "flush" /\ run'.then = "seal"
                    /\ run'.pending = run.pending \cup {Event("SUPERVISOR", decision)}
                                        \cup {Event("HALT", decision.reasons)}
  BY <1>2, SuperviseGives
<1> DEFINE added == IF run'.at = "flush"
                    THEN {Event("SUPERVISOR", decision), Event("HALT", decision.reasons)}
                    ELSE {Event("SUPERVISOR", decision)}
<1>4. \A e \in added : e.window = run.n /\ e.type \in {"SUPERVISOR", "HALT"}
  BY DEF Event
<1>5. \E e \in added : e.type = "SUPERVISOR"
  BY DEF Event
<1>6. run'.at = "flush" => \E e \in added : e.type = "HALT"
  BY DEF Event
<1>7. run'.pending = run.pending \cup added
  BY <1>3
<1>8. run'.at \in {"execute", "seal"} \/ (run'.at = "flush" /\ run'.then = "seal")
  BY <1>3
<1>9. \A stage \in Stages(run'.at) : stage = "SUPERVISOR" \/ stage \in Stages(run.at)
  BY <1>1, <1>8 DEF Stages
<1>10. \A stage \in Stages(run.at) : HasStage(stage)
  BY <1>1, <1>2 DEF PendingIsOfTheWindow, At
<1>11. run'.n = run.n
  BY <1>3 DEF SameBookAndSession
<1> HIDE DEF added
<1>12. PendingIsOfTheWindow'
  BY <1>1, <1>2, <1>4, <1>5, <1>6, <1>7, <1>8, <1>9, <1>10, <1>11, WindowCommits DEF Deciding
<1>13. WindowIsOpen'
  <2>1. DOMAIN run.window = CapsuleFields /\ run.window.window = run.n
    BY <1>1, <1>2 DEF WindowIsOpen, Deciding
  <2>2. DOMAIN run'.window = CapsuleFields /\ run'.window.window = run.n
    BY <1>3, <2>1 DEF CapsuleFields
  <2>3. QED BY <1>11, <2>2 DEF WindowIsOpen
<1>14. QED BY <1>12, <1>13

\* A fill is on record in memory with every stage before it.
LEMMA ExecuteCommits ==
    ASSUME ReplayTypes, CommitInv, Execute
    PROVE  PendingIsOfTheWindow' /\ WindowIsOpen'
<1>1. run.at = "execute"
  BY DEF Execute, At
<1>2. Running /\ PendingIsOfTheWindow /\ WindowIsOpen
  BY <1>1, IsRunning DEF CommitInv
<1>3. /\ run'.at = "seal" /\ run'.n = run.n
      /\ \/ run'.window = run.window /\ run'.pending = run.pending \cup {Checked}
         \/ /\ run'.window = [run.window EXCEPT !.filled = TRUE]
            /\ run'.pending = run.pending \cup {Checked} \cup Sent(run'.book)
  BY <1>2, ExecuteGives
<1>4. PICK added : /\ run'.pending = run.pending \cup added
                   /\ added = {Checked} \/ added = {Checked} \cup Sent(run'.book)
  BY <1>3
<1>5. \A e \in added : e.window = run.n
  BY <1>4 DEF Event, Checked, Sent
<1>6. (\E e \in added : e.type = "RESULT") =>
          \A stage \in {"CHECK", "SUBMITTED"} : \E e \in added : e.type = stage
  <2>1. CASE added = {Checked}
    <3>1. Checked.type = "CHECK"
      BY EventSays DEF Checked
    <3>2. QED BY <2>1, <3>1
  <2>2. CASE added = {Checked} \cup Sent(run'.book)
    <3>1. Checked \in added /\ Checked.type = "CHECK"
      BY <2>2, EventSays DEF Checked
    <3>2. Event("SUBMITTED", ApprovedOrder.side) \in added
      BY <2>2 DEF Sent
    <3>3. QED BY <3>1, <3>2, EventSays
  <2>3. QED BY <1>4, <2>1, <2>2
<1>7. \A stage \in {"SIGNAL", "INTENT", "RISK", "SUPERVISOR"} : HasStage(stage)
  <2>1. Stages(run.at) = {"SIGNAL", "INTENT", "RISK", "SUPERVISOR"}
    BY <1>1 DEF Stages
  <2>2. QED BY <1>1, <1>2, <2>1 DEF PendingIsOfTheWindow, At
<1>8. (\E e \in added : e.type = "RESULT") =>
          \A stage \in StageNames : HasStage(stage) \/ \E e \in added : e.type = stage
  BY <1>6, <1>7 DEF StageNames
<1>9. Stages(run'.at) = {}
  BY <1>3 DEF Stages
<1>10. run'.at \in Deciding /\ run'.at # "flush"
  BY <1>3 DEF Deciding
<1>11. PendingIsOfTheWindow'
  BY <1>1, <1>2, <1>3, <1>4, <1>5, <1>8, <1>9, <1>10, WindowCommits
<1>12. WindowIsOpen'
  <2>1. DOMAIN run.window = CapsuleFields /\ run.window.window = run.n
    BY <1>1, <1>2 DEF WindowIsOpen, Deciding
  <2>2. DOMAIN run'.window = CapsuleFields /\ run'.window.window = run.n
    BY <1>3, <2>1 DEF CapsuleFields
  <2>3. QED BY <1>3, <2>2 DEF WindowIsOpen
<1>13. QED BY <1>11, <1>12

\* More events and more capsules, as long as each decision that comes to the
\* journal comes with its capsule or a halt, and each fill with its stages.
LEMMA JournalGrows ==
    ASSUME WindowsCommitOnce, NEW added, journal' = journal \cup added, capsules \subseteq capsules',
           \A e \in added : e.type = "RISK" =>
              \/ \E c \in capsules' : c.window = e.window
              \/ \E h \in added : h.type = "HALT" /\ h.window = e.window,
           \A e \in added : e.type = "RESULT" =>
              \A stage \in StageNames : \E f \in added : f.type = stage /\ f.window = e.window
    PROVE  WindowsCommitOnce'
<1>1. ASSUME NEW e \in journal'
      PROVE  /\ e.type = "RISK" =>
                 \/ \E c \in capsules' : c.window = e.window
                 \/ \E h \in journal' : h.type = "HALT" /\ h.window = e.window
             /\ e.type = "RESULT" =>
                 \A stage \in StageNames : \E f \in journal' : f.type = stage /\ f.window = e.window
  <2>1. CASE e \in journal
    BY <2>1 DEF WindowsCommitOnce, StageNames
  <2>2. CASE e \in added
    BY <2>2
  <2>3. QED BY <2>1, <2>2
<1>2. QED BY <1>1 DEF WindowsCommitOnce, StageNames

\* seal() writes what is pending together with its capsule.
LEMMA SealCommits ==
    ASSUME ReplayTypes, CommitInv, Seal
    PROVE  CommitInv'
<1> DEFINE sealed == Event("SEALED", run.window)
           added == run.pending \cup {sealed}
<1>1. run.at = "seal"
  BY DEF Seal, At
<1>2. Running /\ PendingIsOfTheWindow /\ WindowIsOpen /\ WindowsCommitOnce
  BY <1>1, IsRunning DEF CommitInv
<1>3. /\ \A e \in run.pending : e.window = run.n
      /\ HasStage("RESULT") => \A stage \in StageNames : HasStage(stage)
      /\ run.window.window = run.n
  BY <1>1, <1>2 DEF PendingIsOfTheWindow, WindowIsOpen, Deciding, At
<1>4. journal' = journal \cup added
  BY DEF Seal
<1>5. capsules \subseteq capsules' /\ \E c \in capsules' : c.window = run.n
  <2>1. capsules' = IF \E c \in capsules : c.window = run.n THEN capsules
                    ELSE capsules \cup {run.window}
    BY DEF Seal
  <2>2. QED BY <1>3, <2>1
<1>6. sealed.type = "SEALED" /\ sealed.window = run.n
  BY EventSays
<1>7. \A e \in added : e.window = run.n
  BY <1>3, <1>6
<1> HIDE DEF sealed
<1>8. \A e \in added : e.type = "RESULT" =>
          \A stage \in StageNames : \E f \in added : f.type = stage /\ f.window = e.window
  <2> SUFFICES ASSUME NEW e \in added, e.type = "RESULT", NEW stage \in StageNames
               PROVE  \E f \in added : f.type = stage /\ f.window = e.window
    OBVIOUS
  <2>1. e \in run.pending
    BY <1>6
  <2>2. HasStage(stage)
    BY <1>3, <2>1 DEF HasStage
  <2>3. QED BY <1>3, <2>1, <2>2 DEF HasStage
<1> HIDE DEF added
<1>9. WindowsCommitOnce'
  BY <1>2, <1>4, <1>5, <1>7, <1>8, JournalGrows
<1>10. run' = [run EXCEPT !.at = "gates", !.pending = {}]
  BY DEF Seal
<1>11. run'.at = "gates" /\ run'.pending = {}
  BY <1>2, <1>10 DEF Running, RunFields
<1>12. PendingIsOfTheWindow' /\ WindowIsOpen'
  BY <1>11, QuietStays DEF Quiet
<1>13. QED BY <1>9, <1>12 DEF CommitInv

\* flush() writes what is pending together with its halt.
LEMMA FlushCommits ==
    ASSUME ReplayTypes, CommitInv, Flush
    PROVE  CommitInv'
<1>1. run.at = "flush"
  BY DEF Flush, At
<1>2. Running /\ PendingIsOfTheWindow /\ WindowIsOpen /\ WindowsCommitOnce
  BY <1>1, IsRunning DEF CommitInv
<1>3. /\ \A e \in run.pending : e.window = run.n
      /\ HasStage("RESULT") => \A stage \in StageNames : HasStage(stage)
      /\ HasStage("HALT")
  BY <1>1, <1>2 DEF PendingIsOfTheWindow, At
<1>4. journal' = journal \cup run.pending /\ capsules' = capsules
  BY DEF Flush
<1>5. WindowsCommitOnce'
  <2>1. \A e \in run.pending : \E h \in run.pending : h.type = "HALT" /\ h.window = e.window
    BY <1>3 DEF HasStage
  <2>2. \A e \in run.pending : e.type = "RESULT" =>
            \A stage \in StageNames : \E f \in run.pending : f.type = stage /\ f.window = e.window
    BY <1>3 DEF HasStage
  <2>3. QED BY <1>2, <1>4, <2>1, <2>2, JournalGrows
<1>6. run' = [run EXCEPT !.at = run.then, !.then = None, !.pending = {}, !.ticks = {}]
  BY DEF Flush
<1>7. /\ run'.at = run.then /\ run'.pending = {} /\ run'.n = run.n /\ run'.window = run.window
      /\ run.then \in Returns
  BY <1>1, <1>2, <1>6 DEF Running, RunFields, At
<1>8. CASE run.then = "seal"
  <2>1. DOMAIN run.window = CapsuleFields /\ run.window.window = run.n
    BY <1>1, <1>2, <1>8 DEF WindowIsOpen, At
  <2>2. WindowIsOpen'
    BY <1>7, <2>1 DEF WindowIsOpen
  <2>3. Stages(run.at)' = {}
    BY <1>7, <1>8 DEF Stages
  <2>4. PendingIsOfTheWindow'
    BY <1>7, <1>8, <2>3 DEF PendingIsOfTheWindow, HasStage, At
  <2>5. QED BY <1>5, <2>2, <2>4 DEF CommitInv
<1>9. CASE run.then # "seal"
  <2>1. run'.at \in Quiet
    BY <1>7, <1>9 DEF Returns, Quiet
  <2>2. QED BY <1>5, <1>7, <2>1, QuietStays DEF CommitInv
<1>10. QED BY <1>8, <1>9

\* Every step keeps what is pending together and the windows committed once.
LEMMA CommitStep ==
    ASSUME ReplayTypes, CommitInv, [ReplayNext]_replayVars
    PROVE  CommitInv'
<1>1. PendingIsOfTheWindow /\ WindowIsOpen /\ WindowsCommitOnce
  BY DEF CommitInv
<1>2. ASSUME journal' = journal, capsules' = capsules
      PROVE  WindowsCommitOnce'
  BY <1>1, <1>2 DEF WindowsCommitOnce
<1>3. ASSUME NEW reset \in BOOLEAN, Start(reset)
      PROVE  CommitInv'
  <2>1. run'.at = "tick" /\ run'.pending = {}
    BY <1>3 DEF Start
  <2>2. journal' = journal /\ capsules' = capsules
    BY <1>3 DEF Start, record
  <2>3. QED BY <1>2, <2>1, <2>2, QuietStays DEF CommitInv, Quiet
<1>4. CASE ProcessDies
  <2>1. run'.at = "off"
    BY <1>4 DEF ProcessDies, Off
  <2>2. journal' = journal /\ capsules' = capsules
    BY <1>4 DEF ProcessDies, record
  <2>3. QED BY <1>2, <2>1, <2>2 DEF CommitInv, PendingIsOfTheWindow, WindowIsOpen, Deciding, At
<1>5. CASE Flush
  BY <1>5, FlushCommits
<1>6. CASE Seal
  BY <1>6, SealCommits
<1>7. ASSUME NEW tick \in Ticks, Advance(tick)
      PROVE  CommitInv'
  <2> DEFINE n == run.n + 1
             book == Advanced(run.book, GeneratedTick(n, tick.mid))
             label == IF n = 1 THEN "recover" ELSE "account"
  <2>1. run.at = "tick"
    BY <1>7 DEF Advance, At
  <2>2. Running /\ run.pending = {}
    BY <2>1, IsRunning, QuietHasNone DEF Quiet
  <2>3. run' = [run EXCEPT !.at = label, !.n = n, !.book = book]
    BY <1>7 DEF Advance
  <2>4. label \in Quiet
    BY DEF Quiet
  <2> HIDE DEF label, n, book
  <2>5. run'.at = label /\ run'.pending = {}
    BY <2>2, <2>3 DEF Running, RunFields
  <2>6. journal' = journal /\ capsules' = capsules
    BY <1>7 DEF Advance, record
  <2>7. QED BY <1>2, <2>4, <2>5, <2>6, QuietStays DEF CommitInv
<1>8. CASE RecoverSession
  <2> DEFINE ledger == Recovered(row, Equity(run.book), Len(run.book.open), TradingDay(Now))
             day == TradingDay(Now)
             memory == [run EXCEPT !.ledger = ledger, !.day = day]
             trips == MustHalt(row, Equity(run.book), Len(run.book.open), TradingDay(Now))
  <2>1. run.at = "recover"
    BY <1>8 DEF RecoverSession, At
  <2>2. Running /\ run.pending = {}
    BY <2>1, IsRunning, QuietHasNone DEF Quiet
  <2>3. Goto(memory, trips, "SESSION", "account")
    BY <1>8 DEF RecoverSession
  <2> HIDE DEF ledger, day
  <2>4. DOMAIN memory = RunFields /\ memory.n = run.n /\ memory.pending = {}
    BY <2>2 DEF Running, RunFields
  <2> HIDE DEF memory, trips
  <2>5. "account" \in Quiet
    BY DEF Quiet
  <2>6. PendingIsOfTheWindow' /\ WindowIsOpen'
    BY <2>2, <2>3, <2>4, <2>5, GotoCommits
  <2>7. journal' = journal /\ capsules' = capsules
    BY <1>8 DEF RecoverSession, record
  <2>8. QED BY <1>2, <2>6, <2>7 DEF CommitInv
<1>9. CASE Observe
  <2> DEFINE ledger == Updated(IF TradingDay(Now) # run.day THEN NewSession(run.ledger) ELSE run.ledger,
                               Equity(run.book))
             day == TradingDay(Now)
             ticks == run.ticks \cup {run.n}
             kept == IF Cardinality(ticks) >= MarketDataBatch THEN {} ELSE ticks
             label == IF run.n < MinBars THEN "gates" ELSE "decide"
  <2>1. run.at = "account"
    BY <1>9 DEF Observe, At
  <2>2. Running /\ run.pending = {}
    BY <2>1, IsRunning, QuietHasNone DEF Quiet
  <2>3. run' = [run EXCEPT !.day = day, !.ledger = ledger, !.ticks = kept, !.at = label]
    BY <1>9 DEF Observe
  <2>4. label \in Quiet
    BY DEF Quiet
  <2> HIDE DEF label, ledger, day, kept
  <2>5. run'.at = label /\ run'.pending = {}
    BY <2>2, <2>3 DEF Running, RunFields
  <2>6. journal' = journal /\ capsules' = capsules
    BY <1>9 DEF Observe
  <2>7. QED BY <1>2, <2>4, <2>5, <2>6, QuietStays DEF CommitInv
<1>10. CASE Decide
  <2>1. journal' = journal /\ capsules' = capsules
    BY <1>10 DEF Decide, record
  <2>2. QED BY <1>2, <1>10, <2>1, DecideCommits DEF CommitInv
<1>11. CASE SuperviseIntent
  <2>1. journal' = journal /\ capsules' = capsules
    BY <1>11 DEF SuperviseIntent, record
  <2>2. QED BY <1>2, <1>11, <2>1, SuperviseCommits DEF CommitInv
<1>12. CASE Execute
  <2>1. journal' = journal /\ capsules' = capsules
    BY <1>12 DEF Execute, record
  <2>2. QED BY <1>2, <1>12, <2>1, ExecuteCommits DEF CommitInv
<1>13. CASE CheckLossGates \/ CheckSessionBoundary
  <2>1. run.at \in {"gates", "boundary"}
    BY <1>13 DEF CheckLossGates, CheckSessionBoundary, At
  <2>2. Running /\ run.pending = {}
    BY <2>1, IsRunning, QuietHasNone DEF Quiet
  <2>3. \E trips, reasons, label : label \in Quiet /\ Goto(run, trips, reasons, label)
    <3>1. CASE CheckLossGates
      <4>1. Goto(run, AtItsLimit(run.ledger), "LOSS", "boundary") /\ "boundary" \in Quiet
        BY <3>1 DEF CheckLossGates, Quiet
      <4>2. QED BY <4>1
    <3>2. CASE CheckSessionBoundary
      <4>1. /\ Goto(run, OvernightBreach(run.book.open, Now), "OVERNIGHT_EXPOSURE", "persist")
            /\ "persist" \in Quiet
        BY <3>2 DEF CheckSessionBoundary, Quiet
      <4>2. QED BY <4>1
    <3>3. QED BY <1>13, <3>1, <3>2
  <2>4. DOMAIN run = RunFields
    BY <2>2 DEF Running
  <2>5. PendingIsOfTheWindow' /\ WindowIsOpen'
    BY <2>2, <2>3, <2>4, GotoCommits
  <2>6. journal' = journal /\ capsules' = capsules
    BY <1>13 DEF CheckLossGates, CheckSessionBoundary, record
  <2>7. QED BY <1>2, <2>5, <2>6 DEF CommitInv
<1>14. CASE PersistSession
  <2>1. run.at = "persist"
    BY <1>14 DEF PersistSession, At
  <2>2. Running /\ run.pending = {}
    BY <2>1, IsRunning, QuietHasNone DEF Quiet
  <2>3. run' = [run EXCEPT !.at = "tick", !.key = Key(State)]
    BY <1>14 DEF PersistSession
  <2>4. run'.at = "tick" /\ run'.pending = {}
    BY <2>2, <2>3 DEF Running, RunFields
  <2>5. journal' = journal /\ capsules' = capsules
    BY <1>14 DEF PersistSession
  <2>6. QED BY <1>2, <2>4, <2>5, QuietStays DEF CommitInv, Quiet
<1>15. CASE EndOfSeries
  <2>1. run.at = "tick" /\ run'.at = "off"
    BY <1>15 DEF EndOfSeries, At, Off
  <2>2. run.pending = {}
    BY <2>1, QuietHasNone DEF Quiet
  <2>3. journal' = journal /\ capsules' = capsules
    BY <1>15, <2>2 DEF EndOfSeries
  <2>4. QED BY <1>2, <2>1, <2>3 DEF CommitInv, PendingIsOfTheWindow, WindowIsOpen, Deciding, At
<1>16. CASE UNCHANGED replayVars
  <2>1. run' = run /\ journal' = journal /\ capsules' = capsules
    BY <1>16 DEF replayVars, record
  <2>2. QED
    BY <1>1, <2>1 DEF CommitInv, PendingIsOfTheWindow, WindowIsOpen, WindowsCommitOnce, HasStage, At
<1>17. QED BY <1>3, <1>4, <1>5, <1>6, <1>7, <1>8, <1>9, <1>10, <1>11, <1>12, <1>13, <1>14, <1>15,
              <1>16 DEF ReplayNext

\* A step that leaves the row and its key alone and grants nothing.
KeepsTheKey ==
    /\ run.at \notin {"off", "execute"} /\ run'.key = run.key /\ row' = row
    /\ run'.at \notin {"off", "tick", "supervise", "execute"}

\* _trip() leaves the record of the session alone.
LEMMA GotoKeepsTheKey ==
    ASSUME run.at \notin {"off", "execute"}, row' = row,
           NEW memory, DOMAIN memory = RunFields, memory.key = run.key,
           NEW trips, NEW reasons, NEW label, label \in {"account", "boundary", "persist"},
           Goto(memory, trips, reasons, label)
    PROVE  KeepsTheKey
<1>1. run'.key = memory.key /\ (run'.at = label \/ run'.at = "flush")
  BY GotoGives
<1>2. QED BY <1>1 DEF KeepsTheKey

\* So does every other step outside the decision on a window.
LEMMA OthersKeepTheKey ==
    ASSUME ReplayTypes,
           \/ RecoverSession \/ Observe \/ Flush \/ Seal \/ CheckLossGates \/ CheckSessionBoundary
           \/ \E tick \in Ticks : Advance(tick)
    PROVE  KeepsTheKey
<1>1. ASSUME NEW tick \in Ticks, Advance(tick)
      PROVE  KeepsTheKey
  <2> DEFINE n == run.n + 1
             book == Advanced(run.book, GeneratedTick(n, tick.mid))
             label == IF n = 1 THEN "recover" ELSE "account"
  <2>1. run.at = "tick"
    BY <1>1 DEF Advance, At
  <2>2. DOMAIN run = RunFields
    BY <2>1, IsRunning DEF Running
  <2>3. run' = [run EXCEPT !.at = label, !.n = n, !.book = book] /\ row' = row
    BY <1>1 DEF Advance, record
  <2>4. label \in {"recover", "account"}
    OBVIOUS
  <2> HIDE DEF label, n, book
  <2>5. run'.at = label /\ run'.key = run.key
    BY <2>2, <2>3 DEF RunFields
  <2>6. QED BY <2>1, <2>3, <2>4, <2>5 DEF KeepsTheKey
<1>2. CASE RecoverSession
  <2> DEFINE ledger == Recovered(row, Equity(run.book), Len(run.book.open), TradingDay(Now))
             day == TradingDay(Now)
             memory == [run EXCEPT !.ledger = ledger, !.day = day]
             trips == MustHalt(row, Equity(run.book), Len(run.book.open), TradingDay(Now))
  <2>1. run.at = "recover" /\ row' = row
    BY <1>2 DEF RecoverSession, At, record
  <2>2. DOMAIN run = RunFields
    BY <2>1, IsRunning DEF Running
  <2>3. Goto(memory, trips, "SESSION", "account")
    BY <1>2 DEF RecoverSession
  <2> HIDE DEF ledger, day
  <2>4. DOMAIN memory = RunFields /\ memory.key = run.key
    BY <2>2 DEF RunFields
  <2> HIDE DEF memory, trips
  <2>5. "account" \in {"account", "boundary", "persist"} /\ run.at \notin {"off", "execute"}
    BY <2>1
  <2>6. QED BY <2>1, <2>3, <2>4, <2>5, GotoKeepsTheKey
<1>3. CASE Observe
  <2> DEFINE ledger == Updated(IF TradingDay(Now) # run.day THEN NewSession(run.ledger) ELSE run.ledger,
                               Equity(run.book))
             day == TradingDay(Now)
             ticks == run.ticks \cup {run.n}
             kept == IF Cardinality(ticks) >= MarketDataBatch THEN {} ELSE ticks
             label == IF run.n < MinBars THEN "gates" ELSE "decide"
  <2>1. run.at = "account" /\ row' = row
    BY <1>3 DEF Observe, At
  <2>2. DOMAIN run = RunFields
    BY <2>1, IsRunning DEF Running
  <2>3. run' = [run EXCEPT !.day = day, !.ledger = ledger, !.ticks = kept, !.at = label]
    BY <1>3 DEF Observe
  <2>4. label \in {"gates", "decide"}
    OBVIOUS
  <2> HIDE DEF label, ledger, day, kept
  <2>5. run'.at = label /\ run'.key = run.key
    BY <2>2, <2>3 DEF RunFields
  <2>6. QED BY <2>1, <2>4, <2>5 DEF KeepsTheKey
<1>4. CASE Flush
  <2>1. run.at = "flush" /\ row' = row
    BY <1>4 DEF Flush, At
  <2>2. DOMAIN run = RunFields /\ run.then \in Returns
    BY <2>1, IsRunning DEF Running, At
  <2>3. run' = [run EXCEPT !.at = run.then, !.then = None, !.pending = {}, !.ticks = {}]
    BY <1>4 DEF Flush
  <2>4. run'.at = run.then /\ run'.key = run.key
    BY <2>2, <2>3 DEF RunFields
  <2>5. QED BY <2>1, <2>2, <2>4 DEF KeepsTheKey, Returns
<1>5. CASE Seal
  <2>1. run.at = "seal" /\ row' = row
    BY <1>5 DEF Seal, At
  <2>2. DOMAIN run = RunFields
    BY <2>1, IsRunning DEF Running
  <2>3. run' = [run EXCEPT !.at = "gates", !.pending = {}]
    BY <1>5 DEF Seal
  <2>4. run'.at = "gates" /\ run'.key = run.key
    BY <2>2, <2>3 DEF RunFields
  <2>5. QED BY <2>1, <2>4 DEF KeepsTheKey
<1>6. CASE CheckLossGates
  <2> DEFINE trips == AtItsLimit(run.ledger)
  <2>1. run.at = "gates" /\ row' = row /\ Goto(run, trips, "LOSS", "boundary")
    BY <1>6 DEF CheckLossGates, At, record
  <2>2. DOMAIN run = RunFields
    BY <2>1, IsRunning DEF Running
  <2> HIDE DEF trips
  <2>3. "boundary" \in {"account", "boundary", "persist"} /\ run.at \notin {"off", "execute"}
    BY <2>1
  <2>4. QED BY <2>1, <2>2, <2>3, GotoKeepsTheKey
<1>7. CASE CheckSessionBoundary
  <2> DEFINE trips == OvernightBreach(run.book.open, Now)
  <2>1. run.at = "boundary" /\ row' = row /\ Goto(run, trips, "OVERNIGHT_EXPOSURE", "persist")
    BY <1>7 DEF CheckSessionBoundary, At, record
  <2>2. DOMAIN run = RunFields
    BY <2>1, IsRunning DEF Running
  <2> HIDE DEF trips
  <2>3. "persist" \in {"account", "boundary", "persist"} /\ run.at \notin {"off", "execute"}
    BY <2>1
  <2>4. QED BY <2>1, <2>2, <2>3, GotoKeepsTheKey
<1>8. QED BY <1>1, <1>2, <1>3, <1>4, <1>5, <1>6, <1>7

\* Nor do the decision and the execution of a window touch the row.
LEMMA WindowKeepsTheKey ==
    ASSUME ReplayTypes, Decide \/ SuperviseIntent \/ Execute
    PROVE  /\ run.at # "off" /\ run'.key = run.key /\ row' = row
           /\ run'.at \notin {"off", "tick"}
<1>1. run.at \in {"decide", "supervise", "execute"} /\ row' = row
  BY DEF Decide, SuperviseIntent, Execute, At, record
<1>2. Running
  BY <1>1, IsRunning
<1>3. CASE Decide
  <2>1. CASE Tick.wish = None
    BY <1>1, <1>2, <1>3, <2>1, NoWishGives DEF SameBookAndSession
  <2>2. CASE Tick.wish # None
    <3>1. SameBookAndSession /\ run'.at \in {"supervise", "seal", "flush"}
      BY <1>2, <1>3, <2>2, WishGives
    <3>2. QED BY <1>1, <3>1 DEF SameBookAndSession
  <2>3. QED BY <2>1, <2>2
<1>4. CASE SuperviseIntent
  <2>1. SameBookAndSession /\ run'.at \in {"execute", "seal", "flush"}
    BY <1>2, <1>4, SuperviseGives
  <2>2. QED BY <1>1, <2>1 DEF SameBookAndSession
<1>5. CASE Execute
  BY <1>1, <1>2, <1>5, ExecuteGives
<1>6. QED BY <1>3, <1>4, <1>5

\* Where neither key nor record changes, the key stays of the record.
LEMMA KeyIsKept ==
    ASSUME KeyIsOnRecord, run.at # "off", run'.key = run.key, row' = row, run'.at # "tick"
    PROVE  KeyIsOnRecord'
BY DEF KeyIsOnRecord, At

\* A row is written when, and only when, the key says that it is stale.
LEMMA PersistKeeps ==
    ASSUME ReplayTypes, KeyIsOnRecord, PersistSession
    PROVE  KeyIsOnRecord'
<1>1. run.at = "persist"
  BY DEF PersistSession, At
<1>2. Running
  BY <1>1, IsRunning
<1>3. run' = [run EXCEPT !.at = "tick", !.key = Key(State)]
  BY DEF PersistSession
<1>4. /\ run'.at = "tick" /\ run'.n = run.n /\ run'.book = run.book
      /\ run'.ledger = run.ledger /\ run'.key = Key(State) /\ run'.day = run.day
  BY <1>2, <1>3 DEF Running, RunFields
<1>5. run.n # 0 /\ run.day \in Int
  BY <1>1, <1>2 DEF Running, At
<1>6. Key(State) \in Keys /\ Key(State) # None
  BY <1>2, <1>5, StateType, ReplayAssumption
<1>7. State' = State
  BY <1>4 DEF State
<1>8. Key(State)' = Key(State)
  BY <1>7 DEF Key
<1>9. /\ Key(State)[1] = State.day /\ Key(State)[2] = State.ledger.start
      /\ Key(State)[3] = State.ledger.drawdown /\ Key(State)[4] = State.ledger.loss
      /\ Key(State)[5] = State.open
  BY DEF Key
<1>10. /\ row'.day = Key(State)[1] /\ row'.ledger.start = Key(State)[2]
       /\ row'.ledger.drawdown = Key(State)[3] /\ row'.ledger.loss = Key(State)[4]
       /\ row'.open = Key(State)[5]
  <2>1. CASE Key(State) = run.key
    <3>1. row' = row
      BY <2>1 DEF PersistSession
    <3>2. QED BY <1>1, <1>6, <2>1, <3>1 DEF KeyIsOnRecord
  <2>2. CASE Key(State) # run.key
    <3>1. row' = State
      BY <2>2 DEF PersistSession
    <3>2. QED BY <1>9, <3>1
  <2>3. QED BY <2>1, <2>2
<1>11. QED BY <1>4, <1>6, <1>8, <1>10 DEF KeyIsOnRecord

\* A first process has not started.
LEMMA InitHolds == ASSUME ReplayInit PROVE IInv
<1>1. ReplayTypes
  <2>1. <<>> \in Seq(Ticks)
    OBVIOUS
  <2>2. QED BY <2>1 DEF ReplayInit, ReplayTypes
<1>2. run.at = "off" /\ journal = {}
  BY DEF ReplayInit, Off
<1>3. CommitInv
  BY <1>2 DEF CommitInv, PendingIsOfTheWindow, WindowIsOpen, WindowsCommitOnce, Deciding, At
<1>4. KeyIsOnRecord /\ GrantHolds
  BY <1>2 DEF KeyIsOnRecord, GrantHolds, At
<1>5. QED BY <1>1, <1>3, <1>4 DEF IInv

\* The decision on a window and the supervisor's leave the types alone.
LEMMA JudgementTypes ==
    ASSUME ReplayTypes, Decide \/ SuperviseIntent
    PROVE  ReplayTypes'
<1>1. run.at \in {"decide", "supervise", "execute"} /\ times' = times /\ series' = series /\ row' = row
  BY DEF Decide, SuperviseIntent, At, input, record
<1>2. Running
  BY <1>1, IsRunning
<1>3. CASE Decide
  <2>1. CASE Tick.wish = None
    BY <1>1, <1>2, <1>3, <2>1, NoWishGives, DecidingTypes
  <2>2. CASE Tick.wish # None
    <3>1. /\ SameBookAndSession
          /\ run'.at \in {"supervise", "seal"} \/ (run'.at = "flush" /\ run'.then = "seal")
      BY <1>2, <1>3, <2>2, WishGives
    <3>2. QED BY <1>1, <3>1, DecidingTypes
  <2>3. QED BY <2>1, <2>2
<1>4. CASE SuperviseIntent
  <2>1. /\ SameBookAndSession
        /\ run'.at \in {"execute", "seal"} \/ (run'.at = "flush" /\ run'.then = "seal")
    BY <1>2, <1>4, SuperviseGives
  <2>2. QED BY <1>1, <2>1, DecidingTypes
<1>5. QED BY <1>3, <1>4

\* A process that has ended keeps nothing in memory.
LEMMA OffHasNothing ==
    ASSUME ProcessDies \/ EndOfSeries
    PROVE  run' = Off /\ run'.at = "off" /\ times' = times /\ series' = series /\ row' = row
BY DEF ProcessDies, EndOfSeries, Off, input, record

\* Every step keeps the types.
LEMMA TypesStep ==
    ASSUME ReplayTypes, GrantHolds, [ReplayNext]_replayVars
    PROVE  ReplayTypes'
<1>1. CASE \E reset \in BOOLEAN : Start(reset)
  BY <1>1, StartTypes
<1>2. CASE \E tick \in Ticks : Advance(tick)
  BY <1>2, AdvanceTypes
<1>3. CASE RecoverSession
  BY <1>3, RecoverTypes
<1>4. CASE Observe
  BY <1>4, ObserveTypes
<1>5. CASE Decide \/ SuperviseIntent
  BY <1>5, JudgementTypes
<1>6. CASE Execute
  BY <1>6, ExecuteTypes
<1>7. CASE Seal
  BY <1>7, SealTypes
<1>8. CASE CheckLossGates \/ CheckSessionBoundary
  BY <1>8, CheckTypes
<1>9. CASE PersistSession
  BY <1>9, PersistTypes
<1>10. CASE Flush
  BY <1>10, FlushTypes
<1>11. CASE EndOfSeries \/ ProcessDies
  BY <1>11, OffHasNothing DEF ReplayTypes
<1>12. CASE UNCHANGED replayVars
  <2>1. run' = run /\ times' = times /\ series' = series /\ row' = row
    BY <1>12 DEF replayVars, input, record
  <2>2. QED BY <2>1 DEF ReplayTypes, Running, At
<1>13. QED BY <1>1, <1>2, <1>3, <1>4, <1>5, <1>6, <1>7, <1>8, <1>9, <1>10, <1>11, <1>12 DEF ReplayNext

\* A new process has no key and has seen no tick.
LEMMA StartHasNoKey ==
    ASSUME NEW reset \in BOOLEAN, Start(reset)
    PROVE  run'.at = "tick" /\ run'.n = 0 /\ run'.key = None
BY DEF Start

\* Every step keeps the key in memory of the record.
LEMMA KeyStep ==
    ASSUME ReplayTypes, KeyIsOnRecord, [ReplayNext]_replayVars
    PROVE  KeyIsOnRecord'
<1>1. CASE \E reset \in BOOLEAN : Start(reset)
  BY <1>1, StartHasNoKey DEF KeyIsOnRecord, At
<1>2. CASE \/ RecoverSession \/ Observe \/ Flush \/ Seal \/ CheckLossGates \/ CheckSessionBoundary
           \/ \E tick \in Ticks : Advance(tick)
  BY <1>2, OthersKeepTheKey, KeyIsKept DEF KeepsTheKey
<1>3. CASE Decide \/ SuperviseIntent \/ Execute
  BY <1>3, WindowKeepsTheKey, KeyIsKept
<1>4. CASE PersistSession
  BY <1>4, PersistKeeps
<1>5. CASE EndOfSeries \/ ProcessDies
  BY <1>5, OffHasNothing DEF KeyIsOnRecord, At
<1>6. CASE UNCHANGED replayVars
  <2>1. run' = run /\ row' = row
    BY <1>6 DEF replayVars, record
  <2>2. State' = State
    BY <2>1 DEF State
  <2>3. Key(State)' = Key(State)
    BY <2>2 DEF Key
  <2>4. QED BY <2>1, <2>3 DEF KeyIsOnRecord, At
<1>7. QED BY <1>1, <1>2, <1>3, <1>4, <1>5, <1>6 DEF ReplayNext

\* A grant stands until it is executed: nothing moves the book in between.
LEMMA GrantStep ==
    ASSUME ReplayTypes, CommitInv, GrantHolds, [ReplayNext]_replayVars
    PROVE  GrantHolds'
<1>1. CASE Decide
  BY <1>1, DecideGrants
<1>2. CASE SuperviseIntent
  BY <1>2, SuperviseGrants DEF CommitInv
<1>3. CASE \E reset \in BOOLEAN : Start(reset)
  BY <1>3, StartHasNoKey, OthersGrantNothing
<1>4. CASE \/ RecoverSession \/ Observe \/ Flush \/ Seal \/ CheckLossGates \/ CheckSessionBoundary
           \/ \E tick \in Ticks : Advance(tick)
  BY <1>4, OthersKeepTheKey, OthersGrantNothing DEF KeepsTheKey
<1>5. CASE Execute
  <2>1. Running
    BY <1>5, IsRunning DEF Execute, At
  <2>2. QED BY <1>5, <2>1, ExecuteGives, OthersGrantNothing
<1>6. CASE PersistSession
  <2>1. run.at = "persist" /\ run' = [run EXCEPT !.at = "tick", !.key = Key(State)]
    BY <1>6 DEF PersistSession, At
  <2>2. DOMAIN run = RunFields
    BY <2>1, IsRunning DEF Running
  <2>3. run'.at = "tick"
    BY <2>1, <2>2 DEF RunFields
  <2>4. QED BY <2>3, OthersGrantNothing
<1>7. CASE EndOfSeries \/ ProcessDies
  BY <1>7, OffHasNothing, OthersGrantNothing
<1>8. CASE UNCHANGED replayVars
  <2>1. run' = run
    BY <1>8 DEF replayVars
  <2>2. QED BY <2>1 DEF GrantHolds
<1>9. QED BY <1>1, <1>2, <1>3, <1>4, <1>5, <1>6, <1>7, <1>8 DEF ReplayNext

\* A step that leaves Execute's place is Execute, or changes nothing.
LEMMA OnlyExecuteExecutes ==
    ASSUME ReplayTypes, At("execute"), ReplayNext
    PROVE  Execute
<1>1. run.at = "execute"
  BY DEF At
<1>2. ~(Decide \/ SuperviseIntent \/ PersistSession \/ EndOfSeries \/ ProcessDies
        \/ \E reset \in BOOLEAN : Start(reset))
  BY <1>1 DEF Decide, SuperviseIntent, PersistSession, EndOfSeries, ProcessDies, Start, At
<1>3. ~(\/ RecoverSession \/ Observe \/ Flush \/ Seal \/ CheckLossGates \/ CheckSessionBoundary
        \/ \E tick \in Ticks : Advance(tick))
  BY <1>1 DEF RecoverSession, Observe, Flush, Seal, CheckLossGates, CheckSessionBoundary, Advance, At
<1>4. QED BY <1>2, <1>3 DEF ReplayNext

\* The inductive invariant of a replay: the types of its state, the window whose
\* events are pending, the key of the session's record and the grant that is
\* about to be executed.
THEOREM ReplaySafe == ReplaySpec => []IInv
<1>1. ReplayInit => IInv
  BY InitHolds
<1>2. IInv /\ [ReplayNext]_replayVars => IInv'
  <2> SUFFICES ASSUME IInv, [ReplayNext]_replayVars PROVE IInv'
    OBVIOUS
  <2>1. ReplayTypes /\ CommitInv /\ KeyIsOnRecord /\ GrantHolds
    BY DEF IInv
  <2>2. ReplayTypes' /\ CommitInv' /\ KeyIsOnRecord' /\ GrantHolds'
    BY <2>1, TypesStep, CommitStep, KeyStep, GrantStep
  <2>3. QED BY <2>2 DEF IInv
<1>3. QED BY <1>1, <1>2, PTL DEF ReplaySpec

\* WindowsCommitOnce: for any series, any number of runs over the same stores
\* and a crash between any two writes, a risk decision is on record with the
\* capsule of its window or a halt, and a fill with every stage before it.
THEOREM RiskDecisionsAreCommitted == ReplaySpec => []WindowsCommitOnce
<1>1. IInv => WindowsCommitOnce
  BY DEF IInv, CommitInv
<1>2. QED BY <1>1, ReplaySafe, PTL

\* RecordKeepsUp: whatever the persisted key leaves out has not changed, so
\* between two ticks the record of the session has the day, the baseline, the
\* worst loss, the worst drawdown and the book of the process.
THEOREM SessionRecordKeepsUp == ReplaySpec => []RecordKeepsUp
<1>1. IInv => RecordKeepsUp
  <2> SUFFICES ASSUME IInv, At("tick"), run.n > 0
               PROVE  /\ row.day = run.day /\ row.open = Len(run.book.open)
                      /\ row.ledger.start = run.ledger.start
                      /\ row.ledger.loss = run.ledger.loss
                      /\ row.ledger.drawdown = run.ledger.drawdown
    BY DEF RecordKeepsUp
  <2>1. run.at # "off" /\ run.n # 0
    BY IsRunning DEF At
  <2>2. run.key # None /\ run.key = Key(State)
    BY <2>1 DEF IInv, KeyIsOnRecord
  <2>3. /\ row.day = run.key[1] /\ row.ledger.start = run.key[2]
        /\ row.ledger.drawdown = run.key[3] /\ row.ledger.loss = run.key[4]
        /\ row.open = run.key[5]
    BY <2>1, <2>2 DEF IInv, KeyIsOnRecord
  <2>4. QED BY <2>2, <2>3 DEF Key, State
<1>2. QED BY <1>1, ReplaySafe, PTL

\* BookRiskIsBudgeted: for any budgets, prices, positions and broker's limits, a
\* fill leaves the book, at its real entries, within the budget for open risk.
THEOREM FillsAreBudgeted == ReplaySpec => BookRiskIsBudgeted
<1> DEFINE Budgeted ==
        At("execute") /\ run'.window.filled =>
            LET new == run'.book.open[Len(run'.book.open)] IN
            (BookRisk(run'.book.open) - new.volume * EntrySlip) * MaxOpenRisk[2]
                <= MaxOpenRisk[1] * Equity(run.book)
<1>1. IInv /\ [ReplayNext]_replayVars => [Budgeted]_replayVars
  <2> SUFFICES ASSUME IInv, ReplayNext PROVE Budgeted
    OBVIOUS
  <2>1. ReplayTypes /\ GrantHolds
    BY DEF IInv
  <2>2. SUFFICES ASSUME At("execute"), run'.window.filled
                 PROVE  LET new == run'.book.open[Len(run'.book.open)] IN
                        (BookRisk(run'.book.open) - new.volume * EntrySlip) * MaxOpenRisk[2]
                            <= MaxOpenRisk[1] * Equity(run.book)
    OBVIOUS
  <2>3. Execute
    BY <2>1, <2>2, OnlyExecuteExecutes
  <2>4. QED BY <2>1, <2>2, <2>3, ExecuteIsBudgeted
<1>2. QED BY <1>1, ReplaySafe, PTL DEF ReplaySpec, BookRiskIsBudgeted

------------------------------------------------------------------------------
(* HostSafety: the runs of any number of processes, saves, faults and boots *)

USE MissingAssumption

------------------------------------------------------------------------------
(* Types                                                                   *)

Saved == {"RUNNING", "HALTED"}
Saving == [at : {"insert"}, state : Saved, began : Nat]
Numbered == [at : {"commit", "latch"}, state : Saved, began : Nat, seq : Nat]
Reading == [at : {"latchRead"}, journal : Saved \cup {Missing}, saw : SUBSET Nat]

\* What a process can be doing.
Tasks == {Idle} \cup Saving \cup Numbered \cup Reading

\* TypeOK, and the types of what TypeOK does not mention.
HostTypeOK ==
    /\ TypeOK
    /\ task \in [Procs -> Tasks]
    /\ clears \in Seq(Nat)
    /\ tripped \subseteq Nat /\ owed \in BOOLEAN /\ rolledBack \in BOOLEAN
    /\ saves \in Nat
    /\ \A p \in Procs : task[p].at = "commit" => task[p].seq \in 1..(nextSeq - 1)

\* The state of a set of rows is that of one of them.
LEMMA StateOfType ==
    ASSUME NEW rs, \A r \in rs : r.state \in Saved
    PROVE  /\ StateOf(rs) \in Saved \cup {Missing}
           /\ StateOf(rs) \in Saved => \E r \in rs : StateOf(rs) = r.state
<1>1. CASE rs = {}
  BY <1>1 DEF StateOf, Saved
<1>2. CASE rs # {}
  <2>1. (CHOOSE r \in rs : TRUE) \in rs
    BY <1>2
  <2>2. QED BY <1>2, <2>1 DEF StateOf
<1>3. QED BY <1>1, <1>2

\* What load() answers is missing, or the state of a row that no other follows.
LEMMA JournalStateType ==
    ASSUME HostTypeOK
    PROVE  /\ JournalState \in Saved \cup {Missing}
           /\ JournalState = "RUNNING" =>
                \E r \in rows : r.state = "RUNNING" /\ \A s \in rows : s.seq <= r.seq
<1> DEFINE newest == {r \in rows : \A s \in rows : s.seq <= r.seq}
<1>1. \A r \in newest : r.state \in Saved
  BY DEF HostTypeOK, TypeOK, Saved
<1>2. JournalState = StateOf(newest)
  BY DEF JournalState
<1> HIDE DEF newest
<1>3. /\ StateOf(newest) \in Saved \cup {Missing}
      /\ StateOf(newest) \in Saved => \E r \in newest : StateOf(newest) = r.state
  BY <1>1, StateOfType
<1>4. ASSUME JournalState = "RUNNING"
      PROVE  \E r \in rows : r.state = "RUNNING" /\ \A s \in rows : s.seq <= r.seq
  BY <1>2, <1>3, <1>4 DEF newest, Saved
<1>5. QED BY <1>2, <1>3, <1>4

\* The types hold at the start.
LEMMA InitTypes == Init => HostTypeOK
<1> SUFFICES ASSUME Init PROVE HostTypeOK
  OBVIOUS
<1>1. TypeOK
  BY DEF Init, TypeOK, States
<1>2. task \in [Procs -> Tasks]
  BY DEF Init, Tasks
<1>3. \A p \in Procs : task[p].at # "commit"
  BY DEF Init, Idle
<1>4. clears \in Seq(Nat) /\ tripped \subseteq Nat /\ saves \in Nat
  BY DEF Init
<1>5. owed \in BOOLEAN /\ rolledBack \in BOOLEAN
  BY Zenon DEF Init
<1>6. QED BY <1>1, <1>2, <1>3, <1>4, <1>5 DEF HostTypeOK

\* The types of the tasks a process moves between.
LEMMA TaskMoves ==
    ASSUME HostTypeOK, NEW p \in Procs
    PROVE  /\ task[p] \in Tasks
           /\ task[p].at = "insert" => task[p] \in Saving
           /\ task[p].at \in {"commit", "latch"} => task[p] \in Numbered
           /\ task[p].at = "latchRead" => task[p] \in Reading
           /\ \A t \in Tasks : [task EXCEPT ![p] = t] \in [Procs -> Tasks]
BY DEF HostTypeOK, Tasks, Idle, Saving, Numbered, Reading

\* Whatever it was doing, the process is done with it.
Idled(p) == task' = [task EXCEPT ![p] = Idle]

\* Every step keeps the types.
LEMMA NextTypes ==
    ASSUME HostTypeOK, [Next]_vars
    PROVE  HostTypeOK'
<1> USE DEF stores, host, history
<1>0. /\ nextSeq \in Nat \ {0}
      /\ \A p \in Procs : task[p].at = "commit" => task[p].seq \in 1..(nextSeq - 1)
  BY DEF HostTypeOK, TypeOK
<1>1. ASSUME NEW p \in Procs, NEW state \in Saved, Begin(p, state) PROVE HostTypeOK'
  <2>1. [at |-> "insert", state |-> state, began |-> saves] \in Tasks
    BY DEF HostTypeOK, Tasks, Saving
  <2>2. task' \in [Procs -> Tasks]
    BY <1>1, <2>1, TaskMoves DEF Begin
  <2>3. \A q \in Procs : task'[q].at = "commit" => task'[q] = task[q]
    BY <1>1 DEF Begin, HostTypeOK
  <2>4. QED BY <1>0, <1>1, <2>2, <2>3 DEF Begin, HostTypeOK, TypeOK
<1>2. ASSUME NEW p \in Procs, Insert(p) PROVE HostTypeOK'
  <2>1. task[p] \in Saving
    BY <1>2, TaskMoves DEF Insert
  <2>2. [at |-> "commit", state |-> task[p].state, began |-> task[p].began, seq |-> nextSeq] \in Tasks
    BY <1>0, <2>1 DEF Tasks, Saving, Numbered
  <2>3. task' \in [Procs -> Tasks]
    BY <1>2, <2>2, TaskMoves DEF Insert
  <2>4. rows' \subseteq [seq : 1..nextSeq', began : Nat, state : {"RUNNING", "HALTED"}]
    BY <1>0, <1>2 DEF Insert, HostTypeOK, TypeOK
  <2>5. /\ task'[p].seq = nextSeq
        /\ \A q \in Procs : q # p => task'[q] = task[q]
    BY <1>2 DEF Insert, HostTypeOK
  <2>6. \A q \in Procs : task'[q].at = "commit" => task'[q].seq \in 1..(nextSeq' - 1)
    BY <1>0, <1>2, <2>5 DEF Insert
  <2>7. QED BY <1>0, <1>2, <2>3, <2>4, <2>6 DEF Insert, HostTypeOK, TypeOK
<1>3. ASSUME NEW p \in Procs, Commit(p) PROVE HostTypeOK'
  <2>1. task[p] \in Numbered /\ task[p].seq \in 1..nextSeq
    BY <1>0, <1>3, TaskMoves DEF Commit
  <2>2. [task[p] EXCEPT !.at = "latch"] \in Tasks
    BY <2>1 DEF Tasks, Numbered
  <2>3. task' = [task EXCEPT ![p] = [task[p] EXCEPT !.at = "latch"]]
    BY <1>3 DEF Commit
  <2>4. task' \in [Procs -> Tasks]
    BY <2>2, <2>3, TaskMoves
  <2>5. rows' \subseteq [seq : 1..nextSeq', began : Nat, state : {"RUNNING", "HALTED"}]
    BY <1>3, <2>1 DEF Commit, HostTypeOK, TypeOK, Numbered, Saved
  <2>6. \A q \in Procs : task'[q].at = "commit" => task'[q] = task[q]
    BY <2>1, <2>3 DEF HostTypeOK, Numbered
  <2>7. QED BY <1>0, <1>3, <2>4, <2>5, <2>6 DEF Commit, HostTypeOK, TypeOK
<1>4. ASSUME NEW p \in Procs, Idled(p) PROVE /\ task' \in [Procs -> Tasks]
                                            /\ \A q \in Procs : task'[q].at = "commit" => task'[q] = task[q]
  <2>1. Idle \in Tasks
    BY DEF Tasks
  <2>2. QED BY <1>4, <2>1, TaskMoves DEF Idled, Idle, HostTypeOK
<1>5. ASSUME NEW p \in Procs, Finish(p) PROVE HostTypeOK'
  <2>1. task[p] \in Numbered
    BY <1>5, TaskMoves DEF Finish
  <2>2. switch' \in [Procs -> States \cup {"OFF"}] /\ latch' \in {"RUNNING", "HALTED", Missing}
    BY <1>5, <2>1 DEF Finish, HostTypeOK, TypeOK, Numbered, Saved, States
  <2>3. tripped' \subseteq Nat /\ owed' \in BOOLEAN
    BY <1>5, <2>1 DEF Finish, HostTypeOK, Numbered
  <2>4. QED BY <1>0, <1>4, <1>5, <2>2, <2>3 DEF Finish, Idled, HostTypeOK, TypeOK
<1>6. ASSUME NEW p \in Procs, SaveFails(p) PROVE HostTypeOK'
  BY <1>0, <1>4, <1>6 DEF SaveFails, Idled, HostTypeOK, TypeOK
<1>7. ASSUME NEW p \in Procs, StartUp(p)
      PROVE  /\ task' \in [Procs -> Tasks]
             /\ \A q \in Procs : task'[q].at = "commit" => task'[q] = task[q]
  <2>1. [at |-> "latchRead", journal |-> JournalState, saw |-> tripped] \in Tasks
    BY JournalStateType DEF HostTypeOK, Tasks, Reading
  <2>2. QED BY <1>7, <2>1, TaskMoves DEF StartUp, HostTypeOK
<1>8. ASSUME NEW p \in Procs, ReadJournal(p) PROVE HostTypeOK'
  BY <1>0, <1>7, <1>8 DEF ReadJournal, HostTypeOK, TypeOK
<1>9. ASSUME NEW p \in Procs, ReadLatch(p) PROVE HostTypeOK'
  <2>1. RecoveredState(task[p].journal, latch) \in States
    BY DEF RecoveredState, States
  <2>2. switch' \in [Procs -> States \cup {"OFF"}]
    BY <1>9, <2>1 DEF ReadLatch, HostTypeOK, TypeOK
  <2>3. QED BY <1>0, <1>4, <1>9, <2>2 DEF ReadLatch, Idled, HostTypeOK, TypeOK
<1>10. ASSUME NEW p \in Procs, Crash(p) PROVE HostTypeOK'
  <2>1. switch' \in [Procs -> States \cup {"OFF"}]
    BY <1>10 DEF Crash, HostTypeOK, TypeOK
  <2>2. QED BY <1>0, <1>4, <1>10, <2>1 DEF Crash, Idled, HostTypeOK, TypeOK
<1>11. ASSUME NEW n \in 0..(nextSeq - 1), RollBack(n) PROVE HostTypeOK'
  <2>1. rows' \subseteq [seq : 1..nextSeq', began : Nat, state : {"RUNNING", "HALTED"}]
    BY <1>0, <1>11 DEF RollBack, HostTypeOK, TypeOK
  <2>2. QED BY <1>0, <1>11, <2>1 DEF RollBack, HostTypeOK, TypeOK
<1>12. ASSUME LoseLatch \/ CheckCoherent \/ CheckEligible \/ Claim \/ SupervisorDies \/ Bootstrap
       PROVE  HostTypeOK'
  BY <1>0, <1>12 DEF LoseLatch, CheckCoherent, CheckEligible, Claim, SupervisorDies, Bootstrap,
                     HostTypeOK, TypeOK
<1>13. ASSUME Spawn PROVE HostTypeOK'
  <2>1. clears' \in Seq(Nat)
    BY <1>13 DEF Spawn, HostTypeOK, TypeOK
  <2>2. QED BY <1>0, <1>7, <1>13, <2>1, PaperAssumption DEF Spawn, HostTypeOK, TypeOK
<1>14. ASSUME Reboot PROVE HostTypeOK'
  <2>1. switch' \in [Procs -> States \cup {"OFF"}] /\ task' \in [Procs -> Tasks]
    BY <1>14 DEF Reboot, Tasks
  <2>2. \A p \in Procs : task'[p].at # "commit"
    BY <1>14 DEF Reboot, Idle
  <2>3. QED BY <1>0, <1>14, <2>1, <2>2 DEF Reboot, HostTypeOK, TypeOK
<1>15. CASE UNCHANGED vars
  BY <1>0, <1>15 DEF vars, HostTypeOK, TypeOK
<1>16. QED BY <1>1, <1>2, <1>3, <1>5, <1>6, <1>8, <1>9, <1>10, <1>11, <1>12, <1>13, <1>14, <1>15
          DEF Next, Trip, Reset, Saved

------------------------------------------------------------------------------
(* A halt outlives the database                                            *)

\* A halt that is owed is not contradicted by the latch, and nobody is about to
\* contradict it.
OwedIsLatched == owed => latch # "RUNNING" /\ \A p \in Procs : ~Resetting(p)

OwedInv == HostTypeOK /\ OwedIsLatched

\* Only the latch write of a reset makes the latch RUNNING, and beginning a reset
\* ends what was owed.
LEMMA NextOwed ==
    ASSUME OwedInv, [Next]_vars
    PROVE  OwedInv'
<1> USE DEF stores, host, history
<1>0. HostTypeOK /\ HostTypeOK'
  BY NextTypes DEF OwedInv
<1>1. ASSUME NEW p \in Procs, Idled(p) \/ StartUp(p), latch' = latch, owed' = owed
      PROVE  OwedIsLatched'
  <2>1. /\ task'[p].at \in {"idle", "latchRead"}
        /\ \A q \in Procs : q # p => task'[q] = task[q]
    BY <1>0, <1>1 DEF Idled, Idle, StartUp, HostTypeOK
  <2>2. QED BY <1>1, <2>1 DEF OwedInv, OwedIsLatched, Resetting
<1>2. ASSUME NEW p \in Procs, Trip(p) PROVE OwedIsLatched'
  BY <1>0, <1>2 DEF Trip, Begin, OwedInv, OwedIsLatched, HostTypeOK, Resetting
<1>3. ASSUME NEW p \in Procs, Reset(p) PROVE OwedIsLatched'
  BY <1>3 DEF Reset, Begin, OwedIsLatched
<1>4. ASSUME NEW p \in Procs, Insert(p) PROVE OwedIsLatched'
  BY <1>0, <1>4 DEF Insert, OwedInv, OwedIsLatched, HostTypeOK, Resetting
<1>5. ASSUME NEW p \in Procs, Commit(p) PROVE OwedIsLatched'
  <2>1. task[p] \in Numbered
    BY <1>0, <1>5, TaskMoves DEF Commit
  <2>2. /\ task'[p].state = task[p].state
        /\ \A q \in Procs : q # p => task'[q] = task[q]
    BY <1>0, <1>5, <2>1 DEF Commit, Numbered, HostTypeOK
  <2>3. QED BY <1>5, <2>2 DEF Commit, OwedInv, OwedIsLatched, Resetting
<1>6. ASSUME NEW p \in Procs, Finish(p) PROVE OwedIsLatched'
  <2>1. task[p] \in Numbered /\ task[p].state \in Saved
    BY <1>0, <1>6, TaskMoves DEF Finish, Numbered
  <2>2. /\ ~Resetting(p)'
        /\ \A q \in Procs : q # p => task'[q] = task[q]
    BY <1>0, <1>6 DEF Finish, Idle, Resetting, HostTypeOK
  <2>3. CASE task[p].state = "HALTED"
    BY <1>6, <2>2, <2>3 DEF Finish, OwedInv, OwedIsLatched, Resetting
  <2>4. CASE task[p].state = "RUNNING"
    BY <1>6, <2>2, <2>4 DEF Finish, OwedInv, OwedIsLatched, Resetting
  <2>5. QED BY <2>1, <2>3, <2>4 DEF Saved
<1>7. ASSUME NEW p \in Procs, SaveFails(p) \/ ReadJournal(p) \/ ReadLatch(p) \/ Crash(p)
      PROVE  OwedIsLatched'
  <2>1. Idled(p) \/ StartUp(p)
    BY <1>7 DEF SaveFails, ReadJournal, ReadLatch, Crash, Idled
  <2>2. QED BY <1>1, <1>7, <2>1 DEF SaveFails, ReadJournal, ReadLatch, Crash
<1>8. ASSUME Spawn PROVE OwedIsLatched'
  BY <1>1, <1>8, PaperAssumption DEF Spawn
<1>9. ASSUME \/ \E n \in 0..(nextSeq - 1) : RollBack(n)
             \/ LoseLatch \/ CheckCoherent \/ CheckEligible \/ Claim \/ SupervisorDies
             \/ Bootstrap \/ UNCHANGED vars
      PROVE  OwedIsLatched'
  BY <1>9 DEF RollBack, LoseLatch, CheckCoherent, CheckEligible, Claim, SupervisorDies, Bootstrap,
              vars, OwedInv, OwedIsLatched, Resetting
<1>10. ASSUME Reboot PROVE OwedIsLatched'
  BY <1>10 DEF Reboot, Idle, OwedInv, OwedIsLatched, Resetting
<1>11. OwedIsLatched'
  BY <1>2, <1>3, <1>4, <1>5, <1>6, <1>7, <1>8, <1>9, <1>10 DEF Next
<1>12. QED BY <1>0, <1>11 DEF OwedInv

\* Once trip() has returned with no reset under way, and until an operator begins
\* one, no start-up of any process permits orders, whatever is lost of the journal
\* and of the latch file, and however many processes share them.
THEOREM HaltIsNeverForgotten == Spec => []HaltOutlivesTheDatabase
<1>1. Init => OwedInv
  BY InitTypes DEF Init, OwedInv, OwedIsLatched
<1>2. OwedInv /\ [Next]_vars => OwedInv'
  BY NextOwed
<1>3. OwedInv => HaltOutlivesTheDatabase
  BY DEF OwedInv, OwedIsLatched, HaltOutlivesTheDatabase, RecoveredState
<1>4. QED BY <1>1, <1>2, <1>3, PTL DEF Spec

------------------------------------------------------------------------------
(* One automatic clear per boot                                            *)

\* Whoever is past the check has a marker older than the boot, whoever is past the
\* claim has the boot marked, and no boot is marked that is still to come.
Marked ==
    /\ marker # Missing => marker <= boot
    /\ supervisor = "claim" => marker # Missing /\ marker < boot
    /\ supervisor = "start" => marker = boot

\* Every clear was marked; while one is claimed, none was issued for this boot.
ClearsAreMarked ==
    \A i \in DOMAIN clears :
        /\ marker # Missing /\ clears[i] <= marker
        /\ supervisor = "start" => clears[i] < boot

ClearInv == HostTypeOK /\ Marked /\ ClearsAreMarked /\ OneAutomaticClearPerBoot

\* The marker is written before the clear is issued, and only forward.
LEMMA NextClear ==
    ASSUME ClearInv, [Next]_vars
    PROVE  ClearInv'
<1> USE DEF stores, host, history
<1>0. /\ HostTypeOK /\ HostTypeOK'
      /\ boot \in Nat /\ marker \in Nat \cup {Missing}
      /\ clears \in Seq(Nat)
      /\ \A i \in DOMAIN clears : clears[i] \in Nat
  BY NextTypes DEF ClearInv, HostTypeOK, TypeOK
<1>1. CASE UNCHANGED host
  BY <1>0, <1>1 DEF ClearInv, Marked, ClearsAreMarked, OneAutomaticClearPerBoot
<1>2. CASE CheckCoherent \/ CheckEligible \/ SupervisorDies
  BY <1>0, <1>2 DEF CheckCoherent, CheckEligible, SupervisorDies,
                    ClearInv, Marked, ClearsAreMarked, OneAutomaticClearPerBoot
<1>3. CASE Claim
  BY <1>0, <1>3 DEF Claim, ClearInv, Marked, ClearsAreMarked, OneAutomaticClearPerBoot
<1>4. CASE Spawn
  <2>1. /\ clears' = Append(clears, boot) /\ supervisor' = "idle"
        /\ UNCHANGED <<boot, marker>> /\ marker = boot
        /\ \A i \in DOMAIN clears : clears[i] < boot
    BY <1>4 DEF Spawn, ClearInv, Marked, ClearsAreMarked
  <2>2. /\ DOMAIN clears = 1..Len(clears) /\ Len(clears) \in Nat
        /\ DOMAIN clears' = 1..(Len(clears) + 1)
        /\ clears'[Len(clears) + 1] = boot
        /\ \A i \in DOMAIN clears : clears'[i] = clears[i]
    BY <1>0, <2>1
  <2>3. Marked' /\ ClearsAreMarked'
    BY <1>0, <2>1, <2>2 DEF Marked, ClearsAreMarked
  <2>4. OneAutomaticClearPerBoot'
    BY <1>0, <2>1, <2>2 DEF OneAutomaticClearPerBoot, ClearInv
  <2>5. QED BY <1>0, <2>3, <2>4 DEF ClearInv
<1>5. CASE Bootstrap
  BY <1>0, <1>5 DEF Bootstrap, ClearInv, Marked, ClearsAreMarked, OneAutomaticClearPerBoot
<1>6. CASE Reboot
  BY <1>0, <1>6 DEF Reboot, ClearInv, Marked, ClearsAreMarked, OneAutomaticClearPerBoot
<1>7. ASSUME NEW p \in Procs,
             \/ Trip(p) \/ Reset(p) \/ Insert(p) \/ Commit(p) \/ Finish(p) \/ SaveFails(p)
             \/ ReadJournal(p) \/ ReadLatch(p) \/ Crash(p)
      PROVE  UNCHANGED host
  BY <1>7 DEF Trip, Reset, Begin, Insert, Commit, Finish, SaveFails, ReadJournal, ReadLatch, Crash
<1>8. ASSUME (\E n \in 0..(nextSeq - 1) : RollBack(n)) \/ LoseLatch \/ UNCHANGED vars
      PROVE  UNCHANGED host
  BY <1>8 DEF RollBack, LoseLatch, vars
<1>9. QED BY <1>1, <1>2, <1>3, <1>4, <1>5, <1>6, <1>7, <1>8 DEF Next

\* At most one automatic incident-CLEAR per boot, wherever the supervisor dies,
\* whatever write fails and however often it is run again.
THEOREM ClearIsIssuedOncePerBoot == Spec => []OneAutomaticClearPerBoot
<1>1. Init => ClearInv
  BY InitTypes DEF Init, ClearInv, Marked, ClearsAreMarked, OneAutomaticClearPerBoot
<1>2. ClearInv /\ [Next]_vars => ClearInv'
  BY NextClear
<1>3. QED BY <1>1, <1>2, PTL DEF Spec, ClearInv

------------------------------------------------------------------------------
(* A start-up sees every trip                                              *)

\* A number is taken once: by a row, or by an insert that is not committed yet.
SequenceIsUnique ==
    /\ \A r, s \in rows : r.seq = s.seq => r = s
    /\ \A r \in rows : r.seq < nextSeq
    /\ \A p \in Procs : task[p].at = "commit" =>
          /\ \A r \in rows : r.seq # task[p].seq
          /\ \A q \in Procs : task[q].at = "commit" /\ task[q].seq = task[p].seq => p = q

\* What was committed is in the journal, that of every trip that returned included.
Committed ==
    /\ \A p \in Procs : task[p].at = "latch" =>
          \E r \in rows : r.seq = task[p].seq /\ r.state = task[p].state
    /\ \A n \in tripped : \E r \in rows : r.seq = n /\ r.state = "HALTED"

\* The trips of `saw` are answered in the journal.
Answered(saw) == \A n \in saw : \E r \in rows : r.state = "RUNNING" /\ r.seq > n

\* A process that read RUNNING in the journal read a reset later than every trip it
\* had to see.
ReadersSaw ==
    \A p \in Procs : task[p].at = "latchRead" /\ task[p].journal = "RUNNING" =>
        Answered(task[p].saw)

\* A process that is starting has no switch yet.
ReadersAreOff == \A p \in Procs : task[p].at = "latchRead" => switch[p] = "OFF"

JournalInv ==
    /\ HostTypeOK
    /\ ReadersAreOff
    /\ ~rolledBack => SequenceIsUnique /\ Committed /\ ReadersSaw

\* In a journal where numbers are unique, a newest row that says RUNNING follows
\* every trip that returned.
LEMMA NewestFollowsTheTrips ==
    ASSUME HostTypeOK, SequenceIsUnique, Committed, JournalState = "RUNNING"
    PROVE  Answered(tripped)
<1>1. PICK r \in rows : r.state = "RUNNING" /\ \A s \in rows : s.seq <= r.seq
  BY JournalStateType
<1>2. \A s \in rows : s.seq \in Nat
  BY DEF HostTypeOK, TypeOK
<1>3. ASSUME NEW n \in tripped PROVE r.seq > n
  <2>1. PICK h \in rows : h.seq = n /\ h.state = "HALTED"
    BY DEF Committed
  <2>2. h.seq # r.seq
    BY <1>1, <2>1 DEF SequenceIsUnique
  <2>3. QED BY <1>1, <1>2, <2>1, <2>2
<1>4. QED BY <1>1, <1>3 DEF Answered

\* Rows are only added unless the database is rolled back.
LEMMA NextJournal ==
    ASSUME JournalInv, [Next]_vars
    PROVE  JournalInv'
<1> USE DEF stores, host, history
<1>0. /\ HostTypeOK /\ HostTypeOK' /\ ReadersAreOff
      /\ task \in [Procs -> Tasks] /\ nextSeq \in Nat
      /\ \A r \in rows : r.seq \in Nat
  BY NextTypes DEF JournalInv, HostTypeOK, TypeOK
<1> DEFINE Journal == SequenceIsUnique /\ Committed /\ ReadersSaw
<1>1. ASSUME NEW p \in Procs, UNCHANGED <<rows, nextSeq, tripped, rolledBack>>,
             \A q \in Procs : q # p => task'[q] = task[q],
             task'[p].at \notin {"commit", "latch", "latchRead"}
      PROVE  ~rolledBack' => Journal'
  BY <1>1 DEF JournalInv, SequenceIsUnique, Committed, ReadersSaw, Answered
<1>2. ASSUME NEW p \in Procs, UNCHANGED switch, ReadersAreOff,
             \A q \in Procs : q # p => task'[q] = task[q],
             task'[p].at = "latchRead" => switch[p] = "OFF"
      PROVE  ReadersAreOff'
  BY <1>2 DEF ReadersAreOff
<1>3. ASSUME NEW p \in Procs, Trip(p) \/ Reset(p) PROVE JournalInv'
  <2>1. /\ task'[p].at = "insert"
        /\ \A q \in Procs : q # p => task'[q] = task[q]
        /\ UNCHANGED <<rows, nextSeq, tripped, rolledBack, switch>>
    BY <1>0, <1>3 DEF Trip, Reset, Begin
  <2>2. QED BY <1>0, <1>1, <1>2, <2>1 DEF JournalInv
<1>4. ASSUME NEW p \in Procs, Insert(p) PROVE JournalInv'
  <2>1. /\ task'[p].at = "commit" /\ task'[p].seq = nextSeq
        /\ \A q \in Procs : q # p => task'[q] = task[q]
        /\ nextSeq' = nextSeq + 1
        /\ UNCHANGED <<rows, tripped, rolledBack, switch>>
        /\ \A q \in Procs : task[q].at = "commit" => task[q].seq \in 1..(nextSeq - 1)
    BY <1>0, <1>4 DEF Insert, HostTypeOK
  <2>2. ASSUME ~rolledBack' PROVE SequenceIsUnique'
    <3>1. /\ \A r, s \in rows' : r.seq = s.seq => r = s
          /\ \A r \in rows' : r.seq < nextSeq'
      BY <1>0, <2>1, <2>2 DEF JournalInv, SequenceIsUnique
    <3>2. ASSUME NEW q \in Procs, task'[q].at = "commit"
          PROVE  /\ \A r \in rows' : r.seq # task'[q].seq
                 /\ \A v \in Procs : task'[v].at = "commit" /\ task'[v].seq = task'[q].seq => q = v
      BY <1>0, <2>1, <2>2, <3>2 DEF JournalInv, SequenceIsUnique
    <3>3. QED BY <3>1, <3>2 DEF SequenceIsUnique
  <2>3. ASSUME ~rolledBack' PROVE Committed' /\ ReadersSaw'
    BY <2>1, <2>3 DEF JournalInv, Committed, ReadersSaw, Answered
  <2>4. QED BY <1>0, <1>2, <2>1, <2>2, <2>3 DEF JournalInv
<1>5. ASSUME NEW p \in Procs, Commit(p) PROVE JournalInv'
  <2>1. task[p] \in Numbered
    BY <1>0, <1>5, TaskMoves DEF Commit
  <2>2. task' = [task EXCEPT ![p] = [task[p] EXCEPT !.at = "latch"]]
    BY <1>5 DEF Commit
  <2>3. /\ task[p].at = "commit" /\ task'[p].at = "latch"
        /\ task'[p].seq = task[p].seq /\ task'[p].state = task[p].state
        /\ \A q \in Procs : q # p => task'[q] = task[q]
        /\ task[p].seq \in 1..(nextSeq - 1)
    BY <1>0, <1>5, <2>1, <2>2 DEF Commit, Numbered, HostTypeOK
  <2>4. PICK written : /\ written.seq = task[p].seq /\ written.state = task[p].state
                   /\ rows' = rows \cup {written}
    BY <1>5 DEF Commit
  <2>5. UNCHANGED <<nextSeq, tripped, rolledBack, switch>>
    BY <1>5 DEF Commit
  <2>6. ASSUME ~rolledBack' PROVE SequenceIsUnique'
    BY <1>0, <2>3, <2>4, <2>5, <2>6 DEF JournalInv, SequenceIsUnique
  <2>7. ASSUME ~rolledBack' PROVE Committed' /\ ReadersSaw'
    <3>1. rows \subseteq rows' /\ written \in rows'
      BY <2>4
    <3>2. QED BY <2>3, <2>4, <2>5, <2>7, <3>1 DEF JournalInv, Committed, ReadersSaw, Answered
  <2>8. QED BY <1>0, <1>2, <2>3, <2>5, <2>6, <2>7 DEF JournalInv
<1>6. ASSUME NEW p \in Procs, Finish(p) PROVE JournalInv'
  <2>1. /\ task[p].at = "latch" /\ task'[p].at = "idle"
        /\ \A q \in Procs : q # p => task'[q] = task[q] /\ switch'[q] = switch[q]
        /\ UNCHANGED <<rows, nextSeq, rolledBack>>
    BY <1>0, <1>6 DEF Finish, Idle, HostTypeOK, TypeOK
  <2>2. /\ tripped' \subseteq tripped \cup {task[p].seq}
        /\ task[p].seq \in tripped' => task[p].seq \in tripped \/ task[p].state = "HALTED"
    BY <1>6 DEF Finish
  <2>3. ASSUME ~rolledBack' PROVE SequenceIsUnique' /\ ReadersSaw'
    BY <2>1, <2>3 DEF JournalInv, SequenceIsUnique, ReadersSaw, Answered
  <2>4. ASSUME ~rolledBack' PROVE Committed'
    BY <2>1, <2>2, <2>4 DEF JournalInv, Committed
  <2>5. ReadersAreOff'
    BY <1>0, <2>1 DEF ReadersAreOff
  <2>6. QED BY <1>0, <2>3, <2>4, <2>5 DEF JournalInv
<1>7. ASSUME NEW p \in Procs, SaveFails(p) \/ ReadLatch(p) \/ Crash(p) PROVE JournalInv'
  <2>1. /\ task'[p].at = "idle"
        /\ \A q \in Procs : q # p => task'[q] = task[q] /\ switch'[q] = switch[q]
        /\ UNCHANGED <<rows, nextSeq, tripped, rolledBack>>
    BY <1>0, <1>7 DEF SaveFails, ReadLatch, Crash, Idle, HostTypeOK, TypeOK
  <2>2. ReadersAreOff'
    BY <1>0, <2>1 DEF ReadersAreOff
  <2>3. QED BY <1>0, <1>1, <2>1, <2>2 DEF JournalInv
<1>8. ASSUME NEW p \in Procs, StartUp(p), switch[p] = "OFF",
             UNCHANGED <<stores, switch, history>>
      PROVE  JournalInv'
  <2>1. /\ task'[p].at = "latchRead" /\ task'[p].journal = JournalState /\ task'[p].saw = tripped
        /\ \A q \in Procs : q # p => task'[q] = task[q]
    BY <1>0, <1>8 DEF StartUp
  <2>2. ASSUME ~rolledBack' PROVE SequenceIsUnique' /\ Committed'
    BY <1>8, <2>1, <2>2 DEF JournalInv, SequenceIsUnique, Committed
  <2>3. ASSUME ~rolledBack' PROVE ReadersSaw'
    <3>1. JournalState = "RUNNING" => Answered(tripped)
      BY <1>0, <1>8, <2>3, NewestFollowsTheTrips DEF JournalInv
    <3>2. QED BY <1>8, <2>1, <2>3, <3>1 DEF JournalInv, ReadersSaw, Answered
  <2>4. QED BY <1>0, <1>2, <1>8, <2>1, <2>2, <2>3 DEF JournalInv
<1>9. ASSUME NEW p \in Procs, ReadJournal(p) PROVE JournalInv'
  BY <1>8, <1>9 DEF ReadJournal
<1>10. ASSUME Spawn PROVE JournalInv'
  BY <1>8, <1>10, PaperAssumption DEF Spawn
<1>11. ASSUME NEW n \in 0..(nextSeq - 1), RollBack(n) PROVE JournalInv'
  BY <1>0, <1>11 DEF RollBack, JournalInv, ReadersAreOff
<1>12. ASSUME LoseLatch \/ CheckCoherent \/ CheckEligible \/ Claim \/ SupervisorDies
              \/ Bootstrap \/ UNCHANGED vars
       PROVE  JournalInv'
  <2>1. UNCHANGED <<rows, nextSeq, tripped, rolledBack, switch, task>>
    BY <1>12 DEF LoseLatch, CheckCoherent, CheckEligible, Claim, SupervisorDies, Bootstrap, vars
  <2>2. QED BY <1>0, <2>1 DEF JournalInv, ReadersAreOff, SequenceIsUnique, Committed,
                              ReadersSaw, Answered
<1>13. ASSUME Reboot PROVE JournalInv'
  <2>1. /\ \A p \in Procs : task'[p].at = "idle"
        /\ UNCHANGED <<rows, nextSeq, tripped, rolledBack>>
    BY <1>13 DEF Reboot, Idle
  <2>2. QED BY <1>0, <2>1 DEF JournalInv, ReadersAreOff, SequenceIsUnique, Committed, ReadersSaw
<1>14. QED BY <1>3, <1>4, <1>5, <1>6, <1>7, <1>9, <1>10, <1>11, <1>12, <1>13 DEF Next

\* The step that gives a starting process its switch is ReadLatch, which answers
\* RUNNING only to a journal that said so.
LEMMA StartSees ==
    ASSUME JournalInv, [Next]_vars, NEW p \in Procs,
           task[p].at = "latchRead", switch'[p] = "RUNNING", ~rolledBack
    PROVE  Answered(task[p].saw)
<1> USE DEF stores, host, history
<1>0. /\ switch \in [Procs -> States \cup {"OFF"}]
      /\ switch[p] # "RUNNING"
  BY DEF JournalInv, HostTypeOK, TypeOK, ReadersAreOff
<1>1. ASSUME ReadLatch(p) PROVE task[p].journal = "RUNNING"
  BY <1>0, <1>1 DEF ReadLatch, RecoveredState
<1>2. ASSUME NEW q \in Procs, Finish(q) PROVE switch'[p] = switch[p]
  BY <1>0, <1>2 DEF Finish
<1>3. ASSUME NEW q \in Procs, ReadLatch(q), q # p PROVE switch'[p] = switch[p]
  BY <1>0, <1>3 DEF ReadLatch
<1>4. ASSUME NEW q \in Procs, Crash(q) PROVE switch'[p] # "RUNNING"
  BY <1>0, <1>4 DEF Crash
<1>5. ASSUME NEW q \in Procs,
             Trip(q) \/ Reset(q) \/ Insert(q) \/ Commit(q) \/ SaveFails(q) \/ ReadJournal(q)
      PROVE  switch' = switch
  BY <1>5 DEF Trip, Reset, Begin, Insert, Commit, SaveFails, ReadJournal
<1>6. ASSUME \/ \E n \in 0..(nextSeq - 1) : RollBack(n)
             \/ LoseLatch \/ CheckCoherent \/ CheckEligible \/ Claim \/ Spawn \/ SupervisorDies
             \/ Bootstrap \/ UNCHANGED vars
      PROVE  switch' = switch
  BY <1>6 DEF RollBack, LoseLatch, CheckCoherent, CheckEligible, Claim, Spawn, SupervisorDies,
              Bootstrap, vars
<1>7. ASSUME Reboot PROVE switch'[p] # "RUNNING"
  BY <1>7 DEF Reboot
<1>8. task[p].journal = "RUNNING"
  BY <1>0, <1>1, <1>2, <1>3, <1>4, <1>5, <1>6, <1>7 DEF Next
<1>9. QED BY <1>8 DEF JournalInv, ReadersSaw

\* A process comes up RUNNING only if every trip that had returned when it began to
\* read is answered by a later reset in the journal, for any interleaving of any
\* number of saves, crashes and failed writes, until the database is rolled back.
THEOREM StartUpSeesEveryTrip == Spec => StartsSeeEveryTrip
<1>1. Init => JournalInv
  <2>1. ASSUME Init PROVE \A p \in Procs : task[p].at = "idle"
    BY <2>1 DEF Init, Idle
  <2>2. QED BY <2>1, InitTypes DEF Init, JournalInv, ReadersAreOff, SequenceIsUnique, Committed,
                                   ReadersSaw
<1>2. JournalInv /\ [Next]_vars => JournalInv'
  BY NextJournal
<1> DEFINE Sees == \A p \in Procs :
               /\ task[p].at = "latchRead" /\ switch'[p] = "RUNNING"
               /\ ~rolledBack
               => \A n \in task[p].saw : \E r \in rows : r.state = "RUNNING" /\ r.seq > n
<1>3. JournalInv /\ [Next]_vars => [Sees]_vars
  BY StartSees DEF Answered
<1>4. QED BY <1>1, <1>2, <1>3, PTL DEF Spec, StartsSeeEveryTrip
==============================================================================
