--------------------------- MODULE PaperLiteProofs ---------------------------
(***************************************************************************)
(* Proofs about PaperLite, for any prices, limits and bounds: what the     *)
(* journal may hold, that its replay is the book in memory, and what is    *)
(* never filled.                                                           *)
(***************************************************************************)
EXTENDS PaperLite, WellFoundedInduction, TLAPS

USE TickAssumption

------------------------------------------------------------------------------
(* Induction over a sequence.  NatInduction takes an operator, which the   *)
(* provers cannot instantiate; the same for a set follows from the fact    *)
(* that < is well founded.                                                 *)

\* A set with 0 that is closed under the successor holds every number.
LEMMA SetInduction ==
    ASSUME NEW S, 0 \in S, \A n \in Nat : n \in S => n + 1 \in S
    PROVE  \A n \in Nat : n \in S
<1> DEFINE T == {n \in Nat : n \notin S}
<1> SUFFICES ASSUME T # {} PROVE FALSE
  OBVIOUS
<1>1. PICK m \in T : \A k \in T : ~(<<k, m>> \in OpToRel(<, Nat))
  BY NatLessThanWellFounded, WFMin
<1>2. \A k \in T : ~(k < m)
  BY <1>1 DEF OpToRel
<1>3. m # 0 /\ m - 1 \in Nat
  OBVIOUS
<1>4. m - 1 \in S
  BY <1>2, <1>3
<1>5. QED BY <1>3, <1>4

IsSequence(s) == \E U : s \in Seq(U)

\* What an append does.
LEMMA AppendFacts ==
    ASSUME NEW s, NEW e, IsSequence(s)
    PROVE  /\ IsSequence(Append(s, e)) /\ Len(s) \in Nat
           /\ Len(Append(s, e)) = Len(s) + 1 /\ DOMAIN s = 1..Len(s)
           /\ DOMAIN Append(s, e) = 1..(Len(s) + 1)
           /\ Append(s, e)[Len(s) + 1] = e
           /\ \A i \in DOMAIN s : Append(s, e)[i] = s[i]
<1>1. PICK U : s \in Seq(U)
  BY DEF IsSequence
<1>2. s \in Seq(U \cup {e})
  BY <1>1
<1>3. Append(s, e) \in Seq(U \cup {e})
  BY <1>2
<1>4. QED BY <1>2, <1>3 DEF IsSequence

------------------------------------------------------------------------------
(* The replay of a journal                                                 *)

\* The books that the first k entries lead to, one after the other.
Books(s, k, g) ==
    g = [n \in 0..k |-> IF n = 0 THEN NewBook ELSE Applied(g[n - 1], s[n])]

\* There are such books, for as many entries as are wanted.
LEMMA BooksExist == ASSUME NEW s PROVE \A k \in Nat : \E g : Books(s, k, g)
<1> DEFINE S == {k \in Nat : \E g : Books(s, k, g)}
<1>1. 0 \in S
  <2> DEFINE g == [n \in 0..0 |-> NewBook]
  <2>1. g = [n \in 0..0 |-> IF n = 0 THEN NewBook ELSE Applied(g[n - 1], s[n])]
    OBVIOUS
  <2> HIDE DEF g
  <2>2. QED BY <2>1 DEF Books
<1>2. ASSUME NEW k \in Nat, k \in S PROVE k + 1 \in S
  <2>1. PICK g : Books(s, k, g)
    BY <1>2
  <2> DEFINE h == [n \in 0..(k + 1) |-> IF n = k + 1 THEN Applied(g[k], s[k + 1]) ELSE g[n]]
             def == [n \in 0..(k + 1) |-> IF n = 0 THEN NewBook ELSE Applied(h[n - 1], s[n])]
  <2>2. ASSUME NEW n \in 0..(k + 1) PROVE h[n] = def[n]
    <3>1. CASE n = k + 1
      <4>1. n # 0 /\ n - 1 = k /\ k \in 0..(k + 1) /\ k # k + 1
        BY <3>1
      <4>2. h[k] = g[k]
        BY <4>1
      <4>3. h[n] = Applied(g[k], s[k + 1])
        BY <3>1
      <4>4. QED BY <3>1, <4>1, <4>2, <4>3
    <3>2. CASE n \in 0..k
      <4>1. g[n] = IF n = 0 THEN NewBook ELSE Applied(g[n - 1], s[n])
        BY <2>1, <3>2 DEF Books
      <4>2. h[n] = g[n] /\ (n # 0 => h[n - 1] = g[n - 1])
        BY <3>2
      <4> HIDE DEF h
      <4>3. QED BY <3>2, <4>1, <4>2
    <3>3. QED BY <3>1, <3>2
  <2>3. h = def
    BY <2>2
  <2> HIDE DEF h
  <2>4. Books(s, k + 1, h)
    BY <2>3 DEF Books
  <2>5. QED BY <2>4
<1> HIDE DEF S
<1>3. \A k \in Nat : k \in S
  BY <1>1, <1>2, SetInduction
<1>4. QED BY <1>3 DEF S

\* The replay is the last of them.
LEMMA ReplayedIsTheLast ==
    ASSUME NEW s, Len(s) \in Nat
    PROVE  \E g : Books(s, Len(s), g) /\ Replayed(s) = g[Len(s)]
<1> DEFINE g == CHOOSE g : Books(s, Len(s), g)
<1>1. Books(s, Len(s), g)
  BY BooksExist
<1>2. Replayed(s) = g[Len(s)]
  BY DEF Replayed, Books
<1>3. QED BY <1>1, <1>2

\* An empty journal rebuilds a new book.
LEMMA ReplayedEmpty == Replayed(<<>>) = NewBook
<1>1. Len(<<>>) = 0
  OBVIOUS
<1>2. PICK g : Books(<<>>, 0, g) /\ Replayed(<<>>) = g[0]
  BY <1>1, ReplayedIsTheLast
<1>3. g = [n \in 0..0 |-> IF n = 0 THEN NewBook ELSE Applied(g[n - 1], <<>>[n])]
  BY <1>2 DEF Books
<1>4. QED BY <1>2, <1>3

\* One more entry is applied to what the others rebuild.
LEMMA ReplayedAppend ==
    ASSUME NEW s, NEW e, IsSequence(s)
    PROVE  Replayed(Append(s, e)) = Applied(Replayed(s), e)
<1> DEFINE t == Append(s, e)
           k == Len(s)
<1>1. /\ k \in Nat /\ Len(t) = k + 1 /\ t[k + 1] = e
      /\ \A i \in 1..k : t[i] = s[i]
  BY AppendFacts
<1> HIDE DEF t
<1>2. PICK g : Books(s, k, g) /\ Replayed(s) = g[k]
  BY <1>1, ReplayedIsTheLast
<1>3. PICK h : Books(t, k + 1, h) /\ Replayed(t) = h[k + 1]
  BY <1>1, ReplayedIsTheLast
<1> HIDE DEF k
<1>4. \A n \in 0..k : g[n] = IF n = 0 THEN NewBook ELSE Applied(g[n - 1], s[n])
  BY <1>2 DEF Books
<1>5. \A n \in 0..(k + 1) : h[n] = IF n = 0 THEN NewBook ELSE Applied(h[n - 1], t[n])
  BY <1>3 DEF Books
<1> DEFINE S == {n \in Nat : n <= k => h[n] = g[n]}
<1>6. 0 \in S
  BY <1>1, <1>4, <1>5
<1>7. ASSUME NEW n \in Nat, n \in S PROVE n + 1 \in S
  <2>1. CASE n + 1 <= k
    <3>1. n \in 0..k /\ n + 1 \in 0..k /\ n + 1 \in 0..(k + 1) /\ n + 1 \in 1..k /\ h[n] = g[n]
      BY <1>1, <1>7, <2>1
    <3>2. h[n + 1] = Applied(h[n], t[n + 1])
      BY <1>5, <3>1
    <3>3. g[n + 1] = Applied(g[n], s[n + 1])
      BY <1>4, <3>1
    <3>4. QED BY <1>1, <3>1, <3>2, <3>3
  <2>2. QED BY <2>1
<1> HIDE DEF S
<1>8. k \in S
  BY <1>1, <1>6, <1>7, SetInduction
<1>9. h[k] = g[k]
  BY <1>1, <1>8 DEF S
<1>10. h[k + 1] = Applied(h[k], e)
  BY <1>1, <1>5
<1>11. QED BY <1>2, <1>3, <1>9, <1>10 DEF t

------------------------------------------------------------------------------
(* The positions that stay, and those that leave                           *)

\* What the first k positions keep, one after the other.
Keeps(s, set, k, g) ==
    g = [n \in 0..k |-> IF n = 0 THEN <<>>
                        ELSE IF s[n] \in set THEN Append(g[n - 1], s[n]) ELSE g[n - 1]]

\* It is always defined.
LEMMA KeepsExist == ASSUME NEW s, NEW set PROVE \A k \in Nat : \E g : Keeps(s, set, k, g)
<1> DEFINE S == {k \in Nat : \E g : Keeps(s, set, k, g)}
           Next1(b, n) == IF s[n] \in set THEN Append(b, s[n]) ELSE b
<1>1. 0 \in S
  <2> DEFINE g == [n \in 0..0 |-> <<>>]
  <2>1. g = [n \in 0..0 |-> IF n = 0 THEN <<>> ELSE Next1(g[n - 1], n)]
    OBVIOUS
  <2> HIDE DEF g
  <2>2. QED BY <2>1 DEF Keeps
<1>2. ASSUME NEW k \in Nat, k \in S PROVE k + 1 \in S
  <2>1. PICK g : Keeps(s, set, k, g)
    BY <1>2
  <2>2. \A n \in 0..k : g[n] = IF n = 0 THEN <<>> ELSE Next1(g[n - 1], n)
    BY <2>1 DEF Keeps
  <2> HIDE DEF Next1
  <2> DEFINE h == [n \in 0..(k + 1) |-> IF n = k + 1 THEN Next1(g[k], k + 1) ELSE g[n]]
             def == [n \in 0..(k + 1) |-> IF n = 0 THEN <<>> ELSE Next1(h[n - 1], n)]
  <2>3. ASSUME NEW n \in 0..(k + 1) PROVE h[n] = def[n]
    <3>1. CASE n = k + 1
      <4>1. n # 0 /\ n - 1 = k /\ k \in 0..(k + 1) /\ k # k + 1
        BY <3>1
      <4>2. h[k] = g[k]
        BY <4>1
      <4>3. h[n] = Next1(g[k], k + 1)
        BY <3>1
      <4>4. QED BY <3>1, <4>1, <4>2, <4>3
    <3>2. CASE n \in 0..k
      <4>1. g[n] = IF n = 0 THEN <<>> ELSE Next1(g[n - 1], n)
        BY <2>2, <3>2
      <4>2. h[n] = g[n] /\ (n # 0 => h[n - 1] = g[n - 1])
        BY <3>2
      <4> HIDE DEF h
      <4>3. QED BY <3>2, <4>1, <4>2
    <3>3. QED BY <3>1, <3>2
  <2>4. h = def
    BY <2>3
  <2> HIDE DEF h
  <2>5. Keeps(s, set, k + 1, h)
    BY <2>4 DEF Keeps, Next1
  <2>6. QED BY <2>5
<1> HIDE DEF S
<1>3. \A k \in Nat : k \in S
  BY <1>1, <1>2, SetInduction
<1>4. QED BY <1>3 DEF S

\* What is kept is a sequence of positions that were there and are in the set.
LEMMA AmongThem ==
    ASSUME NEW s, NEW set, IsSequence(s)
    PROVE  Among(s, set) \in Seq({p \in Range(s) : p \in set})
<1> DEFINE U == {p \in Range(s) : p \in set}
           k == Len(s)
           g == CHOOSE g : Keeps(s, set, k, g)
<1>1. k \in Nat /\ DOMAIN s = 1..k
  BY DEF IsSequence
<1>2. Keeps(s, set, k, g)
  BY <1>1, KeepsExist
<1>3. Among(s, set) = g[k]
  BY DEF Among, Keeps
<1> HIDE DEF g, k
<1>4. \A n \in 0..k : g[n] = IF n = 0 THEN <<>>
                               ELSE IF s[n] \in set THEN Append(g[n - 1], s[n]) ELSE g[n - 1]
  BY <1>2 DEF Keeps
<1> DEFINE S == {n \in Nat : n <= k => g[n] \in Seq(U)}
<1>5. 0 \in S
  <2>1. g[0] = <<>>
    BY <1>1, <1>4
  <2> HIDE DEF U
  <2>2. <<>> \in Seq(U)
    OBVIOUS
  <2>3. QED BY <2>1, <2>2
<1>6. ASSUME NEW n \in Nat, n \in S PROVE n + 1 \in S
  <2>1. CASE n + 1 <= k
    <3>1. n + 1 \in 0..k /\ n + 1 # 0 /\ (n + 1) - 1 = n /\ n + 1 \in DOMAIN s /\ g[n] \in Seq(U)
      BY <1>1, <1>6, <2>1
    <3>2. g[n + 1] = IF s[n + 1] \in set THEN Append(g[n], s[n + 1]) ELSE g[n]
      BY <1>4, <3>1
    <3>3. s[n + 1] \in set => s[n + 1] \in U
      BY <3>1 DEF Range
    <3> HIDE DEF U
    <3>4. g[n + 1] \in Seq(U)
      BY <3>1, <3>2, <3>3
    <3>5. QED BY <3>4
  <2>2. CASE ~(n + 1 <= k)
    <3> HIDE DEF U
    <3> QED BY <2>2
  <2>3. QED BY <2>1, <2>2
<1> HIDE DEF S
<1>7. k \in S
  BY <1>1, <1>5, <1>6, SetInduction
<1>8. QED BY <1>1, <1>3, <1>7 DEF S

------------------------------------------------------------------------------
(* The inductive invariant                                                 *)

PhaseNames == {"OPEN", "NO_NEW_ENTRIES", "FLATTEN_REQUIRED", "CLOSED"}

Times == [week : Nat, phase : PhaseNames]

Feeds == [tick : Nat, bar : Nat, low : Int, high : Int, mid : Int, formLow : Int, formHigh : Int,
          week : Nat, phase : PhaseNames]

\* From the proposal to its submission, after the claim of the bar, after the
\* session phase was read, after the book was advanced.
Proposed == {"risk", "review", "check", "submit"}
Claimed == {"decide"} \cup Proposed
Timed == {"persist", "claim", "outcome"} \cup Claimed
Moved == {"session", "fail"} \cup Timed
Labels == {"off", "idle", "advance"} \cup Moved

Runs == [at : Labels, tick : MarketTicks \cup {Absent}, now : Times \cup {Absent},
         side : {"BUY", "SELL", Absent}]

PaperTypeOK ==
    /\ IsSequence(journal)
    /\ feed \in Feeds /\ time \in Times /\ run \in Runs
    /\ torn \in BOOLEAN /\ safety \in BOOLEAN /\ halted \in BOOLEAN /\ gap \in BOOLEAN

ClaimOf(bar) == Audit("PAPER_LITE_DECISION_WINDOW_CLAIMED", bar)

\* An order stands behind the claim of its bar.
OrdersAreClaimed == \A j \in Orders : OnRecord(journal, ClaimOf(journal[j].bar))

\* A flatten is of a week whose deadline is over.
FlattensAreBehind ==
    \A i \in DOMAIN journal : journal[i].event = "PAPER_FLATTEN_REQUESTED" =>
        /\ journal[i].id \in Nat
        /\ \/ journal[i].id < time.week
           \/ journal[i].id = time.week /\ time.phase \in {"FLATTEN_REQUIRED", "CLOSED"}

\* What a call has established when it comes to each of its places.
CallIsGrounded ==
    /\ run.at = "advance" => run.tick \in MarketTicks /\ run.tick.bar = feed.bar
    /\ run.at \in Timed => run.now = time
    /\ run.at \in Claimed => /\ OnRecord(journal, ClaimOf(run.tick.bar))
                             /\ \A j \in Orders : journal[j].bar # run.tick.bar
    /\ run.at \in Proposed => run.now.phase = "OPEN" /\ ~halted
    /\ run.at \in {"review", "check", "submit"} =>
          \A i \in DOMAIN book.open : book.open[i].week = run.now.week

Seen(j) == \E i \in DOMAIN j : j[i].event = "MARKET_OBSERVED"

\* The parts of a book.
BookOf(open, closed, balance, tick, ranges, tickets) ==
    [open |-> open, closed |-> closed, balance |-> balance, tick |-> tick, ranges |-> ranges,
     tickets |-> tickets]

\* A book that has seen the bars up to `bar`: the range of its last tick is
\* consumed, and no position is younger than that tick.
BookOK(b, seen, bar) ==
    /\ \E o, c, l, t, r, k : b = BookOf(o, c, l, t, r, k)
    /\ IsSequence(b.open) /\ IsSequence(b.closed)
    /\ seen => b.tick \in MarketTicks /\ b.tick.bar \in b.ranges /\ b.tick.bar <= bar
    /\ ~seen => b.open = <<>>
    /\ \A i \in DOMAIN b.open : b.open[i].bar \in Nat /\ b.open[i].bar <= b.tick.bar
    /\ \A i \in DOMAIN b.closed : b.closed[i].by # Absent => b.closed[i].by > b.closed[i].bar

\* The journal describes such a book, and it is the one in memory.
JournalBook == BookOK(Replayed(journal), Seen(journal), feed.bar)

MemoryAgrees ==
    /\ run.at # "off" => book = Replayed(journal)
    /\ run.at \in Moved => Seen(journal)
    /\ record # NoRecord => Seen(journal)
    /\ OldRangesCloseNothing

\* The switch in memory is the durable one, and a gap is either known to it or
\* still to be found by the next recovery.
GapIsGuarded ==
    /\ run.at # "off" => safety = halted
    /\ gap /\ ~safety => Unaccounted /\ run.at \in {"off", "idle"}

JournalInv ==
    /\ OrdersAreClaimed /\ FlattensAreBehind /\ OneOrderPerBar /\ NothingAfterTheFlatten
    /\ JournalBook

PaperInv == PaperTypeOK /\ JournalInv /\ CallIsGrounded /\ MemoryAgrees /\ GapIsGuarded

------------------------------------------------------------------------------
(* What an entry does to a book                                            *)

\* Closing touches the positions, the trades and the balance.
LEMMA CloseAllIs ==
    ASSUME NEW o, NEW c, NEW l, NEW t, NEW r, NEW k, NEW trades
    PROVE  CloseAll(BookOf(o, c, l, t, r, k), trades) =
              BookOf(Among(o, {p \in Range(o) : p.ticket \notin {trades[i].ticket : i \in DOMAIN trades}}),
                     c \o trades, Settled(l, trades), t, r, k)
<1> DEFINE b == BookOf(o, c, l, t, r, k)
           open == Among(o, {p \in Range(o) : p.ticket \notin {trades[i].ticket : i \in DOMAIN trades}})
           closed == c \o trades
           balance == Settled(l, trades)
<1>1. b.open = o /\ b.closed = c /\ b.balance = l
  BY DEF BookOf
<1>2. CloseAll(b, trades) = [b EXCEPT !.open = open, !.closed = closed, !.balance = balance]
  <2>1. [b EXCEPT !.open = Among(@, {p \in Range(@) : p.ticket \notin {trades[i].ticket : i \in DOMAIN trades}})]
          = [b EXCEPT !.open = open]
    BY <1>1
  <2>2. [b EXCEPT !.closed = @ \o trades] = [b EXCEPT !.closed = closed]
    BY <1>1
  <2>3. QED BY <1>1 DEF CloseAll
<1> HIDE DEF open, closed, balance
<1>3. [b EXCEPT !.open = open, !.closed = closed, !.balance = balance]
        = [[[b EXCEPT !.open = open] EXCEPT !.closed = closed] EXCEPT !.balance = balance]
  OBVIOUS
<1>4. [b EXCEPT !.open = open] = BookOf(open, c, l, t, r, k)
  BY DEF BookOf
<1>5. [BookOf(open, c, l, t, r, k) EXCEPT !.closed = closed] = BookOf(open, closed, l, t, r, k)
  BY DEF BookOf
<1>6. [BookOf(open, closed, l, t, r, k) EXCEPT !.balance = balance] = BookOf(open, closed, balance, t, r, k)
  BY DEF BookOf
<1> HIDE DEF b
<1>7. QED BY <1>2, <1>3, <1>4, <1>5, <1>6 DEF open, closed, balance, b

\* A fill appends a position of the last tick.
LEMMA FilledIs ==
    ASSUME NEW o, NEW c, NEW l, NEW t, NEW r, NEW k, NEW e
    PROVE  \E p : /\ Filled(BookOf(o, c, l, t, r, k), e) = BookOf(Append(o, p), c, l, t, r, k + 1)
                  /\ p.bar = t.bar
<1> DEFINE b == BookOf(o, c, l, t, r, k)
           p == [ticket |-> k + 1, side |-> e.side, volume |-> e.volume,
                 entry |-> IF e.side = "BUY" THEN Ask(t) + EntrySlip ELSE Bid(t) - EntrySlip,
                 stop |-> e.stop, target |-> e.target, bar |-> t.bar, week |-> t.week]
<1>1. b.tickets = k /\ b.tick = t /\ b.open = o
  BY DEF BookOf
<1>2. Filled(b, e) = [b EXCEPT !.tickets = @ + 1, !.open = Append(@, p)]
  BY <1>1 DEF Filled
<1>3. p.bar = t.bar
  OBVIOUS
<1> HIDE DEF p
<1>4. [b EXCEPT !.tickets = @ + 1, !.open = Append(@, p)] = BookOf(Append(o, p), c, l, t, r, k + 1)
  <2> DEFINE n == k + 1
             q == Append(o, p)
  <2>1. [b EXCEPT !.tickets = @ + 1, !.open = Append(@, p)] = [[b EXCEPT !.tickets = n] EXCEPT !.open = q]
    BY <1>1
  <2> HIDE DEF n, q
  <2>2. [b EXCEPT !.tickets = n] = BookOf(o, c, l, t, r, n)
    BY DEF BookOf
  <2>3. [BookOf(o, c, l, t, r, n) EXCEPT !.open = q] = BookOf(q, c, l, t, r, n)
    BY DEF BookOf
  <2> HIDE DEF b
  <2>4. QED BY <2>1, <2>2, <2>3 DEF n, q
<1>5. QED BY <1>2, <1>3, <1>4

\* Closing trades removes positions and adds the trades.
LEMMA CloseAllOK ==
    ASSUME NEW b, NEW seen \in BOOLEAN, NEW bar, NEW trades, BookOK(b, seen, bar), IsSequence(trades),
           \A i \in DOMAIN trades : trades[i].by # Absent => trades[i].by > trades[i].bar
    PROVE  BookOK(CloseAll(b, trades), seen, bar)
<1> DEFINE gone == {trades[i].ticket : i \in DOMAIN trades}
           set == {p \in Range(b.open) : p.ticket \notin gone}
           open == Among(b.open, set)
           closed == b.closed \o trades
           c == CloseAll(b, trades)
<1>1. open \in Seq({p \in Range(b.open) : p \in set})
  BY AmongThem DEF BookOK
<1> HIDE DEF set
<1>2. IsSequence(open) /\ \A i \in DOMAIN open : open[i] \in Range(b.open)
  BY <1>1 DEF IsSequence
<1>3. /\ c.open = open /\ c.closed = closed /\ c.tick = b.tick /\ c.ranges = b.ranges
      /\ \E o, d, l, t, r, k : c = BookOf(o, d, l, t, r, k)
  <2>1. PICK o, d, l, t, r, k : b = BookOf(o, d, l, t, r, k)
    BY DEF BookOK
  <2>2. b.open = o /\ b.closed = d /\ b.tick = t /\ b.ranges = r
    BY <2>1 DEF BookOf
  <2>3. c = BookOf(open, closed, Settled(l, trades), t, r, k)
    BY <2>1, <2>2, CloseAllIs DEF set
  <2> HIDE DEF open, closed, c
  <2>4. QED BY <2>2, <2>3 DEF BookOf
<1>4. IsSequence(closed) /\ \A i \in DOMAIN closed : closed[i].by # Absent => closed[i].by > closed[i].bar
  <2>1. PICK U : b.closed \in Seq(U)
    BY DEF BookOK, IsSequence
  <2>2. PICK V : trades \in Seq(V)
    BY DEF IsSequence
  <2>3. b.closed \in Seq(U \cup V) /\ trades \in Seq(U \cup V)
    BY <2>1, <2>2
  <2>4. closed \in Seq(U \cup V) /\ Len(closed) = Len(b.closed) + Len(trades)
    BY <2>3
  <2>5. ASSUME NEW i \in DOMAIN closed
        PROVE  (\E j \in DOMAIN b.closed : closed[i] = b.closed[j]) \/ \E j \in DOMAIN trades : closed[i] = trades[j]
    <3>1. CASE i <= Len(b.closed)
      BY <2>3, <2>4, <2>5, <3>1
    <3>2. CASE i > Len(b.closed)
      <4>1. i - Len(b.closed) \in DOMAIN trades /\ closed[i] = trades[i - Len(b.closed)]
        BY <2>3, <2>4, <2>5, <3>2
      <4>2. QED BY <4>1
    <3>3. QED BY <2>3, <2>4, <2>5, <3>1, <3>2
  <2>6. QED BY <2>4, <2>5 DEF IsSequence, BookOK
<1>5. \A i \in DOMAIN open : open[i].bar \in Nat /\ open[i].bar <= b.tick.bar
  BY <1>2 DEF BookOK, Range
<1>6. ~seen => open = <<>>
  <2>1. ~seen => Range(b.open) = {}
    BY DEF BookOK, Range
  <2>2. QED BY <1>1, <2>1
<1> HIDE DEF open, closed, c
<1>7. QED BY <1>2, <1>3, <1>4, <1>5, <1>6 DEF BookOK, c

\* A flatten closes positions by no range.
LEMMA FlattenedOK ==
    ASSUME NEW b, NEW seen \in BOOLEAN, NEW bar, BookOK(b, seen, bar)
    PROVE  BookOK(Flattened(b), seen, bar)
<1> DEFINE trades == [i \in DOMAIN b.open |-> Closed(b.open[i], ExitNow(b.open[i], b.tick), Absent)]
<1>1. DOMAIN b.open = 1..Len(b.open) /\ Len(b.open) \in Nat
  BY DEF BookOK, IsSequence
<1>2. trades \in Seq({Closed(b.open[i], ExitNow(b.open[i], b.tick), Absent) : i \in DOMAIN b.open})
  BY <1>1
<1>3. \A i \in DOMAIN trades : trades[i].by = Absent
  BY DEF Closed
<1>4. IsSequence(trades)
  BY <1>2 DEF IsSequence
<1> HIDE DEF trades
<1>5. BookOK(CloseAll(b, trades), seen, bar)
  BY <1>3, <1>4, CloseAllOK
<1>6. QED BY <1>5 DEF Flattened, trades

\* A fill is as old as the last tick.
LEMMA FilledOK ==
    ASSUME NEW b, NEW bar, NEW e, BookOK(b, TRUE, bar)
    PROVE  BookOK(Filled(b, e), TRUE, bar)
<1> DEFINE c == Filled(b, e)
<1>0. PICK o, d, l, t, r, k : b = BookOf(o, d, l, t, r, k)
  BY DEF BookOK
<1>1. PICK p : c = BookOf(Append(o, p), d, l, t, r, k + 1) /\ p.bar = t.bar
  BY <1>0, FilledIs
<1>2. /\ c.open = Append(b.open, p) /\ p.bar = b.tick.bar
      /\ c.closed = b.closed /\ c.tick = b.tick /\ c.ranges = b.ranges
  BY <1>0, <1>1 DEF BookOf
<1> HIDE DEF c
<1>3. b.tick.bar \in Nat
  BY DEF BookOK, MarketTicks
<1>4. IsSequence(c.open)
  BY <1>2, AppendFacts DEF BookOK
<1>5. \A i \in DOMAIN c.open : c.open[i].bar \in Nat /\ c.open[i].bar <= c.tick.bar
  <2>1. \A i \in DOMAIN c.open : c.open[i] = p \/ \E j \in DOMAIN b.open : c.open[i] = b.open[j]
    BY <1>2, AppendFacts DEF BookOK
  <2>2. QED BY <1>1, <1>2, <1>3, <2>1 DEF BookOK
<1>6. BookOK(c, TRUE, bar)
  BY <1>1, <1>2, <1>4, <1>5 DEF BookOK
<1>7. QED BY <1>6 DEF c

\* The book once the snapshot of a bar has moved it.
MovedTo(b, sim, bar) == [Advanced(b, sim) EXCEPT !.ranges = @ \cup {bar}]

\* A snapshot of the newest bar: its range closes only positions that are older.
LEMMA AdvancedOK ==
    ASSUME NEW b, NEW seen \in BOOLEAN, NEW t \in MarketTicks, BookOK(b, seen, t.bar),
           NEW sim, sim = SimulationTick(b, t)
    PROVE  /\ sim \in MarketTicks /\ sim.bar = t.bar
           /\ Applied(b, Market(sim)) = MovedTo(b, sim, t.bar)
           /\ BookOK(Applied(b, Market(sim)), TRUE, t.bar)
<1>1. /\ sim \in MarketTicks /\ sim.bar = t.bar
      /\ sim.applied <=> t.bar \notin b.ranges
  BY DEF SimulationTick, MarketTicks
<1> DEFINE set == {p \in Range(b.open) : HitsStop(p, sim) \/ HitsTarget(p, sim)}
           leaving == Among(b.open, set)
           by == IF sim.applied THEN sim.bar ELSE Absent
           trades == [i \in DOMAIN leaving |-> Closed(leaving[i], ExitPrice(leaving[i], sim), by)]
           m == [b EXCEPT !.tick = sim]
<1>2. leaving \in Seq({p \in Range(b.open) : p \in set})
  <2> HIDE DEF set
  <2> QED BY AmongThem DEF BookOK
<1> HIDE DEF set
<1>3. /\ DOMAIN leaving = 1..Len(leaving) /\ Len(leaving) \in Nat
      /\ \A i \in DOMAIN leaving : leaving[i] \in Range(b.open)
  BY <1>2
<1> HIDE DEF leaving
<1>4. trades \in Seq({Closed(leaving[i], ExitPrice(leaving[i], sim), by) : i \in DOMAIN leaving})
  BY <1>3
<1>5. IsSequence(trades)
  BY <1>4 DEF IsSequence
<1>6. \A i \in DOMAIN b.open : b.open[i].bar \in Nat /\ b.open[i].bar <= t.bar /\ (sim.applied => b.open[i].bar < t.bar)
  <2>1. CASE seen
    <3>1. b.tick.bar \in Nat /\ t.bar \in Nat /\ b.tick.bar <= t.bar /\ b.tick.bar \in b.ranges
      BY <2>1 DEF BookOK, MarketTicks
    <3>2. sim.applied => b.tick.bar < t.bar
      BY <1>1, <3>1
    <3>3. QED BY <3>1, <3>2 DEF BookOK
  <2>2. CASE ~seen
    BY <2>2 DEF BookOK
  <2>3. QED BY <2>1, <2>2
<1>7. \A i \in DOMAIN trades : trades[i].by # Absent => trades[i].by > trades[i].bar
  <2>1. \A i \in DOMAIN trades : trades[i].by = by /\ trades[i].bar = leaving[i].bar /\ leaving[i] \in Range(b.open)
    BY <1>3 DEF Closed
  <2>2. \A i \in DOMAIN trades : sim.applied => leaving[i].bar \in Nat /\ leaving[i].bar < t.bar
    BY <1>6, <2>1 DEF Range
  <2>3. t.bar \in Nat
    BY DEF MarketTicks
  <2> HIDE DEF trades
  <2>4. QED BY <1>1, <2>1, <2>2, <2>3
<1> HIDE DEF trades
<1>8. PICK o, c, l, x, g, k : b = BookOf(o, c, l, x, g, k)
  BY DEF BookOK
<1>9. b.open = o /\ b.closed = c /\ b.ranges = g /\ m = BookOf(o, c, l, sim, g, k)
  BY <1>8 DEF BookOf
<1> DEFINE kept == Among(o, {p \in Range(o) : p.ticket \notin {trades[i].ticket : i \in DOMAIN trades}})
           D(ranges) == BookOf(kept, c \o trades, Settled(l, trades), sim, ranges, k)
<1> HIDE DEF m
<1>10. Advanced(b, sim) = D(g)
  <2>1. Advanced(b, sim) = CloseAll(m, trades)
    BY DEF Advanced, trades, leaving, by, set, m
  <2>2. QED BY <1>9, <2>1, CloseAllIs
<1>11. CloseAll(BookOf(o, c, l, sim, g \cup {t.bar}, k), trades) = D(g \cup {t.bar})
  BY CloseAllIs
<1> HIDE DEF kept
<1>12. \A ranges : [D(g) EXCEPT !.ranges = ranges] = D(ranges) /\ D(g).ranges = g
  <2> DEFINE closed == c \o trades
             balance == Settled(l, trades)
  <2> HIDE DEF closed, balance
  <2>1. ASSUME NEW ranges
        PROVE  /\ [BookOf(kept, closed, balance, sim, g, k) EXCEPT !.ranges = ranges]
                     = BookOf(kept, closed, balance, sim, ranges, k)
               /\ BookOf(kept, closed, balance, sim, g, k).ranges = g
    BY DEF BookOf
  <2>2. QED BY <2>1 DEF closed, balance
<1> HIDE DEF D
<1>13. Applied(b, Market(sim)) = [D(g) EXCEPT !.ranges = IF sim.applied THEN @ \cup {sim.bar} ELSE @]
  BY <1>10 DEF Applied, Market
<1>14. Applied(b, Market(sim)) = D(g \cup {t.bar})
  <2>1. ~sim.applied => g = g \cup {t.bar}
    BY <1>1, <1>9
  <2>2. QED BY <1>1, <1>12, <1>13, <2>1 DEF MarketTicks
<1>15. [Advanced(b, sim) EXCEPT !.ranges = @ \cup {t.bar}] = D(g \cup {t.bar})
  BY <1>10, <1>12
<1> DEFINE n == BookOf(o, c, l, sim, g \cup {t.bar}, k)
<1>16. BookOK(n, TRUE, t.bar)
  <2>1. /\ t.bar \in Nat /\ n.open = b.open /\ n.closed = b.closed /\ n.tick = sim
        /\ n.ranges = g \cup {t.bar}
    BY <1>9 DEF MarketTicks, BookOf
  <2>2. \E y1, y2, y3, y4, y5, y6 : n = BookOf(y1, y2, y3, y4, y5, y6)
    OBVIOUS
  <2> HIDE DEF n
  <2>3. \A i \in DOMAIN n.open : n.open[i].bar \in Nat /\ n.open[i].bar <= n.tick.bar
    BY <1>1, <1>6, <2>1
  <2>4. n.tick \in MarketTicks /\ n.tick.bar \in n.ranges /\ n.tick.bar <= t.bar
    BY <1>1, <2>1
  <2>5. QED BY <2>1, <2>2, <2>3, <2>4 DEF BookOK
<1> HIDE DEF n
<1>17. BookOK(CloseAll(n, trades), TRUE, t.bar)
  BY <1>5, <1>7, <1>16, CloseAllOK
<1>18. QED BY <1>1, <1>11, <1>14, <1>15, <1>17 DEF n, MovedTo

------------------------------------------------------------------------------
(* What a step does to the journal                                         *)

\* Neither the journal nor the world moves.
LEMMA JournalKept ==
    ASSUME JournalInv, UNCHANGED <<journal, feed, time>>
    PROVE  JournalInv' /\ Orders' = Orders
BY DEF JournalInv, OrdersAreClaimed, FlattensAreBehind, OneOrderPerBar, NothingAfterTheFlatten,
   JournalBook, Orders

\* What is on record stays on record.
LEMMA RecordStays ==
    ASSUME IsSequence(journal), NEW e, journal' = Append(journal, e)
    PROVE  /\ IsSequence(journal') /\ OnRecord(journal', e)
           /\ DOMAIN journal' = DOMAIN journal \cup {Len(journal) + 1}
           /\ Len(journal) + 1 \notin DOMAIN journal /\ journal'[Len(journal) + 1] = e
           /\ \A i \in DOMAIN journal : journal'[i] = journal[i] /\ i < Len(journal) + 1
           /\ \A x : OnRecord(journal, x) => OnRecord(journal', x)
           /\ Seen(journal) => Seen(journal')
<1>1. /\ IsSequence(journal') /\ Len(journal) \in Nat /\ DOMAIN journal = 1..Len(journal)
      /\ DOMAIN journal' = 1..(Len(journal) + 1)
      /\ journal'[Len(journal) + 1] = e
      /\ \A i \in DOMAIN journal : journal'[i] = journal[i]
  BY AppendFacts
<1>2. DOMAIN journal' = DOMAIN journal \cup {Len(journal) + 1}
  BY <1>1
<1>3. QED BY <1>1, <1>2 DEF OnRecord, Seen

\* An entry that is no order, and a flatten only in its week.
Harmless(e) ==
    /\ e.event # "PAPER_ORDER_ACCEPTED"
    /\ e.event = "PAPER_FLATTEN_REQUESTED" => e.id = time.week /\ time.phase = "FLATTEN_REQUIRED"

\* Such an entry disturbs nothing that is said of the orders and the flattens.
LEMMA HarmlessAppend ==
    ASSUME PaperTypeOK, JournalInv, NEW e, journal' = Append(journal, e), Harmless(e), time' = time
    PROVE  /\ Orders' = Orders /\ \A j \in Orders : journal'[j] = journal[j]
           /\ OrdersAreClaimed' /\ FlattensAreBehind' /\ OneOrderPerBar' /\ NothingAfterTheFlatten'
<1> DEFINE n == Len(journal) + 1
<1>1. /\ DOMAIN journal' = DOMAIN journal \cup {n} /\ n \notin DOMAIN journal /\ journal'[n] = e
      /\ \A i \in DOMAIN journal : journal'[i] = journal[i] /\ i < n
      /\ \A x : OnRecord(journal, x) => OnRecord(journal', x)
  BY RecordStays DEF PaperTypeOK
<1>2. Len(journal) \in Nat /\ DOMAIN journal = 1..Len(journal)
  BY DEF PaperTypeOK, IsSequence
<1> HIDE DEF n
<1>3. Orders' = Orders /\ \A j \in Orders : journal'[j] = journal[j]
  BY <1>1 DEF Orders, Harmless
<1>4. OrdersAreClaimed' /\ OneOrderPerBar'
  <2>1. ASSUME NEW j \in Orders' PROVE OnRecord(journal', ClaimOf(journal'[j].bar))
    <3>1. j \in Orders /\ journal'[j] = journal[j]
      BY <1>3
    <3>2. OnRecord(journal, ClaimOf(journal[j].bar))
      BY <3>1 DEF JournalInv, OrdersAreClaimed
    <3>3. QED BY <1>1, <3>1, <3>2
  <2>2. OrdersAreClaimed'
    BY <2>1 DEF OrdersAreClaimed, ClaimOf, Audit
  <2>3. OneOrderPerBar'
    <3> SUFFICES ASSUME NEW i \in Orders', NEW j \in Orders', journal'[i].bar = journal'[j].bar
                 PROVE  i = j
      BY DEF OneOrderPerBar
    <3>1. i \in Orders /\ j \in Orders /\ journal[i].bar = journal[j].bar
      BY <1>3
    <3>2. QED BY <3>1 DEF JournalInv, OneOrderPerBar
  <2>4. QED BY <2>2, <2>3
<1>5. FlattensAreBehind'
  BY <1>1 DEF JournalInv, FlattensAreBehind, Harmless, PaperTypeOK, Times
<1>6. NothingAfterTheFlatten'
  <2> SUFFICES ASSUME NEW i \in DOMAIN journal', NEW j \in Orders',
                      journal'[i].event = "PAPER_FLATTEN_REQUESTED", i < j
               PROVE  journal'[j].week # journal'[i].id
    BY DEF NothingAfterTheFlatten
  <2>1. j \in Orders /\ j \in DOMAIN journal /\ i # n
    BY <1>1, <1>2, <1>3 DEF Orders, n
  <2>2. QED BY <1>1, <2>1 DEF JournalInv, NothingAfterTheFlatten
<1>7. QED BY <1>3, <1>4, <1>5, <1>6

------------------------------------------------------------------------------
(* The switch                                                              *)

\* A trip is durable as soon as it is in memory.
LEMMA TripOK ==
    ASSUME NEW c \in BOOLEAN, TripIf(c), safety \in BOOLEAN, halted \in BOOLEAN
    PROVE  /\ safety' \in BOOLEAN /\ halted' \in BOOLEAN
           /\ safety => safety'
           /\ safety = halted => safety' = halted' /\ (c => safety')
BY DEF TripIf

\* A recovery halts on a book that the record does not describe.
LEMMA RecoverOK ==
    ASSUME PaperInv, run.at # "off", NEW b, NEW d, Recover(b, d)
    PROVE  /\ safety' \in BOOLEAN /\ halted' \in BOOLEAN /\ safety' = halted'
           /\ safety => safety'
           /\ b = Replayed(journal) /\ Unaccounted => safety'
<1>1. safety \in BOOLEAN /\ halted \in BOOLEAN /\ safety = halted
  BY DEF PaperInv, PaperTypeOK, GapIsGuarded
<1>2. CASE TripIf(TRUE)
  BY <1>1, <1>2, TripOK
<1>3. CASE TripIf(Recovery(b, record, d).halts)
  <2> DEFINE h == (record = NoRecord /\ b.open # <<>>)
                     \/ MustHalt(record, Equity(b), Len(b.open), d)
  <2>1. Recovery(b, record, d).halts = h /\ h \in BOOLEAN
    BY DEF Recovery
  <2>2. b = Replayed(journal) /\ Unaccounted => h
    <3>1. CASE record = NoRecord
      <4>1. Len(<<>>) = 0
        OBVIOUS
      <4>2. QED BY <3>1, <4>1 DEF Unaccounted
    <3>2. CASE record # NoRecord
      BY <3>2 DEF Unaccounted, MustHalt, Disagrees
    <3>3. QED BY <3>1, <3>2
  <2> HIDE DEF h
  <2>3. TripIf(h)
    BY <1>3, <2>1
  <2>4. QED BY <1>1, <2>1, <2>2, <2>3, TripOK
<1>4. QED BY <1>2, <1>3 DEF Recover

\* A call that is on its way has no gap that the switch does not know of.
LEMMA GapStays ==
    ASSUME PaperInv, run.at \notin {"off", "idle"}, gap' = gap, safety => safety',
           run'.at # "off" => safety' = halted'
    PROVE  GapIsGuarded'
BY DEF PaperInv, PaperTypeOK, GapIsGuarded

\* What the record and the journal disagree about has been observed.
LEMMA GapHasBeenSeen ==
    ASSUME PaperInv, Unaccounted
    PROVE  Seen(journal) /\ Replayed(journal).tick # Absent
<1>1. Seen(journal)
  <2>1. CASE record = NoRecord
    <3>1. Len(Replayed(journal).open) # 0
      BY <2>1 DEF Unaccounted
    <3>2. Len(<<>>) = 0
      OBVIOUS
    <3>3. Replayed(journal).open # <<>>
      BY <3>1, <3>2
    <3>4. QED BY <3>3 DEF PaperInv, JournalInv, JournalBook, BookOK
  <2>2. CASE record # NoRecord
    BY <2>2 DEF PaperInv, MemoryAgrees
  <2>3. QED BY <2>1, <2>2
<1>2. QED BY <1>1 DEF PaperInv, JournalInv, JournalBook, BookOK

------------------------------------------------------------------------------
(* What most steps have in common                                          *)

\* Where a call goes, and what it remembers.
LEMMA GotoOK ==
    ASSUME PaperTypeOK, NEW label \in Labels, Goto(label)
    PROVE  /\ run' \in Runs /\ run'.at = label
           /\ label \notin {"idle", "off"} =>
                 run'.tick = run.tick /\ run'.now = run.now /\ run'.side = run.side
BY DEF Goto, PaperTypeOK, Runs, Off

\* A book that has seen the bars up to one has seen those up to a later one.
LEMMA BookLater ==
    ASSUME NEW b, NEW seen \in BOOLEAN, NEW m \in Nat, NEW n \in Nat, m <= n, BookOK(b, seen, m)
    PROVE  BookOK(b, seen, n)
<1>1. seen => b.tick.bar \in Nat
  BY DEF BookOK, MarketTicks
<1>2. QED BY <1>1 DEF BookOK

\* An entry that moves no book.
LEMMA OtherAppend ==
    ASSUME PaperTypeOK, JournalInv, NEW e, journal' = Append(journal, e), UNCHANGED <<feed, time>>,
           e.event \notin {"MARKET_OBSERVED", "PAPER_ORDER_ACCEPTED", "PAPER_FLATTEN_REQUESTED"}
    PROVE  /\ JournalInv' /\ IsSequence(journal') /\ Replayed(journal') = Replayed(journal)
           /\ OnRecord(journal', e) /\ (Seen(journal) => Seen(journal'))
           /\ Orders' = Orders /\ \A j \in Orders : journal'[j] = journal[j]
<1>1. /\ IsSequence(journal') /\ OnRecord(journal', e) /\ (Seen(journal) => Seen(journal'))
      /\ DOMAIN journal' = DOMAIN journal \cup {Len(journal) + 1} /\ journal'[Len(journal) + 1] = e
      /\ \A i \in DOMAIN journal : journal'[i] = journal[i]
  BY RecordStays DEF PaperTypeOK
<1>2. /\ Orders' = Orders /\ \A j \in Orders : journal'[j] = journal[j]
      /\ OrdersAreClaimed' /\ FlattensAreBehind' /\ OneOrderPerBar' /\ NothingAfterTheFlatten'
  BY HarmlessAppend DEF Harmless
<1>3. Replayed(journal') = Replayed(journal)
  <2>1. Replayed(journal') = Applied(Replayed(journal), e)
    BY ReplayedAppend DEF PaperTypeOK
  <2>2. QED BY <2>1 DEF Applied
<1>4. Seen(journal') = Seen(journal)
  BY <1>1 DEF Seen
<1>5. JournalBook'
  BY <1>3, <1>4 DEF JournalInv, JournalBook
<1>6. QED BY <1>1, <1>2, <1>3, <1>5 DEF JournalInv

\* A book that the journal rebuilds was closed by no old range.
LEMMA RebuiltBook ==
    ASSUME JournalInv', book' = Replayed(journal')
    PROVE  OldRangesCloseNothing'
BY DEF JournalInv, JournalBook, BookOK, OldRangesCloseNothing

\* A step of a call that leaves the journal and the book alone.
LEMMA CallStep ==
    ASSUME PaperInv, UNCHANGED <<feed, time, journal, book, torn, gap>>,
           run.at \notin {"off", "idle", "advance"},
           run' \in Runs, run'.at # "advance", CallIsGrounded',
           safety' \in BOOLEAN, halted' \in BOOLEAN, safety => safety', safety' = halted'
    PROVE  PaperInv'
<1>1. JournalInv'
  BY JournalKept DEF PaperInv
<1>2. PaperTypeOK'
  BY DEF PaperInv, PaperTypeOK
<1>3. Seen(journal) /\ book = Replayed(journal) /\ OldRangesCloseNothing
  BY DEF PaperInv, PaperTypeOK, MemoryAgrees, Runs, Labels
<1>4. MemoryAgrees'
  BY <1>3 DEF MemoryAgrees, OldRangesCloseNothing
<1>5. GapIsGuarded'
  BY GapStays
<1>6. QED BY <1>1, <1>2, <1>4, <1>5 DEF PaperInv

\* The switch of a step that leaves it alone.
LEMMA SwitchKept ==
    ASSUME PaperInv, UNCHANGED switch, run.at # "off"
    PROVE  safety' \in BOOLEAN /\ halted' \in BOOLEAN /\ (safety => safety') /\ safety' = halted'
BY DEF PaperInv, PaperTypeOK, GapIsGuarded, switch

------------------------------------------------------------------------------
(* One lemma for each action                                               *)

\* An empty journal and no process.
LEMMA InitOK == Init => PaperInv
<1> SUFFICES ASSUME Init PROVE PaperInv
  OBVIOUS
<1>1. PaperTypeOK
  <2>1. IsSequence(journal)
    BY DEF Init, IsSequence
  <2>2. feed \in Feeds /\ time \in Times
    BY DEF Init, Feeds, Times, PhaseNames
  <2>3. run \in Runs
    BY DEF Init, Runs, Labels, Off
  <2>4. QED BY <2>1, <2>2, <2>3 DEF Init, PaperTypeOK
<1>2. OrdersAreClaimed /\ FlattensAreBehind /\ OneOrderPerBar /\ NothingAfterTheFlatten
  BY DEF Init, OrdersAreClaimed, FlattensAreBehind, OneOrderPerBar, NothingAfterTheFlatten, Orders
<1>3. JournalBook
  <2>1. Replayed(journal) = NewBook /\ ~Seen(journal)
    BY ReplayedEmpty DEF Init, Seen
  <2>2. NewBook = BookOf(<<>>, <<>>, StartBalance, Absent, {}, 0)
    BY DEF NewBook, BookOf
  <2>3. IsSequence(<<>>)
    BY DEF IsSequence
  <2>4. NewBook.open = <<>> /\ NewBook.closed = <<>>
    BY DEF NewBook
  <2>5. BookOK(NewBook, FALSE, feed.bar)
    BY <2>2, <2>3, <2>4 DEF BookOK
  <2>6. Seen(journal) = FALSE
    BY <2>1 DEF Seen
  <2>7. QED BY <2>1, <2>5, <2>6 DEF JournalBook
<1>4. CallIsGrounded
  BY DEF Init, CallIsGrounded, Off, Timed, Claimed, Proposed
<1>5. MemoryAgrees
  BY DEF Init, MemoryAgrees, Off, Moved, Timed, Claimed, Proposed, OldRangesCloseNothing, NewBook
<1>6. GapIsGuarded
  BY DEF Init, GapIsGuarded, Off
<1>7. QED BY <1>1, <1>2, <1>3, <1>4, <1>5, <1>6 DEF PaperInv, JournalInv

\* The world moves where nothing is in hand.
LEMMA WorldStep ==
    ASSUME PaperInv, WorldMoves, feed' \in Feeds, time' \in Times, feed.bar <= feed'.bar,
           FlattensAreBehind',
           UNCHANGED <<durable, switch, book, session, run, gap, bounds>>
    PROVE  PaperInv'
<1> USE DEF durable, switch
<1>1. PaperTypeOK'
  BY DEF PaperInv, PaperTypeOK
<1>2. OrdersAreClaimed' /\ OneOrderPerBar' /\ NothingAfterTheFlatten'
  BY DEF PaperInv, JournalInv, OrdersAreClaimed, OneOrderPerBar, NothingAfterTheFlatten, Orders
<1>3. JournalBook'
  <2>1. feed.bar \in Nat /\ feed'.bar \in Nat /\ Seen(journal) \in BOOLEAN
    BY DEF PaperInv, PaperTypeOK, Feeds, Seen
  <2>2. BookOK(Replayed(journal), Seen(journal), feed'.bar)
    BY <2>1, BookLater DEF PaperInv, JournalInv, JournalBook
  <2>3. QED BY <2>2 DEF JournalBook
<1>4. CallIsGrounded'
  BY DEF CallIsGrounded, WorldMoves, Timed, Claimed, Proposed
<1>5. MemoryAgrees'
  BY DEF PaperInv, MemoryAgrees, OldRangesCloseNothing
<1>6. GapIsGuarded'
  BY DEF PaperInv, GapIsGuarded, Unaccounted
<1>7. QED BY <1>1, <1>2, <1>3, <1>4, <1>5, <1>6 DEF PaperInv, JournalInv

\* A quote can only raise the newest bar.
LEMMA QuoteOK ==
    ASSUME PaperInv, NEW mid \in Mids, NEW completes \in BOOLEAN, Quote(mid, completes)
    PROVE  PaperInv'
<1> DEFINE low == Lower(feed.formLow, mid)
           high == Greater(feed.formHigh, mid)
<1>1. feed \in Feeds /\ time \in Times
  BY DEF PaperInv, PaperTypeOK
<1>2. low \in Int /\ high \in Int /\ mid \in Int
  BY <1>1 DEF Lower, Greater, Feeds
<1>3. feed' = [feed EXCEPT
            !.tick = @ + 1, !.mid = mid, !.week = time.week, !.phase = time.phase,
            !.formLow = IF completes THEN mid ELSE low,
            !.formHigh = IF completes THEN mid ELSE high,
            !.bar = IF completes THEN @ + 1 ELSE @,
            !.low = IF completes THEN low ELSE @,
            !.high = IF completes THEN high ELSE @]
  BY DEF Quote
<1> HIDE DEF low, high
<1>4. feed' \in Feeds /\ feed.bar <= feed'.bar
  <2> DEFINE n == feed.tick + 1
             bar == IF completes THEN feed.bar + 1 ELSE feed.bar
             l == IF completes THEN low ELSE feed.low
             h == IF completes THEN high ELSE feed.high
             fl == IF completes THEN mid ELSE low
             fh == IF completes THEN mid ELSE high
             w == time.week
             p == time.phase
  <2>1. /\ n \in Nat /\ bar \in Nat /\ feed.bar <= bar /\ l \in Int /\ h \in Int
        /\ fl \in Int /\ fh \in Int /\ w \in Nat /\ p \in PhaseNames
    BY <1>1, <1>2 DEF Feeds, Times
  <2>2. feed' = [feed EXCEPT !.tick = n, !.mid = mid, !.week = w, !.phase = p, !.formLow = fl,
                             !.formHigh = fh, !.bar = bar, !.low = l, !.high = h]
    BY <1>1, <1>3 DEF Feeds
  <2> HIDE DEF n, bar, l, h, fl, fh, w, p
  <2>3. feed' = [tick |-> n, bar |-> bar, low |-> l, high |-> h, mid |-> mid, formLow |-> fl,
                 formHigh |-> fh, week |-> w, phase |-> p]
    BY <1>1, <2>2 DEF Feeds
  <2>4. QED BY <1>2, <2>1, <2>3 DEF Feeds
<1>5. WorldMoves /\ time' = time /\ UNCHANGED <<durable, switch, book, session, run, gap, bounds>>
  BY DEF Quote
<1>6. FlattensAreBehind'
  BY <1>5 DEF PaperInv, JournalInv, FlattensAreBehind, durable
<1>7. QED BY <1>1, <1>4, <1>5, <1>6, WorldStep

\* The clock passes the deadlines of a week in their order.
LEMMA ClockOK == ASSUME PaperInv, Clock PROVE PaperInv'
<1> DEFINE i == CHOOSE i \in DOMAIN Phases : Phases[i] = time.phase
<1>1. time.week \in Nat /\ time.phase \in PhaseNames /\ time = [week |-> time.week, phase |-> time.phase]
  BY DEF PaperInv, PaperTypeOK, Times
<1>2. /\ DOMAIN Phases = 1..4 /\ Len(Phases) = 4
      /\ Phases[1] = "OPEN" /\ Phases[2] = "NO_NEW_ENTRIES"
      /\ Phases[3] = "FLATTEN_REQUIRED" /\ Phases[4] = "CLOSED"
  BY DEF Phases
<1> HIDE DEF Phases
<1>3. i \in 1..4 /\ Phases[i] = time.phase
  <2>1. \E j \in DOMAIN Phases : Phases[j] = time.phase
    BY <1>1, <1>2 DEF PhaseNames
  <2>2. QED BY <1>2, <2>1
<1>4. IF i < 4 THEN time' = [time EXCEPT !.phase = Phases[i + 1]]
               ELSE time' = [week |-> time.week + 1, phase |-> "OPEN"]
  BY <1>2 DEF Clock
<1> HIDE DEF i
<1>5. /\ time' \in Times /\ time'.week >= time.week
      /\ time'.week = time.week /\ time.phase \in {"FLATTEN_REQUIRED", "CLOSED"}
            => time'.phase \in {"FLATTEN_REQUIRED", "CLOSED"}
  <2>1. CASE i < 4
    <3>1. i = 1 \/ i = 2 \/ i = 3
      BY <1>3, <2>1
    <3>2. time' = [time EXCEPT !.phase = Phases[i + 1]] /\ Phases[i + 1] \in PhaseNames
      BY <1>2, <1>4, <2>1, <3>1 DEF PhaseNames
    <3>3. QED BY <1>1, <1>2, <1>3, <3>1, <3>2 DEF Times
  <2>2. CASE i = 4
    BY <1>1, <1>4, <2>2 DEF Times, PhaseNames
  <2>3. QED BY <1>3, <2>1, <2>2
<1>6. WorldMoves /\ feed' = feed /\ UNCHANGED <<durable, switch, book, session, run, gap, bounds>>
  BY DEF Clock
<1>7. FlattensAreBehind'
  BY <1>1, <1>5, <1>6 DEF PaperInv, JournalInv, FlattensAreBehind, durable, Times
<1>8. feed \in Feeds /\ feed.bar <= feed'.bar
  BY <1>6 DEF PaperInv, PaperTypeOK, Feeds
<1>9. QED BY <1>5, <1>6, <1>7, <1>8, WorldStep

\* A start-up replays the journal, and a portfolio that is created moves no book.
LEMMA StartOK == ASSUME PaperInv, NEW reset \in BOOLEAN, Start(reset) PROVE PaperInv'
<1>1. UNCHANGED <<feed, time, torn, record>> /\ halted' = FALSE /\ book' = Replayed(journal)
  BY DEF Start, world
<1>2. safety' = FALSE /\ (gap' => gap /\ ~safety) /\ gap' \in BOOLEAN
  BY DEF Start, PaperInv, PaperTypeOK
<1>3. run' \in Runs /\ run'.at = "idle"
  BY GotoOK DEF Start, PaperInv, Labels
<1>4. JournalInv' /\ IsSequence(journal') /\ Replayed(journal') = Replayed(journal)
        /\ (Seen(journal) => Seen(journal'))
  <2>1. CASE journal = <<>>
    <3>1. journal' = Append(journal, Created)
      BY <2>1 DEF Start, Write
    <3>2. Created.event \notin {"MARKET_OBSERVED", "PAPER_ORDER_ACCEPTED", "PAPER_FLATTEN_REQUESTED"}
      BY DEF Created
    <3>3. QED BY <1>1, <3>1, <3>2, OtherAppend DEF PaperInv
  <2>2. CASE journal # <<>>
    BY <1>1, <2>2, JournalKept DEF Start, PaperInv, PaperTypeOK
  <2>3. QED BY <2>1, <2>2
<1>5. PaperTypeOK'
  BY <1>1, <1>2, <1>3, <1>4 DEF PaperInv, PaperTypeOK
<1>6. CallIsGrounded'
  BY <1>3 DEF CallIsGrounded, Timed, Claimed, Proposed
<1>7. MemoryAgrees'
  <2>1. OldRangesCloseNothing'
    BY <1>1, <1>4, RebuiltBook
  <2>2. QED BY <1>1, <1>3, <1>4, <2>1 DEF PaperInv, MemoryAgrees, Moved, Timed, Claimed, Proposed
<1>8. GapIsGuarded'
  <2>1. Unaccounted => Unaccounted'
    BY <1>1, <1>4 DEF Unaccounted
  <2>2. QED BY <1>1, <1>2, <1>3, <2>1 DEF PaperInv, GapIsGuarded
<1>9. QED BY <1>4, <1>5, <1>6, <1>7, <1>8 DEF PaperInv

\* The first recovery after a crash finds the gap that the crash left.
LEMMA ObserveOK == ASSUME PaperInv, Observe PROVE PaperInv'
<1>1. /\ UNCHANGED <<feed, time, journal, torn, record, book, gap>>
      /\ run.at = "idle"
  BY DEF Observe, world, durable, At
<1>2. run' \in Runs /\ run'.at = "advance" /\ run'.tick \in MarketTicks /\ run'.tick.bar = feed.bar
  <2> DEFINE t == [n |-> feed.tick, bar |-> feed.bar, low |-> feed.low,
                   high |-> feed.high, mid |-> feed.mid, week |-> feed.week,
                   phase |-> feed.phase, applied |-> TRUE]
  <2>1. t \in MarketTicks /\ t.bar = feed.bar
    BY DEF MarketTicks, PaperInv, PaperTypeOK, Feeds, PhaseNames
  <2> HIDE DEF t
  <2>2. run' = [run EXCEPT !.at = "advance", !.tick = t]
    BY DEF Observe, t
  <2>3. QED BY <2>1, <2>2 DEF PaperInv, PaperTypeOK, Runs, Labels
<1>3. JournalInv'
  BY <1>1, JournalKept DEF PaperInv
<1>4. /\ safety' \in BOOLEAN /\ halted' \in BOOLEAN /\ safety' = halted'
      /\ safety => safety'
      /\ book.tick # Absent /\ Unaccounted => safety'
  <2>0. book = Replayed(journal)
    BY <1>1 DEF PaperInv, MemoryAgrees
  <2>1. CASE book.tick # Absent
    <3>1. Recover(book, MarketDay(feed))
      BY <2>1 DEF Observe
    <3>2. QED BY <1>1, <2>0, <3>1, RecoverOK
  <2>2. CASE book.tick = Absent
    <3>1. UNCHANGED switch
      BY <2>2 DEF Observe
    <3>2. QED BY <1>1, <2>2, <3>1, SwitchKept
  <2>3. QED BY <2>1, <2>2
<1>5. PaperTypeOK'
  BY <1>1, <1>2, <1>4 DEF PaperInv, PaperTypeOK
<1>6. CallIsGrounded'
  BY <1>1, <1>2 DEF CallIsGrounded, Timed, Claimed, Proposed
<1>7. MemoryAgrees'
  BY <1>1, <1>2 DEF PaperInv, MemoryAgrees, OldRangesCloseNothing, Moved, Timed, Claimed, Proposed
<1>8. GapIsGuarded'
  <2>1. gap /\ ~safety => Unaccounted /\ book = Replayed(journal)
    BY <1>1 DEF PaperInv, GapIsGuarded, MemoryAgrees
  <2>2. gap /\ ~safety => book.tick # Absent
    BY <2>1, GapHasBeenSeen
  <2>3. gap => safety'
    BY <1>4, <2>1, <2>2
  <2>4. QED BY <1>1, <1>2, <1>4, <2>3 DEF GapIsGuarded
<1>9. QED BY <1>3, <1>5, <1>6, <1>7, <1>8 DEF PaperInv

\* The journal and the book take the same snapshot, or both know it already.
LEMMA AdvanceOK == ASSUME PaperInv, Advance PROVE PaperInv'
<1> DEFINE sim == SimulationTick(book, run.tick)
           moved == IF OnRecord(journal, Market(sim)) THEN book
                    ELSE MovedTo(book, sim, run.tick.bar)
<1>1. /\ UNCHANGED <<feed, time, torn, record, gap>> /\ run.at = "advance"
      /\ WriteOnce(Market(sim)) /\ book' = moved
      /\ Recover(moved, MarketDay(run.tick)) \/ UNCHANGED switch
  BY DEF Advance, world, At, MovedTo
<1>2. run' \in Runs /\ run'.at = "session"
  BY GotoOK DEF Advance, PaperInv, Labels, Moved
<1>3. /\ run.tick \in MarketTicks /\ run.tick.bar = feed.bar /\ feed.bar \in Nat
      /\ book = Replayed(journal) /\ IsSequence(journal)
      /\ BookOK(book, Seen(journal), run.tick.bar) /\ Seen(journal) \in BOOLEAN
  BY <1>1 DEF PaperInv, CallIsGrounded, MemoryAgrees, JournalInv, JournalBook, PaperTypeOK, Feeds, Seen
<1>4. /\ Applied(book, Market(sim)) = MovedTo(book, sim, run.tick.bar)
      /\ BookOK(Applied(book, Market(sim)), TRUE, run.tick.bar)
  <2> DEFINE seen == Seen(journal)
  <2>1. seen \in BOOLEAN /\ BookOK(book, seen, run.tick.bar)
    BY <1>3
  <2>2. sim = SimulationTick(book, run.tick)
    OBVIOUS
  <2> HIDE DEF seen, sim
  <2>3. run.tick \in MarketTicks
    BY <1>3
  <2>4. BookOK(Applied(book, Market(sim)), TRUE, run.tick.bar)
    BY <2>1, <2>2, <2>3, AdvancedOK, Zenon
  <2>5. Applied(book, Market(sim)) = MovedTo(book, sim, run.tick.bar)
    BY <2>1, <2>2, <2>3, AdvancedOK, Zenon
  <2>6. QED BY <2>4, <2>5
<1> HIDE DEF sim
<1>5. Market(sim).event = "MARKET_OBSERVED"
  BY DEF Market
<1>6. JournalInv' /\ IsSequence(journal') /\ book' = Replayed(journal') /\ Seen(journal')
  <2>1. CASE OnRecord(journal, Market(sim))
    <3>1. journal' = journal /\ book' = book
      BY <1>1, <2>1 DEF WriteOnce
    <3>2. Seen(journal')
      BY <1>5, <2>1, <3>1 DEF OnRecord, Seen
    <3>3. QED BY <1>1, <1>3, <3>1, <3>2, JournalKept DEF PaperInv
  <2>2. CASE ~OnRecord(journal, Market(sim))
    <3>1. journal' = Append(journal, Market(sim)) /\ book' = Applied(book, Market(sim))
      BY <1>1, <1>4, <2>2 DEF WriteOnce
    <3>2. Replayed(journal') = book'
      BY <1>3, <3>1, ReplayedAppend
    <3>3. IsSequence(journal') /\ OnRecord(journal', Market(sim))
      BY <1>3, <3>1, RecordStays
    <3>4. Seen(journal') /\ Seen(journal') = TRUE
      BY <1>5, <3>3 DEF OnRecord, Seen
    <3>5. OrdersAreClaimed' /\ FlattensAreBehind' /\ OneOrderPerBar' /\ NothingAfterTheFlatten'
      BY <1>1, <1>5, <3>1, HarmlessAppend DEF PaperInv, Harmless
    <3>6. BookOK(Replayed(journal'), Seen(journal'), feed'.bar)
      BY <1>1, <1>3, <1>4, <3>1, <3>2, <3>4
    <3>7. JournalInv'
      BY <3>5, <3>6 DEF JournalInv, JournalBook
    <3>8. QED BY <3>2, <3>3, <3>4, <3>7
  <2>3. QED BY <2>1, <2>2
<1> HIDE DEF moved
<1>7. safety' \in BOOLEAN /\ halted' \in BOOLEAN /\ (safety => safety') /\ safety' = halted'
  BY <1>1, RecoverOK, SwitchKept
<1>8. PaperTypeOK'
  BY <1>1, <1>2, <1>6, <1>7 DEF PaperInv, PaperTypeOK
<1>9. CallIsGrounded'
  BY <1>2 DEF CallIsGrounded, Timed, Claimed, Proposed
<1>10. MemoryAgrees'
  BY <1>6, RebuiltBook DEF MemoryAgrees
<1>11. GapIsGuarded'
  BY <1>1, <1>7, GapStays
<1>12. QED BY <1>6, <1>8, <1>9, <1>10, <1>11 DEF PaperInv

\* The Friday flatten is of the week of the clock, past its deadline.
LEMMA EnforceWeekOK == ASSUME PaperInv, EnforceWeek PROVE PaperInv'
<1> DEFINE late == time.phase = "FLATTEN_REQUIRED" /\ Exposed
           over == time.phase = "CLOSED" /\ Exposed
           done == OnRecord(journal, FlattenOf(time.week))
           e == FlattenOf(time.week)
<1>1. /\ UNCHANGED <<feed, time, torn, record, gap>> /\ run.at = "session" /\ TripIf(over)
      /\ IF late /\ ~done THEN journal' = Append(journal, e) /\ book' = Flattened(book)
                          ELSE journal' = journal /\ book' = book
      /\ \/ run' = [run EXCEPT !.at = "fail"]
         \/ run' = Off
         \/ run' = [run EXCEPT !.at = "persist", !.now = time]
  BY DEF EnforceWeek, world, At, WriteOnce
<1>2. /\ book = Replayed(journal) /\ IsSequence(journal) /\ Seen(journal)
      /\ BookOK(book, TRUE, feed.bar) /\ safety = halted
  <2>1. book = Replayed(journal) /\ IsSequence(journal) /\ Seen(journal) /\ safety = halted
    BY <1>1 DEF PaperInv, MemoryAgrees, PaperTypeOK, GapIsGuarded, Moved
  <2>2. Seen(journal) = TRUE
    BY <2>1 DEF Seen
  <2>3. QED BY <2>1, <2>2 DEF PaperInv, JournalInv, JournalBook
<1>3. run' \in Runs /\ (run'.at = "persist" => run'.now = time) /\ run'.at \in {"fail", "off", "persist"}
  <2>1. run \in Runs /\ time \in Times /\ {"fail", "off", "persist"} \subseteq Labels
    BY DEF PaperInv, PaperTypeOK, Labels, Moved, Timed
  <2>2. CASE run' = [run EXCEPT !.at = "fail"]
    BY <2>1, <2>2 DEF Runs
  <2>3. CASE run' = Off
    BY <2>1, <2>3 DEF Runs, Off
  <2>4. CASE run' = [run EXCEPT !.at = "persist", !.now = time]
    BY <2>1, <2>4 DEF Runs
  <2>5. QED BY <1>1, <2>2, <2>3, <2>4
<1>4. over \in BOOLEAN
  OBVIOUS
<1>5. safety' \in BOOLEAN /\ halted' \in BOOLEAN /\ (safety => safety') /\ safety' = halted'
  BY <1>1, <1>2, <1>4, TripOK DEF PaperInv, PaperTypeOK
<1>6. JournalInv' /\ IsSequence(journal') /\ book' = Replayed(journal') /\ Seen(journal')
  <2>1. CASE ~(late /\ ~done)
    <3>1. journal' = journal /\ book' = book
      BY <1>1, <2>1
    <3>2. QED BY <1>1, <1>2, <3>1, JournalKept DEF PaperInv
  <2>2. CASE late /\ ~done
    <3>1. journal' = Append(journal, e) /\ book' = Flattened(book)
      BY <1>1, <2>2
    <3>2. e.event = "PAPER_FLATTEN_REQUESTED" /\ e.id = time.week /\ time.phase = "FLATTEN_REQUIRED"
      BY <2>2 DEF FlattenOf
    <3> HIDE DEF e
    <3>3. Applied(book, e) = Flattened(book)
      BY <3>2 DEF Applied
    <3>4. Replayed(journal') = book'
      BY <1>2, <3>1, <3>3, ReplayedAppend
    <3>5. IsSequence(journal') /\ Seen(journal')
      BY <1>2, <3>1, RecordStays
    <3>6. Seen(journal') = TRUE
      BY <3>5 DEF Seen
    <3>7. OrdersAreClaimed' /\ FlattensAreBehind' /\ OneOrderPerBar' /\ NothingAfterTheFlatten'
      BY <1>1, <3>1, <3>2, HarmlessAppend DEF PaperInv, Harmless
    <3>8. BookOK(Replayed(journal'), Seen(journal'), feed'.bar)
      <4>1. TRUE \in BOOLEAN
        OBVIOUS
      <4>2. BookOK(Flattened(book), TRUE, feed.bar)
        BY <1>2, <4>1, FlattenedOK, Zenon
      <4>3. QED BY <1>1, <3>1, <3>4, <3>6, <4>2
    <3>9. JournalInv'
      BY <3>7, <3>8 DEF JournalInv, JournalBook
    <3>10. QED BY <3>4, <3>5, <3>9
  <2>3. QED BY <2>1, <2>2
<1>7. PaperTypeOK'
  BY <1>1, <1>3, <1>5, <1>6 DEF PaperInv, PaperTypeOK
<1>8. CallIsGrounded'
  BY <1>1, <1>3 DEF CallIsGrounded, Timed, Claimed, Proposed
<1>9. MemoryAgrees'
  BY <1>6, RebuiltBook DEF MemoryAgrees
<1>10. GapIsGuarded'
  BY <1>1, <1>5, GapStays
<1>11. QED BY <1>6, <1>7, <1>8, <1>9, <1>10 DEF PaperInv

\* Persisting the session touches neither the journal nor the book.
LEMMA PersistOK ==
    ASSUME PaperInv, NEW label \in {"claim", "off", "idle"}, Persist(label),
           run.at = (CASE label = "claim" -> "persist" [] label = "off" -> "fail" [] OTHER -> "outcome")
    PROVE  PaperInv'
<1>1. UNCHANGED <<feed, time, journal, book, torn, gap>> /\ (UNCHANGED switch \/ TripIf(TRUE))
  BY DEF Persist, world
<1>2. run.at \in {"persist", "fail", "outcome"} /\ (label = "claim" => run.at = "persist")
  OBVIOUS
<1>3. label \in Labels /\ Goto(label)
  BY DEF Persist, Labels, Moved, Timed
<1>4. run' \in Runs /\ run'.at = label /\ (label = "claim" => run'.now = run.now)
  BY <1>3, GotoOK DEF PaperInv
<1>5. safety' \in BOOLEAN /\ halted' \in BOOLEAN /\ (safety => safety') /\ safety' = halted'
  <2>1. safety \in BOOLEAN /\ halted \in BOOLEAN /\ safety = halted
    BY <1>2 DEF PaperInv, PaperTypeOK, GapIsGuarded
  <2>2. CASE TripIf(TRUE)
    BY <2>1, <2>2, TripOK
  <2>3. CASE UNCHANGED switch
    BY <2>1, <2>3 DEF switch
  <2>4. QED BY <1>1, <2>2, <2>3
<1>6. CallIsGrounded'
  BY <1>1, <1>2, <1>4 DEF PaperInv, CallIsGrounded, Timed, Claimed, Proposed
<1>7. QED BY <1>1, <1>2, <1>4, <1>5, <1>6, CallStep

\* A bar that is claimed now has no order yet, since orders stand behind claims.
LEMMA ClaimWindowOK == ASSUME PaperInv, ClaimWindow PROVE PaperInv'
<1>0. Window = ClaimOf(run.tick.bar)
  BY DEF Window, ClaimOf
<1>1. /\ UNCHANGED <<feed, time, torn, record, book, gap, safety, halted>> /\ run.at = "claim"
      /\ IF OnRecord(journal, ClaimOf(run.tick.bar))
         THEN journal' = journal /\ Goto("idle")
         ELSE journal' = Append(journal, ClaimOf(run.tick.bar)) /\ Goto("decide")
  BY <1>0 DEF ClaimWindow, world, switch, At, WriteOnce
<1>2. UNCHANGED switch
  BY <1>1 DEF switch
<1>3. safety' \in BOOLEAN /\ halted' \in BOOLEAN /\ (safety => safety') /\ safety' = halted'
  BY <1>1, <1>2, SwitchKept
<1>4. CASE OnRecord(journal, ClaimOf(run.tick.bar))
  <2>1. run' \in Runs /\ run'.at = "idle"
    BY <1>1, <1>4, GotoOK DEF PaperInv, Labels
  <2>2. CallIsGrounded'
    BY <2>1 DEF CallIsGrounded, Timed, Claimed, Proposed
  <2>3. QED BY <1>1, <1>3, <1>4, <2>1, <2>2, CallStep
<1>5. CASE ~OnRecord(journal, ClaimOf(run.tick.bar))
  <2> DEFINE e == ClaimOf(run.tick.bar)
  <2>1. run' \in Runs /\ run'.at = "decide" /\ run'.tick = run.tick /\ run'.now = run.now
    BY <1>1, <1>5, GotoOK DEF PaperInv, Labels, Moved, Timed, Claimed
  <2>2. e.event \notin {"MARKET_OBSERVED", "PAPER_ORDER_ACCEPTED", "PAPER_FLATTEN_REQUESTED"}
    BY DEF ClaimOf, Audit
  <2>3. journal' = Append(journal, e)
    BY <1>1, <1>5
  <2> HIDE DEF e
  <2>4. /\ JournalInv' /\ IsSequence(journal') /\ Replayed(journal') = Replayed(journal)
        /\ OnRecord(journal', e) /\ (Seen(journal) => Seen(journal'))
        /\ Orders' = Orders /\ \A j \in Orders : journal'[j] = journal[j]
    BY <1>1, <2>2, <2>3, OtherAppend DEF PaperInv
  <2>5. \A j \in Orders : journal[j].bar # run.tick.bar
    BY <1>5 DEF PaperInv, JournalInv, OrdersAreClaimed
  <2>6. \A j \in Orders' : journal'[j].bar # run'.tick.bar
    BY <2>1, <2>4, <2>5
  <2>7. run'.now = time'
    BY <1>1, <2>1 DEF PaperInv, CallIsGrounded, Timed
  <2>8. OnRecord(journal', ClaimOf(run'.tick.bar))
    BY <2>1, <2>4 DEF e
  <2>9. CallIsGrounded'
    BY <2>1, <2>6, <2>7, <2>8 DEF CallIsGrounded, Proposed, ClaimOf, Audit
  <2>10. PaperTypeOK'
    BY <1>1, <2>1, <2>4 DEF PaperInv, PaperTypeOK
  <2>11. book' = Replayed(journal') /\ Seen(journal')
    BY <1>1, <2>4 DEF PaperInv, MemoryAgrees, Moved, Timed
  <2>12. MemoryAgrees'
    BY <2>4, <2>11, RebuiltBook DEF MemoryAgrees
  <2>13. GapIsGuarded'
    BY <1>1, <1>3, GapStays
  <2>14. QED BY <2>4, <2>9, <2>10, <2>12, <2>13 DEF PaperInv
<1>6. QED BY <1>4, <1>5

\* A proposal goes on only while the switch is off and the session is OPEN.
LEMMA DecideOK ==
    ASSUME PaperInv, NEW side \in {"BUY", "SELL", "NO_TRADE"}, Decide(side)
    PROVE  PaperInv'
<1>1. /\ UNCHANGED <<feed, time, journal, book, torn, gap>> /\ run.at = "decide" /\ UNCHANGED switch
      /\ halted' = halted
  BY DEF Decide, world, durable, switch, At
<1>2. safety' \in BOOLEAN /\ halted' \in BOOLEAN /\ (safety => safety') /\ safety' = halted'
  BY <1>1, SwitchKept
<1>3. /\ run' \in Runs /\ run'.at \in {"outcome", "risk"} /\ run'.now = run.now /\ run'.tick = run.tick
      /\ run'.at = "risk" => run.now.phase = "OPEN" /\ ~halted
  <2>1. CASE Goto("outcome")
    BY <2>1, GotoOK DEF PaperInv, Labels, Moved, Timed
  <2>2. CASE ~(side = "NO_TRADE" \/ halted \/ run.now.phase # "OPEN")
    <3>1. run' = [run EXCEPT !.at = "risk", !.side = side] /\ side \in {"BUY", "SELL"} /\ "risk" \in Labels
      BY <2>2 DEF Decide, Labels, Moved, Timed, Claimed, Proposed
    <3>2. QED BY <2>2, <3>1 DEF PaperInv, PaperTypeOK, Runs
  <2>3. QED BY <2>1, <2>2 DEF Decide
<1>4. CallIsGrounded'
  BY <1>1, <1>3 DEF PaperInv, CallIsGrounded, Timed, Claimed, Proposed, Orders, ClaimOf
<1>5. QED BY <1>1, <1>2, <1>3, <1>4, CallStep

\* What passes Risk stands beside positions of its own week only.
LEMMA EvaluateRiskOK == ASSUME PaperInv, EvaluateRisk PROVE PaperInv'
<1> DEFINE to == \/ TripIf(TRUE) /\ Goto("outcome")
                 \/ UNCHANGED switch /\ Goto("outcome")
                 \/ /\ UNCHANGED switch /\ Goto("review")
                    /\ ~OvernightBreach(run.tick) /\ ~StaleMarketData
<1>1. UNCHANGED <<feed, time, journal, book, torn, gap>> /\ run.at = "risk" /\ to
  BY DEF EvaluateRisk, Risk, world, durable, At
<1>2. safety \in BOOLEAN /\ halted \in BOOLEAN /\ safety = halted
  BY <1>1 DEF PaperInv, PaperTypeOK, GapIsGuarded
<1>3. CASE TripIf(TRUE) \/ UNCHANGED switch
  <2>1. safety' \in BOOLEAN /\ halted' \in BOOLEAN /\ (safety => safety') /\ safety' = halted'
    <3>1. CASE TripIf(TRUE)
      BY <1>2, <3>1, TripOK
    <3>2. CASE UNCHANGED switch
      BY <1>2, <3>2 DEF switch
    <3>3. QED BY <1>3, <3>1, <3>2
  <2>2. CASE Goto("outcome")
    <3>1. run' \in Runs /\ run'.at = "outcome" /\ run'.now = run.now
      BY <2>2, GotoOK DEF PaperInv, Labels, Moved, Timed
    <3>2. CallIsGrounded'
      BY <1>1, <3>1 DEF PaperInv, CallIsGrounded, Timed, Claimed, Proposed
    <3>3. QED BY <1>1, <2>1, <3>1, <3>2, CallStep
  <2>3. CASE /\ UNCHANGED switch /\ Goto("review")
             /\ ~OvernightBreach(run.tick) /\ ~StaleMarketData
    <3>1. run' \in Runs /\ run'.at = "review" /\ run'.now = run.now /\ run'.tick = run.tick
      BY <2>3, GotoOK DEF PaperInv, Labels, Moved, Timed, Claimed, Proposed
    <3>2. \A i \in DOMAIN book.open : book.open[i].week = run.now.week
      BY <2>3 DEF OvernightBreach, StaleMarketData, Exposed
    <3>3. halted' = halted
      BY <2>3 DEF switch
    <3>4. CallIsGrounded'
      BY <1>1, <3>1, <3>2, <3>3 DEF PaperInv, CallIsGrounded, Timed, Claimed, Proposed, Orders, ClaimOf
    <3>5. QED BY <1>1, <2>1, <3>1, <3>4, CallStep
  <2>4. QED BY <1>1, <2>2, <2>3
<1>4. QED BY <1>1, <1>3

\* From the review to the check, from the check to the submission, or out.
LEMMA GateOK ==
    ASSUME PaperInv, NEW from \in {"review", "check"}, NEW to \in {"check", "submit", "outcome"},
           run.at = from, Goto(to), UNCHANGED <<world, durable, switch, book, session, gap, bounds>>
    PROVE  PaperInv'
<1>1. UNCHANGED <<feed, time, journal, book, torn, gap, halted>> /\ UNCHANGED switch
  BY DEF world, durable, switch
<1>2. safety' \in BOOLEAN /\ halted' \in BOOLEAN /\ (safety => safety') /\ safety' = halted'
  BY <1>1, SwitchKept
<1>3. run' \in Runs /\ run'.at = to /\ run'.now = run.now /\ run'.tick = run.tick
  BY GotoOK DEF PaperInv, Labels, Moved, Timed, Claimed, Proposed
<1>4. CallIsGrounded'
  BY <1>1, <1>3 DEF PaperInv, CallIsGrounded, Timed, Claimed, Proposed, Orders, ClaimOf
<1>5. QED BY <1>1, <1>2, <1>3, <1>4, CallStep

\* The first order of its bar, of a week that is not flattened.
LEMMA NewOrderOK ==
    ASSUME PaperInv, run.at = "submit", journal' = Append(journal, NewOrder), UNCHANGED <<feed, time>>
    PROVE  OrdersAreClaimed' /\ FlattensAreBehind' /\ OneOrderPerBar' /\ NothingAfterTheFlatten'
<1> DEFINE n == Len(journal) + 1
           e == NewOrder
<1>1. /\ DOMAIN journal' = DOMAIN journal \cup {n} /\ n \notin DOMAIN journal /\ journal'[n] = e
      /\ \A i \in DOMAIN journal : journal'[i] = journal[i] /\ i < n
      /\ \A x : OnRecord(journal, x) => OnRecord(journal', x)
  BY RecordStays DEF PaperInv, PaperTypeOK
<1>2. e.event = "PAPER_ORDER_ACCEPTED" /\ e.bar = run.tick.bar /\ e.week = run.now.week
  BY DEF NewOrder, Order
<1>3. /\ run.now = time /\ time.phase = "OPEN" /\ time.week \in Nat
      /\ OnRecord(journal, ClaimOf(run.tick.bar))
      /\ \A j \in Orders : journal[j].bar # run.tick.bar
  BY DEF PaperInv, PaperTypeOK, Times, CallIsGrounded, Timed, Claimed, Proposed
<1>4. Len(journal) \in Nat /\ DOMAIN journal = 1..Len(journal)
  BY DEF PaperInv, PaperTypeOK, IsSequence
<1> HIDE DEF e, n
<1>5. Orders' = Orders \cup {n} /\ n \notin Orders /\ \A j \in Orders : journal'[j] = journal[j]
  BY <1>1, <1>2 DEF Orders
<1>6. OrdersAreClaimed'
  <2>1. ASSUME NEW j \in Orders' PROVE OnRecord(journal', ClaimOf(journal'[j].bar))
    <3>1. CASE j = n
      BY <1>1, <1>2, <1>3, <3>1
    <3>2. CASE j \in Orders
      <4>1. OnRecord(journal, ClaimOf(journal[j].bar))
        BY <3>2 DEF PaperInv, JournalInv, OrdersAreClaimed
      <4>2. QED BY <1>1, <1>5, <3>2, <4>1
    <3>3. QED BY <1>5, <3>1, <3>2
  <2>2. QED BY <2>1 DEF OrdersAreClaimed, ClaimOf, Audit
<1>7. FlattensAreBehind'
  BY <1>1, <1>2 DEF PaperInv, JournalInv, FlattensAreBehind
<1>8. OneOrderPerBar'
  <2> SUFFICES ASSUME NEW i \in Orders', NEW j \in Orders', journal'[i].bar = journal'[j].bar
               PROVE  i = j
    BY DEF OneOrderPerBar
  <2>1. CASE i \in Orders /\ j \in Orders
    BY <1>5, <2>1 DEF PaperInv, JournalInv, OneOrderPerBar
  <2>2. journal'[n].bar = run.tick.bar /\ \A k \in Orders : journal'[k].bar # run.tick.bar
    BY <1>1, <1>2, <1>3, <1>5
  <2>3. QED BY <1>5, <2>1, <2>2
<1>9. NothingAfterTheFlatten'
  <2> SUFFICES ASSUME NEW i \in DOMAIN journal', NEW j \in Orders',
                      journal'[i].event = "PAPER_FLATTEN_REQUESTED", i < j
               PROVE  journal'[j].week # journal'[i].id
    BY DEF NothingAfterTheFlatten
  <2>1. i \in DOMAIN journal /\ journal'[i] = journal[i]
    BY <1>1, <1>2
  <2>2. CASE j \in Orders
    BY <1>5, <2>1, <2>2 DEF PaperInv, JournalInv, NothingAfterTheFlatten
  <2>3. CASE j = n
    <3>1. journal[i].id \in Nat /\ journal[i].id < time.week
      BY <1>3, <2>1 DEF PaperInv, JournalInv, FlattensAreBehind
    <3>2. journal'[j].week = time.week
      BY <1>1, <1>2, <1>3, <2>3
    <3>3. QED BY <1>3, <2>1, <3>1, <3>2
  <2>4. QED BY <1>5, <2>2, <2>3
<1>10. QED BY <1>6, <1>7, <1>8, <1>9

\* The journal and the book take the same order.
LEMMA SubmitOK == ASSUME PaperInv, Submit PROVE PaperInv'
<1> DEFINE e == NewOrder
<1>1. /\ UNCHANGED <<feed, time, torn, record, gap>> /\ UNCHANGED switch /\ run.at = "submit"
      /\ journal' = Append(journal, e) /\ book' = Filled(book, e)
  BY DEF Submit, world, At, Write
<1>2. run' \in Runs /\ run'.at = "outcome" /\ run'.now = run.now
  BY GotoOK DEF Submit, PaperInv, Labels, Moved, Timed
<1>3. safety' \in BOOLEAN /\ halted' \in BOOLEAN /\ (safety => safety') /\ safety' = halted'
  BY <1>1, SwitchKept
<1>4. book = Replayed(journal) /\ IsSequence(journal) /\ Seen(journal) /\ BookOK(book, TRUE, feed.bar)
  <2>1. book = Replayed(journal) /\ IsSequence(journal) /\ Seen(journal)
    BY <1>1 DEF PaperInv, MemoryAgrees, PaperTypeOK, Moved, Timed, Claimed, Proposed
  <2>2. Seen(journal) = TRUE
    BY <2>1 DEF Seen
  <2>3. QED BY <2>1, <2>2 DEF PaperInv, JournalInv, JournalBook
<1>5. e.event = "PAPER_ORDER_ACCEPTED"
  BY DEF NewOrder, Order
<1>6. OrdersAreClaimed' /\ FlattensAreBehind' /\ OneOrderPerBar' /\ NothingAfterTheFlatten'
  BY <1>1, NewOrderOK
<1> HIDE DEF e
<1>7. Replayed(journal') = book'
  <2>1. Applied(book, e) = Filled(book, e)
    BY <1>5 DEF Applied
  <2>2. QED BY <1>1, <1>4, <2>1, ReplayedAppend
<1>8. IsSequence(journal') /\ Seen(journal')
  BY <1>1, <1>4, RecordStays
<1>9. BookOK(Replayed(journal'), Seen(journal'), feed'.bar)
  <2>1. Seen(journal') = TRUE
    BY <1>8 DEF Seen
  <2>2. BookOK(Filled(book, e), TRUE, feed.bar)
    BY <1>4, FilledOK
  <2>3. QED BY <1>1, <1>7, <2>1, <2>2
<1>10. JournalInv'
  BY <1>6, <1>9 DEF JournalInv, JournalBook
<1>11. PaperTypeOK'
  BY <1>1, <1>2, <1>3, <1>8 DEF PaperInv, PaperTypeOK
<1>12. CallIsGrounded'
  BY <1>1, <1>2 DEF PaperInv, CallIsGrounded, Timed, Claimed, Proposed
<1>13. MemoryAgrees'
  BY <1>7, <1>8, <1>10, RebuiltBook DEF MemoryAgrees
<1>14. GapIsGuarded'
  BY <1>1, <1>3, GapStays
<1>15. QED BY <1>10, <1>11, <1>12, <1>13, <1>14 DEF PaperInv

\* A crash forgets the memory and remembers whether the record describes the journal.
LEMMA CrashOK == ASSUME PaperInv, Crash PROVE PaperInv'
<1>1. /\ UNCHANGED <<feed, time, journal, record, safety>> /\ torn' \in BOOLEAN /\ halted' = FALSE
      /\ book' = NewBook /\ run' = Off /\ gap' = (gap \/ Unaccounted)
  BY DEF Crash, world
<1>2. JournalInv'
  BY <1>1, JournalKept DEF PaperInv
<1>3. run' \in Runs /\ run'.at = "off"
  BY <1>1 DEF Off, Runs, Labels
<1>4. PaperTypeOK'
  BY <1>1, <1>3 DEF PaperInv, PaperTypeOK
<1>5. CallIsGrounded'
  BY <1>3 DEF CallIsGrounded, Timed, Claimed, Proposed
<1>6. MemoryAgrees'
  <2>1. OldRangesCloseNothing'
    BY <1>1 DEF OldRangesCloseNothing, NewBook
  <2>2. QED BY <1>1, <1>3, <2>1 DEF PaperInv, MemoryAgrees, Moved, Timed, Claimed, Proposed
<1>7. GapIsGuarded'
  <2>1. Unaccounted' = Unaccounted
    BY <1>1 DEF Unaccounted
  <2>2. QED BY <1>1, <1>3, <2>1 DEF PaperInv, GapIsGuarded
<1>8. QED BY <1>2, <1>4, <1>5, <1>6, <1>7 DEF PaperInv

\* A step that changes nothing.
LEMMA StutterOK == ASSUME PaperInv, UNCHANGED vars PROVE PaperInv'
<1>1. UNCHANGED <<feed, time, journal, torn, record, safety, halted, book, session, run, gap>>
  BY DEF vars, world, durable, switch
<1>2. JournalInv' /\ Orders' = Orders
  BY <1>1, JournalKept DEF PaperInv
<1>3. PaperTypeOK'
  BY <1>1 DEF PaperInv, PaperTypeOK
<1>4. CallIsGrounded'
  BY <1>1, <1>2 DEF PaperInv, CallIsGrounded
<1>5. MemoryAgrees'
  BY <1>1 DEF PaperInv, MemoryAgrees, OldRangesCloseNothing
<1>6. GapIsGuarded'
  BY <1>1 DEF PaperInv, GapIsGuarded, Unaccounted
<1>7. QED BY <1>2, <1>3, <1>4, <1>5, <1>6 DEF PaperInv

\* Every step keeps the inductive invariant.
LEMMA NextOK == PaperInv /\ [Next]_vars => PaperInv'
<1> SUFFICES ASSUME PaperInv, [Next]_vars PROVE PaperInv'
  OBVIOUS
<1>1. ASSUME NEW mid \in Mids, NEW completes \in BOOLEAN, Quote(mid, completes) PROVE PaperInv'
  BY <1>1, QuoteOK
<1>2. CASE Clock
  BY <1>2, ClockOK
<1>3. ASSUME NEW reset \in BOOLEAN, Start(reset) PROVE PaperInv'
  BY <1>3, StartOK
<1>4. CASE Observe
  BY <1>4, ObserveOK
<1>5. CASE Advance
  BY <1>5, AdvanceOK
<1>6. CASE EnforceWeek
  BY <1>6, EnforceWeekOK
<1>7. CASE PersistObserved
  BY <1>7, PersistOK DEF PersistObserved, At
<1>8. CASE PersistAndFail
  BY <1>8, PersistOK DEF PersistAndFail, At
<1>9. CASE PersistOutcome
  BY <1>9, PersistOK DEF PersistOutcome, At
<1>10. CASE ClaimWindow
  BY <1>10, ClaimWindowOK
<1>11. CASE EvaluateRisk
  BY <1>11, EvaluateRiskOK
<1>12. CASE OrderCheck
  <2>1. run.at = "check" /\ (Goto("submit") \/ Goto("outcome"))
    BY <1>12 DEF OrderCheck, At
  <2>2. UNCHANGED <<world, durable, switch, book, session, gap, bounds>>
    BY <1>12 DEF OrderCheck
  <2>3. QED BY <2>1, <2>2, GateOK
<1>13. CASE Submit
  BY <1>13, SubmitOK
<1>14. ASSUME NEW side \in {"BUY", "SELL", "NO_TRADE"}, Decide(side) PROVE PaperInv'
  BY <1>14, DecideOK
<1>15. ASSUME NEW passes \in BOOLEAN, Review(passes) PROVE PaperInv'
  <2>1. run.at = "review" /\ (Goto("check") \/ Goto("outcome"))
    BY <1>15 DEF Review, At
  <2>2. UNCHANGED <<world, durable, switch, book, session, gap, bounds>>
    BY <1>15 DEF Review
  <2>3. QED BY <2>1, <2>2, GateOK
<1>16. CASE Crash
  BY <1>16, CrashOK
<1>17. CASE UNCHANGED vars
  BY <1>17, StutterOK
<1>18. QED BY <1>1, <1>2, <1>3, <1>4, <1>5, <1>6, <1>7, <1>8, <1>9, <1>10, <1>11, <1>12, <1>13,
              <1>14, <1>15, <1>16, <1>17 DEF Next

------------------------------------------------------------------------------
\* Whatever the market, the clock, the agent and the crashes do, the journal,
\* the book in memory and the safety state keep the inductive invariant.
THEOREM PaperSafe == Spec => []PaperInv
<1>1. Init => PaperInv
  BY InitOK
<1>2. PaperInv /\ [Next]_vars => PaperInv'
  BY NextOK
<1>3. QED BY <1>1, <1>2, PTL DEF Spec

\* What _load_and_replay() rebuilds is the book that the process held.
THEOREM RestartsRebuildTheBook == Spec => []ReplayRebuildsTheBook
<1>1. PaperInv => ReplayRebuildsTheBook
  BY DEF PaperInv, MemoryAgrees, ReplayRebuildsTheBook, At
<1>2. QED BY <1>1, PaperSafe, PTL

\* A bar is filled once, however often it is observed and however the process
\* crashes between its claim and its order.
THEOREM BarsAreFilledOnce == Spec => []OneOrderPerBar
<1>1. PaperInv => OneOrderPerBar
  BY DEF PaperInv, JournalInv
<1>2. QED BY <1>1, PaperSafe, PTL

\* The range of a bar closes only positions that were open when it began,
\* whatever was observed before a restart.
THEOREM RangesCloseOlderPositions == Spec => []OldRangesCloseNothing
<1>1. PaperInv => OldRangesCloseNothing
  BY DEF PaperInv, MemoryAgrees
<1>2. QED BY <1>1, PaperSafe, PTL

\* Once the book of a week is flattened, nothing more is filled in that week.
THEOREM FlattenedWeeksAreOver == Spec => []NothingAfterTheFlatten
<1>1. PaperInv => NothingAfterTheFlatten
  BY DEF PaperInv, JournalInv
<1>2. QED BY <1>1, PaperSafe, PTL

\* Only a submission adds an order to the journal.
LEMMA OnlySubmitFills ==
    ASSUME PaperInv, [Next]_vars, Orders' # Orders
    PROVE  run.at = "submit"
<1> SUFFICES ASSUME ~Submit PROVE FALSE
  BY DEF Submit, At
<1>1. ASSUME NEW e, journal' = Append(journal, e), e.event # "PAPER_ORDER_ACCEPTED" PROVE FALSE
  <2>1. /\ DOMAIN journal' = DOMAIN journal \cup {Len(journal) + 1}
        /\ journal'[Len(journal) + 1] = e
        /\ \A i \in DOMAIN journal : journal'[i] = journal[i]
    BY <1>1, RecordStays DEF PaperInv, PaperTypeOK
  <2>2. QED BY <1>1, <2>1 DEF Orders
<1>2. journal' # journal
  BY DEF Orders
<1>3. /\ Created.event # "PAPER_ORDER_ACCEPTED" /\ Window.event # "PAPER_ORDER_ACCEPTED"
      /\ \A t : Market(t).event # "PAPER_ORDER_ACCEPTED"
      /\ \A w : FlattenOf(w).event # "PAPER_ORDER_ACCEPTED"
  BY DEF Created, Window, Audit, Market, FlattenOf
<1>4. \/ journal' = Append(journal, Created) \/ journal' = Append(journal, Window)
      \/ \E t : journal' = Append(journal, Market(t))
      \/ \E w : journal' = Append(journal, FlattenOf(w))
  <2>1. ASSUME NEW reset \in BOOLEAN, Start(reset) PROVE journal' = Append(journal, Created)
    BY <1>2, <2>1 DEF Start, Write
  <2>2. CASE Advance
    BY <1>2, <2>2 DEF Advance, WriteOnce
  <2>3. CASE EnforceWeek
    BY <1>2, <2>3 DEF EnforceWeek, WriteOnce
  <2>4. CASE ClaimWindow
    BY <1>2, <2>4 DEF ClaimWindow, WriteOnce
  <2>5. UNCHANGED durable => journal' = journal
    BY DEF durable
  <2>6. ~UNCHANGED vars /\ ~Clock /\ ~Observe /\ ~EvaluateRisk /\ ~OrderCheck /\ ~Crash
    BY <1>2, <2>5 DEF vars, Clock, Observe, EvaluateRisk, OrderCheck, Crash
  <2>7. ~PersistObserved /\ ~PersistAndFail /\ ~PersistOutcome
    BY <1>2 DEF PersistObserved, PersistAndFail, PersistOutcome, Persist
  <2>8. \A mid, completes : ~Quote(mid, completes)
    BY <1>2, <2>5 DEF Quote
  <2>9. \A x : ~Decide(x) /\ ~Review(x)
    BY <1>2, <2>5 DEF Decide, Review
  <2>10. QED BY <2>1, <2>2, <2>3, <2>4, <2>6, <2>7, <2>8, <2>9 DEF Next
<1>5. QED BY <1>1, <1>3, <1>4

\* Nothing is filled beside a position of another week, or with a book that the
\* session record does not describe and no halt has answered.
THEOREM FillsFollowTheRecord == Spec => FillsAreAccountedFor
<1>1. PaperInv /\ [Next]_vars
        => [Orders' # Orders
              => ~gap /\ \A i \in DOMAIN book.open : book.open[i].week = run.now.week]_vars
  <2> SUFFICES ASSUME PaperInv, [Next]_vars, Orders' # Orders
               PROVE  ~gap /\ \A i \in DOMAIN book.open : book.open[i].week = run.now.week
    OBVIOUS
  <2>1. run.at = "submit"
    BY OnlySubmitFills
  <2>2. ~halted /\ \A i \in DOMAIN book.open : book.open[i].week = run.now.week
    BY <2>1 DEF PaperInv, CallIsGrounded, Proposed
  <2>3. ~gap
    BY <2>1, <2>2 DEF PaperInv, GapIsGuarded
  <2>4. QED BY <2>2, <2>3
<1>2. QED BY <1>1, PaperSafe, PTL DEF Spec, FillsAreAccountedFor
==============================================================================
