----------------------------- MODULE PaperBroker -----------------------------
(***************************************************************************)
(* SimulatedBroker (mt5_gateway/simulated.py), the book of the replay and  *)
(* of PAPER_LITE, and DurablePaperBroker (persistence/paper_lite.py), which*)
(* keeps it for PAPER_LITE: the book lives in memory and an append-only    *)
(* journal, replayed at start-up, must rebuild it.                         *)
(*                                                                         *)
(* Prices are small integers around a mid price, volumes count lots, and a *)
(* lot earns one unit of account per tick.  Hashes and the chain they form *)
(* are left out: a journal is a sequence of entries and an event key is    *)
(* its content.                                                            *)
(***************************************************************************)
EXTENDS Integers, Sequences, SequencesExt, Sums

CONSTANTS
    StartBalance,   \* starting_balance
    HalfSpread,     \* half of the quoted spread
    EntrySlip,      \* slippage on a market entry
    ExitSlip,       \* slippage on a stop
    Absent          \* no tick yet, no take profit, no range

------------------------------------------------------------------------------
(* SimulatedBroker                                                         *)

NewBook == [open |-> <<>>, closed |-> <<>>, balance |-> StartBalance,
            tick |-> Absent, ranges |-> {}, tickets |-> 0]

Bid(tick) == tick.mid - HalfSpread

Ask(tick) == tick.mid + HalfSpread

\* _profit(): one unit of account per lot and price step.
Profit(position, exit) ==
    position.volume * (IF position.side = "BUY" THEN exit - position.entry
                                                ELSE position.entry - exit)

\* _exit_price(): a long leaves on the bid, a short on the ask.
ExitNow(position, tick) == IF position.side = "BUY" THEN Bid(tick) ELSE Ask(tick)

\* equity: the balance and the unrealised profit at the last tick.
Equity(book) ==
    book.balance
        + Total([i \in DOMAIN book.open |-> Profit(book.open[i], ExitNow(book.open[i], book.tick))])

HitsStop(position, tick) ==
    IF position.side = "BUY"
    THEN tick.low - HalfSpread <= position.stop
    ELSE tick.high + HalfSpread >= position.stop

HitsTarget(position, tick) ==
    IF position.side = "BUY"
    THEN tick.high - HalfSpread >= position.target
    ELSE tick.low + HalfSpread <= position.target

\* Pessimistic: a bar that touches both is resolved as a stop.
ExitPrice(position, tick) ==
    IF ~HitsStop(position, tick) THEN position.target
    ELSE IF position.side = "BUY" THEN position.stop - ExitSlip
    ELSE position.stop + ExitSlip

\* _close(): what the closed-trade ledger keeps of a position; "by" is the bar
\* whose range closed it, for the properties.
Closed(position, exit, by) ==
    [ticket |-> position.ticket, bar |-> position.bar, by |-> by,
     profit |-> Profit(position, exit)]

\* The positions of a sequence that are in a set, in their order: the loop over
\* self._open, as a recursive function so that it can be proved about.
Among(positions, set) ==
    LET kept[n \in 0..Len(positions)] ==
            IF n = 0 THEN <<>>
            ELSE IF positions[n] \in set THEN Append(kept[n - 1], positions[n])
            ELSE kept[n - 1]
    IN kept[Len(positions)]

\* The balance once these trades are booked.
Settled(balance, trades) == balance + Total([i \in DOMAIN trades |-> trades[i].profit])

\* The positions of these trades leave the book.
CloseAll(book, trades) ==
    LET gone == {trades[i].ticket : i \in DOMAIN trades} IN
    [book EXCEPT !.open = Among(@, {p \in Range(@) : p.ticket \notin gone}),
                 !.closed = @ \o trades,
                 !.balance = Settled(@, trades)]

\* advance() and _resolve_exits()
Advanced(book, tick) ==
    LET leaving == Among(book.open, {p \in Range(book.open) : HitsStop(p, tick) \/ HitsTarget(p, tick)})
        by == IF tick.applied THEN tick.bar ELSE Absent
    IN CloseAll([book EXCEPT !.tick = tick],
                [i \in DOMAIN leaving |-> Closed(leaving[i], ExitPrice(leaving[i], tick), by)])

\* close_all_positions()
Flattened(book) ==
    CloseAll(book, [i \in DOMAIN book.open |->
                      Closed(book.open[i], ExitNow(book.open[i], book.tick), Absent)])

\* order_send(): the ask or the bid of the last tick, with slippage.
Filled(book, order) ==
    [book EXCEPT
        !.tickets = @ + 1,
        !.open = Append(@,
            [ticket |-> book.tickets + 1, side |-> order.side, volume |-> order.volume,
             entry |-> IF order.side = "BUY" THEN Ask(book.tick) + EntrySlip
                                             ELSE Bid(book.tick) - EntrySlip,
             stop |-> order.stop, target |-> order.target,
             bar |-> book.tick.bar, week |-> book.tick.week])]

\* order_check(): the margin of the order's lots against the free margin.
Margin(book, perLot) ==
    Total([i \in DOMAIN book.open |-> perLot * book.open[i].volume])

CheckPasses(book, perLot, volume) ==
    perLot * volume <= Equity(book) - Margin(book, perLot)

------------------------------------------------------------------------------
(* The journal                                                             *)

Created == [event |-> "PORTFOLIO_CREATED"]

Market(tick) == [event |-> "MARKET_OBSERVED", tick |-> tick]

\* The volume that sizing approves is one lot here.
Order(id, side, stop, target, bar, week) ==
    [event |-> "PAPER_ORDER_ACCEPTED", id |-> id, side |-> side, volume |-> 1, stop |-> stop,
     target |-> target, bar |-> bar, week |-> week]

FlattenOf(week) == [event |-> "PAPER_FLATTEN_REQUESTED", id |-> week]

Audit(fact, id) == [event |-> "AUDIT_FACT", fact |-> fact, id |-> id]

\* An event key is in _event_payload_hashes.
OnRecord(journal, entry) == \E i \in DOMAIN journal : journal[i] = entry

\* _quote_only_tick(): the range of a closed bar is consumed once.
SimulationTick(book, tick) ==
    IF tick.bar \in book.ranges
    THEN [tick EXCEPT !.low = tick.mid, !.high = tick.mid, !.applied = FALSE]
    ELSE [tick EXCEPT !.applied = TRUE]

\* What one entry does to the book, in advance(), submit() and flatten_all()
\* and again in _load_and_replay().
Applied(book, entry) ==
    CASE entry.event = "MARKET_OBSERVED" ->
            [Advanced(book, entry.tick) EXCEPT
                !.ranges = IF entry.tick.applied THEN @ \cup {entry.tick.bar} ELSE @]
      [] entry.event = "PAPER_ORDER_ACCEPTED" -> Filled(book, entry)
      [] entry.event = "PAPER_FLATTEN_REQUESTED" -> Flattened(book)
      [] OTHER -> book

\* _load_and_replay(): a journal that observes a range twice, or a quote before
\* its range, is refused; both are checked as part of Trustworthy.
Replayed(journal) ==
    LET book[n \in 0..Len(journal)] ==
            IF n = 0 THEN NewBook ELSE Applied(book[n - 1], journal[n])
    IN book[Len(journal)]

Observations(journal) ==
    SelectSeq(journal, LAMBDA entry : entry.event = "MARKET_OBSERVED")

Trustworthy(journal) ==
    LET seen == Observations(journal) IN
    \A i \in DOMAIN seen :
        LET before == {j \in 1..(i - 1) : seen[j].tick.applied
                                          /\ seen[j].tick.bar = seen[i].tick.bar}
        IN seen[i].tick.applied = (before = {})
==============================================================================
