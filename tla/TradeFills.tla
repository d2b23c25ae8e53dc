----------------------------- MODULE TradeFills -----------------------------
(***************************************************************************)
(* What a trade is said to have earned. The engine enters and closes at    *)
(* its own prices; the exchange fills elsewhere, and the answers correct   *)
(* the row of the trade in forward_trades: the entry while the row is      *)
(* open, the exit at any time. The orders of one tick are sent one after   *)
(* the other, those of two ticks side by side, so answers may overtake     *)
(* each other; a restart forgets the orders under way. The pages compute   *)
(* their results from the rows.                                            *)
(*                                                                         *)
(* Returns are in hundredths of a percent, a capital of 10000 is whole;    *)
(* prices are such that both are exact. A trade is its place in the table. *)
(***************************************************************************)
EXTENDS Integers, Sequences, FiniteSets, SequencesExt

CONSTANTS Px,            \* prices
          MaxTrades, MaxReboots,   \* bounds
          Limit,         \* trades get_stats reads at most (100)
          Recent         \* trades it shows (20)

VARIABLES price,         \* the market's
          holding,       \* BaseForwardTest._position: [id, side, entry], or None
          trades,        \* the rows of forward_trades
          tasks,         \* the tasks _execute_verify_notify under way, by the tick
          noted,         \* history: which fills have been written to each row
          reboots

fillVars == <<price, holding, trades, tasks, noted, reboots>>

None == [id |-> 0]
Unset == -1
Fee == 10                \* BINANCE_FEE_NOTIONAL_PCT

Pnl(side, entry, exit) ==
    IF side = "long" THEN (10000 * (exit - entry)) \div entry ELSE (10000 * (entry - exit)) \div entry

Order(kind, h) == [kind |-> kind, id |-> h.id, side |-> h.side, entry |-> h.entry]
Sent(list) == IF list = <<>> THEN tasks ELSE Append(tasks, list)

FillInit ==
    /\ price \in Px /\ holding = None /\ trades = <<>> /\ tasks = <<>> /\ noted = <<>> /\ reboots = 0

Closed(row, h, exit) ==
    [row EXCEPT !.open = FALSE, !.exit = exit, !.pnl = Pnl(h.side, h.entry, exit),
                !.net = Pnl(h.side, h.entry, exit) - Fee]

Opened(side) ==
    [open |-> TRUE, side |-> side, entry |-> price, exit |-> Unset, pnl |-> Unset, net |-> Unset]

(* tick: a position is closed at a price of its rules, a new one is entered *)
Tick(closes, enters) ==
    \E exit \in Px, side \in {"long", "short"} :
       LET kept == IF closes THEN [trades EXCEPT ![holding.id] = Closed(@, holding, exit)] ELSE trades
           new == [id |-> Len(kept) + 1, side |-> side, entry |-> price]
       IN /\ closes => holding # None
          /\ enters => (closes \/ holding = None) /\ Len(trades) < MaxTrades
          /\ trades' = IF enters THEN Append(kept, Opened(side)) ELSE kept
          /\ noted' = IF enters THEN Append(noted, {}) ELSE noted
          /\ holding' = IF enters THEN new ELSE None
          /\ tasks' = Sent((IF closes THEN <<Order("close", holding)>> ELSE <<>>)
                            \o (IF enters THEN <<Order("entry", new)>> ELSE <<>>))
          /\ UNCHANGED <<price, reboots>>

(* _update_entry_price_in_db *)
EntryNoted(o, fill) ==
    IF trades[o.id].open
    THEN /\ trades' = [trades EXCEPT ![o.id].entry = fill]
         /\ noted' = [noted EXCEPT ![o.id] = @ \cup {"entry"}]
    ELSE UNCHANGED <<trades, noted>>

\* a faulty variant: the exit of the last trade of the table is corrected
ExitNotedOnLast(o, fill) ==
    /\ trades' = [trades EXCEPT ![Len(trades)].exit = fill, ![Len(trades)].pnl = Pnl(o.side, o.entry, fill)]
    /\ noted' = [noted EXCEPT ![o.id] = @ \cup {"exit"}]

(* _update_fill_price_in_db: the return is counted from the engine's entry *)
ExitNoted(o, fill) ==
    IF trades[o.id].exit = fill THEN UNCHANGED <<trades, noted>>
    ELSE /\ trades' = [trades EXCEPT ![o.id].exit = fill, ![o.id].pnl = Pnl(o.side, o.entry, fill)]
         /\ noted' = [noted EXCEPT ![o.id] = @ \cup {"exit"}]

Done(k) == tasks' = IF Len(tasks[k]) = 1 THEN RemoveAt(tasks, k)
                     ELSE [tasks EXCEPT ![k] = Tail(@)]

Answered(k) ==
    /\ LET o == Head(tasks[k])
       IN \E fill \in Px : IF o.kind = "entry" THEN EntryNoted(o, fill) ELSE ExitNoted(o, fill)
    /\ Done(k) /\ UNCHANGED <<price, holding, reboots>>

(* the exchange refuses, or nothing is heard: the row stays as it is *)
Refused(k) == Done(k) /\ UNCHANGED <<price, holding, trades, noted, reboots>>

(* _load_open_from_db *)
Reboot ==
    /\ reboots < MaxReboots /\ reboots' = reboots + 1
    /\ LET open == {k \in DOMAIN trades : trades[k].open}
       IN holding' = IF open = {} THEN None
                     ELSE LET k == CHOOSE k \in open : TRUE
                          IN [id |-> k, side |-> trades[k].side, entry |-> trades[k].entry]
    /\ tasks' = <<>> /\ UNCHANGED <<price, trades, noted>>

PriceMoves == \E p \in Px : price' = p /\ UNCHANGED <<holding, trades, tasks, noted, reboots>>

FillNext ==
    \/ \E closes, enters \in BOOLEAN : (closes \/ enters) /\ Tick(closes, enters)
    \/ \E k \in DOMAIN tasks : Answered(k) \/ Refused(k)
    \/ Reboot \/ PriceMoves

-----------------------------------------------------------------------------
(* The pages. *)

\* a faulty variant: the return that is stored
StoredPnl(row) == row.pnl
(* _extra_trade_row computes the return again *)
ShownPnl(row) == Pnl(row.side, row.entry, row.exit)

(* get_trades_from_db: newest first *)
TradesFromDb(rows) ==
    LET closed == Reverse(SelectSeq(rows, LAMBDA r : ~r.open))
        some == SubSeq(closed, 1, IF Len(closed) < Limit THEN Len(closed) ELSE Limit)
    IN [k \in DOMAIN some |-> [pnl |-> ShownPnl(some[k]), net |-> some[k].net]]

(* compound_total_pnl and compound_total_pnl_net *)
Compound(list, figure) ==
    FoldLeft(LAMBDA capital, r : (capital * (10000 + r[figure])) \div 10000, 10000, list) - 10000

IncludingUnrealized(total, unrealized) == ((10000 + total) * (10000 + unrealized)) \div 10000 - 10000

(* get_stats *)
Stats(rows, h) ==
    LET list == TradesFromDb(rows)
        unrealized == IF h = None THEN 0 ELSE Pnl(h.side, h.entry, price)
    IN [count |-> Len(list),
        total |-> IncludingUnrealized(Compound(list, "pnl"), unrealized),
        net |-> IncludingUnrealized(Compound(list, "net"), unrealized),
        wins |-> Len(SelectSeq(list, LAMBDA r : r.net > 0)),
        losses |-> Len(SelectSeq(list, LAMBDA r : r.net < 0)),
        recent |-> Reverse(SubSeq(list, IF Len(list) > Recent THEN Len(list) - Recent + 1 ELSE 1, Len(list)))]

-----------------------------------------------------------------------------
FillTypeOK ==
    /\ price \in Px /\ reboots \in 0 .. MaxReboots /\ Len(noted) = Len(trades)
    /\ \A k \in DOMAIN trades : trades[k].open <=> holding.id = k
    /\ \A k \in DOMAIN tasks : \A i \in DOMAIN tasks[k] : tasks[k][i].id \in DOMAIN trades

(* Answers that come late or in another order reach their own trade: the three results of *)
(* a row agree but for the fills that were written to it, the exit moving the return and  *)
(* not the net return, the entry moving neither; what the page shows is what the prices   *)
(* of the row say. The engine counts from its own entry until a restart.                  *)
ResultsAreOwn ==
    /\ \A k \in DOMAIN trades :
          LET r == trades[k]
          IN ~r.open =>
                /\ "exit" \notin noted[k] => r.net = r.pnl - Fee
                /\ \E entry \in IF "entry" \in noted[k] THEN Px ELSE {r.entry} :
                      r.pnl = Pnl(r.side, entry, r.exit)
                /\ ShownPnl(r) > 0 <=>
                      IF r.side = "long" THEN r.exit > r.entry ELSE r.exit < r.entry
    /\ holding # None /\ "entry" \notin noted[holding.id] => holding.entry = trades[holding.id].entry

(* A close at the present price moves the open result into the total and changes it by    *)
(* nothing, while the page still has room for all trades and the engine counts from the   *)
(* entry of the row.                                                                      *)
ClosingKeepsTotal ==
    LET now == Stats(trades, holding)
    IN holding # None /\ holding.entry = trades[holding.id].entry /\ now.count < Limit =>
          LET after == Stats([trades EXCEPT ![holding.id] = Closed(@, holding, price)], None)
          IN after.total = now.total /\ after.count = now.count + 1
=============================================================================
