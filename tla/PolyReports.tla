------------------------------ MODULE PolyReports ------------------------------
(* What the pages of the Polymarket strategies compute from the signal rows:   *)
(* the simulated portfolio of latency_snipe, the curves, the statistics by     *)
(* strategy, sector and market. A row is a record; pnl is counted in tenths of *)
(* the stake, Unknown if the row has none, money in tenths of a dollar; a      *)
(* moment is a number, two of them make a day. Rows come in the order of their *)
(* keys. Nothing here keeps state.                                             *)
EXTENDS Integers, Sequences, FiniteSets, FiniteSetsExt, SequencesExt

Unknown == -99
Never   == 0
Day(t)  == t \div 2

Resolved(r)   == r.resolved
Counted(r)    == r.resolved /\ r.pnl # Unknown
Won(r)        == Counted(r) /\ r.pnl > 0
Lost(r)       == Counted(r) /\ r.pnl < 0
Number(rows, P(_)) == Len(SelectSeq(rows, P))
Total(S, f(_))     == FoldSet(LAMBDA x, acc : f(x) + acc, 0, S)

-------------------------------------------------------------------------------
(* latency_portfolio: the rows are played again with a small amount of money.  *)

Stake == 20
Floor == 40
PortfolioStart(seed) == [cash |-> seed, deployed |-> 0, realized |-> 0, open |-> {},
                         entered |-> 0, skipped |-> 0, wins |-> 0, losses |-> 0]

\* Entries and settlements in the order of their times; an entry comes before a
\* settlement of the same time that stands after it.
Events(rows) ==
  LET of(r) == IF r.entry <= 0 THEN <<>>
               ELSE <<[at |-> r.created, kind |-> "entry", row |-> r]>>
                    \o (IF r.resolved /\ r.resolvedAt # Never /\ r.pnl # Unknown
                        THEN <<[at |-> r.resolvedAt, kind |-> "settle", row |-> r]>> ELSE <<>>)
      all == FlattenSeq([i \in DOMAIN rows |-> of(rows[i])])
      before(i, j) == all[i].at < all[j].at \/ (all[i].at = all[j].at /\ i < j)
      order == SetToSortSeq(DOMAIN all, before)
  IN  [k \in DOMAIN order |-> all[order[k]]]

EnterOrSkip(p, r) ==
  IF p.cash >= Stake + Floor
  THEN [p EXCEPT !.cash = @ - Stake, !.deployed = @ + Stake, !.open = @ \union {r.id},
                 !.entered = @ + 1]
  ELSE [p EXCEPT !.skipped = @ + 1]
\* As if what was skipped were settled too.
SettleAnyway(p, r) ==
  [p EXCEPT !.cash = @ + Stake + (Stake * r.pnl) \div 10, !.deployed = @ - Stake,
            !.realized = @ + (Stake * r.pnl) \div 10, !.open = @ \ {r.id}]
Settle(p, r) ==
  IF r.id \notin p.open THEN p
  ELSE [p EXCEPT !.cash = @ + Stake + (Stake * r.pnl) \div 10, !.deployed = @ - Stake,
                 !.realized = @ + (Stake * r.pnl) \div 10, !.open = @ \ {r.id},
                 !.wins = @ + (IF r.pnl > 0 THEN 1 ELSE 0),
                 !.losses = @ + (IF r.pnl > 0 THEN 0 ELSE 1)]

Portfolio(rows, seed) ==
  FoldLeft(LAMBDA p, e : IF e.kind = "entry" THEN EnterOrSkip(p, e.row) ELSE Settle(p, e.row),
           PortfolioStart(seed), Events(rows))

\* The bands of entry prices (in cents). The number of wins the page shows is
\* the one of the last band with a row: the loop uses the same variable.
Bands == <<<<0, 88>>, <<88, 91>>, <<91, 94>>, <<94, 97>>, <<97, 101>>>>
Band(rows, b) == SelectSeq(rows, LAMBDA r : Counted(r) /\ r.entry >= b[1] /\ r.entry < b[2])
ShownWins(rows, seed) ==
  LET filled == {i \in DOMAIN Bands : Band(rows, Bands[i]) # <<>>}
  IN  IF filled = {} THEN Portfolio(rows, seed).wins
      ELSE Number(Band(rows, Bands[Max(filled)]), Won)

-------------------------------------------------------------------------------
(* The curves: a day's rows share the money there is, and all comes back.      *)

ByResolved(rows) ==
  LET before(i, j) == \/ rows[i].resolvedAt < rows[j].resolvedAt
                      \/ rows[i].resolvedAt = rows[j].resolvedAt /\ i < j
      order == SetToSortSeq(DOMAIN rows, before)
  IN  [k \in DOMAIN order |-> rows[order[k]]]

DaysOf(rows) == {Day(rows[i].resolvedAt) : i \in DOMAIN rows}
OfDay(rows, d) == SelectSeq(rows, LAMBDA r : Day(r.resolvedAt) = d)

\* The money after a day, as a fraction of what there was at the start.
DayFactor(batch) ==
  [num |-> FoldLeft(LAMBDA acc, r : acc + 10 + r.pnl, 0, batch), den |-> 10 * Len(batch)]
Curve(rows) ==
  LET counted == SelectSeq(ByResolved(rows), Counted)
      days == SetToSortSeq(DaysOf(counted), <)
  IN  [k \in DOMAIN days |->
         [day |-> days[k], trades |-> Len(OfDay(counted, days[k])),
          wins |-> Number(OfDay(counted, days[k]), Won), factor |-> DayFactor(OfDay(counted, days[k]))]]

\* analytics_curve: the same over the rows of some sectors; with no sector to
\* leave out named, the default ones are left out.
DefaultExclude == {"Prop", "Other"}
SectorCurve(rows, inc, exc) ==
  LET out == IF exc = {} THEN DefaultExclude ELSE exc
  IN  Curve(SelectSeq(rows, LAMBDA r : (inc = {} \/ r.sector \in inc) /\ r.sector \notin out))

\* rotation_wallet: the rows whose order was executed or tried, one least bet each.
Executed == {"matched", "live", "delayed", "failed"}
LeastBet == 10
RotationWallet(rows) ==
  FoldLeft(LAMBDA w, r : w + (LeastBet * r.pnl) \div 10, 1000,
           SelectSeq(ByResolved(rows), LAMBDA r : Counted(r) /\ r.status \in Executed))

-------------------------------------------------------------------------------
(* Statistics.                                                                 *)

Stats(rows) ==
  [total |-> Len(rows), resolved |-> Number(rows, Resolved), wins |-> Number(rows, Won),
   losses |-> Number(rows, Lost), counted |-> Number(rows, Counted)]
ByStrategy(rows) ==
  [s \in {rows[i].strategy : i \in DOMAIN rows} |->
     Stats(SelectSeq(rows, LAMBDA r : r.strategy = s))]

\* One row for each market, the one resolved last; the first that was read if
\* none of a later time is resolved.
NewerRead(r, kept) == TRUE   \* as if the row read last were kept
Newer(r, kept) == r.resolvedAt # Never /\ (kept.resolvedAt = Never \/ r.resolvedAt > kept.resolvedAt)
DedupeMarkets(rows) ==
  LET kept(m) == FoldLeft(LAMBDA k, i : IF k = 0 \/ Newer(rows[i], rows[k]) THEN i ELSE k, 0,
                          SelectSeq([i \in DOMAIN rows |-> i], LAMBDA i : rows[i].market = m))
      ids == SetToSortSeq({kept(m) : m \in {rows[i].market : i \in DOMAIN rows}}, <)
  IN  [k \in DOMAIN ids |-> rows[ids[k]]]

AggregateSectorRows(rows) ==
  [s \in {rows[i].sector : i \in DOMAIN rows} |->
     LET of == SelectSeq(rows, LAMBDA r : r.sector = s)
     IN  [signals |-> Len(of), pending |-> Number(of, LAMBDA r : ~r.resolved),
          wins |-> Number(of, Won), losses |-> Number(of, Lost)]]
Overview(rows, dedupe) ==
  AggregateSectorRows(IF dedupe = "market" THEN DedupeMarkets(rows) ELSE rows)

AnalyticsMarkets(rows, sector, dedupe) ==
  LET some == SelectSeq(rows, LAMBDA r : r.sector = sector)
      used == IF dedupe = "market" THEN DedupeMarkets(some) ELSE some
  IN  [q \in {used[i].question : i \in DOMAIN used} |->
         LET of == SelectSeq(used, LAMBDA r : r.question = q)
         IN  [signals |-> Len(of), wins |-> Number(of, Won), losses |-> Number(of, Lost)]]

\* rotation_loss_sectors: what is not won is lost, by the router's own sectors.
LossSectors(rows) ==
  LET counted == SelectSeq(rows, Counted)
  IN  [s \in {counted[i].coarse : i \in DOMAIN counted} |->
         LET of == SelectSeq(counted, LAMBDA r : r.coarse = s)
         IN  [wins |-> Number(of, Won), losses |-> Number(of, LAMBDA r : r.pnl <= 0)]]

Listed(rows, strategy, resolved, outcome) ==
  SelectSeq(rows, LAMBDA r : /\ strategy \in {"all", r.strategy}
                             /\ resolved = "yes" => r.resolved
                             /\ resolved = "no" => ~r.resolved
                             /\ outcome = "win" => Won(r)
                             /\ outcome = "loss" => Lost(r))

-------------------------------------------------------------------------------
(* The pages agree with the rows and with one another: the portfolio neither   *)
(* makes nor loses money apart from what its rows earned, and never stakes     *)
(* what it must keep; the rows of the strategies, sectors and markets add up   *)
(* to all of them; a market that was settled is reported by its last           *)
(* settlement; and two pages name the same losses, since no row earns nothing  *)
(* (router.py:67-1085).                                                        *)
ReportsAgree(rows, seed) ==
  LET p     == Portfolio(rows, seed)
      stats == Stats(rows)
      by    == ByStrategy(rows)
      once  == DedupeMarkets(rows)
      over  == Overview(rows, "signal")
      lost  == LossSectors(rows)
      days  == Curve(rows)
  IN  /\ p.cash + p.deployed = seed + p.realized
      /\ p.deployed = Stake * Cardinality(p.open)
      /\ p.cash >= Min({seed, Floor})
      /\ p.entered = Cardinality(p.open) + p.wins + p.losses
      /\ stats.total = Total(DOMAIN by, LAMBDA s : by[s].total)
      /\ stats.wins = Len(Listed(rows, "all", "all", "win"))
      /\ stats.wins + stats.losses = stats.counted
      /\ stats.total = Total(DOMAIN over, LAMBDA s : over[s].signals)
      /\ stats.wins = Total(DOMAIN lost, LAMBDA s : lost[s].wins)
      /\ Total(DOMAIN over, LAMBDA s : over[s].losses) = Total(DOMAIN lost, LAMBDA s : lost[s].losses)
      /\ Len(once) = Cardinality({rows[i].market : i \in DOMAIN rows})
      /\ \A i \in DOMAIN rows : \E k \in DOMAIN once :
            once[k].market = rows[i].market /\ once[k].resolvedAt >= rows[i].resolvedAt
      /\ stats.counted = Total(DOMAIN days, LAMBDA k : days[k].trades)
      /\ \A k \in DOMAIN days : days[k].factor.num >= 0 /\ days[k].wins <= days[k].trades
===============================================================================
