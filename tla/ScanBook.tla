------------------------------ MODULE ScanBook ------------------------------
(***************************************************************************)
(* The rules of the value scan on figures and money: the score of a stock, *)
(* the rating it leads to, the profit of a position and the pages of the   *)
(* book.  ValueScan says when a scan runs and what it writes; its ratings  *)
(* are choices, and these are the rules behind them.                       *)
(*                                                                         *)
(* A stock is a record of figures in whole percent or multiples, current   *)
(* in tenths; NaN where the source has none.  A median is kept twice as    *)
(* large, so that it is whole.  A lot costs a dollar; prices are whole,    *)
(* returns in hundredths of a percent, money in hundredths of a cent,      *)
(* rounded down.                                                           *)
(***************************************************************************)
EXTENDS Integers, Sequences, FiniteSets, FiniteSetsExt, SequencesExt

NaN == -9999

\* The points of the first step whose limit v, in units, does not reach from above, stays
\* under, or does not exceed.
Points(steps, hit) == IF hit = {} THEN 0 ELSE steps[Min(hit)][2]
From(v, steps) == Points(steps, {k \in DOMAIN steps : v # NaN /\ v >= steps[k][1]})
Under(v, unit, steps) == Points(steps, {k \in DOMAIN steps : v < steps[k][1] * unit})
UpTo(v, unit, steps) == Points(steps, {k \in DOMAIN steps : v <= steps[k][1] * unit})

Valuation(r, med2) ==
    (IF r.per > 0 /\ med2 > 0
     THEN UpTo(200 * r.per, med2, << <<45, 15>>, <<65, 11>>, <<85, 7>>, <<100, 3>>, <<120, 1>> >>) ELSE 0)
    + (IF r.ev > 0 THEN Under(r.ev, 1, << <<8, 9>>, <<12, 6>>, <<18, 3>>, <<25, 1>> >>) ELSE 0)
    + (IF r.fwdPer > 0 /\ r.epsGrowth > 0
       THEN Under(10 * r.fwdPer, r.epsGrowth, << <<8, 6>>, <<12, 4>>, <<18, 2>> >>) ELSE 0)

Quality(r) ==
    From(r.roe, << <<30, 12>>, <<20, 9>>, <<12, 6>>, <<5, 2>> >>)
    + From(r.margin, << <<35, 10>>, <<20, 7>>, <<10, 4>>, <<0, 1>> >>)
    + From(r.roa, << <<15, 8>>, <<8, 5>>, <<0, 2>> >>)

Health(r) ==
    (IF r.debt = NaN THEN 4 ELSE Under(r.debt, 1, << <<30, 10>>, <<80, 7>>, <<150, 3>> >>))
    + From(r.current, << <<30, 6>>, <<20, 5>>, <<15, 3>>, <<10, 1>> >>)
    + IF r.cash > 0 THEN 4 ELSE 0

Growth(r) == From(r.revGrowth, << <<25, 8>>, <<15, 6>>, <<5, 3>>, <<0, 1>> >>)
             + From(r.epsGrowth, << <<25, 7>>, <<15, 5>>, <<5, 2>> >>)

(* _score_nasdaq; the scores never exceed the limits of their factors *)
Score(r, med2) == Valuation(r, med2) + Quality(r) + Health(r) + Growth(r)

\* a faulty variant: the comparison with the debt is turned round
RuinedByLittleDebt(r) == (r.debt # NaN /\ r.debt < 400) \/ (r.roe # NaN /\ r.roe < -15)
Ruined(r) == r.debt > 400 \/ (r.roe # NaN /\ r.roe < -15)

RateByScore(r, med2) ==
    LET score == Score(r, med2)
    IN IF Ruined(r) THEN "SELL"
       ELSE IF score >= 62 /\ Quality(r) >= 14 /\ Health(r) >= 8 THEN "BUY"
       ELSE IF score <= 27 \/ Health(r) <= 4 THEN "SELL" ELSE "HOLD"

Twice(pers) ==
    LET sorted == SortSeq(pers, <)
        n == Len(pers)
    IN IF n = 0 THEN NaN ELSE sorted[(n + 1) \div 2] + sorted[n \div 2 + 1]

\* a faulty variant: counts companies with losses too
MedianOfAll(rows, sector) ==
    Twice([k \in DOMAIN SelectSeq(rows, LAMBDA r : r.sector = sector) |->
             SelectSeq(rows, LAMBDA r : r.sector = sector)[k].per])

(* _sector_medians *)
SectorMedian(rows, sector) ==
    LET earning == SelectSeq(rows, LAMBDA r : r.sector = sector /\ r.per > 0)
    IN Twice([k \in DOMAIN earning |-> earning[k].per])

(* _SECTOR_BUY_CFG, of two sectors and of those it does not list *)
BuyCfg(sector) == CASE sector = "Technology" -> [perRatio |-> 55, growth |-> 120]
                    [] sector = "Utilities"  -> [perRatio |-> 72, growth |-> 103]
                    [] OTHER                 -> [perRatio |-> 60, growth |-> 110]

Dear(r, med2) == med2 # NaN /\ 200 * r.per > 120 * med2
Shrinking(r) == r.eps > 0 /\ r.fwdEps # NaN /\ 100 * r.fwdEps < 75 * r.eps
Cheap(r, med2) ==
    LET cfg == BuyCfg(r.sector)
    IN /\ med2 # NaN /\ 200 * r.per < cfg.perRatio * med2
       /\ r.eps > 0 /\ r.pbr > 0 /\ r.fwdEps # NaN /\ 100 * r.fwdEps >= cfg.growth * r.eps

(* _rate, of KOSPI *)
Rate(r, med2) ==
    IF r.per <= 0 THEN "HOLD"
    ELSE IF Dear(r, med2) \/ Shrinking(r) THEN "SELL"
    ELSE IF Cheap(r, med2) THEN "BUY" ELSE "HOLD"

(* run_scan: the ratings of the stocks that could be read *)
RunScan(market, rows) ==
    [k \in DOMAIN rows |->
        LET med2 == SectorMedian(rows, rows[k].sector)
        IN IF market = "kospi" THEN Rate(rows[k], med2) ELSE RateByScore(rows[k], med2)]

-----------------------------------------------------------------------------
(* The book. A position is [market, lots, since]: the prices of its lots, 0 *)
(* of a lot whose price was not heard.                                      *)

SumOf(rows, figure) == FoldLeft(LAMBDA sum, r : sum + IF r[figure] = NaN THEN 0 ELSE r[figure], 0, rows)

\* a faulty variant: the money of a lot without a price does not count
CalcPnlOfPriced(lots, price) ==
    LET priced == {k \in DOMAIN lots : lots[k] > 0}
        mean == MapThenSumSet(LAMBDA k : (10000 * (price - lots[k])) \div lots[k], priced)
                    \div Cardinality(priced)
    IN IF price = NaN \/ priced = {} THEN [pct |-> NaN, usd |-> NaN]
       ELSE [pct |-> mean, usd |-> Cardinality(priced) * mean]

CalcPnl(lots, price) ==
    LET priced == {k \in DOMAIN lots : lots[k] > 0}
        mean == MapThenSumSet(LAMBDA k : (10000 * (price - lots[k])) \div lots[k], priced)
                    \div Cardinality(priced)
    IN IF price = NaN \/ priced = {} THEN [pct |-> NaN, usd |-> NaN]
       ELSE [pct |-> mean, usd |-> Len(lots) * mean]

(* _enrich_position and the record of an exit: the position at a price *)
AtPrice(p, price) ==
    LET pnl == CalcPnl(p.lots, price)
    IN [market |-> p.market, since |-> p.since, invested |-> Len(p.lots), pct |-> pnl.pct, usd |-> pnl.usd]

\* best first
PositionsWithPnl(positions, price) ==
    SortSeq([k \in DOMAIN positions |-> AtPrice(positions[k], price[k])],
            LAMBDA a, b : SumOf(<<a>>, "usd") > SumOf(<<b>>, "usd"))

In(market, rows) == SelectSeq(rows, LAMBDA r : r.market = market)
ByMarket(slice(_), rows) == [kospi |-> slice(In("kospi", rows)), nasdaq |-> slice(In("nasdaq", rows))]

PortfolioSlice(rows) ==
    LET invested == SumOf(rows, "invested")
        unrealized == SumOf(rows, "usd")
        winners == Len(SelectSeq(rows, LAMBDA r : r.usd # NaN /\ r.usd > 0))
        losers == Len(SelectSeq(rows, LAMBDA r : r.usd # NaN /\ r.usd < 0))
    IN [count |-> Len(rows), invested |-> invested, unrealized |-> unrealized,
        pct |-> IF invested = 0 THEN NaN ELSE unrealized \div invested,
        value |-> 10000 * invested + unrealized,
        winners |-> winners, losers |-> losers, flat |-> Len(rows) - winners - losers]

ClosedStats(history) ==
    LET closed == SelectSeq(history, LAMBDA h : h.pct # NaN)
        wins == SelectSeq(closed, LAMBDA h : h.pct > 0)
    IN [closed |-> Len(closed),
        winRate |-> IF closed = <<>> THEN NaN ELSE (1000 * Len(wins)) \div Len(closed),
        meanPct |-> IF closed = <<>> THEN NaN ELSE SumOf(closed, "pct") \div Len(closed),
        realized |-> SumOf(history, "usd"), invested |-> SumOf(history, "invested")]

OpenSlice(positions) ==
    [count |-> Len(positions), invested |-> FoldLeft(LAMBDA n, p : n + Len(p.lots), 0, positions)]

BookStats(positions, history) ==
    [closed |-> ClosedStats(history), open |-> OpenSlice(positions),
     total |-> ClosedStats(history).realized, markets |-> ByMarket(OpenSlice, positions)]

SummaryStats(positions, price, history) ==
    LET rows == PositionsWithPnl(positions, price)
        open == PortfolioSlice(rows)
    IN [closed |-> ClosedStats(history), open |-> open,
        total |-> ClosedStats(history).realized + open.unrealized,
        markets |-> ByMarket(PortfolioSlice, rows)]

(* the date from which the market's index is compared, NaN if never *)
BenchmarkSince(market, positions, history) ==
    LET dates == {In(market, positions)[k].since : k \in DOMAIN In(market, positions)}
                 \cup {In(market, history)[k].since : k \in DOMAIN In(market, history)}
    IN IF dates = {} THEN NaN ELSE Min(dates)

-----------------------------------------------------------------------------
Rank == [SELL |-> 1, HOLD |-> 2, BUY |-> 3]

(* A stock that gets better in one figure is rated no worse by the next scan, though the  *)
(* median it is compared with moves along: better[f] lists the values of a figure, the    *)
(* worst first. Of the stocks of a KOSPI sector that earn money, no more than half are    *)
(* bought and no more than half are sold for their price.                                 *)
RatingsAreFair(market, rows, better) ==
    LET rating == RunScan(market, rows)
        earning(s) == {k \in DOMAIN rows : rows[k].sector = s /\ rows[k].per > 0}
        bought(s) == {k \in earning(s) : rating[k] = "BUY"}
        dear(s) == {k \in earning(s) : Dear(rows[k], SectorMedian(rows, s))}
    IN /\ \A f \in DOMAIN better : \A i \in 1 .. Len(better[f]) - 1 :
             LET worse == RunScan(market, [rows EXCEPT ![1][f] = better[f][i]])
                 after == RunScan(market, [rows EXCEPT ![1][f] = better[f][i + 1]])
             IN Rank[worse[1]] <= Rank[after[1]]
       /\ market = "kospi" =>
             \A s \in {rows[k].sector : k \in DOMAIN rows} :
                 /\ 2 * Cardinality(bought(s)) <= Cardinality(earning(s))
                 /\ 2 * Cardinality(dear(s)) <= Cardinality(earning(s))
                 /\ \A k \in dear(s) : rating[k] = "SELL"

(* The two pages of the book agree, the markets add up to the whole, a book of one        *)
(* position earns what the position earns, and a position that is closed at its present   *)
(* price changes neither the total nor the date the index is compared from.               *)
BookAddsUp(positions, price, history) ==
    LET fast == BookStats(positions, history)
        page == SummaryStats(positions, price, history)
        sum(figure) == page.markets.kospi[figure] + page.markets.nasdaq[figure]
    IN /\ \A figure \in {"count", "invested", "unrealized", "value", "winners", "losers", "flat"} :
             page.open[figure] = sum(figure)
       /\ \A figure \in {"count", "invested"} :
             /\ fast.open[figure] = page.open[figure]
             /\ \A m \in {"kospi", "nasdaq"} : fast.markets[m][figure] = page.markets[m][figure]
       /\ page.total = fast.total + page.open.unrealized
       /\ \A k \in DOMAIN positions :
             LET p == positions[k]
                 rest == RemoveAt(positions, k)
                 prices == RemoveAt(price, k)
                 after == Append(history, AtPrice(p, price[k]))
                 alone == PortfolioSlice(<<AtPrice(p, price[k])>>)
             IN /\ alone.unrealized # 0 => alone.pct = AtPrice(p, price[k]).pct
                /\ SummaryStats(rest, prices, after).total = page.total
                /\ BenchmarkSince(p.market, rest, after) = BenchmarkSince(p.market, positions, history)
=============================================================================
