------------------------------ MODULE FadeReports ------------------------------
(* What the pages of the fade strategy compute from the rows of its positions, *)
(* and the curve of a market they keep. A row is [id, market, shares, entry,   *)
(* exit, since, until, status, reason]; its prices are those of YES in cents,  *)
(* Unset where the column is empty, and as NO is bought an entry costs the     *)
(* rest of a dollar. Nothing here keeps state.                                 *)
EXTENDS Integers, Sequences, FiniteSets, FiniteSetsExt

Dollar == 100
Unset  == -1

Cost(r) == r.shares * (Dollar - r.entry)
Pnl(r)  == r.shares * (r.entry - r.exit)
Total(S, f(_)) == FoldSet(LAMBDA r, acc : f(r) + acc, 0, S)

PositionRow(r) ==
  [id   |-> r.id,
   cost |-> IF r.entry = Unset THEN Unset ELSE Cost(r),
   pnl  |-> IF Unset \in {r.entry, r.exit} THEN Unset ELSE Pnl(r),
   hold |-> IF r.until # 0 /\ r.since # 0 THEN r.until - r.since ELSE Unset]
\* Newest first; any status is asked for with "".
Positions(rows, status) ==
  LET asked == {r \in rows : status = "" \/ r.status = status}
      nth(k) == CHOOSE r \in asked : Cardinality({q \in asked : q.id > r.id}) = k - 1
  IN  [k \in 1 .. Cardinality(asked) |-> PositionRow(nth(k))]

Closed(rows)  == {r \in rows : r.status = "closed" /\ r.exit # Unset /\ r.entry # Unset}
Orphans(rows) == {r \in rows : r.status = "closed" /\ r.exit = Unset}
Open(rows)    == {r \in rows : r.status = "open"}

\* What is in use, moment by moment: of two events at once the smaller comes
\* first, so what is given back can be spent again at that moment.
Events(rows) == {[at |-> r.since, change |-> Cost(r), id |-> r.id] : r \in Closed(rows)}
                \union {[at |-> r.until, change |-> - Cost(r), id |-> r.id] : r \in Closed(rows)}

\* faulty variant: at one moment the entries come first
SpentFirst(e, f) == \/ e.at < f.at \/ (e.at = f.at /\ e.change > f.change)
                    \/ (e.at = f.at /\ e.change = f.change /\ e.id <= f.id)
NotAfter(e, f) == \/ e.at < f.at \/ (e.at = f.at /\ e.change < f.change)
                  \/ (e.at = f.at /\ e.change = f.change /\ e.id <= f.id)
PeakExposure(rows) ==
  LET events == Events(rows)
      used(e) == Total({f \in events : NotAfter(f, e)}, LAMBDA f : f.change)
  IN  Max({0} \union {used(e) : e \in events})

\* The closed rows of each value of a column.
By(rows, column) == [k \in {r[column] : r \in Closed(rows)} |-> {r \in Closed(rows) : r[column] = k}]
Markets(rows) == LET groups == By(rows, "market")
                 IN  [k \in DOMAIN groups |-> [n |-> Cardinality(groups[k]),
                        cost |-> Total(groups[k], Cost), pnl |-> Total(groups[k], Pnl)]]
Reasons(rows) == LET groups == By(rows, "reason")
                 IN  [k \in DOMAIN groups |-> [n |-> Cardinality(groups[k]), pnl |-> Total(groups[k], Pnl)]]

FadePnl(rows) ==
  LET closed == Closed(rows)
      wins == {r \in closed : Pnl(r) > 0}
      loss == {r \in closed : Pnl(r) < 0}
  IN  [closed |-> Cardinality(closed), open |-> Cardinality(Open(rows)),
       orphan |-> Cardinality(Orphans(rows)),
       orphanCost |-> Total(Orphans(rows), Cost), openCost |-> Total(Open(rows), Cost),
       turnover |-> Total(closed, Cost), peak |-> PeakExposure(rows),
       pnl |-> Total(closed, Pnl), wins |-> Cardinality(wins), losses |-> Cardinality(loss),
       winPnl |-> Total(wins, Pnl), lossPnl |-> Total(loss, Pnl),
       best |-> IF closed = {} THEN 0 ELSE Max({Pnl(r) : r \in closed}),
       worst |-> IF closed = {} THEN 0 ELSE Min({Pnl(r) : r \in closed}),
       markets |-> Markets(rows), reasons |-> Reasons(rows)]

-------------------------------------------------------------------------------
(* The kept curve of a market: [pts, chart], chart <<>> until it was drawn;    *)
(* <<>> without a row. charts[pts] is the chart of a curve.                    *)

\* faulty variant: the chart that is there is kept
RefreshedPoints(curve, token, fetched, charts) ==
  IF token = "" \/ fetched = <<>> THEN curve
  ELSE [pts |-> fetched, chart |-> IF curve = <<>> THEN charts[fetched] ELSE curve.chart]
RefreshCurve(curve, token, fetched, charts) ==
  IF token = "" \/ fetched = <<>> THEN curve ELSE [pts |-> fetched, chart |-> charts[fetched]]

\* What the page is shown, and the row after it was asked for.
ShownCurve(curve, charts) ==
  CASE curve = <<>> -> <<curve, <<>>>>
    [] curve # <<>> /\ curve.chart # <<>> -> <<curve, curve.chart>>
    [] OTHER -> <<[curve EXCEPT !.chart = charts[curve.pts]], charts[curve.pts]>>

-------------------------------------------------------------------------------
(* Properties.                                                                 *)

\* The peak is the most money that was in use between two events, the groups
\* and the wins and losses add up to the total, and no result is counted that
\* the list of positions does not show. (fade_pnl, fade_positions)
LedgerAddsUp(rows) ==
  LET p == FadePnl(rows)
      closed == Closed(rows)
      inUse(t) == Total({r \in closed : r.since <= t /\ t < r.until}, Cost)
      all == Positions(rows, "")
  IN  /\ p.peak = Max({0} \union {inUse(r.since) : r \in closed})
      /\ p.peak <= p.turnover
      /\ p.winPnl + p.lossPnl = p.pnl
      /\ FoldSet(LAMBDA k, acc : p.markets[k].pnl + acc, 0, DOMAIN p.markets) = p.pnl
      /\ FoldSet(LAMBDA k, acc : p.reasons[k].pnl + acc, 0, DOMAIN p.reasons) = p.pnl
      /\ FoldSet(LAMBDA k, acc : p.reasons[k].n + acc, 0, DOMAIN p.reasons) = p.closed
      /\ p.pnl = FoldSet(LAMBDA k, acc : (IF all[k].pnl = Unset THEN 0 ELSE all[k].pnl) + acc, 0,
                         {k \in DOMAIN all : \E r \in closed : r.id = all[k].id})
      /\ p.closed + p.open + p.orphan = Cardinality(rows)

\* The page shows the chart of the curve that is kept, whether it was drawn
\* when the curve was fetched or is drawn now. (fade_curve, _refresh_curve)
ShownIsKept(curve, token, fetched, charts) ==
  LET kept == RefreshCurve(curve, token, fetched, charts)
      seen == ShownCurve(kept, charts)
  IN  /\ seen[1] # <<>> => seen[2] = charts[seen[1].pts]
      /\ fetched # <<>> /\ token # "" => seen[2] = charts[fetched]
===============================================================================
