--------------------------- MODULE DrawdownStats ---------------------------
(***************************************************************************)
(* What the pages say of the ledger of Drawdown: the return of an episode  *)
(* with its ladder of purchases and with the first purchase alone, the     *)
(* statistics of the episodes that were found as they began and of those   *)
(* found later, and the return by days held.  Returns are in hundredths of *)
(* a percent, rounded down; days are bars.  The class of an episode is     *)
(* that of its symbol: classOf gives it for each place in the ledger.      *)
(***************************************************************************)
EXTENDS Drawdown, TLC

Blank == -99999       \* None of a figure nothing is known of

Column(eps, figure) == [k \in DOMAIN eps |-> eps[k][figure]]
Total(s) == FoldSet(LAMBDA k, sum : sum + s[k], 0, DOMAIN s)
Mean(s) == IF s = <<>> THEN Blank ELSE Total(s) \div Len(s)
Median(s) ==
    LET sorted == SortSeq(s, LAMBDA x, y : x < y)
        n == Len(s)
    IN IF n = 0 THEN Blank ELSE (sorted[(n + 1) \div 2] + sorted[n \div 2 + 1]) \div 2
Least(s) == IF s = <<>> THEN Blank ELSE Min({s[k] : k \in DOMAIN s})
Most(s) == IF s = <<>> THEN Blank ELSE Max({s[k] : k \in DOMAIN s})

\* n shares bought for cost, at price
Return(price, cost, n) == (10000 * price * n) \div cost - 10000

\* a faulty variant: the first purchase is measured by the average of all
SingleOfAverage(e) == Return(e.last, e.found.cost, Len(e.found.fills))
Single(e) == Return(e.last, e.found.entry, 1)

Enrich(e, class) ==
    LET f == e.found
        n == Len(f.fills)
        ladder == Return(e.last, f.cost, n)
    IN [n |-> n, open |-> e.open, class |-> class, exit |-> e.seen,
        cohort |-> IF e.backfilled THEN "backfilled" ELSE "out_of_sample",
        single |-> Single(e), ladder |-> ladder,
        edge |-> IF n > 1 THEN ladder - Single(e) ELSE Blank,
        units |-> (100 * f.cost) \div f.entry, discount |-> Return(f.cost, f.entry * n, 1),
        mae |-> IF f.lowest = None THEN 0 ELSE Return(f.lowest, f.cost, n),
        underwater |-> f.underwater, held |-> e.seen - f.signal,
        path |-> [b \in DOMAIN f.path |->
                    [ladder |-> Return(f.path[b].price, Total(f.path[b].paid), Len(f.path[b].paid)),
                     single |-> Return(f.path[b].price, f.entry, 1)]]]

\* a faulty variant: closed ones are not told apart
OpenOrClosed(eps) == eps
OpenOf(eps) == SelectSeq(eps, LAMBDA e : e.open)
ClosedOf(eps) == SelectSeq(eps, LAMBDA e : ~e.open)

CohortStats(eps) ==
    LET open == Column(OpenOf(eps), "ladder")
        closed == Column(ClosedOf(eps), "ladder")
        laddered == SelectSeq(eps, LAMBDA e : e.n > 1 /\ e.edge # Blank)
        edges == Column(laddered, "edge")
        wins == Cardinality({k \in DOMAIN closed : closed[k] > 0})
    IN [total |-> Len(eps), open |-> Len(open), closed |-> Len(closed),
        openMean |-> Mean(open), openMedian |-> Median(open),
        openWorst |-> Least(open), openBest |-> Most(open),
        closedMean |-> Mean(closed),
        winRate |-> IF closed = <<>> THEN Blank ELSE (1000 * wins) \div Len(closed),
        meanMae |-> Mean(Column(eps, "mae")), worstMae |-> Least(Column(eps, "mae")),
        meanUnder |-> Mean(Column(eps, "underwater")), mostUnder |-> Most(Column(eps, "underwater")),
        meanHeld |-> Mean(Column(ClosedOf(eps), "held")),
        laddered |-> Len(laddered), meanEdge |-> Mean(edges), medianEdge |-> Median(edges),
        helped |-> Cardinality({k \in DOMAIN edges : edges[k] > 0}),
        hurt |-> Cardinality({k \in DOMAIN edges : edges[k] < 0}),
        meanSingle |-> Mean(Column(laddered, "single")),
        meanLadder |-> Mean(Column(laddered, "ladder")),
        meanUnits |-> Mean(Column(laddered, "units"))]

ReturnCurve(eps) ==
    [b \in Buckets |->
        LET reached == SelectSeq(eps, LAMBDA e : b \in DOMAIN e.path)
            at(side) == [k \in DOMAIN reached |-> reached[k].path[b][side]]
        IN [ladder |-> Median(at("ladder")), single |-> Median(at("single")), n |-> Len(reached)]]

ByAssetClass(eps) ==
    LET classes == {eps[k].class : k \in DOMAIN eps}
    IN [c \in classes |-> CohortStats(SelectSeq(eps, LAMBDA e : e.class = c))]

Enriched(eps, classOf) == [k \in DOMAIN eps |-> Enrich(eps[k], classOf[k])]
InCohort(eps, cohort) == SelectSeq(eps, LAMBDA e : cohort \in {"all", e.cohort})

BuildStats(eps, classOf) ==
    LET of(some) == [stats |-> CohortStats(some), curve |-> ReturnCurve(some), classes |-> ByAssetClass(some)]
        enriched == Enriched(eps, classOf)
    IN [out_of_sample |-> of(InCohort(enriched, "out_of_sample")),
        backfilled |-> of(InCohort(enriched, "backfilled")), all |-> of(InCohort(enriched, "all"))]

(* the tables: worst return first, latest exit first *)
BuildEpisodes(eps, classOf, status, cohort) ==
    LET some == InCohort(Enriched(eps, classOf), cohort)
        asked == SelectSeq(some, LAMBDA e : status \in {"all", IF e.open THEN "open" ELSE "closed"})
    IN [open |-> SortSeq(OpenOf(asked), LAMBDA x, y : x.ladder < y.ladder),
        closed |-> SortSeq(ClosedOf(asked), LAMBDA x, y : x.exit > y.exit)]

-----------------------------------------------------------------------------
(* What the pages say follows from the ledger: the two cohorts and the classes make up   *)
(* the whole; the ladder is said to have helped just where it bought below the first     *)
(* price; no open return is worse than the worst excursion; fewer episodes reach a later *)
(* day, and the point of the day last seen is the return of the episode today.           *)
StatsAgree(classOf) ==
    LET pages == BuildStats(led.eps, classOf)
        all == pages.all.stats
        sum(figure, groups) == FoldSet(LAMBDA g, n : n + groups[g][figure], 0, DOMAIN groups)
        cohorts == [out_of_sample |-> pages.out_of_sample.stats, backfilled |-> pages.backfilled.stats]
        bought == {k \in DOMAIN led.eps : Len(led.eps[k].found.fills) > 1}
        cheaper == {k \in bought : LET f == led.eps[k].found IN f.cost < f.entry * Len(f.fills)}
    IN /\ \A figure \in {"total", "open", "closed", "laddered", "helped", "hurt"} :
             /\ all[figure] = sum(figure, cohorts)
             /\ all[figure] = sum(figure, pages.all.classes)
       /\ all.laddered = Cardinality(bought) /\ all.helped = Cardinality(cheaper)
       /\ all.open > 0 => all.openWorst >= all.worstMae
       /\ \A c \in DOMAIN pages :
             LET curve == pages[c].curve
             IN /\ curve[0].n = pages[c].stats.total
                /\ \A a, b \in Buckets : a <= b => curve[a].n >= curve[b].n
       /\ \A k \in DOMAIN led.eps :
             LET e == Enrich(led.eps[k], classOf[k])
             IN e.open /\ e.held \in DOMAIN e.path =>
                  e.path[e.held] = [ladder |-> e.ladder, single |-> e.single]
       /\ \A status \in {"open", "all"}, cohort \in {"backfilled", "all"} :
             LET page == BuildEpisodes(led.eps, classOf, status, cohort)
             IN Len(page.open) + Len(page.closed) =
                  IF status = "all" THEN pages[cohort].stats.total ELSE pages[cohort].stats.open
=============================================================================
