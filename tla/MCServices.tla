------------------------------ MODULE MCServices ------------------------------
(* Services, and questions to the rules and the pages of the Polymarket        *)
(* strategies; a behaviour is about one service or one question:               *)
(*   "passes": one pass and two browsers; "fills": two trades;                 *)
(*   "stream", "bars", "scan": see Services;                                   *)
(*   "pairs", "rules", "rows", "curve", "orders", "fades": one question, no    *)
(*             step.                                                           *)
EXTENDS Services, SequencesExt

VARIABLE question

L == INSTANCE LogicArb
R == INSTANCE PolyRules
P == INSTANCE PolyReports
D == INSTANCE FadeRules
W == INSTANCE FadeReports

Symmetry == Permutations(Guest) \union Permutations(Calls)

-------------------------------------------------------------------------------
(* The questions.                                                              *)

Both(yes, no) == [YES |-> yes, NO |-> no]
Wording(words, between, numbers, end, volume, book, listed) ==
  [btc |-> TRUE, words |-> words, between |-> between, numbers |-> numbers, end |-> end,
   slug |-> "s", volume |-> volume, tokens |-> TRUE, book |-> book, listed |-> listed]
GTEnd == <<L!GT, L!TERMINAL>>
LTEnd == <<L!LT, L!TERMINAL>>
GTAny == <<L!GT, L!TOUCH>>
LTAny == <<L!LT, L!TOUCH>>
Asked(yes, no) == <<Both(yes, no), Both(L!NoAsk, L!NoAsk)>>
Shown(yes, no) == <<Both(L!NoAsk, L!NoAsk), Both(yes, no)>>
Wordings ==
  {Wording(w[1], w[2], n, e, 1, o[1], o[2]) :
     w \in {<<{GTEnd}, FALSE>>, <<{LTEnd}, FALSE>>, <<{GTAny}, FALSE>>, <<{LTAny}, FALSE>>,
            <<{}, TRUE>>, <<{GTEnd, GTAny}, FALSE>>},
     n \in {<<60>>, <<70>>, <<0, 70>>, <<60, 70>>}, e \in {3, 4},
     o \in {Asked(98, 99), Shown(96, 99)}}
Again == {Wording({w}, FALSE, n, 4, v, Both(98, 99), Both(98, 98)) :
            w \in {GTEnd, LTAny}, n \in {<<60>>, <<70>>}, v \in {1, 2}}
Pairs == (Wordings \X Wordings) \union (Again \X Again \X Again)
Paths == [3..4 -> {110, 120, 130, 140, 150}]

Levels == {R!NoLevel, R!MakeLevel(0), R!MakeLevel(90), R!MakeLevel(170), R!MakeLevel(196),
           R!ParseBook(R!NoLevel, {178, 180}, {184, 186}),
           R!ParseBook(R!NoLevel, {192}, {194}), R!ParseBook(R!NoLevel, {90}, {}),
           R!ParsePriceChange(R!NoLevel, "", 176),
           R!ParsePriceChange(R!MakeLevel(90), "BUY", 92)}
Quotes ==
  [yes : {R!LevelOf(l, 90) : l \in Levels}, no : Levels, hours : {3, 30}, volume : {300, 6000},
   words : {{"Politics", "Esports_Prop"}, {"Politics", "Esports_Match"}}, depth : {4, 10},
   lastTrade : {-1, 0, 60}, listed : {-1, 100}]

SignalRow(id, created, resolvedAt, pnl, entry, market) ==
  [id |-> id, created |-> created, resolved |-> resolvedAt # P!Never, resolvedAt |-> resolvedAt,
   pnl |-> IF resolvedAt = P!Never THEN P!Unknown ELSE pnl, entry |-> entry, market |-> market,
   question |-> market, sector |-> IF market = "m" THEN "Politics" ELSE "Other",
   coarse |-> "Other", strategy |-> IF entry > 90 THEN "LS" ELSE "LC",
   status |-> IF entry > 90 THEN "matched" ELSE "skipped"]
Rows == {<<SignalRow(1, 1, a, p, 95, m), SignalRow(2, 2, b, q, e, "m"), SignalRow(3, 3, c, q, 89, k)>> :
           a \in {P!Never, 2, 5}, b \in {P!Never, 3, 5}, c \in {P!Never, 4, 6},
           p \in {-10, 2, P!Unknown}, q \in {-10, 5}, e \in {0, 92}, m \in {"m", "n"}, k \in {"m", "n"}}

FadeCfg == [lookback |-> 2, rel |-> 130, abs |-> 150, lo |-> 50, hi |-> 5000, cooldown |-> 4,
            retrace |-> 75, stop |-> 10, timeout |-> 3, bandLo |-> 500, bandHi |-> 1500,
            dwell |-> 70, minSpikes |-> 1, window |-> 2, keep |-> 1, throttle |-> 1,
            glitch |-> 1000, seed |-> 3, minAge |-> 1, ratio |-> 100]
Paced(t, c) == {<<[i \in 1..6 |-> [ts |-> t[i], price |-> p[i]]], c>> : p \in [1..6 -> {600, 700, 1000, 2000}]}
Curves == Paced(<<11, 12, 13, 14, 15, 16>>, FadeCfg)
          \union Paced(<<11, 13, 14, 14, 18, 19>>, [FadeCfg EXCEPT !.cooldown = 1, !.timeout = 2, !.stop = 20])

Ladders == {SortSeq(SetToSeq({<<p, f[p]>> : p \in DOMAIN f}), LAMBDA u, v : u[1] < v[1]) :
              f \in UNION {[s -> {20, 60}] : s \in SUBSET {9000, 9200, 9260, 9300}}}
OpenFades == SUBSET {[cid |-> "a", since |-> 1, entry |-> 1000, target |-> 700, mid |-> 900],
                     [cid |-> "b", since |-> 1, entry |-> 2000, target |-> 950, mid |-> 1600],
                     [cid |-> "c", since |-> 9, entry |-> 800, target |-> 650, mid |-> 600],
                     [cid |-> "d", since |-> 2, entry |-> 800, target |-> 650, mid |-> D!NoPrice]}
Orders == {D!BuildSignal(600, e, 5, FadeCfg) : e \in {800, 1000, 2000}} \X Ladders \X {40, 80}
          \X {D!NoPrice, 800, 1100} \X OpenFades

FadeRow(id, shares, exit, since, until, status) ==
  [id |-> id, market |-> IF id = 2 THEN "n" ELSE "m", shares |-> shares, entry |-> 20, exit |-> exit,
   since |-> since, until |-> until, status |-> status, reason |-> IF exit < 20 THEN "target" ELSE "stop"]
FadeRows(id) ==
  {FadeRow(id, s, x[1], x[2], x[3], x[4]) : s \in {1, 3},
     x \in {<<10, 1, 2, "closed">>, <<30, 1, 3, "closed">>, <<30, 2, 3, "closed">>, <<10, 2, 2, "closed">>,
            <<W!Unset, 1, 2, "closed">>, <<W!Unset, 2, 0, "open">>}}
Fades == {{a, b, c} : a \in FadeRows(1), b \in FadeRows(2), c \in FadeRows(3)}
ChartsOf(c, cfg) == [p \in {c, SubSeq(c, 1, 3)} |-> D!ComputeChart(p, cfg, 4)]
KeptBefore(c, cfg) == {<<>>, [pts |-> SubSeq(c, 1, 3), chart |-> <<>>],
                       [pts |-> SubSeq(c, 1, 3), chart |-> ChartsOf(c, cfg)[SubSeq(c, 1, 3)]]}

Questions(p) == CASE p = "pairs" -> {<<q>> : q \in Pairs}
                  [] p = "rules" -> Quotes \X {60, 120} \X {"YES", "NO"}
                  [] p = "curve" -> Curves
                  [] p = "orders" -> Orders
                  [] p = "fades" -> {<<q>> : q \in Fades}
                  [] p = "rows"  -> Rows \X {60, 90, 120}
                  [] OTHER       -> {<<>>}

-------------------------------------------------------------------------------
MCInit == /\ part \in {"passes", "stream", "bars", "scan", "fills", "pairs", "rules", "rows", "curve", "orders", "fades"}
          /\ ServicesInit /\ question \in Questions(part)
MCNext == ServicesNext /\ question' = question
MCSpec == MCInit /\ [][MCNext]_<<servicesVars, question>>

-------------------------------------------------------------------------------
\* What a Polymarket row is booked with is what its shares earned, a pair pays
\* what it promised on every path of prices, and the pages add up to the rows
\* (see LogicArb, PolyRules and PolyReports); the fade engine decides on its
\* prices what the study decides on the curve (see FadeRules). What a row of
\* forward_trades says was earned moves with the fills of its own orders only
\* (see TradeFills).
EarningsAreReal ==
    /\ part = "fills" => T!ResultsAreOwn /\ T!ClosingKeepsTotal
    /\ part = "pairs" => L!PairsPay(question[1], 2, FALSE, Paths)
    /\ part = "rules" => R!PnlIsPayoff(question[1], question[2], question[3])
    /\ part = "curve" => /\ D!ReplayIsLive(question[1], question[2])
                         /\ D!BufferIsCurve(SubSeq(question[1], 1, 2), SubSeq(question[1], 3, 6), question[2])
                         /\ \A before \in KeptBefore(question[1], question[2]), token \in {"", "yes"} :
                              W!ShownIsKept(before, token, question[1],
                                            ChartsOf(question[1], question[2]))
    /\ part = "fades" => W!LedgerAddsUp(question[1])
    /\ part = "orders" => D!OrdersLeaveGain(question[1], question[2], question[3], question[4],
                                            question[5], 9, FadeCfg)
    /\ part = "rows"  => P!ReportsAgree(question[1], question[2])
===============================================================================
