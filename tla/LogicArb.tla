------------------------------- MODULE LogicArb -------------------------------
(* Markets on thresholds of the Bitcoin price (logic_arb): which of them form  *)
(* a ladder, which pair of a YES and a NO is a sure gain, and what is booked.  *)
(* Prices are counted in half cents, a share that wins pays Dollar; thresholds *)
(* in thousands. Of a wording there is which kinds of words it contains, and   *)
(* the numbers in it. Nothing here keeps state.                                *)
EXTENDS Integers, Sequences, FiniteSets, FiniteSetsExt, SequencesExt

Dollar      == 200
FeeBuffer   == 2
MinProfit   == 1
MinAskSize  == 20
HalfSpread  == 1
NoAsk       == -1

GT == "GT"
LT == "LT"
RANGE == "RANGE"
TERMINAL == "TERMINAL"
TOUCH == "TOUCH"
NotParsed == [direction |-> "", lo |-> 0, hi |-> 0, basis |-> ""]

-------------------------------------------------------------------------------
(* Wordings and ladders.                                                       *)

\* A number is taken for a threshold between a thousand and ten millions.
ToValue(v)     == v >= 1 /\ v <= 10000
MoneyValues(q) == SelectSeq(q.numbers, ToValue)

Matches(q) == {m \in {<<GT, TERMINAL>>, <<LT, TERMINAL>>, <<GT, TOUCH>>, <<LT, TOUCH>>} :
                 m \in q.words}

ParseThreshold(q) ==
  LET vals == MoneyValues(q) IN
    CASE ~q.btc \/ vals = <<>> -> NotParsed
      [] q.btc /\ q.between /\ Len(vals) >= 2 ->
           IF vals[1] = vals[2] THEN NotParsed
           ELSE [direction |-> RANGE, lo |-> Min({vals[1], vals[2]}),
                 hi |-> Max({vals[1], vals[2]}), basis |-> TERMINAL]
      [] OTHER ->
           IF Cardinality(Matches(q)) # 1 THEN NotParsed
           ELSE LET m == CHOOSE m \in Matches(q) : TRUE
                IN  [direction |-> m[1], lo |-> vals[1], hi |-> 0, basis |-> m[2]]

\* markets is a sequence: the one Polymarket lists first comes first.
LadderMarkets(markets) ==
  {i \in DOMAIN markets : /\ ParseThreshold(markets[i]) # NotParsed
                          /\ markets[i].tokens}

\* Python rounds halves to the even neighbour.
Round(a, b) == LET q == a \div b
                   r == 2 * (a % b)
               IN  IF r > b \/ (r = b /\ q % 2 = 1) THEN q + 1 ELSE q

Key(m, tol, sameSlug) ==
  LET s == ParseThreshold(m)
  IN  <<s.direction, s.basis, Round(m.end, Max({tol, 1})), IF sameSlug THEN m.slug ELSE "">>

\* Of the markets of a ladder on one threshold the one traded most is kept, the
\* first of equals.
Unique(markets, S) ==
  {i \in S : \A j \in S \ {i} :
     ParseThreshold(markets[j]).lo = ParseThreshold(markets[i]).lo =>
       \/ markets[i].volume > markets[j].volume
       \/ markets[i].volume = markets[j].volume /\ i < j}

GroupLadders(markets, tol, sameSlug) ==
  LET key(i) == Key(markets[i], tol, sameSlug)
      group(k) == Unique(markets, {i \in LadderMarkets(markets) : key(i) = k})
  IN  {[direction |-> k[1], basis |-> k[2], members |-> group(k),
        end |-> Min({markets[i].end : i \in group(k)})] :
          k \in {q \in {key(i) : i \in LadderMarkets(markets)} : Cardinality(group(q)) >= 2}}

-------------------------------------------------------------------------------
(* Pairs that pay at least a dollar.                                           *)

\* The best offer the stream told of, else the listed price and half a spread.
AskOf(m, side) == IF m.book[side] # NoAsk THEN m.book[side]
                  ELSE IF m.listed[side] = NoAsk THEN NoAsk
                  ELSE m.listed[side] + HalfSpread

\* As if claims from above and from below were nested the same way.
NestedSwapped(direction, a, b) == [sup |-> a, sub |-> b]
\* The market of the wider and of the narrower claim of two thresholds a < b.
Nested(direction, a, b) == IF direction = GT THEN [sup |-> a, sub |-> b]
                           ELSE [sup |-> b, sub |-> a]

NestedPairs(markets, ladder) ==
  IF ladder.direction \notin {GT, LT} THEN {}
  ELSE LET lo(i) == ParseThreshold(markets[i]).lo
           pair(i, j) == Nested(ladder.direction, i, j)
           yes(p) == AskOf(markets[p.sup], "YES")
           no(p)  == AskOf(markets[p.sub], "NO")
           all == {pair(ij[1], ij[2]) : ij \in {ij \in ladder.members \X ladder.members :
                                                  lo(ij[1]) < lo(ij[2])}}
       IN  {[kind |-> "nested_pair", end |-> ladder.end, sup |-> p.sup, sub |-> p.sub,
             volume |-> Min({markets[p.sup].volume, markets[p.sub].volume})] :
              p \in {p \in all : /\ yes(p) # NoAsk /\ no(p) # NoAsk
                                 /\ Dollar - (yes(p) + no(p)) - FeeBuffer >= MinProfit}}

\* Ranges that touch one another are never taken for a partition: nothing tells
\* that they reach to both ends.
Partition(markets, ladder) == {}

ScanLadder(markets, ladder) == NestedPairs(markets, ladder) \union Partition(markets, ladder)

\* What two books say when they are asked again, one after the other.
ConfirmLeg(book) == book.ask # NoAsk /\ book.size >= MinAskSize

NoSignal == [yes_price |-> NoAsk, no_price |-> NoAsk, pair_cost |-> NoAsk, side |-> "",
             event_end |-> 0]
ConfirmAndEmit(arb, yesBook, noBook) ==
  LET cost == yesBook.ask + noBook.ask IN
    IF /\ ConfirmLeg(yesBook) /\ ConfirmLeg(noBook)
       /\ Dollar - cost - FeeBuffer >= MinProfit
    THEN [yes_price |-> yesBook.ask, no_price |-> noBook.ask, pair_cost |-> cost,
          side |-> "BOTH", event_end |-> arb.end]
    ELSE NoSignal

-------------------------------------------------------------------------------
(* What such a pair earns.                                                     *)

\* The outcome of a market on a path of prices, by the rule in its wording. A
\* path gives the price at every moment up to the end of the last market.
Wins(m, path) ==
  LET s == ParseThreshold(m)
      reached(t) == IF s.direction = GT THEN path[t] >= 2 * s.lo ELSE path[t] <= 2 * s.lo
      beyond(t)  == IF s.direction = GT THEN path[t] > 2 * s.lo ELSE path[t] < 2 * s.lo
  IN  IF s.basis = TOUCH THEN \E t \in DOMAIN path : t <= m.end /\ reached(t)
      ELSE beyond(m.end)

Payoff(markets, arb, path) ==
  (IF Wins(markets[arb.sup], path) THEN Dollar ELSE 0)
    + (IF Wins(markets[arb.sub], path) THEN 0 ELSE Dollar)

\* The two claims are about the same days, or the wider one has longer to come true.
Comparable(markets, arb) ==
  \/ markets[arb.sup].end = markets[arb.sub].end
  \/ /\ ParseThreshold(markets[arb.sup]).basis = TOUCH
     /\ markets[arb.sup].end >= markets[arb.sub].end

Arbs(markets, tol, sameSlug) ==
  UNION {ScanLadder(markets, l) : l \in GroupLadders(markets, tol, sameSlug)}

\* Whatever the price does, a pair that is booked pays at least its price, the
\* fee and the least gain, which is what the resolver later books for it
\* (signal.py:11, "min payoff 1"); and no row is resolved after both its
\* markets have ended and one of them is still open.
PairsPay(markets, tol, sameSlug, paths) ==
  \A arb \in Arbs(markets, tol, sameSlug) :
     LET row == ConfirmAndEmit(arb, [ask |-> AskOf(markets[arb.sup], "YES"), size |-> MinAskSize],
                                    [ask |-> AskOf(markets[arb.sub], "NO"), size |-> MinAskSize])
     IN  /\ row # NoSignal
         /\ Comparable(markets, arb) =>
              \A path \in paths : Payoff(markets, arb, path) >= row.pair_cost + FeeBuffer + MinProfit
===============================================================================
