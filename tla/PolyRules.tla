------------------------------- MODULE PolyRules -------------------------------
(* When a market is worth a row to the strategies late_convergence,            *)
(* latency_snipe, pair_hedge and bayesian_fomc, which columns the row gets,    *)
(* which order is placed for it, and what the resolver books when the market   *)
(* is over. Prices are counted in half cents (a share that wins pays Dollar),  *)
(* shares in hundredths. Nothing here keeps state.                             *)
EXTENDS Integers, Sequences, FiniteSets, FiniteSetsExt

Dollar == 200
None   == -1
\* `or` passes over a price of zero as over one that is missing.
Or(a, b) == IF a > 0 THEN a ELSE b

-------------------------------------------------------------------------------
(* Price levels: what the stream told of a token, or else the listed price.    *)

NoLevel == [bid |-> None, ask |-> None, mid |-> None, last |-> None]

RefreshMid(l) == IF l.bid > 0 /\ l.ask > 0 THEN [l EXCEPT !.mid = (l.bid + l.ask) \div 2] ELSE l

ParseBook(l, buys, sells) ==
  RefreshMid([l EXCEPT !.bid = IF buys # {} THEN Max(buys) ELSE @,
                       !.ask = IF sells # {} THEN Min(sells) ELSE @])

ParsePriceChange(l, side, p) ==
  RefreshMid(CASE side = "BUY"  -> [l EXCEPT !.bid = p]
               [] side = "SELL" -> [l EXCEPT !.ask = p]
               [] OTHER         -> [l EXCEPT !.last = p])

MakeLevel(price) == IF price = None THEN NoLevel
                    ELSE [bid |-> None, ask |-> price, mid |-> price, last |-> price]

\* A token the stream knows is priced by the stream alone.
LevelOf(streamed, listed) == IF streamed # NoLevel THEN streamed ELSE MakeLevel(listed)

-------------------------------------------------------------------------------
(* Sectors: the first rule with a matching pattern.                            *)

SectorOrder == <<"Esports_Prop", "Esports_Match", "Sports_Prop", "Sports_Match", "Politics",
                 "Economics", "Crypto", "Weather", "Entertainment">>
Allowed == {"Esports_Prop", "Sports_Match", "Politics", "Economics"}
\* words: the sectors that have a pattern which occurs in the question.
ClassifySector(words) ==
  IF \A i \in DOMAIN SectorOrder : SectorOrder[i] \notin words THEN "Other"
  ELSE SectorOrder[Min({i \in DOMAIN SectorOrder : SectorOrder[i] \in words})]
SectorAllowed(words) == ClassifySector(words) \in Allowed

-------------------------------------------------------------------------------
(* The rows. cost is the column pair_cost, gain what the signal promised.      *)

NoRow == [strategy |-> "", side |-> "", yes |-> None, no |-> None, cost |-> None, gain |-> 0]
\* As if the price had one column for both sides.
SidedYes(strategy, side, price, cost, gain) ==
  [strategy |-> strategy, side |-> side, yes |-> price, no |-> None, cost |-> cost, gain |-> gain]
Sided(strategy, side, price, cost, gain) ==
  [strategy |-> strategy, side |-> side, yes |-> IF side = "YES" THEN price ELSE None,
   no |-> IF side = "NO" THEN price ELSE None, cost |-> cost, gain |-> gain]

\* late_convergence: a side between 80 and 97 cents in the last day, YES first.
BestPrice(l)   == Or(l.ask, Or(l.mid, l.last))
LateInBand(p)  == p >= 160 /\ p <= 194
LateConvergence(m) ==
  LET yes == BestPrice(m.yes)
      no  == BestPrice(m.no)
  IN  CASE m.hours < 0 \/ m.hours > 24 \/ m.volume < 5000 \/ ~SectorAllowed(m.words) -> NoRow
        [] OTHER -> IF LateInBand(yes) THEN Sided("LC", "YES", yes, None, Dollar - yes)
                    ELSE IF LateInBand(no) THEN Sided("LC", "NO", no, None, Dollar - no)
                    ELSE NoRow

\* latency_snipe: the offer of a side between 85 and 98.5 cents. The row can be
\* sold again if the bid is 96 cents and both sizes (in dollars) are enough.
SnipeLeg(l)   == l.ask # None /\ l.ask >= 170 /\ l.ask <= 197
Sellable(m)   == LET l == IF SnipeLeg(m.yes) THEN m.yes ELSE m.no
                 IN  l.bid # None /\ l.bid >= 192 /\ m.depth >= 5
LatencySnipe(m) ==
  IF m.volume < 200 \/ m.volume >= 50000 THEN NoRow
  ELSE IF SnipeLeg(m.yes) THEN Sided("LS", "YES", m.yes.ask, m.yes.bid, Dollar - m.yes.ask)
  ELSE IF SnipeLeg(m.no) THEN Sided("LS", "NO", m.no.ask, m.no.bid, Dollar - m.no.ask)
  ELSE NoRow
Verdict(m) == IF LatencySnipe(m) = NoRow THEN "reject"
              ELSE IF Sellable(m) THEN "SIGNAL" ELSE "signal-hold"

\* pair_hedge: both sides together under 97 cents; two prices of zero fail on
\* the division by their sum.
PairAsk(l) == IF l.ask # None THEN l.ask ELSE IF l.mid # None THEN l.mid + 1 ELSE None
PairHedge(m) ==
  LET yes == PairAsk(m.yes)
      no  == PairAsk(m.no)
  IN  IF m.volume < 5000 \/ yes = None \/ no = None \/ yes + no \notin 1..193
         \/ Dollar - (yes + no) < 1
      THEN NoRow
      ELSE [strategy |-> "PH", side |-> "BOTH", yes |-> yes, no |-> no, cost |-> yes + no,
            gain |-> Dollar - (yes + no)]

\* bayesian_fomc: the model is 8 points off the price.
BayesianFomc(m, model) ==
  LET p == Or(m.lastTrade, m.listed)
      side == IF model > p THEN "YES" ELSE "NO"
  IN  IF m.volume < 5000 \/ p = None \/ (model - p < 16 /\ p - model < 16) THEN NoRow
      ELSE [strategy |-> "BF", side |-> side, yes |-> p, no |-> Dollar - p, cost |-> None,
            gain |-> model - p]

-------------------------------------------------------------------------------
(* Orders: at least 1.02 dollars, or the shares asked for; an order refused as *)
(* too small is placed once more with the size the refusal names.              *)

CeilDiv(a, b) == (a + b - 1) \div b
MinOrder(price) == CeilDiv(20400, price)
PlaceOrder(price, shares, least) ==
  LET asked == IF shares > 0 THEN shares ELSE MinOrder(price)
  IN  IF asked >= least THEN asked ELSE least

-------------------------------------------------------------------------------
(* What the resolver books: a fraction of the stake.                           *)

CheckResolution(price) == IF price > 196 THEN "YES"
                          ELSE IF price >= 0 /\ price < 4 THEN "NO" ELSE "none"

NotBooked == [num |-> 0, den |-> 0]
ApplyResolution(row, outcome) ==
  LET entry == IF row.side = "YES" THEN row.yes ELSE row.no IN
    IF row.strategy \in {"PH", "LA"}
    THEN IF row.cost > 0 THEN [num |-> Dollar - row.cost, den |-> row.cost] ELSE NotBooked
    ELSE IF entry > 0
         THEN [num |-> IF row.side = outcome THEN Dollar - entry ELSE -entry, den |-> entry]
         ELSE NotBooked

-------------------------------------------------------------------------------
(* What the shares that the row stands for cost and pay.                       *)

\* The price of a side: what is asked for it, or without an offer an estimate.
Price(m, strategy, side) ==
  LET l == IF side = "YES" THEN m.yes ELSE m.no IN
    CASE strategy = "PH" -> PairAsk(m.yes) + PairAsk(m.no)
      [] strategy = "BF" -> IF side = "YES" THEN Or(m.lastTrade, m.listed)
                            ELSE Dollar - Or(m.lastTrade, m.listed)
      [] OTHER           -> BestPrice(l)
Payout(side, outcome) == IF side \in {outcome, "BOTH"} THEN Dollar ELSE 0

\* A row that is resolved is booked with what its shares paid over what they
\* cost; the gain it promised is the one it has if it wins; a row bought on a
\* price that was offered never promises to lose; and the least order for it
\* costs between 1.02 dollars and a cent's worth of shares more.
PnlIsPayoff(m, model, outcome) ==
  \A row \in {LateConvergence(m), LatencySnipe(m), PairHedge(m), BayesianFomc(m, model)} \ {NoRow} :
     LET booked == ApplyResolution(row, outcome)
         price  == Price(m, row.strategy, row.side)
     IN  /\ row.strategy # "BF" => booked # NotBooked
         /\ booked # NotBooked => /\ booked.den = price
                                  /\ booked.num = Payout(row.side, outcome) - price
         /\ row.strategy # "BF" => /\ row.gain > 0
                                   /\ row.side \in {outcome, "BOTH"} => booked.num = row.gain
         /\ row.strategy = "LC" => LET cost == PlaceOrder(price, 0, 0) * price
                                   IN  cost >= 20400 /\ cost < 20400 + price
===============================================================================
