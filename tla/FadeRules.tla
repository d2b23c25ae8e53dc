------------------------------- MODULE FadeRules -------------------------------
(* The rules of the fade strategy: what a spike is, the levels of a position,  *)
(* the replay of a curve and the shape of its spikes, the buffer of prices the *)
(* running engine keeps, the slot that is given up and the price an order is   *)
(* sent with. A point is [ts, price], a curve a sequence of points in the      *)
(* order of their times. Prices are in hundredths of a cent, as the code       *)
(* rounds them, ratios and percentages of cfg in percent. Nothing here keeps   *)
(* state; FadeEngine has the engine's tasks.                                   *)
EXTENDS Integers, Sequences, FiniteSets, FiniteSetsExt, SequencesExt

Dollar == 10000
NoPrice == -1
Least(i, j) == IF i < j THEN i ELSE j
Most(i, j)  == IF i > j THEN i ELSE j
Round(a, b) == (2 * a + b) \div (2 * b)

-------------------------------------------------------------------------------
(* Spikes on a curve.                                                          *)

\* The last point at or before t, 0 if there is none.
LastUpTo(pts, t) == Max({0} \union {i \in DOMAIN pts : pts[i].ts <= t})

Jumps(p0, px, cfg) == /\ p0 \in cfg.lo .. cfg.hi
                      /\ 100 * px >= p0 * cfg.rel /\ px - p0 >= cfg.abs

\* faulty variant: the point before is the base, however short a time ago
BasePrevious(pts, i, cfg) == i - 1
Base(pts, i, cfg) == LastUpTo(pts, pts[i].ts - cfg.lookback)
IsSpike(pts, i, cfg) ==
  LET j == Base(pts, i, cfg) IN j # 0 /\ Jumps(pts[j].price, pts[i].price, cfg)

Spikes(pts, cfg) ==
  FoldLeft(LAMBDA found, i :
             IF IsSpike(pts, i, cfg)
                /\ (found = <<>> \/ pts[i].ts - pts[Last(found)].ts >= cfg.cooldown)
             THEN Append(found, i) ELSE found,
           <<>>, [i \in DOMAIN pts |-> i])

\* The newest point; on a curve that is too short the first point is the base.
LatestStatus(pts, cfg) ==
  LET n == Len(pts)
      p0 == pts[Most(Base(pts, n, cfg), 1)].price
      px == pts[n].price
  IN  [p0 |-> p0, price |-> px, rise |-> IF p0 = 0 THEN -1000 ELSE Round(1000 * (px - p0), p0),
       spike |-> Jumps(p0, px, cfg)]

Dwell(pts, cfg) == Cardinality({i \in DOMAIN pts : pts[i].price \in cfg.bandLo .. cfg.bandHi})
Evaluate(pts, cfg) ==
  /\ pts # <<>> /\ 100 * Dwell(pts, cfg) >= cfg.dwell * Len(pts)
  /\ Len(Spikes(pts, [cfg EXCEPT !.lo = cfg.bandLo, !.hi = cfg.bandHi])) >= cfg.minSpikes

-------------------------------------------------------------------------------
(* The levels of a position, and when it is closed.                            *)

Target(p0, px, cfg) == px - (cfg.retrace * (px - p0)) \div 100
Stop(px, cfg)       == px + (cfg.stop * (Dollar - px)) \div 100
BuildSignal(p0, px, ts, cfg) ==
  [p0 |-> p0, entry |-> px, target |-> Target(p0, px, cfg), stop |-> Stop(px, cfg),
   timeout |-> ts + cfg.timeout]

None == <<NoPrice, "open">>
CheckExit(px, now, pos) ==
  CASE px <= pos.target   -> <<pos.target, "target">>
    [] px > pos.target /\ px >= pos.stop -> <<pos.stop, "stop">>
    [] px > pos.target /\ px < pos.stop /\ now >= pos.timeout -> <<px, "timeout">>
    [] OTHER              -> None

-------------------------------------------------------------------------------
(* fade_sim: the replay of one curve, one position at a time.                  *)

Reached(p, pos, cfg) == p.price <= pos.target \/ (cfg.stop > 0 /\ p.price >= pos.stop)

\* faulty variant: the stop is left out
EndAtTarget(pts, i, pos, cfg) ==
  Min({Len(pts) + 1} \union {k \in i .. Len(pts) : pts[k].ts > pos.timeout
                                                  \/ pts[k].price <= pos.target})
End(pts, i, pos, cfg) ==
  Min({Len(pts) + 1} \union {k \in i .. Len(pts) : pts[k].ts > pos.timeout
                                                  \/ Reached(pts[k], pos, cfg)})

Return(px, exit) == IF px < Dollar THEN Round(10000 * (px - exit), Dollar - px) ELSE 0

Trade(pts, i, cfg) ==
  LET pos == BuildSignal(pts[Base(pts, i, cfg)].price, pts[i].price, pts[i].ts, cfg)
      k   == End(pts, i, pos, cfg)
      late == k > Len(pts) \/ pts[k].ts > pos.timeout
      at  == IF late THEN Most(k - 1, i) ELSE k
      why == CASE k > Len(pts)          -> "held"
               [] k <= Len(pts) /\ late -> "timeout"
               [] ~late /\ pts[k].price <= pos.target -> "target"
               [] OTHER                 -> "stop"
      exit == CASE why = "target" -> pos.target [] why = "stop" -> pos.stop
                [] OTHER -> pts[at].price
  IN  [from |-> i, at |-> at, reason |-> why, pos |-> pos, exit |-> exit,
       hold |-> pts[at].ts - pts[i].ts, ret |-> Return(pos.entry, exit)]

FadeSim(pts, cfg) ==
  FoldLeft(LAMBDA trades, i :
             IF trades # <<>> /\ i <= Last(trades).at THEN trades
             ELSE Append(trades, Trade(pts, i, cfg)),
           <<>>, Spikes(pts, cfg))

SimSummary(trades) ==
  LET rets == [i \in DOMAIN trades |-> trades[i].ret]
      sum  == FoldLeft(+, 0, rets)
  IN  [n |-> Len(rets), wins |-> Cardinality({i \in DOMAIN rets : rets[i] > 0}),
       worst |-> IF rets = <<>> THEN NoPrice ELSE Min({rets[i] : i \in DOMAIN rets}), total |-> sum]

\* spike_shape: how a spike rose and how it came back.
SpikeShape(pts, i, p0, window) ==
  LET near  == {k \in i .. Len(pts) : pts[k].ts <= pts[i].ts + window}
      high  == Max({pts[k].price : k \in near})
      pk    == Max({k \in near : pts[k].price = high})
      amp   == high - p0
      calm  == {k \in 1 .. i : 100 * pts[k].price <= 105 * p0}
      up    == Most(1, pts[pk].ts - pts[IF calm = {} THEN i ELSE Max(calm)].ts)
      low   == Min({pts[k].price : k \in pk .. Len(pts)})
      half  == {k \in pk .. Len(pts) : 2 * pts[k].price <= 2 * high - amp}
      rev   == IF half = {} THEN Len(pts) ELSE Min(half)
      down  == pts[rev].ts - pts[pk].ts
      falls == Cardinality({k \in pk .. rev - 1 : pts[k + 1].price <= pts[k].price + 50})
      back  == IF amp > 0 THEN Least(high - low, amp) ELSE 0
  IN  [peak |-> high, at |-> pk, amplitude |-> amp, up |-> up, down |-> down,
       halved |-> half # {}, back |-> back,
       clean |-> amp >= 300 /\ 10 * back >= 6 * amp /\ 2 * down >= 3 * up
                 /\ (rev > pk => 10 * falls >= 7 * (rev - pk))]

\* The points of a curve that are drawn: all, or about n of them, the last one
\* and those that must not be lost.
Drawn(pts, n, kept) ==
  IF Len(pts) <= n THEN DOMAIN pts
  ELSE {1 + (i * Len(pts)) \div n : i \in 0 .. n - 1} \union {Len(pts)} \union kept

ComputeChart(pts, cfg, n) == [curve |-> Drawn(pts, n, {}), spikes |-> Spikes(pts, cfg)]

MarketDetail(pts, cfg, n) ==
  LET spikes == Spikes(pts, cfg)
      shape(i) == SpikeShape(pts, i, pts[Base(pts, i, cfg)].price, cfg.window)
      shapes == [s \in DOMAIN spikes |-> shape(spikes[s])]
  IN  [curve |-> Drawn(pts, n, UNION {{spikes[s], shapes[s].at} : s \in DOMAIN spikes}),
       spikes |-> shapes,
       big    |-> Cardinality({s \in DOMAIN shapes : shapes[s].amplitude >= 300}),
       clean  |-> Cardinality({s \in DOMAIN shapes : shapes[s].clean}),
       sim    |-> FadeSim(pts, cfg)]

-------------------------------------------------------------------------------
(* The buffer of the running engine: hist, the price that waits to be seen     *)
(* again, and the time of the last tick that was looked at.                    *)

SeedHist(pts, cfg) ==
  [hist |-> SubSeq(pts, Most(1, Len(pts) - cfg.seed + 1), Len(pts)), pending |-> NoPrice, last |-> 0]

Unconfirmed(buf, mid, cfg) ==
  /\ buf.hist # <<>> /\ buf.pending # mid
  /\ LET prev == Last(buf.hist).price IN Most(mid - prev, prev - mid) >= cfg.glitch

\* faulty variant: everything before the cutoff goes
TrimAll(hist, cutoff) == SelectSeq(hist, LAMBDA p : p.ts >= cutoff)
Trim(hist, cutoff) ==
  LET old == {i \in DOMAIN hist : \A j \in 1 .. i : hist[j].ts < cutoff}
  IN  SubSeq(hist, Most(1, Cardinality(old)), Len(hist))

OnUpdate(buf, tick, cfg) ==
  CASE tick.ts - buf.last < cfg.throttle -> buf
    [] tick.ts - buf.last >= cfg.throttle /\ Unconfirmed(buf, tick.price, cfg) ->
         [buf EXCEPT !.last = tick.ts, !.pending = tick.price]
    [] OTHER -> [hist |-> Trim(Append(buf.hist, tick), tick.ts - (cfg.lookback + cfg.keep)),
                 pending |-> NoPrice, last |-> tick.ts]

MidLookbackAgo(hist, now, cfg) ==
  LET j == LastUpTo(hist, now - cfg.lookback) IN IF j = 0 THEN NoPrice ELSE hist[j].price

\* _record_live, and the same test before an entry: the price is the bid.
LiveSpike(hist, bid, cfg) ==
  LET p0 == MidLookbackAgo(hist, Last(hist).ts, cfg)
  IN  p0 # NoPrice /\ bid # NoPrice /\ Jumps(p0, bid, cfg)

-------------------------------------------------------------------------------
(* Slots and prices of orders. A position here is [cid, since, entry, target,  *)
(* mid], mid = NoPrice without a price.                                        *)

\* What is earned to the target, as a pair <<numerator, denominator>>.
Upside(p0, px, cfg) == IF px >= Dollar THEN <<0, 1>>
                       ELSE <<(cfg.retrace * (px - p0)) \div 100, Dollar - px>>
RemainingUpside(pos) == IF pos.entry >= Dollar THEN <<0, 1>>
                        ELSE <<Most(0, pos.mid - pos.target), Dollar - pos.entry>>
Below(u, v) == u[1] * v[2] < v[1] * u[2]

\* faulty variant: the position with the most left to earn goes
AboveAll(known) == {p \in known : \A q \in known : ~Below(RemainingUpside(p), RemainingUpside(q))}
Weakest(known) == {p \in known : \A q \in known : ~Below(RemainingUpside(q), RemainingUpside(p))}

\* The positions one of which is closed for the new one; {} refuses it.
FreeSlotFor(open, new, now, gain, cfg) ==
  LET known == {p \in open : now - p.since >= cfg.minAge /\ p.mid # NoPrice}
  IN  {p \in Weakest(known) : /\ \A q \in open : q.cid # new
                              /\ LET rem == RemainingUpside(p)
                                 IN  ~Below(gain, <<rem[1] * cfg.ratio, rem[2] * 100>>)}

\* _fill_price: book is the ladder of the side, the best price first, each
\* <<price, shares>>; ref the best price of the other outcome.
Within(p, side, worst) == worst = NoPrice \/ (IF side = "buy" THEN p <= worst ELSE p >= worst)
Deep(book, shares) ==
  Min({Len(book)} \union {k \in DOMAIN book : FoldLeft(LAMBDA s, l : s + l[2], 0, SubSeq(book, 1, k)) >= shares})
FillPrice(book, shares, side, ref, yesPx, worst) ==
  LET p == CASE book # <<>> -> book[Deep(book, shares)][1]
             [] book = <<>> /\ ref # NoPrice -> Dollar - ref
             [] OTHER -> Dollar - yesPx
  IN  IF Within(p, side, worst) THEN p ELSE NoPrice

\* faulty variant: the limit is the target itself
WorstAtTarget(pos) == Dollar - pos.target
WorstBuy(pos) == (Dollar - pos.target) - (pos.entry - pos.target) \div 2
EntryPrice(pos, book, size, ref) ==
  FillPrice(book, Round(size * Dollar, Most(Dollar - pos.entry, 100)), "buy", ref, pos.entry, WorstBuy(pos))

-------------------------------------------------------------------------------
(* Properties.                                                                 *)

\* The first point after i at which the engine would close the position.
LiveEnd(pts, i, pos) ==
  Min({Len(pts) + 1} \union {k \in i .. Len(pts) : CheckExit(pts[k].price, pts[k].ts, pos) # None})

\* The replay and the engine close a position for the same reason at the same
\* price, save at its end: the engine looks at the price first. (fade_sim,
\* check_exit)
ClosesAsLive(pts, trade) ==
  LET k == LiveEnd(pts, trade.from, trade.pos)
      live == CheckExit(pts[k].price, pts[k].ts, trade.pos)
  IN  CASE trade.reason \in {"target", "stop"} -> k = trade.at /\ live = <<trade.exit, trade.reason>>
        [] trade.reason = "timeout" -> k \in {trade.at, trade.at + 1} /\ pts[k].ts >= trade.pos.timeout
        [] OTHER -> k = Len(pts) + 1 \/ (k = Len(pts) /\ live = <<trade.exit, "timeout">>)

\* No two positions of a replay overlap, none earns more than its target or
\* loses more than its stop, and a curve the screener lets in has a spike the
\* engine would enter on. A point that halves a spike gives back half of it.
ReplayIsLive(pts, cfg) ==
  LET trades == FadeSim(pts, cfg)
  IN  /\ \A t \in DOMAIN trades :
           /\ ClosesAsLive(pts, trades[t])
           /\ trades[t].ret \in - 100 * cfg.stop .. Return(trades[t].pos.entry, trades[t].pos.target)
           /\ t > 1 => trades[t].from > trades[t - 1].at
      /\ SimSummary(trades).total <= Len(trades) * 10000
      /\ Evaluate(pts, cfg) => Spikes(pts, cfg) # <<>>
      /\ LET d == MarketDetail(pts, cfg, 4)
         IN  /\ \A s \in DOMAIN d.spikes : /\ d.spikes[s].halved <=> 2 * d.spikes[s].back >= d.spikes[s].amplitude
                                           /\ d.spikes[s].at \in d.curve
             /\ Len(pts) \in ComputeChart(pts, cfg, 4).curve /\ d.clean <= d.big

\* All the ticks the engine takes, in turn, with nothing cut off.
Taken(seed, ticks, cfg) ==
  FoldLeft(LAMBDA acc, t :
             LET buf == OnUpdate(acc.buf, t, cfg)
                 all == IF buf # acc.buf /\ buf.pending = NoPrice THEN Append(acc.all, t) ELSE acc.all
             IN  [buf |-> buf, all |-> all,
                  ok  |-> acc.ok /\ MidLookbackAgo(buf.hist, t.ts, cfg) = MidLookbackAgo(all, t.ts, cfg)],
           [buf |-> SeedHist(seed, cfg), all |-> SeedHist(seed, cfg).hist, ok |-> TRUE], ticks)

\* What the engine decides on its cut buffer is what the study decides on the
\* whole curve, and a bid is never a spike where the mid is not. (_on_update,
\* _record_live, detect_spikes)
BufferIsCurve(seed, ticks, cfg) ==
  LET t == Taken(seed, ticks, cfg)
      n == Len(t.all)
  IN  /\ t.ok
      /\ n > 0 => /\ LiveSpike(t.buf.hist, t.all[n].price, cfg) <=> IsSpike(t.all, n, cfg)
                  /\ \A bid \in {NoPrice, t.all[n].price - 200, t.all[n].price} :
                       LiveSpike(t.buf.hist, bid, cfg) => IsSpike(t.all, n, cfg)
                  /\ n > 1 /\ LatestStatus(t.all, cfg).spike /\ ~IsSpike(t.all, n, cfg)
                       => LastUpTo(t.all, t.all[n].ts - cfg.lookback) = 0

\* An order for a new position leaves at least half of the way to its target,
\* and is sent whenever the asks within that limit cover it; a slot is only
\* given up for a signal that promises no less than any position has left.
OrdersLeaveGain(pos, book, size, ref, open, now, cfg) ==
  LET p == EntryPrice(pos, book, size, ref)
      shares == Round(size * Dollar, Most(Dollar - pos.entry, 100))
      cheap == SelectSeq(book, LAMBDA l : 2 * ((Dollar - pos.target) - l[1]) >= pos.entry - pos.target)
      gain == Upside(pos.p0, pos.entry, cfg)
  IN  /\ p # NoPrice => 2 * ((Dollar - pos.target) - p) >= pos.entry - pos.target
      /\ FoldLeft(LAMBDA s, l : s + l[2], 0, cheap) >= shares /\ cheap # <<>> => p # NoPrice
      /\ \A o \in FreeSlotFor(open, "new", now, gain, cfg) :
           \A q \in open : now - q.since >= cfg.minAge /\ q.mid # NoPrice
                             => ~Below(RemainingUpside(q), RemainingUpside(o))
===============================================================================
