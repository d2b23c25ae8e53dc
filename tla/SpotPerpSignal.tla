---------------------------- MODULE SpotPerpSignal ----------------------------
(* compute_signal of spot_perp_cvd: from the bars of the perpetual and of the  *)
(* spot market to a side and its levels, in every mode and with every filter.  *)
(* A bar is [cvd, vol]; the last bar of a sequence is still forming. CVD% is   *)
(* in percent, NaN where it cannot be computed. What ATR, ADX, the volume      *)
(* ratio and the EMA are is left open: ind gives their values. p holds the     *)
(* settings; a filter of 0 is off. SpotPerpCvd is the engine that acts on it.  *)
EXTENDS Integers, Sequences, FiniteSetsExt, SequencesExt

NaN == -9999
SignalModes == {"spread", "combined", "composite", "zscore", "divergence"}

\* A threshold of its own for one side, where the settings have one.
Own(threshold, default) == IF threshold = NaN THEN default ELSE threshold
SignalParams(sig) ==
  [sig EXCEPT !.longSpot = Own(@, sig.spot), !.longPerp = Own(@, sig.perp),
              !.shortSpot = Own(@, sig.spot), !.shortPerp = Own(@, sig.perp)]

Sum(bars, part(_)) ==
  LET upTo[i \in 0 .. Len(bars)] == IF i = 0 THEN 0 ELSE upTo[i - 1] + part(bars[i])
  IN  upTo[Len(bars)]

\* The window of lookback finished bars that ends shift bars ago.
CvdPct(bars, lookback, shift) ==
  LET n == Len(bars) - shift
      window == SubSeq(bars, n - lookback, n - 1)
      vol == Sum(window, LAMBDA b : b.vol)
  IN  IF n < lookback + 1 \/ vol <= 0 THEN NaN
      ELSE (100 * Sum(window, LAMBDA b : b.cvd)) \div vol

\* The last windows of both markets, the present one first; and their spreads, a
\* window without trades left out.
Windows(perp, spot, p) ==
  IF Min({Len(perp), Len(spot)}) < p.zPeriod + p.lookback + 2 THEN <<>>
  ELSE [k \in 1 .. p.zPeriod |-> <<CvdPct(spot, p.lookback, k - 1), CvdPct(perp, p.lookback, k - 1)>>]
Spreads(windows) ==
  FoldLeft(LAMBDA s, w : IF NaN \in {w[1], w[2]} THEN s ELSE Append(s, w[1] - w[2]), <<>>, windows)

\* The present spread is z deviations (in tenths) from the mean of all, upward
\* for sign 1: compared by the squares.
FarOut(perp, spot, sign, p) ==
  \E windows \in {Windows(perp, spot, p)} : \E s \in {Spreads(windows)} :
  \E n \in {Len(s)},
     sum \in {FoldLeft(+, 0, s)}, squares \in {FoldLeft(LAMBDA acc, x : acc + x * x, 0, s)} :
      LET off == sign * (n * s[1] - sum)
          spread == n * squares - sum * sum
      IN  /\ n >= Max({p.zPeriod \div 2, p.lookback}) /\ n > 1 /\ spread > 0
          /\ off > 0 /\ 100 * off * off * (n - 1) >= p.z * p.z * n * spread

LongSays(sc, pc, perp, spot, p) ==
  CASE p.mode = "spread"     -> sc - pc >= p.spread /\ sc >= p.spot
    [] p.mode = "combined"   -> sc > 0 /\ pc < 0 /\ sc - pc >= p.combined
    [] p.mode = "composite"  -> p.spot * p.perp # 0 /\ sc * p.perp - pc * p.spot >= p.combined * p.spot * p.perp
    [] p.mode = "zscore"     -> FarOut(perp, spot, 1, p) /\ sc > 0 /\ pc < 0
    [] p.mode = "divergence" -> sc >= p.longSpot /\ pc <= -p.longPerp
ShortSays(sc, pc, perp, spot, p) ==
  CASE p.mode = "spread"     -> sc - pc <= -p.spread /\ sc <= -p.spot
    [] p.mode = "combined"   -> sc < 0 /\ pc > 0 /\ sc - pc <= -p.combined
    [] p.mode = "composite"  -> p.spot * p.perp # 0 /\ pc * p.spot - sc * p.perp >= p.combined * p.spot * p.perp
    [] p.mode = "zscore"     -> FarOut(perp, spot, -1, p) /\ sc < 0 /\ pc > 0
    [] p.mode = "divergence" -> sc <= -p.shortSpot /\ pc >= p.shortPerp

\* Mode "spread" asks for the short side first, the others for the long side.
Direction(sc, pc, perp, spot, p) ==
  LET long == LongSays(sc, pc, perp, spot, p)
      short == ShortSays(sc, pc, perp, spot, p)
  IN  IF p.mode = "spread" THEN IF short THEN "short" ELSE IF long THEN "long" ELSE "none"
      ELSE IF long THEN "long" ELSE IF short THEN "short" ELSE "none"

Opposite(side) == IF side = "long" THEN "short" ELSE "long"
StopOf(side, entry, p) == IF side = "long" THEN entry - (entry * p.slPct) \div 100
                          ELSE entry + (entry * p.slPct) \div 100

\* faulty variant: the stop stays where it was
InvertedKeepsStop(side, entry, p) ==
  [signal |-> IF p.invert THEN Opposite(side) ELSE side, sl |-> StopOf(side, entry, p)]
Inverted(side, entry, p) ==
  LET new == IF p.invert THEN Opposite(side) ELSE side
  IN  [signal |-> new, sl |-> StopOf(new, entry, p)]

\* The filters of the market's regime, the trend and the growth of the spread.
Passes(value, least) == least > 0 => value # NaN /\ value >= least
InRegime(ind, p) == Passes(ind.atr, p.atrMin) /\ Passes(ind.vol, p.volMin) /\ Passes(ind.adx, p.adxMin)

\* faulty variant: only a trend the other way is good enough
WithTrendReversed(side, entry, ind, p) ==
  p.ema > 0 /\ ind.ema # NaN => IF side = "long" THEN entry < ind.ema ELSE entry > ind.ema
WithTrend(side, entry, ind, p) ==
  p.ema > 0 /\ ind.ema # NaN => IF side = "long" THEN entry >= ind.ema ELSE entry <= ind.ema
Growing(side, sc, pc, perp, spot, p) ==
  LET before(bars) == CvdPct(bars, p.lookback, p.momentum)
      known == /\ p.momentum > 0 /\ Len(spot) >= p.lookback + p.momentum + 2
               /\ NaN \notin {before(spot), before(perp)}
  IN  known => IF side = "long" THEN sc > before(spot) \/ pc < before(perp)
               ELSE sc < before(spot) \/ pc > before(perp)

No(sc, pc) == [signal |-> "none", sl |-> NaN, tp |-> NaN, spot |-> sc, perp |-> pc]
Target(side, entry, sl, p) ==
  CASE p.tpRatio = 0 -> NaN
    [] p.tpRatio > 0 /\ side = "long" -> entry + (entry - sl) * p.tpRatio
    [] OTHER -> entry - (sl - entry) * p.tpRatio

ComputeSignal(perp, spot, entry, ind, p) ==
  LET sc == CvdPct(spot, p.lookback, 0)
      pc == CvdPct(perp, p.lookback, 0)
      usable == /\ Len(perp) >= 2 /\ spot # <<>> /\ NaN \notin {sc, pc} /\ entry > 0
                /\ InRegime(ind, p)
      side == Direction(sc, pc, perp, spot, p)
      sig == Inverted(side, entry, p)
  IN  IF ~usable THEN No(NaN, NaN)
      ELSE IF side = "none" THEN No(sc, pc)
      ELSE IF WithTrend(sig.signal, entry, ind, p) /\ Growing(sig.signal, sc, pc, perp, spot, p)
      THEN [signal |-> sig.signal, sl |-> sig.sl,
            tp |-> Target(sig.signal, entry, sig.sl, p), spot |-> sc, perp |-> pc]
      ELSE No(NaN, NaN)

-------------------------------------------------------------------------------
(* Properties.                                                                 *)

Mirrored(bars) == [i \in DOMAIN bars |-> [bars[i] EXCEPT !.cvd = -@]]
Off(p) == [p EXCEPT !.atrMin = 0, !.volMin = 0, !.adxMin = 0, !.ema = 0, !.momentum = 0]

\* Long and short are mirror images in every mode that has one threshold for
\* both, the filters take signals away and change none, the stop is on the side
\* of loss and the target on the side of gain, and an inverted signal is the
\* other side. (compute_signal)
SignalIsFair(perp, spot, entry, ind, settings) ==
  \A p \in {SignalParams(settings)}, down \in {Mirrored(perp)}, up \in {Mirrored(spot)},
     turned \in {[ind EXCEPT !.ema = IF @ = NaN THEN NaN ELSE 2 * entry - @]} :
  \A off \in {Off(p)}, inverted \in {Off([p EXCEPT !.invert = ~@])} :
  \A s     \in {ComputeSignal(perp, spot, entry, ind, p)},
     free  \in {ComputeSignal(perp, spot, entry, ind, off)},
     m     \in {ComputeSignal(down, up, entry, turned, p)},
     other \in {ComputeSignal(perp, spot, entry, ind, inverted)} :
      /\ p.longSpot = p.shortSpot /\ p.longPerp = p.shortPerp
           => m.signal = IF s.signal = "none" THEN "none" ELSE Opposite(s.signal)
      /\ s.signal # "none" => s = free
      /\ free.signal # "none" => other.signal = Opposite(free.signal)
      /\ CASE s.signal = "long"  -> s.sl < entry /\ (s.tp = NaN \/ s.tp > entry)
           [] s.signal = "short" -> s.sl > entry /\ (s.tp = NaN \/ s.tp < entry)
           [] OTHER -> TRUE
      /\ s.signal # "none" /\ p.ema > 0 /\ ind.ema # NaN /\ entry # ind.ema
           => (s.sl < entry <=> entry > ind.ema)
===============================================================================
