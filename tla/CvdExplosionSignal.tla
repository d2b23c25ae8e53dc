-------------------------- MODULE CvdExplosionSignal --------------------------
(* compute_signal of eth_cvd_explosion (v2 has the same file and other          *)
(* settings) up to the side it asks for; the levels are those of CvdExplosion.  *)
(* A bar is [at, vol, cvd, up]: the minute it opens, volume, CVD, and whether   *)
(* it rose (1), fell (-1) or closed where it opened (0). The last bar of a      *)
(* sequence is the newest. p holds the settings, its multiple in tenths.        *)
EXTENDS Integers, Sequences, FiniteSetsExt, SequencesExt

Newest(bars, n) == SubSeq(bars, Max({1, Len(bars) - n + 1}), Len(bars))

\* Sums over a sequence of bars: of any part, and of the CVD.
Total(bars, part(_)) == FoldLeft(LAMBDA acc, b : acc + part(b), 0, bars)
CvdOf(bars) == Total(bars, LAMBDA b : b.cvd)

\* Settings of the two time frames (only one is read of the higher), and what the
\* caller puts over both.
Overridden(p, over) == [k \in DOMAIN p |-> IF k \in DOMAIN over THEN over[k] ELSE p[k]]
ParamsFor(cfg, tf) == IF tf \in DOMAIN cfg.byTf THEN Overridden(cfg.base, cfg.byTf[tf]) ELSE cfg.base
SignalParams(cfg, entryTf, higherTf, over) ==
  Overridden([ParamsFor(cfg, entryTf) EXCEPT !.higher = ParamsFor(cfg, higherTf).higher], over)

\* The bars of a time frame that are complete when the entry bar of minute now closes.
Sweep(bars, tf, now, entryTf, limit) ==
  Newest(SelectSeq(bars, LAMBDA b : b.at <= now /\ b.at + tf <= now + entryTf), limit)

\* The volume of the last bar is a multiple of the mean of the bars before it.
Explodes(bars, p) ==
  LET before == Newest(Front(bars), p.window)
      vol    == Total(before, LAMBDA b : b.vol)
  IN  Len(bars) >= 2 /\ vol > 0 /\ 10 * Last(bars).vol * Len(before) >= p.mult * vol

\* A faulty variant: looks as far back as there are bars.
SoloEver(bars, p) ==
  Len(bars) >= p.gap + 2 /\ \A k \in 1 .. Len(bars) - 2 : ~Explodes(SubSeq(bars, 1, Len(bars) - k), p)

Solo(bars, p) ==
  Len(bars) >= p.gap + 2 /\ \A k \in 1 .. p.gap : ~Explodes(SubSeq(bars, 1, Len(bars) - k), p)

Accel(bars, p) ==
  LET before == Newest(Front(bars), 2 * p.accel)
  IN  IF Len(bars) < 2 * p.accel + 1 THEN 0
      ELSE CvdOf(Newest(before, p.accel)) - CvdOf(SubSeq(before, 1, p.accel))

\* A bar that did not move counts as risen, CVD that did not accelerate as falling.
Rose(bars) == Last(bars).up >= 0
Accelerates(bars, p) == (Accel(bars, p) > 0) = Rose(bars)
Trend(higher, p) == CvdOf(Newest(higher, p.higher))

\* The points of each side: the explosion and what goes with it for the side of the
\* bar, the higher time frame for its own.
Scores(entry, higher, p) ==
  LET points == IF ~Explodes(entry, p) THEN 0
                ELSE p.scExp + (IF Solo(entry, p) THEN p.scSolo ELSE 0)
                             + (IF Accelerates(entry, p) THEN p.scCvd ELSE 0)
      of(rose, sign) == (IF Rose(entry) = rose THEN points ELSE 0)
                        + (IF sign * Trend(higher, p) > 0 THEN p.scHigher ELSE 0)
  IN  [bull |-> of(TRUE, 1), bear |-> of(FALSE, -1)]

Wins(own, other, against, p) == own >= p.threshold /\ own > other /\ ~(p.veto /\ against)
ComputeSignal(entry, higher, p) ==
  LET s == Scores(entry, higher, p)
  IN  IF entry = <<>> THEN "none"
      ELSE IF Wins(s.bull, s.bear, Trend(higher, p) < 0, p) THEN "long"
      ELSE IF Wins(s.bear, s.bull, Trend(higher, p) > 0, p) THEN "short"
      ELSE "none"

\* get_state: the signal at the entry bar of minute now.
SignalAt(entry, higher, now, tf, p) ==
  ComputeSignal(Sweep(entry, tf[1], now, tf[1], 500), Sweep(higher, tf[2], now, tf[1], 500), p)

-------------------------------------------------------------------------------
(* Properties.                                                                 *)

Mirrored(bars) == [i \in DOMAIN bars |-> [bars[i] EXCEPT !.cvd = -@, !.up = -@]]
Reach(p) == Max({p.window + p.gap + 1, 2 * p.accel + 1})
Against(side, trend) == IF side = "long" THEN trend < 0 ELSE trend > 0

\* A signal needs an explosion its own way, the veto takes away the signals
\* against the higher time frame and no others, bars older than the windows and bars
\* that are not complete by then (later) do not matter, and apart from ties the two
\* sides are mirror images. (compute_signal and build_sweep_at)
ExplosionIsFair(entry, higher, later, tf, p) ==
  \A now \in {Last(entry).at}, open \in {[p EXCEPT !.veto = FALSE]} :
  \A h \in {Sweep(higher, tf[2], now, tf[1], 500)} :
  \A s \in {ComputeSignal(entry, h, p)}, free \in {ComputeSignal(entry, h, open)} :
      /\ s # "none" => Explodes(entry, p) /\ Rose(entry) = (s = "long")
      /\ s = IF p.veto /\ Against(free, Trend(h, p)) THEN "none" ELSE free
      /\ ComputeSignal(Newest(entry, Reach(p)), Newest(h, p.higher), p) = s
      /\ \A b \in later : SignalAt(Append(entry, [b EXCEPT !.at = now + tf[1]]), Append(higher, b), now, tf, p) = s
      /\ Last(entry).up # 0 /\ Accel(entry, p) # 0 =>
            ComputeSignal(Mirrored(entry), Mirrored(h), p) =
                CASE s = "long" -> "short" [] s = "short" -> "long" [] OTHER -> "none"
===============================================================================
