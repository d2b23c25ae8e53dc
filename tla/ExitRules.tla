------------------------------ MODULE ExitRules ------------------------------
(***************************************************************************)
(* When a bar or a price closes a position: check_exit of spot_perp_cvd    *)
(* and of oi_cvd_surge. Prices are integers and 0 stands for a missing     *)
(* level, as the falsy 0.0 does in the code. Percentages of a price are    *)
(* distances here (a fixed TrailDist for trail_pct): the rules only        *)
(* compare prices.                                                         *)
(***************************************************************************)
EXTENDS Integers

CONSTANTS
    TrailDist,      \* trail_pct as a distance; 0 switches the trailing stop off
    MinHold,        \* min_hold_bars
    CvdExit         \* cvd_exit_threshold

Sides == {"long", "short"}

\* A position as far as its exit depends on it.
\*   [side, entry, sl, tp, hwm, hold]; hwm is the best price since entry.
\* A bar is [high, low, price], price being the live price when it is looked at; a
\* CVD reading is [spot, perp, known].

Bigger(a, b)  == IF a >= b THEN a ELSE b
Smaller(a, b) == IF a <= b THEN a ELSE b

NoExit == [exits |-> FALSE, price |-> 0, reason |-> "none"]
ExitAt(p, r) == [exits |-> TRUE, price |-> p, reason |-> r]

SlReason(pos) ==
    LET profit == IF pos.side = "long" THEN pos.sl >= pos.entry ELSE pos.sl <= pos.entry
    IN  IF profit THEN "closed_sl_profit" ELSE "closed_sl_loss"

\* The price range [low, high] touches the stop, or the target.
StopHit(pos, low, high) ==
    /\ pos.sl # 0
    /\ IF pos.side = "long" THEN low <= pos.sl ELSE high >= pos.sl

TargetHit(pos, low, high) ==
    /\ pos.tp > 0
    /\ IF pos.side = "long" THEN high >= pos.tp ELSE low <= pos.tp

\* A faulty variant: the short side takes every new trailing stop.
TrailedLoosely(pos, bar) ==
    LET best == IF pos.side = "long" THEN Bigger(pos.hwm, bar.high)
                ELSE Smaller(pos.hwm, bar.low)
        stop == IF pos.side = "long" THEN best - TrailDist ELSE bar.low + TrailDist
    IN  IF TrailDist = 0 THEN pos
        ELSE [pos EXCEPT !.hwm = best,
                         !.sl  = IF pos.side = "long" THEN Bigger(stop, pos.sl) ELSE stop]

\* The position after the trailing stop looked at a finished bar.
Trailed(pos, bar) ==
    LET best == IF pos.side = "long" THEN Bigger(pos.hwm, bar.high)
                ELSE Smaller(pos.hwm, bar.low)
        stop == IF pos.side = "long" THEN best - TrailDist ELSE best + TrailDist
        take == IF pos.side = "long" THEN stop > pos.sl ELSE pos.sl <= 0 \/ stop < pos.sl
    IN  IF TrailDist = 0 THEN pos
        ELSE [pos EXCEPT !.hwm = best, !.sl = IF take THEN stop ELSE @]

\* The divergence that opened the trade is gone.
CvdResolved(side, cvd) ==
    /\ cvd.known
    /\ IF side = "long" THEN cvd.spot <= -CvdExit \/ cvd.perp >= CvdExit
       ELSE cvd.spot >= CvdExit \/ cvd.perp <= -CvdExit

\* spot_perp_cvd between bars: the stop alone, against the price itself.
IntrabarExit(pos, price) ==
    IF StopHit(pos, price, price) THEN ExitAt(pos.sl, SlReason(pos)) ELSE NoExit

\* spot_perp_cvd on a bar, pos being Trailed already: stop, target, CVD.
BarExit(pos, bar, cvd) ==
    IF StopHit(pos, bar.low, bar.high) THEN ExitAt(pos.sl, SlReason(pos))
    ELSE IF TargetHit(pos, bar.low, bar.high) THEN ExitAt(pos.tp, "closed_tp")
    ELSE IF pos.hold >= MinHold /\ CvdResolved(pos.side, cvd)
         THEN ExitAt(bar.price, "closed_cvd_exit")
    ELSE NoExit

\* oi_cvd_surge, on bars and on prices alike: of two hits the target counts.
OiCvdExit(pos, bar) ==
    IF TargetHit(pos, bar.low, bar.high) THEN ExitAt(pos.tp, "closed_tp1")
    ELSE IF StopHit(pos, bar.low, bar.high) THEN ExitAt(pos.sl, SlReason(pos))
    ELSE NoExit
=============================================================================
