----------------------------- MODULE CvdExplosion -----------------------------
(***************************************************************************)
(* eth_cvd_explosion (switched off in strategies_master.yaml, as v2 is,    *)
(* which differs by its settings): a trade is held from one liquidation    *)
(* magnet to the next. A bar that reaches the target moves it to the next  *)
(* magnet and pulls the stop behind it; the row of the trade follows, so   *)
(* that a restart goes on with the same levels. Between bars only the stop *)
(* counts.                                                                 *)
(*                                                                         *)
(* A signal is a side (CvdExplosionSignal says which); left out are        *)
(* the settings that are the same in every config.yaml (a stop is always   *)
(* lifted, sl_ratchet_mode is "tp_level", no buffers). Percentages are     *)
(* distances. A signal that failed has no magnets: the tick raises and     *)
(* leaves everything as it was. The table answers, as in SpotPerpCvd.      *)
(***************************************************************************)
EXTENDS Integers, Sequences, FiniteSets

CONSTANTS
    MaxPrice,       \* bound: prices are 1..MaxPrice
    MaxSlip,        \* bound: how far the price moves from the fetch to the tick
    Maps,           \* the sets of magnets the market may show
    Contexts,       \* [open, m15]: open of the previous bar, m15_support (as _resistance)
    Modes,          \* tpsl.mode
    Rr,             \* rr_ratio
    Risk,           \* risk_pct and sl_max_pct as a distance
    Step            \* sl_ratchet_step

VARIABLES
    mode,       \* the mode of this behaviour
    held, position,
    row,        \* the open row and its position_meta
    entered     \* history: the last step entered a trade

vars == <<mode, held, position, row, entered>>

Prices == 1..MaxPrice
Sides  == {"long", "short"}
MagnetModes == {"magnet_rr", "magnet_tp_rr"}
AllModes == MagnetModes \cup {"magnet", "fixed_rr"}

NoPosition == [side |-> "long", entry |-> 1, sl |-> 0, tp |-> 0, levels |-> <<>>]
PositionType ==
    [side : Sides, entry : Prices, sl : Nat, tp : Nat, levels : Seq(Nat)]

\* What the constants have to be; a module that instantiates this one assumes it.
ConstantsFit ==
    /\ {MaxPrice, Rr} \subseteq Nat \ {0} /\ {MaxSlip, Risk, Step} \subseteq Nat
    /\ \A map \in Maps : IsFiniteSet(map) /\ map \subseteq Nat \ {0}
    /\ Contexts \subseteq [open : Nat, m15 : Nat]
    /\ Modes \subseteq AllModes

TypeOK ==
    /\ mode \in Modes
    /\ held \in BOOLEAN /\ entered \in BOOLEAN
    /\ position \in PositionType
    /\ row \in [open : BOOLEAN, pos : PositionType]

Bars == {b \in [close : Prices, high : Prices, low : Prices, price : Prices] :
            /\ b.low <= b.close /\ b.close <= b.high
            /\ b.price - b.close \in -MaxSlip..MaxSlip}

-----------------------------------------------------------------------------
\* What the two sides have in common: a is further in profit than b, or as far.
Ahead(side, a, b) == IF side = "long" THEN a > b ELSE a < b
Reaches(side, a, b) == a = b \/ Ahead(side, a, b)
Toward(side, p, dist) == IF side = "long" THEN p + dist ELSE p - dist
Gap(a, b) == IF a > b THEN a - b ELSE b - a

BestOf(side, bar)  == IF side = "long" THEN bar.high ELSE bar.low
WorstOf(side, bar) == IF side = "long" THEN bar.low ELSE bar.high
Other(side) == IF side = "long" THEN "short" ELSE "long"

\* next_magnet_strictly_above and _below; 0 is None.
NextMagnet(side, map, ref) ==
    LET ahead == {m \in map : Ahead(side, m, ref)}
    IN  IF ahead = {} THEN 0 ELSE CHOOSE m \in ahead : \A n \in ahead : Reaches(side, n, m)

-----------------------------------------------------------------------------
NoLevels == [tp |-> 0, sl |-> 0]

\* resolve_tpsl: target and stop of a signal at the close of the bar.
Resolved(side, close, map) ==
    LET tp     == NextMagnet(side, map, close)
        sl     == NextMagnet(Other(side), map, close)
        floor  == Toward(side, close, -Risk)
        capped == IF Ahead(side, sl, floor) THEN sl ELSE floor
    IN  IF mode = "fixed_rr"
        THEN [tp |-> Toward(side, close, Risk * Rr), sl |-> Toward(side, close, -Risk)]
        ELSE IF tp = 0 THEN NoLevels
        ELSE IF mode = "magnet_tp_rr"
        THEN [tp |-> tp, sl |-> Toward(side, close, -(Gap(tp, close) \div Rr))]
        ELSE IF sl = 0 \/ ~Ahead(side, close, capped) THEN NoLevels
        ELSE [tp |-> tp, sl |-> capped]

\* The stop moves up to the open of the previous bar, if that is between it and the close.
Tightened(side, close, open, lv) ==
    IF lv.sl # 0 /\ Ahead(side, open, lv.sl) /\ Ahead(side, close, open)
    THEN [lv EXCEPT !.sl = open] ELSE lv

-----------------------------------------------------------------------------
Closed == [closed |-> TRUE, pos |-> NoPosition]
Kept(pos) == [closed |-> FALSE, pos |-> pos]

StopHit(pos, worst) == pos.sl # 0 /\ Reaches(pos.side, pos.sl, worst)

\* A faulty variant: the new stop is taken whether or not the old one was better.
LiftedTo(pos, sl) == sl

\* max(sl, new_sl), or min
Lifted(pos, sl) == IF Ahead(pos.side, sl, pos.sl) THEN sl ELSE pos.sl

\* The stop that comes with the step from a target to the next magnet.
NewStop(pos, nxt) ==
    LET back == Len(pos.levels) - Step
    IN  IF mode = "magnet_tp_rr"
        THEN Toward(pos.side, pos.tp, -(Gap(nxt, pos.tp) \div Rr))
        ELSE IF back < 1 THEN pos.entry ELSE pos.levels[back]

\* One round of the loop over the targets that a bar reaches: the next magnet becomes
\* the target, and the last one closes the trade.
Stepped(res, best, map) ==
    LET pos == res.pos
        nxt == NextMagnet(pos.side, map, pos.tp)
    IN  IF res.closed \/ ~Reaches(pos.side, best, pos.tp) THEN res
        ELSE IF nxt = 0 THEN Closed
        ELSE Kept([pos EXCEPT !.sl = Lifted(pos, NewStop(pos, nxt)), !.tp = nxt,
                              !.levels = Append(@, nxt)])

\* The whole loop: a round per magnet, and the one that ends it.
Advanced(pos, best, map) ==
    LET rounds == Cardinality(map) + 1
        after[n \in 0..rounds] == IF n = 0 THEN Kept(pos) ELSE Stepped(after[n - 1], best, map)
    IN  after[rounds]

\* _check_exit_magnet_rr_single on a bar. After a step the stop is tested against the
\* price alone; without one, against the bar.
MagnetExit(pos, bar, map) ==
    LET adv == Advanced(pos, BestOf(pos.side, bar), map)
    IN  IF Reaches(pos.side, BestOf(pos.side, bar), pos.tp)
        THEN IF adv.closed \/ StopHit(adv.pos, bar.price) THEN Closed ELSE adv
        ELSE IF StopHit(pos, WorstOf(pos.side, bar)) THEN Closed ELSE Kept(pos)

\* _check_exit_simple: which of the two was hit does not matter for what is left.
SimpleExit(pos, bar) ==
    IF Reaches(pos.side, BestOf(pos.side, bar), pos.tp) \/ StopHit(pos, WorstOf(pos.side, bar))
    THEN Closed ELSE Kept(pos)

\* check_exit on a bar: the price against m15_support first, where there is one.
BarExit(pos, bar, map, m15) ==
    IF m15 # 0 /\ Reaches(pos.side, m15, bar.price) THEN Closed
    ELSE IF mode \in MagnetModes THEN MagnetExit(pos, bar, map)
    ELSE SimpleExit(pos, bar)

\* check_exit between bars
PriceExit(pos, price) ==
    IF mode \in MagnetModes
    THEN IF StopHit(pos, price) THEN Closed ELSE Kept(pos)
    ELSE SimpleExit(pos, [high |-> price, low |-> price])

-----------------------------------------------------------------------------
Init ==
    /\ mode \in Modes
    /\ held = FALSE /\ position = NoPosition
    /\ row = [open |-> FALSE, pos |-> NoPosition]
    /\ entered = FALSE

\* A faulty variant: the row is left as it was opened, as cvd_explosion does.
RowUntouched(pos) == row

\* _persist_position_update
RowUpdated(pos) == [row EXCEPT !.pos = pos]

\* tick() in the pre-entry window. A tick that closed may enter at once.
BarTick(bar, map, side, ctx) ==
    LET res    == IF held THEN BarExit(position, bar, map, ctx.m15) ELSE Closed
        lv     == Tightened(side, bar.close, ctx.open, Resolved(side, bar.close, map))
        enters == res.closed /\ side # "none" /\ lv.tp > 0 /\ lv.sl > 0
        new    == [side |-> side, entry |-> bar.price, sl |-> lv.sl, tp |-> lv.tp,
                   levels |-> <<lv.tp>>]
    IN  /\ held' = (enters \/ ~res.closed)
        /\ position' = IF enters THEN new ELSE res.pos
        /\ row' = IF enters THEN [open |-> TRUE, pos |-> new]
                  ELSE IF res.closed THEN [open |-> FALSE, pos |-> NoPosition]
                  ELSE IF Len(res.pos.levels) > Len(position.levels) THEN RowUpdated(res.pos)
                  ELSE row
        /\ entered' = enters
        /\ UNCHANGED mode

\* tick() of the strategy loop, with a price and the magnets of the position.
IntrabarTick(price) ==
    /\ held
    /\ LET res == PriceExit(position, price)
       IN  /\ held' = ~res.closed /\ position' = res.pos
           /\ row' = IF res.closed THEN [open |-> FALSE, pos |-> NoPosition] ELSE row
    /\ entered' = FALSE
    /\ UNCHANGED mode

\* _load_open_from_db: sl_price and tp1_price, then all of position_meta.
Restart ==
    /\ held' = row.open
    /\ position' = row.pos
    /\ entered' = FALSE
    /\ UNCHANGED <<mode, row>>

Next ==
    \/ \E bar \in Bars, map \in Maps, ctx \in Contexts :
        \E side \in Sides \cup {"none"} : BarTick(bar, map, side, ctx)
    \/ \E price \in Prices : IntrabarTick(price)
    \/ Restart

Spec == Init /\ [][Next]_vars

-----------------------------------------------------------------------------
\* The row has the levels of the held trade, through every step of the target: what a
\* restart brings back is the trade as it stood.
RowIsHeldTrade == row.open = held /\ row.pos = position

\* As long as a trade is held, through restarts too, its stop only moves toward profit
\* and its target only away from the entry.
LevelsOnlyAdvance ==
    [][held /\ held' /\ ~entered' =>
        /\ Reaches(position.side, position'.sl, position.sl)
        /\ Reaches(position.side, position'.tp, position.tp)]_vars
===============================================================================
