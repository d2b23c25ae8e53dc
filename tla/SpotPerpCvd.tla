----------------------------- MODULE SpotPerpCvd -----------------------------
(***************************************************************************)
(* The engine of spot_perp_cvd, the strategy that trades live on Binance   *)
(* and cTrader: its tick on a finished bar and its tick between bars, with *)
(* the exit rules of ExitRules, the signal of mode "spread", the block on  *)
(* re-entry after a stop loss, and what a process restart leaves of it.    *)
(*                                                                         *)
(* The table answers here (ForwardEngine is about a table that does not),  *)
(* so a held position always has its row. The engine never updates the row *)
(* while the trade is open; only the fill price of the entry order is      *)
(* written to it.                                                          *)
(***************************************************************************)
EXTENDS ExitRules, FiniteSets

CONSTANTS
    MaxPrice,       \* bound: prices are 1..MaxPrice
    MaxSlip,        \* bound: how far the price moves from the request for a bar to its tick
    MaxFillSlip,    \* bound: how far a fill is from the price the engine entered at
    Cvd,            \* the CVD percentages the market shows, around 0
    SpotThr,        \* spot_cvd_threshold
    SpreadThr,      \* spread_threshold
    SlDist,         \* sl_pct as a distance
    TpRatio,        \* tp_ratio; 0 means no target
    Restarts        \* the process may restart

ASSUME DistanceAssumption ==
    /\ MaxPrice \in Nat \ {0}
    /\ {MaxSlip, MaxFillSlip, TrailDist, MinHold, CvdExit, SlDist, TpRatio, SpotThr, SpreadThr} \subseteq Nat
    /\ Cvd \subseteq Int

VARIABLES
    held,       \* whether the engine holds a position
    trade,      \* the position: _position, meaningful while held
    row,        \* what the open row of forward_trades holds of it
    block,      \* block[s]: _sl_block_long, _sl_block_short
    owed,       \* history: sides this process saw stopped out, no neutral CVD seen since
    last        \* history: what the last tick did

spotVars == <<held, trade, row, block, owed, last>>

Prices == 1..MaxPrice
Stops  == 0..(MaxPrice + SlDist + TrailDist)
PositionType ==
    [side : Sides, entry : Prices, sl : Stops, tp : Int, hwm : Prices, hold : 0..MinHold]

\* A forming bar as it was fetched, and the live price when the tick runs.
Bars == {b \in [close : Prices, high : Prices, low : Prices, price : Prices] :
            /\ b.low <= b.close /\ b.close <= b.high
            /\ b.price - b.close \in -MaxSlip..MaxSlip}

\* What the market shows at a bar, and whether a regime filter (ATR, volume,
\* momentum) or a failed spot request blanks it.
Readings == [spot : Cvd, perp : Cvd, known : BOOLEAN]

NoPosition == [side |-> "long", entry |-> 1, sl |-> 0, tp |-> 0, hwm |-> 1, hold |-> 0]
Idle == [exit |-> "none", side |-> "none", entered |-> "none"]

SpotTypeOK ==
    /\ held \in BOOLEAN
    /\ trade \in PositionType
    /\ row \in [open : BOOLEAN, side : Sides, entry : Prices, sl : Stops, tp : Int]
    /\ block \in [Sides -> BOOLEAN]
    /\ owed \subseteq Sides
    /\ last \in [side : Sides \cup {"none"},
                 exit : {"none", "closed_sl_profit", "closed_sl_loss", "closed_tp",
                         "closed_cvd_exit", "restart"},
                 entered : Sides \cup {"none"}]

-----------------------------------------------------------------------------
\* compute_signal, mode "spread". Blanked data give no signal.
Signal(cvd) ==
    IF ~cvd.known THEN "none"
    ELSE IF cvd.spot - cvd.perp <= -SpreadThr /\ cvd.spot <= -SpotThr THEN "short"
    ELSE IF cvd.spot - cvd.perp >= SpreadThr /\ cvd.spot >= SpotThr THEN "long"
    ELSE "none"

StopOf(side, close) == IF side = "long" THEN close - SlDist ELSE close + SlDist

TargetOf(side, close) ==
    IF TpRatio = 0 THEN 0
    ELSE IF side = "long" THEN close + SlDist * TpRatio
    ELSE close - SlDist * TpRatio

\* CVD passed the neutral line for a side.
Neutral(side, cvd) ==
    /\ cvd.known
    /\ IF side = "long" THEN cvd.spot <= 0 \/ cvd.perp >= 0
       ELSE cvd.spot >= 0 \/ cvd.perp <= 0

\* A faulty variant: a neutral reading for one side lifts both blocks.
LiftedTogether(blk, cvd) ==
    [s \in Sides |-> blk[s] /\ ~(\E u \in Sides : Neutral(u, cvd))]

\* The blocks after a stop loss on "hit" was noted and the reading was looked at.
Lifted(blk, cvd) == [s \in Sides |-> blk[s] /\ ~Neutral(s, cvd)]

Blocked(ex) ==
    IF ex.reason = "closed_sl_loss" THEN [block EXCEPT ![trade.side] = TRUE]
    ELSE block

\* hold_bars grows with bars only; MinHold and above are all the same.
Aged(pos, isBar) ==
    IF isBar THEN [pos EXCEPT !.hold = Smaller(@ + 1, MinHold)] ELSE pos

\* A faulty variant: stop and target are mixed up.
OpenedMixedUp(side, bar) ==
    [side |-> side, entry |-> bar.price, sl |-> TargetOf(side, bar.close),
     tp |-> StopOf(side, bar.close), hwm |-> bar.price, hold |-> 0]

\* The levels come from the bar, the entry is the live price.
Opened(side, bar) ==
    [side |-> side, entry |-> bar.price, sl |-> StopOf(side, bar.close),
     tp |-> TargetOf(side, bar.close), hwm |-> bar.price, hold |-> 0]

\* A faulty variant: the two price columns are swapped.
RowSwapped(pos) == [open |-> TRUE, side |-> pos.side, entry |-> pos.entry,
                    sl |-> Bigger(pos.tp, 0), tp |-> pos.sl]

RowOf(pos) == [open |-> TRUE, side |-> pos.side, entry |-> pos.entry,
               sl |-> pos.sl, tp |-> pos.tp]

ClosedRow == [open |-> FALSE, side |-> "long", entry |-> 1, sl |-> 0, tp |-> 0]

-----------------------------------------------------------------------------
SpotInit ==
    /\ held = FALSE
    /\ trade = NoPosition
    /\ row = ClosedRow
    /\ block = [s \in Sides |-> FALSE]
    /\ owed = {}
    /\ last = Idle

\* tick() in the pre-entry window: hold_bars, exit, lifting of the blocks, entry.
BarTick(bar, cvd) ==
    LET moved  == Trailed(Aged(trade, TRUE), bar)
        ex     == IF held THEN BarExit(moved, bar, cvd) ELSE NoExit
        blk    == Lifted(Blocked(ex), cvd)
        side   == Signal(cvd)
        enters == /\ ~held \/ ex.exits
                  /\ side # "none"
                  /\ ~blk[side]
                  /\ StopOf(side, bar.close) > 0
        keeps  == held /\ ~ex.exits
        hit    == IF ex.reason = "closed_sl_loss" THEN {trade.side} ELSE {}
    IN  /\ held' = (keeps \/ enters)
        /\ trade' = IF enters THEN Opened(side, bar)
                       ELSE IF keeps THEN moved ELSE NoPosition
        /\ row' = IF enters THEN RowOf(Opened(side, bar))
                  ELSE IF keeps THEN row ELSE ClosedRow
        /\ block' = blk
        /\ owed' = {s \in owed \cup hit : ~Neutral(s, cvd)}
        /\ last' = [exit |-> ex.reason,
                    side |-> IF held THEN trade.side ELSE "none",
                    entered |-> IF enters THEN side ELSE "none"]

\* tick() between bars, called by the strategy loop with a price alone.
IntrabarTick(price) ==
    LET pos == Aged(trade, FALSE)
        ex  == IntrabarExit(pos, price)
    IN  /\ held
        /\ held' = ~ex.exits
        /\ trade' = IF ex.exits THEN NoPosition ELSE pos
        /\ row' = IF ex.exits THEN ClosedRow ELSE row
        /\ block' = Blocked(ex)
        /\ owed' = owed \cup (IF ex.reason = "closed_sl_loss" THEN {trade.side} ELSE {})
        /\ last' = [Idle EXCEPT !.exit = ex.reason, !.side = trade.side]

\* The constructor reads the row; hold_bars, hwm, a trailed stop and the blocks
\* were never written to it.
SpotRestart ==
    /\ Restarts
    /\ held' = row.open
    /\ trade' = IF row.open
                   THEN [side |-> row.side, entry |-> row.entry, sl |-> row.sl,
                         tp |-> row.tp, hwm |-> row.entry, hold |-> 0]
                   ELSE NoPosition
    /\ block' = [s \in Sides |-> FALSE]
    /\ last' = [Idle EXCEPT !.exit = "restart"]
    /\ owed' = {}
    /\ UNCHANGED row

\* _update_entry_price_in_db: the entry order was filled at another price. The
\* position in memory keeps the old one.
FillNoted(price) ==
    /\ row.open
    /\ price - trade.entry \in -MaxFillSlip..MaxFillSlip
    /\ row' = [row EXCEPT !.entry = price]
    /\ last' = Idle
    /\ UNCHANGED <<held, trade, block, owed>>

SpotNext ==
    \/ \E bar \in Bars, cvd \in Readings : BarTick(bar, cvd)
    \/ \E price \in Prices : IntrabarTick(price) \/ FillNoted(price)
    \/ SpotRestart

SpotSpec == SpotInit /\ [][SpotNext]_spotVars

-----------------------------------------------------------------------------
\* After a stop loss a side is not entered until a bar tick has seen its CVD
\* neutral (sl_block), however many trades of the other side come in between, as long
\* as the process lives.
ReentryWaitsForNeutral == last.entered \notin owed

\* As long as the process lives the stop of a trade only moves toward profit.
StopNeverLoosens ==
    [][held /\ held' /\ last'.entered = "none" /\ last'.exit # "restart" =>
        IF trade.side = "long" THEN trade'.sl >= trade.sl
        ELSE trade'.sl <= trade.sl]_spotVars

\* The open row is the held trade, with a stop no tighter than the one in memory:
\* what a restart brings back is the same bet, at worst with its first stop (its
\* entry price may be the corrected one).
RowIsHeldTrade ==
    /\ row.open = held
    /\ held =>
        /\ row.side = trade.side
        /\ row.tp = trade.tp
        /\ IF trade.side = "long" THEN row.sl <= trade.sl ELSE row.sl >= trade.sl
=============================================================================
