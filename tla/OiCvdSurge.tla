------------------------------ MODULE OiCvdSurge ------------------------------
(***************************************************************************)
(* oi_cvd_surge, the other strategy that trades live: the forming bar it   *)
(* fetches in the pre-entry window, the tick that runs on it with the live *)
(* price of a moment later, and its tick between bars. Both levels are     *)
(* tested in both ticks.                                                   *)
(*                                                                         *)
(* The bar is a real one here: its extremes are those of the price since   *)
(* it opened, so that it can be asked whether a trade is closed by prices  *)
(* it has not seen. The table answers (ForwardEngine is about the other    *)
(* case): the row has side, entry, stop and target of the held position,   *)
(* none of which changes, so it is not kept apart.                         *)
(***************************************************************************)
EXTENDS ExitRules

CONSTANTS
    MaxPrice,       \* bound: prices are 1..MaxPrice
    MaxBar,         \* bound: bars 1..MaxBar
    Dists,          \* distances of the stop, sl_dist
    RrRatio,        \* rr_ratio
    MaxRestarts     \* bound: process restarts in a bar

VARIABLES
    price,      \* the market
    bar,        \* the forming bar: its number and its extremes so far
    noted,      \* _last_bar_time
    task,       \* the tick task fired and not run yet, with the state it was given
    held,       \* whether the engine holds a position
    position,   \* the position, and its row; meaningful while held
    seen,       \* history: the extremes of the price since the entry
    entries,    \* history: entries in the forming bar
    restarts,   \* history: restarts in the forming bar
    last        \* history: what the last tick closed, and what was known of the trade

marketVars == <<price, bar>>
engineVars == <<held, position, entries>>
vars == <<marketVars, noted, task, engineVars, seen, restarts, last>>

Prices == 1..MaxPrice
Bars   == [id : 1..MaxBar, high : Prices, low : Prices]
Signals == [side : Sides, sl : Int, tp : Int]
NoSignal == [side |-> "none", sl |-> 0, tp |-> 0]

\* What get_state hands over: the fetched bar and the signal computed on it.
States == [bar : Bars, close : Prices, sig : Signals \cup {NoSignal}]
NoTask == [bar |-> [id |-> 0, high |-> 0, low |-> 0], close |-> 0, sig |-> NoSignal]

NoPosition == [side |-> "long", entry |-> 1, sl |-> 0, tp |-> 0]
NoExitYet  == [exit |-> NoExit, side |-> "long", high |-> 1, low |-> 1]

\* What the constants have to be; a module that instantiates this one assumes it.
ConstantsFit ==
    /\ {MaxPrice, MaxBar} \subseteq Nat \ {0}
    /\ {RrRatio, MaxRestarts} \subseteq Nat /\ Dists \subseteq Nat

TypeOK ==
    /\ price \in Prices /\ bar \in Bars
    /\ noted \in 0..MaxBar
    /\ task \in States \cup {NoTask}
    /\ held \in BOOLEAN
    /\ position \in [side : Sides, entry : Prices, sl : Nat, tp : Nat]
    /\ seen \in [high : Prices, low : Prices]
    /\ entries \in Nat /\ restarts \in 0..MaxRestarts
    /\ last.side \in Sides /\ {last.high, last.low} \subseteq Prices

-----------------------------------------------------------------------------
\* compute_signal: the previous bars give a side and a stop, and the close of the
\* forming bar the distance between them.
SignalOf(side, close, dist) ==
    IF side = "long"
    THEN [side |-> side, sl |-> close - dist, tp |-> close + dist * RrRatio]
    ELSE [side |-> side, sl |-> close + dist, tp |-> close - dist * RrRatio]

Widened(r, p) == [r EXCEPT !.high = Bigger(@, p), !.low = Smaller(@, p)]

Closed(ex) ==
    [exit |-> ex, side |-> position.side, high |-> seen.high, low |-> seen.low]

Init ==
    /\ price \in Prices
    /\ bar = [id |-> 1, high |-> price, low |-> price]
    /\ noted = 0 /\ task = NoTask
    /\ held = FALSE /\ position = NoPosition
    /\ seen = [high |-> 1, low |-> 1]
    /\ entries = 0 /\ restarts = 0 /\ last = NoExitYet

\* The market trades at p.
Move(p) ==
    /\ price' = p
    /\ bar' = Widened(bar, p)
    /\ seen' = IF held THEN Widened(seen, p) ELSE seen
    /\ UNCHANGED <<noted, task, engineVars, restarts, last>>

\* The bar ends. A task that was fired has run: LateAnswers of StrategyLoop.
NewBar ==
    /\ bar.id < MaxBar
    /\ task = NoTask
    /\ bar' = [id |-> bar.id + 1, high |-> price, low |-> price]
    /\ entries' = 0 /\ restarts' = 0 /\ last' = NoExitYet
    /\ UNCHANGED <<price, noted, task, held, position, seen>>

\* A faulty variant: the bar is not noted.
FetchUnnoted(sig) ==
    /\ noted # bar.id
    /\ task = NoTask
    /\ task' = [bar |-> bar, close |-> price, sig |-> sig]
    /\ UNCHANGED <<marketVars, noted, engineVars, seen, restarts, last>>

\* get_state in the pre-entry window: a bar not noted yet fires a tick.
Fetch(sig) ==
    /\ noted # bar.id
    /\ task = NoTask
    /\ noted' = bar.id
    /\ task' = [bar |-> bar, close |-> price, sig |-> sig]
    /\ UNCHANGED <<marketVars, engineVars, seen, restarts, last>>

\* bar_high and bar_low are those of the fetch, current_price is the live price.
TickRange(snap) == [high |-> snap.bar.high, low |-> snap.bar.low, price |-> price]

\* The levels come from the fetch, the entry is the live price.
Opened(snap) ==
    [side |-> snap.sig.side, entry |-> price, sl |-> snap.sig.sl, tp |-> snap.sig.tp]

\* A faulty variant: the levels of the signal are not looked at.
TradableAnyLevel(sig) == sig.side # "none"

Tradable(sig) == sig.side # "none" /\ sig.tp > 0 /\ sig.sl > 0

\* tick() on the bar. A tick that closed does not open (just_closed).
RunTick ==
    LET ex     == IF held THEN OiCvdExit(position, TickRange(task)) ELSE NoExit
        enters == ~held /\ Tradable(task.sig)
    IN  /\ task # NoTask
        /\ task' = NoTask
        /\ held' = ((held /\ ~ex.exits) \/ enters)
        /\ position' = IF enters THEN Opened(task)
                       ELSE IF ex.exits THEN NoPosition ELSE position
        /\ seen' = IF enters THEN [high |-> price, low |-> price] ELSE seen
        /\ entries' = IF enters THEN entries + 1 ELSE entries
        /\ last' = IF ex.exits THEN Closed(ex) ELSE NoExitYet
        /\ UNCHANGED <<marketVars, noted, restarts>>

\* tick() between bars: high, low and price are the live price; no signal.
IntrabarTick ==
    LET ex == OiCvdExit(position, [high |-> price, low |-> price, price |-> price])
    IN  /\ held
        /\ held' = ~ex.exits
        /\ position' = IF ex.exits THEN NoPosition ELSE position
        /\ last' = IF ex.exits THEN Closed(ex) ELSE NoExitYet
        /\ UNCHANGED <<marketVars, noted, task, entries, restarts, seen>>

\* The position comes back from its row; which bar was ticked is forgotten.
Restart ==
    /\ restarts < MaxRestarts
    /\ restarts' = restarts + 1
    /\ noted' = 0 /\ task' = NoTask
    /\ last' = NoExitYet
    /\ UNCHANGED <<marketVars, engineVars, seen>>

Next ==
    \/ \E p \in Prices : Move(p)
    \/ NewBar
    \/ Fetch(NoSignal)
    \/ \E side \in Sides, dist \in Dists : Fetch(SignalOf(side, price, dist))
    \/ RunTick
    \/ IntrabarTick
    \/ Restart

Spec == Init /\ [][Next]_vars

-----------------------------------------------------------------------------
\* The price met the level a trade is closed at while the trade was open: no trade
\* is closed by a high or a low from before its entry. It takes that no bar is
\* ticked twice, so a bar with a restart is excepted, and that ticks run in time.
ExitWasTouched ==
    LET pos == [side |-> last.side, sl |-> last.exit.price, tp |-> last.exit.price]
    IN  last.exit.exits /\ restarts = 0 =>
            IF last.exit.reason = "closed_tp1" THEN TargetHit(pos, last.low, last.high)
            ELSE StopHit(pos, last.low, last.high)

\* One process enters at most once in a bar, whatever the loop closes in between.
OneEntryPerBar == entries <= 1 + restarts
=============================================================================
