------------------------------ MODULE Drawdown ------------------------------
(***************************************************************************)
(* The drawdown ladder: once a day the history of a symbol is replayed, and *)
(* a ledger records the episode the replay finds open.  An episode begins   *)
(* when the price is far below its rolling high, buys up to three times on  *)
(* the way down, and ends at the high it began under.                       *)
(*                                                                         *)
(* The replay sees the last Lookback days only; a bar is a position in the  *)
(* whole history.  A ratio of two prices is kept exact: the tests of the    *)
(* code compare it with a percentage.  One symbol; the others share the     *)
(* row of the ledger but no episode.                                        *)
(***************************************************************************)
EXTENDS Integers, Sequences, FiniteSets, FiniteSetsExt

CONSTANTS Prices, MaxDay,
          RefWindow,     \* REF_WINDOW, and the least history load_prices accepts
          MinPeriods,    \* bars before the rolling high exists: at most RefWindow
          Lookback,      \* bars load_prices asks for: RefWindow at least
          Unfinished,    \* the last bar still changes after RUN_HOUR_UTC (crypto)
          MaxExtras      \* bound on runs by hand and on changes of a bar a run has seen

ConstantsFit ==
    /\ Prices \subseteq Nat \ {0} /\ Unfinished \in BOOLEAN /\ {MaxDay, MaxExtras} \subseteq Nat
    /\ RefWindow \in Nat /\ MinPeriods \in 1 .. RefWindow /\ Lookback \in Nat /\ Lookback >= RefWindow

VARIABLES px,        \* the closes; the last bar is that of today
          late,      \* RUN_HOUR_UTC has passed
          led,       \* the row of DrawdownLedger
          revised,   \* history: a bar has changed after a run had seen it
          extras     \* runs by hand and changes of seen bars so far

vars == <<px, late, led, revised, extras>>

None == 0
Levels == <<30, 40, 50>>      \* FILL_LEVELS
ResetLevel == 10              \* RESET
Buckets == {0, 1, 2}          \* PATH_BUCKETS

Today == Len(px)
First == IF Today > Lookback THEN Today - Lookback + 1 ELSE 1
Bars == First .. Today

-----------------------------------------------------------------------------
(* The replay, over the bars it sees. *)

(* px.rolling(REF_WINDOW, min_periods).max() *)
HasRef(i) == i - First + 1 >= MinPeriods
RefHigh(i) == Max({px[k] : k \in {k \in Bars : k <= i /\ k > i - RefWindow}})

\* dd <= -level percent; false of a bar without a rolling high
Below(i, level) == HasRef(i) /\ 100 * px[i] <= (100 - level) * RefHigh(i)
Rearms(i) == HasRef(i) /\ 100 * px[i] >= (100 - ResetLevel) * RefHigh(i)

Earliest(S) == IF S = {} THEN None ELSE Min(S)

\* a faulty variant: the high to recover moves with the window
ExitOfRolling(e) == Earliest({j \in Bars : j > e /\ px[j] >= RefHigh(j - 1)})

ExitOf(e) == Earliest({j \in Bars : j > e /\ px[j] >= RefHigh(e)})

\* a faulty variant: the next episode does not wait for the reset
NextFromAtOnce(x) == x + 1

(* the first bar of the next episode, at the earliest; Today + 1 if none *)
NextFrom(x) == Min({j \in Bars : j > x /\ Rearms(j)} \cup {Today + 1})

(* replay_open_episode: the entry of the episode that is open, or None *)
OpenEntry ==
    LET from[i \in First .. Today + 1] ==
            LET e == Earliest({j \in Bars : j >= i /\ Below(j, Levels[1])})
            IN IF e = None THEN None
               ELSE IF ExitOf(e) = None THEN e
               ELSE from[NextFrom(ExitOf(e))]
    IN from[First]

\* the bars of the fills: one level a bar, each level once
FillBars(e) ==
    LET second == Earliest({j \in Bars : j > e /\ Below(j, Levels[2])})
        third == Earliest({j \in Bars : j > second /\ Below(j, Levels[3])})
    IN IF second = None THEN <<e>> ELSE IF third = None THEN <<e, second>> ELSE <<e, second, third>>

Cost(fills) == FoldSet(LAMBDA k, sum : sum + px[fills[k]], 0, DOMAIN fills)

\* a faulty variant: averages over fills that are still to come
ReturnPathAllFills(e, fills) ==
    [b \in {b \in Buckets : e + b <= Today} |-> [price |-> px[e + b], paid |-> [k \in DOMAIN fills |-> px[fills[k]]]]]

(* _return_path: the price and what was paid for the fills so far *)
ReturnPath(e, fills) ==
    [b \in {b \in Buckets : e + b <= Today} |->
        LET sofar == {k \in DOMAIN fills : fills[k] <= e + b}
        IN [price |-> px[e + b], paid |-> [k \in sofar |-> px[fills[k]]]]]

Found(e) ==
    LET fills == FillBars(e)
        tail == {j \in Bars : j > e}
    IN [signal |-> e, ref |-> RefHigh(e), entry |-> px[e], fills |-> fills, cost |-> Cost(fills),
        lowest |-> IF tail = {} THEN None ELSE Min({px[j] : j \in tail}),
        underwater |-> Cardinality({j \in tail : px[j] * Len(fills) < Cost(fills)}),
        path |-> ReturnPath(e, fills)]

-----------------------------------------------------------------------------
(* The ledger. *)

NoLedger == [lastRun |-> None, eps |-> <<>>]

Listed(e, backfilled) ==
    [found |-> Found(e), open |-> TRUE, since |-> First, last |-> px[Today], seen |-> Today, backfilled |-> backfilled]

OpenAt(eps) == Earliest({k \in DOMAIN eps : eps[k].open})

(* the open episode is looked for again: gone, or another one, it is closed *)
Updated(eps, k) ==
    LET e == eps[k]
        stands == OpenEntry = e.found.signal
    IN [eps EXCEPT ![k] = [found |-> IF stands THEN Found(OpenEntry) ELSE e.found, open |-> stands, since |-> e.since,
                           last |-> px[Today], seen |-> Today, backfilled |-> e.backfilled]]

Added(eps, firstRun) ==
    IF OpenEntry = None THEN eps
    ELSE Append(eps, Listed(OpenEntry, firstRun \/ OpenEntry # Today))

Init ==
    /\ \E p \in Prices : px = <<p>>
    /\ late = FALSE /\ led = NoLedger /\ revised = FALSE /\ extras = 0

(* the ledger after a run; heard: load_prices got the history *)
Ran(heard) ==
    LET eps == led.eps
    IN [lastRun |-> Today,
        eps |-> IF ~heard \/ Today - First + 1 < RefWindow THEN eps
                ELSE IF OpenAt(eps) # None THEN Updated(eps, OpenAt(eps))
                ELSE Added(eps, led = NoLedger)]

IsDue == led = NoLedger \/ (led.lastRun # Today /\ late)

(* run, under run_exclusive: a run that cannot save leaves the ledger alone *)
ScheduledRun ==
    /\ IsDue
    /\ \E heard \in BOOLEAN : led' = Ran(heard)
    /\ UNCHANGED <<px, late, revised, extras>>

(* POST /run, at any time of the day *)
TriggerRun ==
    /\ extras < MaxExtras /\ extras' = extras + 1
    /\ \E heard \in BOOLEAN : led' = Ran(heard)
    /\ UNCHANGED <<px, late, revised>>

(* the market *)
NewDay ==
    /\ Today < MaxDay
    /\ \E p \in Prices : px' = Append(px, p)
    /\ late' = FALSE
    /\ UNCHANGED <<led, revised, extras>>

Move ==
    /\ ~late \/ Unfinished
    /\ \E p \in Prices \ {px[Today]} : px' = [px EXCEPT ![Today] = p]
    /\ IF led.lastRun = Today
       THEN extras < MaxExtras /\ extras' = extras + 1 /\ revised' = TRUE
       ELSE UNCHANGED <<extras, revised>>
    /\ UNCHANGED <<late, led>>

RunHour == ~late /\ late' = TRUE /\ UNCHANGED <<px, led, revised, extras>>

Next == ScheduledRun \/ TriggerRun \/ NewDay \/ Move \/ RunHour

Spec == Init /\ [][Next]_vars

-----------------------------------------------------------------------------
Episodes == {led.eps[k] : k \in DOMAIN led.eps}

TypeOK ==
    /\ px \in Seq(Prices) /\ late \in BOOLEAN /\ revised \in BOOLEAN /\ extras \in 0 .. MaxExtras
    /\ led.lastRun \in 0 .. Today
    \* one open episode, and it is the last
    /\ \A k \in DOMAIN led.eps : led.eps[k].open => k = Len(led.eps)
    /\ \A e \in Episodes :
          /\ e.found.signal \in 1 .. e.seen /\ e.seen <= Today
          /\ e.found.fills[1] = e.found.signal
          /\ \A k \in 2 .. Len(e.found.fills) : e.found.fills[k] > e.found.fills[k - 1]

\* the bars of e were final when they were seen, and all of them are still seen
Undisturbed(e) == ~revised /\ e.since = First

Recovered(e) == \E j \in e.found.signal + 1 .. e.seen : px[j] >= e.found.ref

(* An episode is closed because its high was reached, or because the history it was found *)
(* in has changed: its last bar was not final, or the window of the replay has moved on.  *)
ClosedForCause == \A e \in Episodes : ~e.open => Recovered(e) \/ ~Undisturbed(e)

(* Two episodes of one history are kept apart by a recovery and a reset after it: a price *)
(* that crosses the trigger time and again is one signal (engine.py, rule 2).             *)
RearmedBetween ==
    \A d, e \in Episodes :
        d.found.signal < e.found.signal /\ Undisturbed(d) /\ Undisturbed(e) =>
            \E x \in d.found.signal + 1 .. e.found.signal - 1 : \E r \in x + 1 .. e.found.signal :
               px[x] >= d.found.ref /\ Rearms(r)

(* What the ledger has recorded of an open episode stands while the replay sees the same  *)
(* history: later runs add fills and later points of its path, but change none, so the    *)
(* path holds nothing known only afterwards.                                              *)
RecordedStands ==
    [][~revised' =>
        \A k \in DOMAIN led.eps :
            LET old == led.eps[k].found
                new == led'.eps[k].found
            IN led'.eps[k].open /\ led.eps[k].since = First' =>
                 /\ \A b \in DOMAIN old.path : b \in DOMAIN new.path /\ new.path[b] = old.path[b]
                 /\ SubSeq(new.fills, 1, Len(old.fills)) = old.fills]_vars
=============================================================================
