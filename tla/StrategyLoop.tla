---------------------------- MODULE StrategyLoop ----------------------------
(***************************************************************************)
(* One strategy of the server: the loop that drives it, the get_state its  *)
(* loop and its dashboards call, and the tick tasks get_state fires and    *)
(* forgets. All of it shares _last_bar_time and _signal_cache, on one      *)
(* asyncio thread: a step runs from one await to the next.                 *)
(*                                                                         *)
(* Time. A bar has two phases: its body and its pre-entry window, the last *)
(* 60 seconds. Time 2b is the body of bar b, 2b+1 its window. Sleeps of a  *)
(* second and synchronous code take no phase. A request in flight and a    *)
(* tick task see at most one change of phase: their timeouts are shorter   *)
(* than a window. The orders of an exit may outlast a window (three        *)
(* attempts of two requests of ten seconds each, and cTrader after that),  *)
(* but not the body of a bar, which is 59 minutes long.                    *)
(***************************************************************************)
EXTENDS Naturals, FiniteSets

CONSTANTS
    Viewers,        \* dashboards that poll get_state
    MaxBar,         \* bound: bars 1..MaxBar
    MaxRestarts,    \* bound: process restarts
    Failures,       \* requests may fail, get_state may raise
    Outages,        \* neither the websocket nor REST may have a price
    LateAnswers     \* a request may still be in flight when its bar ends

ASSUME BarAssumption == MaxBar \in Nat \ {0}
ASSUME RestartAssumption == MaxRestarts \in Nat
ASSUME SwitchAssumption == {Failures, Outages, LateAnswers} \subseteq BOOLEAN

CONSTANT loop       \* the strategy loop as a caller of get_state
ASSUME LoopAssumption == loop \notin Viewers

VARIABLES
    now,        \* the clock, see above
    lastBar,    \* _last_bar_time[key]; 0 when the key is missing
    cached,     \* whether _signal_cache holds the key
    call,       \* call[c]: what caller c of get_state is waiting for
    tasks,      \* tick tasks created and not run yet
    held,       \* whether the engine holds a position
    breach,     \* whether the price is beyond the stop of that position
    pc,         \* where the loop is
    wake,       \* when a sleeping loop wakes up
    acted,      \* the phase in which the loop was last at its top
    looked,     \* the phase in which it last finished looking at the price
    restarts,   \* restarts so far
    fired,      \* history: fired[b]: tick tasks created for bar b
    misplaced,  \* history: bars whose tick was created outside their window
    lost,       \* history: bars for which the loop's own request failed or came late
    spent,      \* history: bars noted in lastBar by a request made outside a window
    exposed,    \* history: held since the body of this bar began
    watched,    \* history: an intrabar check was made in this phase
    unwatched   \* history: bodies in a row the held position went unchecked

feedVars   == <<lastBar, cached, call, tasks>>
engineVars == <<held, breach>>
loopVars   == <<pc, wake, acted, looked>>
tickHist   == <<fired, misplaced, lost, spent>>
watchHist  == <<exposed, watched, unwatched>>
vars == <<now, restarts, feedVars, engineVars, loopVars, tickHist, watchHist>>

Bars == 1..MaxBar
Times == 2..(2 * MaxBar + 1)
Callers == Viewers \cup {loop}

Bar(t) == t \div 2
InWindow(t) == t % 2 = 1

\* since: when the request left; inWin: in_pre_entry, computed before the await.
Idle == [at |-> "idle", since |-> 0, inWin |-> FALSE, bar |-> 0]
CallType == [at : {"idle", "asked", "answered"}, since : Times \cup {0},
             inWin : BOOLEAN, bar : Bars \cup {0}]
TaskType == [bar : Bars, since : Times]

TypeOK ==
    /\ now \in Times
    /\ lastBar \in Bars \cup {0}
    /\ cached \in BOOLEAN
    /\ call \in [Callers -> CallType]
    /\ tasks \subseteq TaskType
    /\ held \in BOOLEAN /\ breach \in BOOLEAN
    /\ pc \in {"top", "flat_fn", "held_fn", "price", "executing", "nap", "sleep"}
    /\ wake \in Nat
    /\ {acted, looked} \subseteq Times \cup {0}
    /\ restarts \in 0..MaxRestarts
    /\ fired \in [Bars -> Nat]
    /\ misplaced \subseteq Bars
    /\ lost \subseteq Bars /\ spent \subseteq Bars
    /\ exposed \in BOOLEAN /\ watched \in BOOLEAN
    /\ unwatched \in Nat

\* A faulty variant: the trigger is the close of the bar, not a minute before.
TriggerAtClose(t) == 2 * (Bar(t) + 1)

\* _sleep_until_next_trigger: this bar's window, or the next bar's once inside.
NextTrigger(t) == IF InWindow(t) THEN t + 2 ELSE t + 1

-----------------------------------------------------------------------------
Init ==
    /\ now \in {2, 3}
    /\ lastBar = 0 /\ cached = FALSE
    /\ call = [c \in Callers |-> Idle]
    /\ tasks = {}
    /\ held \in BOOLEAN
    /\ breach = FALSE
    /\ pc = "top" /\ wake = 0 /\ acted = 0 /\ looked = 0
    /\ restarts = 0
    /\ fired = [b \in Bars |-> 0]
    /\ misplaced = {} /\ lost = {} /\ spent = {}
    /\ exposed = FALSE /\ watched = FALSE /\ unwatched = 0

\* pc = "top" is a point the loop passes without an await: nobody else runs.
Yielded == pc # "top"

\* The loop is at the top of its while: right away, after a nap or a sleep.
AtTop == pc = "top" \/ pc = "nap" \/ (pc = "sleep" /\ wake <= now)

Sleep ==
    /\ pc' = "sleep"
    /\ wake' = NextTrigger(now)

GoTo(label) ==
    /\ pc' = label
    /\ wake' = 0

\* The clock waits for whoever must have run by then.
Advance ==
    /\ now + 1 \in Times
    /\ \A c \in Callers :
            \/ call[c].at = "idle"
            \/ call[c].since = now /\ (InWindow(now) => LateAnswers)
    /\ \A t \in tasks : t.since = now
    /\ Yielded
    /\ pc \in {"nap", "price", "executing"} =>
            IF InWindow(now) THEN pc = "executing" \/ acted = now ELSE looked = now
    /\ pc = "sleep" => wake > now
    /\ now' = now + 1
    /\ lost' = IF InWindow(now) /\ pc = "executing" /\ acted < now
               THEN lost \cup {Bar(now)} ELSE lost
    /\ exposed' = IF InWindow(now) THEN held ELSE exposed
    /\ watched' = FALSE
    /\ unwatched' = IF InWindow(now) THEN unwatched
                    ELSE IF exposed /\ ~watched THEN unwatched + 1 ELSE 0
    /\ UNCHANGED <<restarts, feedVars, engineVars, loopVars, fired, misplaced, spent>>

\* The market moves across the stop, either way.
Market ==
    /\ Yielded
    /\ held
    /\ breach' = ~breach
    /\ UNCHANGED <<now, restarts, feedVars, held, loopVars, tickHist, watchHist>>

-----------------------------------------------------------------------------
(* get_state                                                               *)

\* Outside the window a cached state is returned at once, without an await.
Serves == ~InWindow(now) /\ cached

\* A faulty variant: in_pre_entry alone decides; the cache is not looked at.
AskAnyway(c) ==
    call' = [call EXCEPT ![c] = [at |-> "asked", since |-> now, inWin |-> TRUE, bar |-> 0]]

Ask(c) ==
    call' = [call EXCEPT ![c] =
                [at |-> "asked", since |-> now, inWin |-> InWindow(now), bar |-> 0]]

\* A faulty variant: the close time of the bar is taken for its open time.
AnswerByClose(c) ==
    /\ Yielded
    /\ call[c].at = "asked"
    /\ call' = [call EXCEPT ![c].at = "answered", ![c].bar = Bar(now) + 1]
    /\ UNCHANGED <<now, restarts, lastBar, cached, tasks, engineVars, loopVars,
                   tickHist, watchHist>>

\* The exchange answers; its last row is the bar forming at this moment.
Answer(c) ==
    /\ Yielded
    /\ call[c].at = "asked"
    /\ call' = [call EXCEPT ![c].at = "answered", ![c].bar = Bar(now)]
    /\ UNCHANGED <<now, restarts, lastBar, cached, tasks, engineVars, loopVars,
                   tickHist, watchHist>>

\* A faulty variant: the bar is noted when the tick has run, not when it is fired.
ApplyWithoutNoting(c) ==
    LET bar == call[c].bar
        new == bar # lastBar
    IN  /\ call' = [call EXCEPT ![c] = Idle]
        /\ cached' = TRUE
        /\ UNCHANGED lastBar
        /\ IF call[c].inWin /\ new
           THEN /\ tasks' = tasks \cup {[bar |-> bar, since |-> now]}
                /\ fired' = [fired EXCEPT ![bar] = @ + 1]
                /\ UNCHANGED misplaced
           ELSE UNCHANGED <<tasks, fired, misplaced>>
        /\ UNCHANGED <<lost, spent>>

\* What get_state does with an answer, up to its return. The window test is the
\* one made before the await; a bar is new when it is not the bar noted last.
Apply(c) ==
    LET bar == call[c].bar
        new == bar # lastBar
        ticks == call[c].inWin /\ new
    IN  /\ call' = [call EXCEPT ![c] = Idle]
        /\ cached' = TRUE
        /\ lastBar' = bar
        /\ tasks' = IF ticks THEN tasks \cup {[bar |-> bar, since |-> now]} ELSE tasks
        /\ fired' = IF ticks THEN [fired EXCEPT ![bar] = @ + 1] ELSE fired
        /\ misplaced' = IF ticks /\ ~(InWindow(now) /\ Bar(now) = bar)
                        THEN misplaced \cup {bar} ELSE misplaced
        /\ spent' = IF new /\ ~call[c].inWin THEN spent \cup {bar} ELSE spent
        /\ lost' = IF c = loop /\ call[c].inWin /\ bar # Bar(call[c].since)
                   THEN lost \cup {Bar(call[c].since)} ELSE lost

\* No data: get_state returns what the cache has and notes nothing.
Miss(c) ==
    /\ Failures
    /\ call' = [call EXCEPT ![c] = Idle]
    /\ lost' = IF c = loop /\ (call[c].inWin \/ InWindow(now))
               THEN lost \cup {Bar(call[c].since)} ELSE lost
    /\ UNCHANGED <<lastBar, cached, tasks, fired, misplaced, spent>>

-----------------------------------------------------------------------------
(* The dashboards                                                          *)

ViewerAsk(v) ==
    /\ Yielded
    /\ call[v].at = "idle"
    /\ ~Serves
    /\ Ask(v)
    /\ UNCHANGED <<now, restarts, lastBar, cached, tasks, engineVars, loopVars,
                   tickHist, watchHist>>

ViewerDone(v) ==
    /\ Yielded
    /\ \/ call[v].at = "answered" /\ Apply(v)
       \/ call[v].at = "asked" /\ Miss(v)
    /\ UNCHANGED <<now, restarts, engineVars, loopVars, watchHist>>

-----------------------------------------------------------------------------
(* The tick task: engine.tick on the bar. It may exit, enter, or both.     *)

RunTick(t) ==
    /\ Yielded
    /\ t \in tasks
    /\ tasks' = tasks \ {t}
    /\ \E exits, enters \in BOOLEAN :
        /\ exits => held
        /\ held /\ breach => exits
        /\ enters => ~held \/ exits
        /\ held' = ((held /\ ~exits) \/ enters)
        /\ breach' = (breach /\ held /\ ~exits)
        /\ exposed' = (exposed /\ held /\ ~exits)
        /\ unwatched' = IF exits THEN 0 ELSE unwatched
    /\ UNCHANGED <<now, restarts, lastBar, cached, call, loopVars, tickHist, watched>>

-----------------------------------------------------------------------------
(* The loop                                                                *)

\* A position is held: the bar first, once, and then the price.
TopHeld ==
    /\ AtTop
    /\ held
    /\ acted' = now /\ UNCHANGED looked
    /\ IF InWindow(now) /\ lastBar < Bar(now)
       THEN Ask(loop) /\ GoTo("held_fn")
       ELSE GoTo("price") /\ UNCHANGED call
    /\ UNCHANGED <<now, restarts, lastBar, cached, tasks, engineVars, tickHist, watchHist>>

\* A faulty variant: the loop does not look whether a position is held.
TopAlwaysFlat ==
    /\ AtTop
    /\ acted' = now /\ UNCHANGED looked
    /\ IF Serves
       THEN Sleep /\ UNCHANGED call
       ELSE Ask(loop) /\ GoTo("flat_fn")
    /\ UNCHANGED <<now, restarts, lastBar, cached, tasks, engineVars, tickHist, watchHist>>

TopFlat ==
    /\ AtTop
    /\ ~held
    /\ acted' = now /\ UNCHANGED looked
    /\ IF Serves
       THEN Sleep /\ UNCHANGED call
       ELSE Ask(loop) /\ GoTo("flat_fn")
    /\ UNCHANGED <<now, restarts, lastBar, cached, tasks, engineVars, tickHist, watchHist>>

\* The answer is applied and the loop goes on without an await in between: a
\* tick task fired by this very call has not run yet.
LoopDone ==
    /\ Yielded
    /\ \/ call[loop].at = "answered" /\ Apply(loop)
       \/ call[loop].at = "asked" /\ Miss(loop)
    /\ IF ~held THEN Sleep
       ELSE IF pc = "flat_fn" THEN GoTo("top") ELSE GoTo("price")
    /\ UNCHANGED <<now, restarts, engineVars, acted, looked, watchHist>>

\* get_state raised; the loop catches it and sleeps, position or not.
LoopRaise ==
    /\ Yielded
    /\ call[loop].at = "asked"
    /\ Miss(loop)
    /\ Sleep
    /\ UNCHANGED <<now, restarts, engineVars, acted, looked, watchHist>>

\* A faulty variant: between bars only the target is looked at.
CheckTargetOnly ==
    /\ pc = "price"
    /\ watched' = TRUE
    /\ looked' = now
    /\ \E target \in BOOLEAN :
        IF held /\ target
        THEN /\ held' = FALSE /\ breach' = FALSE
             /\ exposed' = FALSE /\ unwatched' = 0
             /\ GoTo("executing")
        ELSE GoTo("nap") /\ UNCHANGED <<held, breach, exposed, unwatched>>
    /\ UNCHANGED <<now, restarts, feedVars, acted, tickHist>>

\* tick() with the price between bars: the stop, or the target, closes.
CheckPrice ==
    /\ pc = "price"
    /\ watched' = TRUE
    /\ looked' = now
    /\ \E target \in BOOLEAN :
        IF held /\ (breach \/ target)
        THEN /\ held' = FALSE /\ breach' = FALSE
             /\ exposed' = FALSE /\ unwatched' = 0
             /\ GoTo("executing")
        ELSE GoTo("nap") /\ UNCHANGED <<held, breach, exposed, unwatched>>
    /\ UNCHANGED <<now, restarts, feedVars, acted, tickHist>>

\* Neither the websocket nor REST has a price: the check is skipped.
NoPrice ==
    /\ Outages
    /\ pc = "price"
    /\ GoTo("nap")
    /\ looked' = now
    /\ UNCHANGED <<now, restarts, feedVars, engineVars, acted, tickHist, watchHist>>

\* _execute_verify_notify, awaited by the loop, returns.
Executed ==
    /\ pc = "executing"
    /\ GoTo("nap")
    /\ UNCHANGED <<now, restarts, feedVars, engineVars, acted, looked, tickHist, watchHist>>

-----------------------------------------------------------------------------
\* The process dies and starts again; only the position survives, in the table.
Restart ==
    /\ Yielded
    /\ restarts < MaxRestarts
    /\ restarts' = restarts + 1
    /\ lastBar' = 0 /\ cached' = FALSE
    /\ call' = [c \in Callers |-> Idle]
    /\ tasks' = {}
    /\ GoTo("top")
    /\ acted' = 0 /\ looked' = 0
    /\ lost' = IF call[loop].inWin THEN lost \cup {Bar(call[loop].since)} ELSE lost
    /\ UNCHANGED <<now, engineVars, fired, misplaced, spent, watchHist>>

Next ==
    \/ Advance
    \/ Market
    \/ \E c \in Callers : Answer(c)
    \/ \E v \in Viewers : ViewerAsk(v) \/ ViewerDone(v)
    \/ \E t \in tasks : RunTick(t)
    \/ TopHeld
    \/ TopFlat
    \/ LoopDone
    \/ LoopRaise
    \/ CheckPrice
    \/ NoPrice
    \/ Executed
    \/ Restart

Spec == Init /\ [][Next]_vars

\* asyncio runs every task that is ready, a request ends by its timeout at the
\* latest, a sleep ends, and time goes on. Nothing is assumed of the market, the
\* dashboards or the operator.
Fairness ==
    /\ WF_vars(Advance)
    /\ \A c \in Callers : WF_vars(Answer(c))
    /\ \A v \in Viewers : WF_vars(ViewerDone(v))
    /\ WF_vars(\E t \in tasks : RunTick(t))
    /\ WF_vars(TopHeld) /\ WF_vars(TopFlat)
    /\ WF_vars(LoopDone)
    /\ WF_vars(CheckPrice)
    /\ WF_vars(Executed)

FairSpec == Spec /\ Fairness

-----------------------------------------------------------------------------
\* However many callers poll get_state, one process fires at most one tick for a
\* bar (_last_bar_time): as long as no request outlives its bar.
OneTickPerBar == \A b \in Bars : fired[b] <= 1 + restarts

\* Bars that are over and never got a tick, but for one whose request is in flight.
Unticked ==
    {b \in Bars : /\ b < Bar(now)
                  /\ fired[b] = 0
                  /\ ~(call[loop].inWin /\ Bar(call[loop].since) = b)}

\* A bar is only missed if the loop's own request for it failed or was answered
\* after the bar, if the loop was busy with an exit all through its window, or if
\* a request made outside a window had noted it already.
LostBarHasCause == Unticked \subseteq lost \cup spent

\* A bar is ticked in its own pre-entry window, at its forming close.
TickInOwnWindow == misplaced = {}

\* A position is not left for two bodies in a row without a look at its stop.
UnwatchedAtMostOnce == unwatched <= 1

\* A stop the price stays beyond is acted on, even if the loop went to sleep over
\* the position: it wakes for the next window (if the clock's bound lets it).
StopActedOn ==
    (held /\ breach /\ (pc = "sleep" => wake \in Times)) ~> (~held \/ ~breach)
=============================================================================
